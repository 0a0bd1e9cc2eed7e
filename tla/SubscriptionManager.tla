------------------------ MODULE SubscriptionManager ------------------------
(***************************************************************************)
(* src/src/app/subscription_manager.rs: one subscription runs under a      *)
(* UnifiedHandler, or, with more than one connection, under a LatencyArb   *)
(* group; an OBS subscription runs as L2 into a channel of its own, from   *)
(* which the adapter keeps an order book and forwards its top. The manager *)
(* keeps one handle per subscription, waits for the first to complete and  *)
(* cancels and aborts them at shutdown.                                    *)
(*                                                                         *)
(* Subscriptions share nothing but the channel to the sink, so one is      *)
(* enough. The variables of the two runners are those of their modules;    *)
(* what both have is shared, since only one of them runs.                  *)
(***************************************************************************)
EXTENDS Naturals, Sequences

CONSTANTS
  Plans,           \* [sub, obs, arb]: subscriptions to choose from
  MAX_BUFFERED_UPDATES, MaxConn, Capacity,
  HandlerEvents, MaxSock, HandlerFaults,  \* bounds of UnifiedHandler
  ArbEvents, MaxUnread, ArbFaults,  \* bounds of LatencyArb
  Depth,           \* levels per side in a forwarded snapshot
  Quote            \* side, price and quantity of each event

VARIABLES
  sub, proc, cancelled, dropped, market, spoilt, faults,
  pc, conn, todo, out, sock, wire, controls, start, sent, answered, skipped, early,
  unlinked, snap,
  group, task, raw, dedup, wins_window, fwd, aged, missed,
  plan, mgr,       \* the plan; "start", "running", "completed", "shutdown" or "failed"
  adapter,         \* the OBS adapter's task: "run", "ended" or "aborted"
  taken, book,     \* how many updates it has applied, and its book
  obs,             \* the last snapshot it forwarded
  sink             \* whether somebody receives what the subscription produces

handlerVars == <<pc, conn, todo, out, sock, wire, controls, start, sent, answered, skipped,
                 early, unlinked, snap>>
arbVars == <<group, task, raw, dedup, wins_window, fwd, aged, missed>>
sharedVars == <<sub, proc, market, spoilt, faults>>
managerVars == <<plan, mgr, adapter, taken, book, obs, sink>>
vars == <<handlerVars, arbVars, sharedVars, cancelled, dropped, managerVars>>

Handler == INSTANCE UnifiedHandler WITH
  Subscriptions <- {p.sub : p \in Plans}, MaxEvent <- HandlerEvents, MaxFaults <- HandlerFaults
Arb == INSTANCE LatencyArb WITH
  Subscriptions <- {p.sub : p \in Plans}, MaxEvent <- ArbEvents, MaxFaults <- ArbFaults
Book == INSTANCE OrderBook

ASSUME PlansAssumption ==
  \A p \in Plans :
    /\ p.sub \in Handler!Subscription /\ p.obs \in BOOLEAN /\ p.arb \in BOOLEAN
    /\ p.obs => p.sub.stream = "L2"
ASSUME SizesAssumption ==
  Depth \in Nat \ {0} /\ Capacity \in Nat \ {0} /\ MAX_BUFFERED_UPDATES \in Nat \ {0}
ASSUME QuotesAssumption ==
  \A e \in (1 .. HandlerEvents) \cup (1 .. ArbEvents) :
    Quote[e] \in [side : {"Buy", "Sell"}, price : Nat, qty : Nat]
ASSUME BoundsAssumption ==
  /\ HandlerEvents \in Nat /\ MaxSock \in Nat /\ HandlerFaults \in Nat
  /\ MaxConn \in Nat \ {0} /\ ArbEvents \in Nat /\ MaxUnread \in Nat /\ ArbFaults \in Nat

Init ==
  /\ plan \in Plans /\ sub = plan.sub /\ Handler!Init /\ Arb!Init
  /\ mgr = "start" /\ adapter = "run" /\ taken = 0 /\ book = Book!New
  /\ obs = << >> /\ sink = TRUE

Started == mgr \notin {"start", "failed"}

\* spawn_all_subscriptions. A handler for OKX needs the registry of
\* instruments, one for Deribit its configuration; without it the manager gives up.
Spawn ==
  /\ mgr = "start"
  /\ mgr' = "running" \/ (sub.venue # "binance" /\ ~ plan.arb /\ mgr' = "failed")
  /\ UNCHANGED <<handlerVars, arbVars, sharedVars, cancelled, dropped, plan, adapter, taken,
                 book, obs, sink>>

ByHandler == Started /\ ~ plan.arb /\ UNCHANGED <<arbVars, managerVars>>
HandlerLoop == Handler!Loop /\ ByHandler
RunHandler == HandlerLoop \/ ((Handler!Exchange \/ Handler!Fail \/ Handler!Task) /\ ByHandler)

ByArb == Started /\ plan.arb /\ UNCHANGED <<handlerVars, managerVars>>
ArbStop == Arb!Stop /\ ByArb
ArbRotate == Arb!Rotate /\ ByArb
ArbTaskCancelled(c) == Arb!TaskCancelled(c) /\ ByArb
ArbTaskSubscribe(c) == Arb!TaskSubscribe(c) /\ ByArb
RunArb ==
  \/ ArbStop
  \/ ArbRotate
  \/ (Arb!Exchange \/ Arb!Tasks \/ Arb!Spawn \/ Arb!Receive) /\ ByArb

\* The receiver of the subscription goes: the sink itself, or, for an OBS
\* subscription, the sink its adapter forwards to.
ReceiverGone ==
  /\ Started /\ sink /\ sink' = FALSE
  /\ CASE plan.obs -> /\ faults < (IF plan.arb THEN ArbFaults ELSE HandlerFaults)
                      /\ faults' = faults + 1
                      /\ UNCHANGED <<sub, proc, market, spoilt, cancelled, dropped>>
       [] ~ plan.obs /\ plan.arb -> Arb!DropReceiver
       [] OTHER -> Handler!DropReceiver
  /\ UNCHANGED <<handlerVars, arbVars, plan, mgr, adapter, taken, book, obs>>

(***************************************************************************)
(* The OBS adapter.                                                        *)
(***************************************************************************)
Produced == IF plan.arb THEN fwd ELSE out
Producing ==
  IF plan.arb THEN group \in {"ramp", "run"}
  ELSE pc \notin {"ended", "failed", "cancelled", "aborted"}

Update(e) ==
  [id |-> Handler!FinalId(e), market |-> sub.venue,
   side |-> Quote[e].side, price |-> Quote[e].price, qty |-> Quote[e].qty]
Top(b) == [last |-> b.last, bids |-> Book!TopBids(b, Depth), asks |-> Book!TopAsks(b, Depth)]

\* The result of apply_update is ignored, and the snapshot has the id of the
\* update, applied or not. The book starts empty: nothing initializes it.
Adapt ==
  /\ plan.obs /\ adapter = "run" /\ taken < Len(Produced)
  /\ LET u == Update(Produced[taken + 1])
         b == Book!Apply(book, u)
     IN /\ book' = b
        /\ IF sink THEN obs' = [Top(b) EXCEPT !.last = u.id] /\ UNCHANGED <<adapter, dropped>>
           ELSE adapter' = "ended" /\ dropped' = TRUE /\ UNCHANGED obs
  /\ taken' = taken + 1
  /\ UNCHANGED <<handlerVars, arbVars, sharedVars, cancelled, plan, mgr, sink>>

AdapterEnds ==
  /\ plan.obs /\ adapter = "run" /\ taken = Len(Produced) /\ ~ Producing
  /\ adapter' = "ended" /\ dropped' = TRUE
  /\ UNCHANGED <<handlerVars, arbVars, sharedVars, cancelled, plan, mgr, taken, book, obs, sink>>

(***************************************************************************)
(* Completion and shutdown.                                                *)
(***************************************************************************)
\* The task behind the handle of the subscription. With OBS and arbitration it
\* is one that does nothing.
HandleDone ==
  IF plan.obs THEN plan.arb \/ adapter # "run" ELSE ~ Producing

WaitForAny ==
  /\ mgr = "running" /\ HandleDone /\ mgr' = "completed"
  /\ UNCHANGED <<handlerVars, arbVars, sharedVars, cancelled, dropped, plan, adapter, taken,
                 book, obs, sink>>

\* Every token is cancelled, every handle aborted. The tasks an aborted task
\* has spawned live on until they see the token. Mutant: no token is cancelled.
Abort ==
  IF HandleDone THEN UNCHANGED <<pc, group, adapter, dropped>>
  ELSE IF plan.obs THEN adapter' = "aborted" /\ dropped' = TRUE /\ UNCHANGED <<pc, group>>
  ELSE IF plan.arb THEN group' = "aborted" /\ UNCHANGED <<pc, adapter, dropped>>
  ELSE pc' = "aborted" /\ UNCHANGED <<group, adapter, dropped>>
Aborted == mgr \in {"running", "completed"} /\ mgr' = "shutdown" /\ Abort
notAborted ==
  <<conn, todo, out, sock, wire, controls, start, sent, answered, skipped, early, unlinked, snap,
    task, raw,
    dedup, wins_window, fwd, aged, missed, sharedVars, plan, taken, book, obs, sink>>
ShutdownByAbort == Aborted /\ UNCHANGED <<notAborted, cancelled>>
Shutdown == Aborted /\ cancelled' = TRUE /\ UNCHANGED notAborted

Next ==
  \/ Spawn \/ RunHandler \/ RunArb \/ ReceiverGone
  \/ Adapt \/ AdapterEnds \/ WaitForAny \/ Shutdown

\* What a task does while it reads, and the clock of a group, need no answer from
\* the network.
Spec == Init /\ [][Next]_vars
FairSpec ==
  /\ Spec /\ WF_vars(HandlerLoop) /\ WF_vars(ArbStop) /\ WF_vars(ArbRotate)
  /\ \A c \in 0 .. MaxConn - 1 : WF_vars(ArbTaskCancelled(c))

(***************************************************************************)
(* Properties. Those of the runners hold in whatever runs them.            *)
(***************************************************************************)
\* The variables of the runner that does not run stay as they were.
TypeOK ==
  /\ IF plan.arb THEN Arb!TypeOK ELSE Handler!TypeOK
  /\ mgr \in {"start", "running", "completed", "shutdown", "failed"}
  /\ adapter \in {"run", "ended", "aborted"} /\ taken \in 0 .. Len(Produced)
  /\ plan.obs \/ (adapter = "run" /\ taken = 0)

Gapless == Handler!Gapless
Accounted == Handler!Accounted
SnapshotBridged == Handler!SnapshotBridged
EndExplained == Handler!EndExplained
DeduperSound == Arb!DeduperSound
OnceWhileRemembered == Arb!OnceWhileRemembered
LateOnlyIfMissed == Arb!LateOnlyIfMissed
NothingToReplay == Arb!NothingToReplay
FirstCopyPasses == Arb!FirstCopyPasses

\* The book the adapter keeps is, level by level, the last update of that level
\* among those that were not older than one before them, and the level is there
\* exactly if that update did not remove it. So an update that arbitration let
\* through late never undoes a newer one.
Accepted == {i \in 1 .. taken : \A j \in 1 .. i : Produced[j] <= Produced[i]}
Touches(side, price) ==
  {i \in Accepted : Quote[Produced[i]].side = side /\ Quote[Produced[i]].price = price}
Exact(levels, side) ==
  \A e \in DOMAIN Quote :
    LET price == Quote[e].price
        touches == Touches(side, price)
        last == CHOOSE i \in touches : \A j \in touches : j <= i
        qty == Quote[Produced[last]].qty
    IN /\ price \in DOMAIN levels <=> touches # {} /\ qty > 0
       /\ price \in DOMAIN levels => levels[price] = qty
BookExact == Exact(book.bids, "Buy") /\ Exact(book.asks, "Sell")

\* After shutdown nothing goes on reading: neither the handler, nor the tasks
\* of a group that was itself aborted, nor what feeds an aborted adapter.
Reader == pc = "loop" \/ \E c \in 0 .. MaxConn - 1 : task[c].pc = "read"
ShutdownStops == mgr = "shutdown" /\ Reader ~> ~ Reader

\* A group whose connections have all ended is not left without one: its receive
\* never returns None, since it holds a sender of its own, but the rotation makes
\* one anew. As long as attempts to connect go on succeeding now and then, the
\* group again and again has a stream, or has stopped.
Streaming == \E c \in 0 .. MaxConn - 1 : task[c].open
GroupReconnects ==
  (\A c \in 0 .. MaxConn - 1 : SF_vars(ArbTaskSubscribe(c))) =>
    [](group = "run" => <>(Streaming \/ group # "run"))
=============================================================================
