----------------------------- MODULE LatencyArb -----------------------------
(***************************************************************************)
(* src/src/md/latency_arb.rs: run_arbitrated_trades and run_arbitrated_l2. *)
(* Several tasks each read one connection to the same stream and pass the  *)
(* frames to the group, which processes them all with one processor,       *)
(* drops what it has seen and sends the rest downstream. Every minute the  *)
(* connection that was first least often is replaced. Only cancellation,   *)
(* a failure of the processor or a missing receiver end the group.         *)
(*                                                                         *)
(* The server is that of UnifiedHandler, once per connection. Connecting   *)
(* and subscribing are one step, so Deribit's requests are left out; L2    *)
(* frames hold one event, as those of Binance and of OKX's books5 do. A    *)
(* REST snapshot ends where a diff ends. The receiver is not dropped       *)
(* between two updates of one message.                                     *)
(***************************************************************************)
EXTENDS Connectors, SequencesExt

CONSTANTS
  Subscriptions,  \* the subscriptions to choose from
  MaxConn,        \* max_connections of the subscription
  MaxEvent,       \* bound on the events at the exchange
  MaxUnread,      \* bound on the frames in a socket, and in the channel
  MaxFaults,      \* bound on skips, bad and control frames, expiries, rotations and
                  \* the loss of the receiver, together
  Capacity        \* of the deduper

Dedup == INSTANCE Deduper
Conn == 0 .. MaxConn - 1

VARIABLES
  sub,
  group,               \* "ramp", "run", or how the group ended
  task,                \* the task of each connection, and its socket
  raw,                 \* the channel from the tasks to the group
  proc, dedup,
  wins_window,         \* how often each connection was first since the rotation
  fwd,                 \* events sent downstream, one per insertion
  aged,                \* how many of them are older than the TTL
  market, spoilt, faults,  \* the exchange, as in UnifiedHandler
  missed,              \* history: events that some connection was not given
  cancelled, dropped

serverVars == <<market, spoilt, faults, missed>>
groupVars == <<sub, group, proc, dedup, wins_window, fwd>>
vars == <<groupVars, serverVars, task, raw, aged, cancelled, dropped>>

v == sub.venue

\* A task: where it is, its connector, its socket, and the last event sent to it.
NewTask == [pc |-> "connect", conn |-> create_connector(v), sock |-> << >>, open |-> FALSE,
            sent |-> 0]
NoTask == [NewTask EXCEPT !.pc = "none"]
Done(t) == [t EXCEPT !.pc = "done", !.sock = << >>, !.open = FALSE]

Init ==
  /\ sub \in Subscriptions /\ group = "ramp"
  /\ task = [c \in Conn |-> [NoTask EXCEPT !.conn = create_connector(sub.venue)]]
  /\ raw = << >> /\ proc = create_processor /\ dedup = Dedup!New
  /\ wins_window = [c \in Conn |-> 0] /\ fwd = << >> /\ aged = 0
  /\ market = 0 /\ spoilt = {} /\ faults = 0 /\ missed = {}
  /\ cancelled = FALSE /\ dropped = FALSE

(***************************************************************************)
(* The exchange, for as long as the group runs.                            *)
(***************************************************************************)
Receiving == group \in {"ramp", "run"}
Happen ==
  /\ Receiving /\ market < MaxEvent /\ market' = market + 1
  /\ UNCHANGED <<groupVars, spoilt, faults, missed, task, raw, aged, cancelled, dropped>>

CanSend(c) == Receiving /\ task[c].open /\ Len(task[c].sock) < MaxUnread

SendFrame(c, es, bad) ==
  LET left == (task[c].sent + 1 .. es[Len(es)]) \ Covered(es)
      cost == Cardinality(left) + (IF bad = "none" THEN 0 ELSE 1)
      lost == Spoilt(sub, es, bad)
  IN /\ CanSend(c) /\ es[Len(es)] <= market /\ faults + cost <= MaxFaults
     /\ sub.stream = "L2" => Len(es) = 1
     /\ task' = [task EXCEPT ![c].sock = Append(@, Data(es, bad)), ![c].sent = es[Len(es)]]
     /\ missed' = missed \cup left \cup lost /\ spoilt' = spoilt \cup lost
     /\ faults' = faults + cost
     /\ UNCHANGED <<groupVars, market, raw, aged, cancelled, dropped>>

SendControl(c, k) ==
  /\ CanSend(c) /\ faults < MaxFaults /\ faults' = faults + 1
  /\ task' = [task EXCEPT ![c].sock = @ \o Frames(k), ![c].open = k \notin Ending]
  /\ UNCHANGED <<groupVars, market, spoilt, missed, raw, aged, cancelled, dropped>>

\* Time passes until some more of the events that went out are older than the TTL.
Wait ==
  /\ Receiving /\ faults < MaxFaults /\ faults' = faults + 1
  /\ \E n \in aged + 1 .. Len(fwd) : aged' = n
  /\ UNCHANGED <<groupVars, market, spoilt, missed, task, raw, cancelled, dropped>>

Exchange ==
  \/ Happen \/ Wait
  \/ \E c \in Conn, es \in UNION {Batches(v, task[d].sent) : d \in Conn}, bad \in Defects(sub) :
       es \in Batches(v, task[c].sent) /\ SendFrame(c, es, bad)
  \/ \E c \in Conn, k \in ControlFrames(v) : SendControl(c, k)

(***************************************************************************)
(* The tasks.                                                              *)
(***************************************************************************)
taskOnly == <<groupVars, market, spoilt, faults, aged, cancelled, dropped>>

AfterSubscribe == IF v = "binance" /\ sub.stream = "L2" THEN "snapshot" ELSE "read"
Subscribed(c) ==
  CASE v = "binance" /\ sub.stream = "L2" -> Binance!SubscribeL2(Binance!Connect(c))
    [] v = "binance" /\ sub.stream = "Trade" -> Binance!SubscribeTrades(Binance!Connect(c))
    [] v = "okx" -> Okx!Subscribe(Okx!Connect(c))
    [] OTHER -> Deribit!Subscribed(Deribit!Connect(c))

TaskSubscribe(c) ==
  /\ task[c].pc = "connect"
  /\ task' = [task EXCEPT ![c].pc = AfterSubscribe, ![c].conn = Subscribed(@),
                          ![c].open = TRUE, ![c].sent = market]
  /\ missed' = missed \cup 1 .. market
  /\ UNCHANGED <<taskOnly, raw>>
TaskConnectFails(c) ==
  /\ task[c].pc = "connect" /\ task' = [task EXCEPT ![c] = Done(@)]
  /\ UNCHANGED <<taskOnly, missed, raw>>

\* Binance: a snapshot that fails is logged, and the task reads on with a
\* connector that buffers every diff.
TaskSnapshot(c, id) ==
  LET r == take_l2_replay_messages(v, prepare_l2_sync(v, task[c].conn, id))
  IN /\ task[c].pc = "snapshot"
     /\ task' = [task EXCEPT ![c].pc = "read", ![c].conn = r.conn]
     /\ missed' = missed \cup {e \in 1 .. market : FinalId(e) <= id}
     /\ raw' = raw \o [i \in 1 .. Len(r.msgs) |-> [from |-> c, frame |-> Data(<<r.msgs[i]>>, "none")]]
     /\ UNCHANGED taskOnly
TaskSnapshotFails(c) ==
  /\ task[c].pc = "snapshot" /\ task' = [task EXCEPT ![c].pc = "read"]
  /\ UNCHANGED <<taskOnly, missed, raw>>

\* What is sent when the group is gone is lost, and the task ends. Mutant: it
\* reads while the snapshot is fetched.
ReadsAtOnce(t) == t.pc \in {"snapshot", "read"} /\ t.sock # << >>
ReadsSocket(t) == t.pc = "read" /\ t.sock # << >>
TaskRead(c) ==
  /\ ReadsSocket(task[c]) /\ Len(raw) < MaxUnread
  /\ LET f == Head(task[c].sock)
         r == next_message(v, task[c].conn, f)
         on == [task[c] EXCEPT !.conn = r.conn, !.sock = Tail(@)]
         handed == r.ret = "message" /\ Receiving
     IN /\ task' = [task EXCEPT ![c] = IF handed \/ r.ret = "again" THEN on ELSE Done(on)]
        /\ raw' = IF handed THEN Append(raw, [from |-> c, frame |-> f]) ELSE raw
  /\ UNCHANGED <<taskOnly, missed>>

TaskCancelled(c) ==
  /\ cancelled /\ task[c].pc = "read"
  /\ task' = [task EXCEPT ![c] = Done(@)]
  /\ UNCHANGED <<taskOnly, missed, raw>>

Tasks ==
  \E c \in Conn :
    \/ TaskSubscribe(c) \/ TaskConnectFails(c) \/ TaskSnapshotFails(c) \/ TaskRead(c) \/ TaskCancelled(c)
    \/ \E e \in 0 .. market : TaskSnapshot(c, FinalId(e))

(***************************************************************************)
(* The group.                                                              *)
(***************************************************************************)
groupOnly == <<sub, market, spoilt, missed, aged, cancelled, dropped>>

\* The tasks are started a second apart, and run from then on.
Spawn ==
  /\ group = "ramp"
  /\ LET c == Min({d \in Conn : task[d].pc = "none"})
     IN /\ task' = [task EXCEPT ![c] = NewTask]
        /\ group' = IF c + 1 = MaxConn THEN "run" ELSE group
  /\ UNCHANGED <<groupOnly, faults, raw, proc, dedup, wins_window, fwd>>

\* The connection with the lowest wins_window, the first of them, is aborted
\* and started anew; what it has put in the channel stays there. The clock goes
\* on: a rotation while no connection has a stream is not among MaxFaults.
Loser == CHOOSE c \in Conn :
           /\ \A d \in Conn : wins_window[c] <= wins_window[d]
           /\ \A d \in Conn : d < c => wins_window[c] < wins_window[d]
\* Mutant: the new task is given the token of the old one, which is cancelled.
RestartedCancelled(c) == [task EXCEPT ![c] = Done(NewTask)]
Restarted(c) == [task EXCEPT ![c] = NewTask]
Rotate ==
  /\ group = "run" /\ task' = Restarted(Loser)
  /\ IF \E c \in Conn : task[c].open THEN faults < MaxFaults /\ faults' = faults + 1
     ELSE UNCHANGED faults
  /\ wins_window' = [c \in Conn |-> 0]
  /\ UNCHANGED <<groupOnly, group, raw, proc, dedup, fwd>>

\* One trade, or the first update of one L2 message, against the deduper.
\* Mutant: a duplicate counts as a win.
Judge(s, e) == Dedup!Insert(s.dedup, e, Len(s.fwd) + 1, aged)
ArbitrateAllWin(s, e) ==
  LET r == Judge(s, e)
  IN [dedup |-> r.dedup, fwd |-> IF r.fresh THEN Append(s.fwd, e) ELSE s.fwd, wins |-> s.wins + 1]
Arbitrate(s, e) ==
  LET r == Judge(s, e)
  IN [dedup |-> r.dedup, fwd |-> IF r.fresh THEN Append(s.fwd, e) ELSE s.fwd,
      wins |-> IF r.fresh THEN s.wins + 1 ELSE s.wins]

\* The events of a message in turn. Mutants: the newest trade first; the first
\* trade decides for all.
Undecided == [dedup |-> dedup, fwd |-> fwd, wins |-> 0]
ArbitratedBackwards(es) == FoldLeft(Arbitrate, Undecided, Reverse(es))
ArbitratedByFirst(es) ==
  IF es # << >> /\ ~ Judge(Undecided, es[1]).fresh THEN Undecided
  ELSE FoldLeft(Arbitrate, Undecided, es)
Arbitrated(es) ==
  LET after[n \in 0 .. Len(es)] == IF n = 0 THEN Undecided ELSE Arbitrate(after[n - 1], es[n])
  IN after[Len(es)]

\* The processor's failure ends the group, here with the frame of another
\* connection that OKX's chain does not expect. Then the tasks are not aborted.
Receive ==
  /\ group = "run" /\ raw # << >> /\ raw' = Tail(raw)
  /\ LET m == Head(raw)
         u == process_unified_message(sub, proc, m.frame)
         s == Arbitrated(u.ev)
     IN /\ proc' = u.proc
        /\ IF ~ u.ok \/ (dropped /\ s.fwd # fwd)
           THEN group' = "failed" /\ UNCHANGED <<dedup, fwd, wins_window>>
           ELSE /\ dedup' = s.dedup /\ fwd' = s.fwd /\ UNCHANGED group
                /\ wins_window' = [wins_window EXCEPT ![m.from] = @ + s.wins]
  /\ UNCHANGED <<groupOnly, faults, task>>

\* Only the token stops the loop: the channel never closes, because the group
\* holds a sender of its own for the rotation.
Stop ==
  /\ group = "run" /\ cancelled /\ group' = "cancelled"
  /\ task' = [c \in Conn |-> Done(task[c])]
  /\ UNCHANGED <<groupOnly, faults, raw, proc, dedup, wins_window, fwd>>

Cancel ==
  /\ ~ cancelled /\ cancelled' = TRUE
  /\ UNCHANGED <<groupVars, serverVars, task, raw, aged, dropped>>
DropReceiver ==
  /\ ~ dropped /\ dropped' = TRUE /\ faults < MaxFaults /\ faults' = faults + 1
  /\ UNCHANGED <<groupVars, market, spoilt, missed, task, raw, aged, cancelled>>

Next == Exchange \/ Tasks \/ Spawn \/ Rotate \/ Receive \/ Stop \/ Cancel \/ DropReceiver
Spec == Init /\ [][Next]_vars

(***************************************************************************)
(* Properties.                                                             *)
(***************************************************************************)
Before(i) == {fwd[j] : j \in 1 .. i - 1}

TypeOK ==
  /\ sub \in Subscriptions /\ group \in {"ramp", "run", "failed", "cancelled", "aborted"}
  /\ \A c \in Conn :
       task[c].pc \in {"none", "connect", "snapshot", "read", "done"} /\ wins_window[c] \in Nat
  /\ FoldFunction(+, 0, wins_window) <= Len(fwd)
  /\ \A i \in 1 .. Len(fwd) : fwd[i] \in 1 .. MaxEvent
  /\ aged \in 0 .. Len(fwd)

\* The deduper's set and its queue hold the same keys, once each, oldest
\* first, and no more than the capacity, over every insertion, expiry and
\* eviction.
DeduperSound ==
  /\ dedup.set = Dedup!Keys(dedup.order)
  /\ Cardinality(dedup.set) = Len(dedup.order) /\ Len(dedup.order) <= Capacity
  /\ \A i \in 1 .. Len(dedup.order) - 1 : dedup.order[i].at < dedup.order[i + 1].at

\* However many connections deliver an event, it goes downstream once; a
\* second time only after as many other events as the deduper holds, or after
\* the TTL.
OnceWhileRemembered ==
  \A j \in 1 .. Len(fwd) : \A i \in 1 .. j - 1 :
    fwd[i] = fwd[j] => j - i > Capacity \/ i <= aged

\* The group never swallows the first copy of an event: every event of a
\* message it has taken from the channel without failing has been sent.
Taken == raw # << >> /\ raw' = Tail(raw) /\ group' = "run" /\ Head(raw).frame.kind = "data"
FirstCopyPasses ==
  [][Taken => Covered(Head(raw).frame.ev) \ spoilt \subseteq Covered(fwd')]_vars

\* Merging does not reorder: an event goes out after a later one only if it had
\* gone out before, or some connection was not given it, having started after
\* it, or by the server, or by a newer snapshot.
LateOnlyIfMissed ==
  \A j \in 1 .. Len(fwd) : \A i \in 1 .. j - 1 :
    fwd[i] > fwd[j] => fwd[j] \in Before(j) \cup missed

\* No task reads its socket before its snapshot: when the snapshot comes the
\* connector has buffered no diff, and take_l2_replay_messages, which would lose
\* the buffered ones, has nothing to lose; nor does it buffer one afterwards.
NothingToReplay ==
  v = "binance" => \A c \in Conn :
    task[c].pc = "snapshot" \/ task[c].conn.sync = "Synchronizing" => task[c].conn.buffer = << >>
=============================================================================
