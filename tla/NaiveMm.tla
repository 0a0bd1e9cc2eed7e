------------------------------ MODULE NaiveMm ------------------------------
(***************************************************************************)
(* The market maker of src/src/strats/naive_mm/strategy.rs on one market,  *)
(* the runner that feeds it (strats/api.rs), the order gateway of          *)
(* exchanges/binance_account.rs, and the exchange.                         *)
(*                                                                         *)
(* The strategy keeps one order per side in a slot. Requests travel in     *)
(* tasks of their own, so they are neither ordered nor sure to arrive;     *)
(* answers, executions and positions come back through three paths that    *)
(* keep no common order. The mailbox is drained before update() runs, but  *)
(* what the forwarders have not put in it yet comes later, so any message  *)
(* that is under way may be handled next, and update() may come between    *)
(* any two of them. Positions are those AccountState promises; reduce_only *)
(* is left out, it makes the exchange reject or cut an order.              *)
(*                                                                         *)
(* An order is its side and its number on that side: client order ids are  *)
(* unique (see MonoSeq). Number 0 is left over from an earlier process.    *)
(***************************************************************************)
EXTENDS Integers, Sequences

CONSTANTS
  Price,         \* mid prices, any two further apart than displace_bps
  Lot,           \* lot_size, in the smallest quantities that are filled
  MaxPosition,   \* max_position, in the same unit
  MaxOrders,     \* bound on the orders posted on each side
  MaxBacklog,    \* bound on the positions under way
  StartPosition, \* positions the account may have when the strategy starts
  Orphans,       \* sides on which an earlier process may have left an order
  None           \* no mid seen yet

ASSUME LotAssumption == Lot \in Nat \ {0}
ASSUME LimitAssumption == MaxPosition \in Nat \ {0}
ASSUME StartAssumption == StartPosition \subseteq (-MaxPosition) .. MaxPosition
ASSUME NoneAssumption == None \notin Price

Side == {"bid", "ask"}
ASSUME BoundsAssumption == MaxOrders \in [Side -> Nat] /\ MaxBacklog \in Nat
ASSUME OrphansAssumption == Orphans \subseteq Side

Own(s) == {s} \X (1 .. MaxOrders[s])
Id == (Side \X {0}) \cup Own("bid") \cup Own("ask")

VARIABLES
  order,             \* bid_order and ask_order
  pending_cancel,    \* pending_cancel_bid and _ask, with the age of the request
  position,          \* the position as the strategy last heard it
  last_mid,
  ready,
  did_init,
  update_scheduled,
  posted,            \* orders posted on each side
  posts, cancels,    \* requests under way
  cancel_all,        \* the CancelAll request: unsent, sent or over
  left,              \* at the exchange: what each order has left
  account,           \* the account's position
  answers,           \* answers to requests, under way to the strategy
  execs, positions,  \* executions and positions, under way to the strategy
  path,              \* the positions a replay of the account goes through
  disowned,          \* history: orders that no slot holds, though nobody said they ended
  silent,            \* history: orders that ended, or never were, without news
  blind,             \* history: orders posted while a position was under way
  cancelled          \* history: orders whose cancel was requested

slotVars == <<order, pending_cancel>>
flagVars == <<last_mid, ready, did_init>>
requestVars == <<posts, cancels, cancel_all, posted>>
exchangeVars == <<left, account, path>>
historyVars == <<disowned, silent, blind, cancelled>>
vars == <<slotVars, position, flagVars, update_scheduled, requestVars,
          exchangeVars, answers, execs, positions, historyVars>>

NoOrder == [status |-> "None", n |-> 0, px |-> None]
NewOrder(n, px) == [status |-> "PendingNew", n |-> n, px |-> px]
InSlot(id) == order[id[1]].status # "None" /\ order[id[1]].n = id[2]

Answer == [id : Id, of : {"post", "cancel"}, status : {"Ok", "FailedPostOnly"}]
Report == [id : Id, alive : BOOLEAN]

\* The position counted in the direction that orders of side s move it.
Long(s, p) == IF s = "bid" THEN p ELSE -p
Filled(s) == IF s = "bid" THEN 1 ELSE -1
-----------------------------------------------------------------------------
TypeOK ==
  /\ \A s \in Side : order[s] \in {NoOrder} \cup
       [status : {"PendingNew", "Live", "PendingCancel"}, n : 1 .. posted[s], px : Price]
  /\ DOMAIN order = Side
  /\ pending_cancel \in [Side -> {"no", "yes", "expired"}]
  /\ position \in Int
  /\ last_mid \in Price \cup {None}
  /\ {ready, did_init, update_scheduled} \subseteq BOOLEAN
  /\ posted \in [Side -> Nat] /\ \A s \in Side : posted[s] <= MaxOrders[s]
  /\ posts \subseteq Id
  /\ cancels \subseteq Id
  /\ cancel_all \in {"unsent", "sent", "over"}
  /\ left \in [Id -> 0 .. Lot]
  /\ account \in Int
  /\ answers \subseteq Answer
  /\ execs \in Seq(Report)
  /\ positions \in Seq(Int)
  /\ path \in Seq(Int)
  /\ disowned \cup silent \cup blind \cup cancelled \subseteq Id

\* The account's snapshot is under way; an order of an earlier process may be open.
\* Of the positions before the start a replay goes through the last one only.
Init ==
  /\ order = [s \in Side |-> NoOrder]
  /\ pending_cancel = [s \in Side |-> "no"]
  /\ position = 0
  /\ last_mid = None
  /\ ready = FALSE
  /\ did_init = FALSE
  /\ update_scheduled = FALSE
  /\ posted = [s \in Side |-> 0]
  /\ posts = {}
  /\ cancels = {}
  /\ cancel_all = "unsent"
  /\ \E orphans \in SUBSET (Orphans \X {0}) :
       /\ left = [id \in Id |-> IF id \in orphans THEN Lot ELSE 0]
       /\ disowned = orphans
  /\ account \in StartPosition
  /\ answers = {}
  /\ execs = << >>
  /\ positions = <<account>>
  /\ path = <<account>>
  /\ silent = {}
  /\ blind = {}
  /\ cancelled = {}
-----------------------------------------------------------------------------
(***************************************************************************)
(* The strategy's handlers. Every one of them schedules an update(). The   *)
(* messages that do nothing else, executions without an order's id and the *)
(* answer to CancelAll, are left out: a book with the same mid does as much. *)
(* A request is dropped when the channel to the gateway is full.           *)
(***************************************************************************)

\* did_init is set whether the request was taken or not.
CancelAllOnce ==
  /\ did_init' = TRUE
  /\ cancel_all' \in IF did_init THEN {cancel_all} ELSE {"sent", "over"}

\* A snapshot with an empty side (None) changes nothing but did_init.
OnObs(mid) ==
  /\ IF ready THEN CancelAllOnce ELSE UNCHANGED <<did_init, cancel_all>>
  /\ last_mid' = IF mid = None THEN last_mid ELSE mid
  /\ update_scheduled' = (update_scheduled \/ mid # None)
  /\ UNCHANGED <<slotVars, position, ready, posts, cancels, posted,
                 exchangeVars, answers, execs, positions, historyVars>>

OnPosition ==
  /\ positions # << >>
  /\ position' = Head(positions)
  /\ positions' = Tail(positions)
  /\ ready' = TRUE
  /\ update_scheduled' = TRUE
  /\ UNCHANGED <<slotVars, last_mid, did_init, requestVars, exchangeVars,
                 answers, execs, historyVars>>

\* Mutant: the pending flag outlives the order.
FreeSlotOnly(s) ==
  /\ order' = [order EXCEPT ![s] = NoOrder]
  /\ UNCHANGED pending_cancel

FreeSlot(s) ==
  /\ order' = [order EXCEPT ![s] = NoOrder]
  /\ pending_cancel' = [pending_cancel EXCEPT ![s] = "no"]

MarkLive(s) ==
  /\ order' = [order EXCEPT ![s].status = "Live"]
  /\ UNCHANGED pending_cancel

\* Mutants: the order ids are not compared; any fill ends the order; none does.
ExecutedAnyId(e) == IF e.alive THEN MarkLive(e.id[1]) ELSE FreeSlot(e.id[1])
ExecutedAnyFill(e) == IF InSlot(e.id) THEN FreeSlot(e.id[1]) ELSE UNCHANGED slotVars
ExecutedNeverLast(e) == IF InSlot(e.id) THEN MarkLive(e.id[1]) ELSE UNCHANGED slotVars

\* What an execution does to the slot of its side.
Executed(e) ==
  CASE ~ InSlot(e.id) -> UNCHANGED slotVars
    [] InSlot(e.id) /\ e.alive -> MarkLive(e.id[1])
    [] InSlot(e.id) /\ ~ e.alive -> FreeSlot(e.id[1])

OnExecution ==
  /\ execs # << >>
  /\ Executed(Head(execs))
  /\ execs' = Tail(execs)
  /\ update_scheduled' = TRUE
  /\ UNCHANGED <<position, flagVars, requestVars, exchangeVars, answers,
                 positions, historyVars>>

\* Ok tells neither a post from a cancel: an order whose cancel is pending is
\* taken for cancelled. A rejected post leaves pending_cancel as it is.
OnOrderResponse(a) ==
  /\ a \in answers
  /\ answers' = answers \ {a}
  /\ update_scheduled' = TRUE
  /\ CASE ~ InSlot(a.id) -> UNCHANGED <<slotVars, disowned>>
       [] InSlot(a.id) /\ a.status = "Ok" /\ pending_cancel[a.id[1]] # "no" ->
            /\ FreeSlot(a.id[1])
            /\ disowned' = IF a.of = "post" THEN disowned \cup {a.id} ELSE disowned
       [] InSlot(a.id) /\ a.status = "Ok" /\ pending_cancel[a.id[1]] = "no" ->
            /\ MarkLive(a.id[1])
            /\ UNCHANGED disowned
       [] InSlot(a.id) /\ a.status = "FailedPostOnly" ->
            /\ order' = [order EXCEPT ![a.id[1]] = NoOrder]
            /\ UNCHANGED <<pending_cancel, disowned>>
  /\ UNCHANGED <<position, flagVars, requestVars, exchangeVars, execs,
                 positions, silent, blind, cancelled>>

\* The time-to-live of a cancel request has passed: the slot is freed, the order
\* may be alive.
Expired == {s \in Side : pending_cancel[s] = "expired"}
\* Mutant: the limit itself still allows an order.
AtLimitStrict(s) == Long(s, position) > MaxPosition
AtLimit(s) == Long(s, position) >= MaxPosition

\* Mutant: a cancel is asked for though one is waited for.
ToCancelAgain ==
  {s \in Side \ Expired : /\ order[s].status = "Live"
                          /\ order[s].px # last_mid \/ AtLimit(s)}
ToCancel ==
  {s \in Side \ Expired : /\ order[s].status = "Live"
                          /\ order[s].px # last_mid \/ AtLimit(s)
                          /\ pending_cancel[s] = "no"}

ToPost ==
  {s \in Side : /\ order[s].status = "None" \/ s \in Expired
                /\ ~ AtLimit(s)
                /\ posted[s] < MaxOrders[s]}

\* What update() decides. A side whose request is refused keeps its slot as it is.
Decide(refused) ==
  LET cancelling == ToCancel \ refused
      posting == ToPost \ refused
      idOf(s) == <<s, order[s].n>>
      newId(s) == <<s, posted[s] + 1>>
  IN /\ order' = [s \in Side |->
          CASE s \in posting -> NewOrder(posted[s] + 1, last_mid)
            [] s \in Expired \ posting -> NoOrder
            [] s \in cancelling -> [order[s] EXCEPT !.status = "PendingCancel"]
            [] OTHER -> order[s]]
     /\ pending_cancel' = [s \in Side |->
          IF s \in Expired THEN "no" ELSE IF s \in cancelling THEN "yes" ELSE pending_cancel[s]]
     /\ posted' = [s \in Side |-> IF s \in posting THEN posted[s] + 1 ELSE posted[s]]
     /\ posts' = posts \cup {newId(s) : s \in posting}
     /\ cancels' = cancels \cup {idOf(s) : s \in cancelling}
     /\ cancelled' = cancelled \cup {idOf(s) : s \in cancelling}
     /\ disowned' = disowned \cup {idOf(s) : s \in Expired}
     /\ blind' = IF positions = << >> THEN blind ELSE blind \cup {newId(s) : s \in posting}

\* The market maker becomes ready here when no position has come before the
\* first mid; only then does it send CancelAll before it decides.
Update(refused) ==
  /\ update_scheduled
  /\ update_scheduled' = FALSE
  /\ IF last_mid = None
       THEN UNCHANGED <<slotVars, ready, did_init, requestVars, disowned, blind, cancelled>>
       ELSE /\ ready' = TRUE
            /\ IF ~ ready /\ ~ did_init
                 THEN CancelAllOnce
                 ELSE UNCHANGED <<did_init, cancel_all>>
            /\ Decide(refused)
  /\ UNCHANGED <<position, last_mid, exchangeVars, answers, execs, positions, silent>>

\* 800 ms have passed since the cancel request.
ExpireCancel(s) ==
  /\ pending_cancel[s] = "yes"
  /\ pending_cancel' = [pending_cancel EXCEPT ![s] = "expired"]
  /\ UNCHANGED <<order, position, flagVars, update_scheduled, requestVars,
                 exchangeVars, answers, execs, positions, historyVars>>
-----------------------------------------------------------------------------
(***************************************************************************)
(* Requests at the gateway and the exchange. Each has a task of its own,   *)
(* so any of them may be next. An error is logged and nobody is told.      *)
(***************************************************************************)

Tell(id, of, status) == answers' = answers \cup {[id |-> id, of |-> of, status |-> status]}

gatewayUnchanged == <<slotVars, position, flagVars, update_scheduled, posted,
                      account, path, execs, positions, disowned, blind, cancelled>>

post_order(id) ==
  /\ id \in posts
  /\ posts' = posts \ {id}
  /\ \/ left' = [left EXCEPT ![id] = Lot] /\ Tell(id, "post", "Ok") /\ UNCHANGED silent
     \/ Tell(id, "post", "FailedPostOnly") /\ UNCHANGED <<left, silent>>
     \/ silent' = silent \cup {id} /\ UNCHANGED <<left, answers>>
  /\ UNCHANGED <<gatewayUnchanged, cancels, cancel_all>>

\* Cancelling an order that is not open is an error of the exchange.
cancel_order(id) ==
  /\ id \in cancels
  /\ cancels' = cancels \ {id}
  /\ \/ left[id] > 0 /\ left' = [left EXCEPT ![id] = 0] /\ Tell(id, "cancel", "Ok")
     \/ UNCHANGED <<left, answers>>
  /\ UNCHANGED <<gatewayUnchanged, posts, cancel_all, silent>>

\* The answer to CancelAll names no order.
cancel_all_orders ==
  /\ cancel_all = "sent"
  /\ cancel_all' = "over"
  /\ \/ /\ left' = [id \in Id |-> 0]
        /\ silent' = silent \cup {id \in Id : left[id] > 0}
     \/ UNCHANGED <<left, silent>>
  /\ UNCHANGED <<gatewayUnchanged, posts, cancels, answers>>

\* The WS API times out, or the mailbox is full when the answer is passed on.
LoseAnswer(a) ==
  /\ a \in answers
  /\ answers' = answers \ {a}
  /\ silent' = IF a.of = "cancel" \/ a.status = "FailedPostOnly" THEN silent \cup {a.id} ELSE silent
  /\ UNCHANGED <<gatewayUnchanged, requestVars, left>>

(***************************************************************************)
(* The smallest quantity of an order is filled. AccountState announces the *)
(* execution, with the order's id or without (TRADE_LITE, or a replay),    *)
(* and then the position.                                                  *)
(***************************************************************************)
Fill(id, named) ==
  /\ left[id] > 0
  /\ Len(positions) < MaxBacklog
  /\ left' = [left EXCEPT ![id] = @ - 1]
  /\ account' = account + Filled(id[1])
  /\ path' = Append(path, account')
  /\ positions' = Append(positions, account')
  /\ execs' = IF named THEN Append(execs, [id |-> id, alive |-> left[id] > 1]) ELSE execs
  /\ silent' = IF ~ named /\ left[id] = 1 THEN silent \cup {id} ELSE silent
  /\ UNCHANGED <<slotVars, position, flagVars, update_scheduled, requestVars,
                 answers, disowned, blind, cancelled>>

\* A restore announces every position of its replay; the executions it announces
\* carry no id.
Restore ==
  /\ Len(positions) + Len(path) <= MaxBacklog
  /\ positions' = positions \o path
  /\ UNCHANGED <<slotVars, position, flagVars, update_scheduled, requestVars,
                 left, account, path, answers, execs, historyVars>>
-----------------------------------------------------------------------------
Strategy ==
  \/ \E mid \in Price \cup {None} : OnObs(mid)
  \/ OnPosition
  \/ OnExecution
  \/ \E a \in answers : OnOrderResponse(a)
  \/ \E refused \in SUBSET Side : Update(refused)
  \/ \E s \in Side : ExpireCancel(s)

Gateway ==
  \/ \E id \in posts : post_order(id)
  \/ \E id \in cancels : cancel_order(id)
  \/ cancel_all_orders
  \/ \E a \in answers : LoseAnswer(a)

Market ==
  \/ \E id \in Id, named \in BOOLEAN : Fill(id, named)
  \/ Restore

Next == Strategy \/ Gateway \/ Market
Spec == Init /\ [][Next]_vars

\* Books keep coming, the mailbox is drained, update() runs after a batch, now and
\* then finds room in the channel, and time passes; requests and messages arrive.
FairSpec ==
  /\ Spec
  /\ WF_vars(\E mid \in Price : OnObs(mid))
  /\ WF_vars(OnPosition)
  /\ WF_vars(OnExecution)
  /\ WF_vars(\E a \in answers : OnOrderResponse(a))
  /\ SF_vars(Update({}))
  /\ \A s \in Side : WF_vars(ExpireCancel(s))
  /\ WF_vars(Gateway)
-----------------------------------------------------------------------------
Open(id) == left[id] > 0

\* An order of this process that is open, or on its way to the exchange, is in
\* its slot: the two exceptions are an order whose cancel was given up after its
\* time-to-live and one whose post was acknowledged after its cancel was asked for.
OrphansExplained ==
  \A s \in Side : \A id \in Own(s) :
    Open(id) \/ id \in posts => InSlot(id) \/ id \in disowned

\* A slot names an order that can still be traded, or whose end the strategy has
\* yet to be told; the others ended without a message that names them.
PhantomsExplained ==
  \A id \in Id : InSlot(id) =>
    \/ Open(id) \/ id \in posts \/ id \in silent
    \/ \E a \in answers : a.id = id /\ (a.of = "cancel" \/ a.status = "FailedPostOnly")
    \/ \E i \in DOMAIN execs : execs[i].id = id /\ ~ execs[i].alive

\* An order is cancelled at most once, and a cancel that is waited for belongs to
\* the order in the slot, so that no answer or time-out is charged to a later one.
CancelOwned ==
  \A s \in Side : pending_cancel[s] # "no" =>
    order[s].status # "None" /\ <<s, order[s].n>> \in cancelled
CancelOnce == [][\A id \in cancelled : id \in cancels' => id \in cancels]_vars

\* The account passes its limit by a lot or more only through an order the strategy
\* posted before it had heard the last position, or no longer kept, or never had.
ExposureBounded ==
  \A s \in Side : Long(s, account) >= MaxPosition + Lot =>
    \E id \in blind \cup disowned : id[1] = s
=============================================================================
