---------------------------- MODULE AccountState ----------------------------
(***************************************************************************)
(* The execution pipeline of one (account, market) pair:                   *)
(* AccountState::run_market of src/src/trading/account_state/mod.rs, the   *)
(* Postgres executions table behind it, and the Binance user-data stream   *)
(* and userTrades endpoint it reads.                                       *)
(*                                                                         *)
(* An execution is its exchange id and its exchange timestamp; a Position  *)
(* is the sequence of executions applied to it since Position::new, from   *)
(* which amount, average price, realized PnL and fees are computed.        *)
(* Cancel reports change neither the table nor the position and are left   *)
(* out.                                                                    *)
(***************************************************************************)
EXTENDS Naturals, Sequences, FiniteSets

CONSTANTS
  ExecId,       \* execution ids, numbered in the order of their strings
  MaxTs,        \* bound on the exchange's millisecond clock
  Epoch,        \* start_epoch_ts
  LateOrtu      \* ids whose ORDER_TRADE_UPDATE comes after the TRADE_LITE was flushed

ASSUME ExecIdAssumption == ExecId \subseteq Nat
ASSUME MaxTsAssumption == MaxTs \in Nat
ASSUME EpochAssumption == Epoch \in Nat
ASSUME LateOrtuAssumption == LateOrtu \subseteq ExecId

VARIABLES
  trades,     \* what happened at the exchange
  stream,     \* the user-data stream: none, connecting, up, down
  wire,       \* executions the adapter has still to emit on this stream
  echo,       \* executions it will emit a second time (late ORDER_TRADE_UPDATE)
  rx_buf,     \* the channel run_market consumes
  pc,         \* where run_market is
  db,         \* the executions table
  hist,       \* REST answer still to be upserted
  todo,       \* copies of each execution apply_executions has still to apply
  position,   \* the in-memory Position
  recovery_mode,  \* what the configuration says of disconnects: Restore or Exit
  gap,        \* history: executions that no stream and no later fetch was watching for
  unsaved,    \* history: executions passed over: taken from the start-up buffer, or
              \* made before a restore that found the table empty
  overtaken   \* history: executions in flight while a later one was emitted

exchangeVars == <<trades, stream, wire, echo>>
taskVars == <<pc, hist, todo, position>>
historyVars == <<gap, unsaved, overtaken>>
vars == <<trades, stream, wire, echo, rx_buf, pc, db, hist, todo, position,
          recovery_mode, gap, unsaved, overtaken>>

Exec == [id : ExecId, ts : 1 .. MaxTs]

Elements(s) == {s[i] : i \in DOMAIN s}

NoCopies == [e \in Exec |-> 0]
OneCopyOf(S) == [e \in Exec |-> IF e \in S THEN 1 ELSE 0]
PendingOffByOne == {e \in Exec : todo[e] >= 0}
Pending == {e \in Exec : todo[e] > 0}

(***************************************************************************)
(* The order of stable_sort_executions, of the ascending pages of          *)
(* userTrades, and hence of every loop over a history or a replay.         *)
(***************************************************************************)
Precedes(a, b) ==
  \/ a.ts < b.ts
  \/ a.ts = b.ts /\ a.id < b.id

First(e, S) == e \in S /\ \A f \in S \ {e} : Precedes(e, f)

\* e is behind the restart point: some persisted execution is at least as late.
Passed(e, table) == \E f \in table : e.ts <= f.ts

(***************************************************************************)
(* userTrades after gt_ts = last_point() for the restore cycles, and after *)
(* max(last_point(), Epoch) for the first backfill.                        *)
(***************************************************************************)
AfterLastPoint == {e \in trades : ~ Passed(e, db)}
fetch_historical == {e \in AfterLastPoint : e.ts > Epoch}
fetch_historical_skipped == {}
fetch_historical_again == IF db = {} THEN {} ELSE AfterLastPoint

load_range == {e \in db : e.ts >= Epoch}

(***************************************************************************)
(* A trade that happens now is seen by no fetch made before, and by no     *)
(* stream that is not connected yet.                                       *)
(***************************************************************************)
Consuming == pc \in {"online", "loop"}
Restoring == pc \in {"restore_upsert", "restore_replay", "resubscribe"}
Blind ==
  \/ stream = "connecting" /\ pc \notin {"fetch", "dead"}
  \/ stream = "down" /\ Restoring
-----------------------------------------------------------------------------
TypeOK ==
  /\ trades \subseteq Exec
  /\ stream \in {"none", "connecting", "up", "down"}
  /\ wire \subseteq Exec
  /\ echo \subseteq Exec
  /\ rx_buf \in Seq(Exec)
  /\ pc \in {"start", "fetch", "upsert", "replay", "drain", "online",
             "restore_upsert", "restore_replay", "resubscribe", "loop", "dead"}
  /\ db \subseteq Exec
  /\ hist \subseteq Exec
  /\ todo \in [Exec -> Nat]
  /\ position \in Seq(Exec)
  /\ recovery_mode \in {"Restore", "Exit"}
  /\ gap \subseteq Exec
  /\ unsaved \subseteq Exec
  /\ overtaken \subseteq Exec

Init ==
  /\ trades = {}
  /\ stream = "none"
  /\ wire = {}
  /\ echo = {}
  /\ rx_buf = << >>
  /\ pc = "start"
  /\ db = {}
  /\ hist = {}
  /\ todo = NoCopies
  /\ position = << >>
  /\ recovery_mode \in {"Restore", "Exit"}
  /\ gap = {}
  /\ unsaved = {}
  /\ overtaken = {}
-----------------------------------------------------------------------------
(***************************************************************************)
(* The exchange and the adapter task of subscribe_live.                    *)
(***************************************************************************)

\* A fill of one of the account's orders; the exchange's clock never goes back.
Trade(e) ==
  /\ \A f \in trades : f.id # e.id /\ f.ts <= e.ts
  /\ trades' = trades \cup {e}
  /\ wire' = IF stream = "up" THEN wire \cup {e} ELSE wire
  /\ gap' = IF Blind THEN gap \cup {e} ELSE gap
  /\ UNCHANGED <<stream, echo, rx_buf, taskVars, db, unsaved, overtaken, recovery_mode>>

\* listenKey obtained and the websocket connected, in the spawned task.
Connect ==
  /\ stream = "connecting"
  /\ stream' = "up"
  /\ UNCHANGED <<trades, wire, echo, rx_buf, taskVars, db, historyVars, recovery_mode>>

\* The channel's receiver is gone once run_market has returned.
Emit(e) == rx_buf' = IF pc = "dead" THEN rx_buf ELSE Append(rx_buf, e)

\* One execution reaches rx_buf. A TRADE_LITE waits up to 1.5 s, so that later
\* executions may go first.
Deliver(e) ==
  /\ e \in wire
  /\ Emit(e)
  /\ wire' = wire \ {e}
  /\ echo' = IF e.id \in LateOrtu THEN echo \cup {e} ELSE echo
  /\ overtaken' = overtaken \cup {f \in wire : f.ts < e.ts}
  /\ UNCHANGED <<trades, stream, taskVars, db, gap, unsaved, recovery_mode>>

\* The ORDER_TRADE_UPDATE of a trade already emitted as TRADE_LITE.
DeliverAgain(e) ==
  /\ e \in echo
  /\ Emit(e)
  /\ echo' = echo \ {e}
  /\ UNCHANGED <<trades, stream, wire, taskVars, db, historyVars, recovery_mode>>

\* listenKey or connect error, close frame, read error, or the idle watchdog:
\* the task ends, and what it had not emitted is gone.
StreamLost ==
  /\ stream \in {"connecting", "up"}
  /\ stream' = "down"
  /\ wire' = {}
  /\ echo' = {}
  /\ UNCHANGED <<trades, rx_buf, taskVars, db, historyVars, recovery_mode>>
-----------------------------------------------------------------------------
(***************************************************************************)
(* run_market, first pass.                                                 *)
(***************************************************************************)

\* Step 1.
Subscribe ==
  /\ pc = "start"
  /\ pc' = "fetch"
  /\ stream' = "connecting"
  /\ UNCHANGED <<trades, wire, echo, rx_buf, db, hist, todo, position, historyVars, recovery_mode>>

\* Steps 2 and 3: restart point, and the REST answer.
Fetch ==
  /\ pc = "fetch"
  /\ pc' = "upsert"
  /\ hist' = fetch_historical
  /\ UNCHANGED <<exchangeVars, rx_buf, db, todo, position, historyVars, recovery_mode>>

\* One round of the upsert loop, of either pass.
UpsertUnordered(e) ==
  /\ pc \in {"upsert", "restore_upsert"}
  /\ e \in hist
  /\ db' = db \cup {e}
  /\ hist' = hist \ {e}
  /\ UNCHANGED <<exchangeVars, rx_buf, pc, todo, position, historyVars, recovery_mode>>

UpsertHistorical(e) ==
  /\ pc \in {"upsert", "restore_upsert"}
  /\ First(e, hist)
  /\ db' = db \cup {e}
  /\ hist' = hist \ {e}
  /\ UNCHANGED <<exchangeVars, rx_buf, pc, todo, position, historyVars, recovery_mode>>

\* Step 4: load from the epoch.
Load ==
  /\ pc = "upsert"
  /\ hist = {}
  /\ pc' = "replay"
  /\ todo' = OneCopyOf(load_range)
  /\ UNCHANGED <<exchangeVars, rx_buf, db, hist, position, historyVars, recovery_mode>>

\* One round of apply_executions: over a sorted vector, or in a consuming loop over
\* the execution whose upsert has returned. Mutant: a live execution older than one
\* that is applied is passed over, as the drain of the start-up buffer does.
ApplyNewest(e) ==
  /\ pc \in {"replay", "drain", "restore_replay"} \/ Consuming
  /\ First(e, Pending)
  /\ position' = IF Consuming /\ \E f \in Elements(position) : f.ts > e.ts
                 THEN position ELSE Append(position, e)
  /\ todo' = [todo EXCEPT ![e] = @ - 1]
  /\ UNCHANGED <<exchangeVars, rx_buf, pc, db, hist, historyVars, recovery_mode>>

Apply(e) ==
  /\ pc \in {"replay", "drain", "restore_replay"} \/ Consuming
  /\ First(e, Pending)
  /\ position' = Append(position, e)
  /\ todo' = [todo EXCEPT ![e] = @ - 1]
  /\ UNCHANGED <<exchangeVars, rx_buf, pc, db, hist, historyVars, recovery_mode>>

\* Indices of rx_buf that survive dropping from the front while ts <= last.
KeptIndices(last) ==
  {i \in DOMAIN rx_buf : \E j \in 1 .. i : rx_buf[j].ts > last}

LastAppliedIs(last) ==
  IF load_range = {} THEN last = Epoch
  ELSE /\ \E e \in load_range : e.ts = last
       /\ \A e \in load_range : e.ts <= last

\* Step 5: empty the channel, drop what the replay covers, apply the rest.
Drain ==
  /\ pc = "replay"
  /\ Pending = {}
  /\ pc' = "drain"
  /\ \E last \in 0 .. (MaxTs + Epoch) :
       /\ LastAppliedIs(last)
       /\ todo' = [e \in Exec |->
                     Cardinality({i \in KeptIndices(last) : rx_buf[i] = e})]
  /\ rx_buf' = << >>
  /\ unsaved' = unsaved \cup Elements(rx_buf)
  /\ UNCHANGED <<exchangeVars, db, hist, position, gap, overtaken, recovery_mode>>

GoOnline ==
  /\ pc = "drain"
  /\ Pending = {}
  /\ pc' = "online"
  /\ UNCHANGED <<exchangeVars, rx_buf, db, hist, todo, position, historyVars, recovery_mode>>

\* A consuming loop takes an execution and awaits its upsert: the row is committed,
\* and Apply follows when the answer is there. Until then everybody else may move.
Receive ==
  /\ Consuming
  /\ Pending = {}
  /\ rx_buf # << >>
  /\ db' = db \cup {Head(rx_buf)}
  /\ todo' = OneCopyOf({Head(rx_buf)})
  /\ rx_buf' = Tail(rx_buf)
  /\ UNCHANGED <<exchangeVars, pc, hist, position, historyVars, recovery_mode>>
-----------------------------------------------------------------------------
(***************************************************************************)
(* run_market after a disconnect.                                          *)
(***************************************************************************)

\* recv returned None: the channel is closed and empty. Backfill from last_point,
\* or not at all when the table is empty.
DisconnectedNoRestore ==
  /\ Consuming
  /\ Pending = {}
  /\ rx_buf = << >>
  /\ stream = "down"
  /\ pc' = "loop"
  /\ stream' = "connecting"
  /\ UNCHANGED <<trades, wire, echo, rx_buf, db, hist, todo, position, historyVars, recovery_mode>>

Disconnected ==
  /\ Consuming
  /\ Pending = {}
  /\ rx_buf = << >>
  /\ stream = "down"
  /\ pc' = "restore_upsert"
  /\ hist' = fetch_historical_again
  /\ unsaved' = IF db = {} THEN unsaved \cup trades ELSE unsaved
  /\ UNCHANGED <<exchangeVars, rx_buf, db, todo, position, gap, overtaken, recovery_mode>>

\* Reset the position and replay the table.
RestoreLoadNoReset ==
  /\ pc = "restore_upsert"
  /\ hist = {}
  /\ pc' = "restore_replay"
  /\ todo' = OneCopyOf(load_range)
  /\ UNCHANGED <<exchangeVars, rx_buf, db, hist, position, historyVars, recovery_mode>>

RestoreLoad ==
  /\ pc = "restore_upsert"
  /\ hist = {}
  /\ pc' = "restore_replay"
  /\ position' = << >>
  /\ todo' = OneCopyOf(load_range)
  /\ UNCHANGED <<exchangeVars, rx_buf, db, hist, historyVars, recovery_mode>>

Restored ==
  /\ pc = "restore_replay"
  /\ Pending = {}
  /\ pc' = "resubscribe"
  /\ UNCHANGED <<exchangeVars, rx_buf, db, hist, todo, position, historyVars, recovery_mode>>

\* The loop goes straight from subscribe_live to consuming.
ResubscribeToClosed ==
  /\ pc = "resubscribe"
  /\ recovery_mode = "Restore"
  /\ pc' = "loop"
  /\ UNCHANGED <<exchangeVars, rx_buf, db, hist, todo, position, historyVars, recovery_mode>>

Resubscribe ==
  /\ pc = "resubscribe"
  /\ recovery_mode = "Restore"
  /\ pc' = "loop"
  /\ stream' = "connecting"
  /\ UNCHANGED <<trades, wire, echo, rx_buf, db, hist, todo, position, historyVars, recovery_mode>>

\* A REST or Postgres error: run_market returns Err, which its caller logs. An
\* upsert may fail before its row is committed, or after: the answer is lost.
TaskError ==
  /\ \/ pc \in {"fetch", "upsert", "restore_upsert"}
     \/ Consuming /\ (rx_buf # << >> \/ Pending # {} \/ stream = "down")
  /\ pc' = "dead"
  /\ hist' = {}
  /\ todo' = NoCopies
  /\ rx_buf' = << >>
  /\ UNCHANGED <<exchangeVars, db, position, historyVars, recovery_mode>>

\* The process is gone and started again: only the table survives.
NewProcess ==
  /\ pc' = "start"
  /\ stream' = "none"
  /\ wire' = {}
  /\ echo' = {}
  /\ rx_buf' = << >>
  /\ hist' = {}
  /\ todo' = NoCopies
  /\ position' = << >>
  /\ UNCHANGED <<trades, db, historyVars, recovery_mode>>

\* process::exit(1) after the restore, and the supervisor.
ExitAfterRestore ==
  /\ pc = "resubscribe"
  /\ recovery_mode = "Exit"
  /\ NewProcess

\* A crash or an operator, at any point.
Crash == pc # "start" /\ NewProcess
-----------------------------------------------------------------------------
Task ==
  \/ Subscribe \/ Fetch \/ Load \/ Drain \/ GoOnline \/ Receive
  \/ Disconnected \/ RestoreLoad \/ Restored \/ Resubscribe \/ ExitAfterRestore
  \/ \E e \in Exec : UpsertHistorical(e) \/ Apply(e)

Adapter == Connect \/ \E e \in Exec : Deliver(e) \/ DeliverAgain(e)

Next ==
  \/ Task
  \/ Adapter
  \/ \E e \in Exec : Trade(e)
  \/ StreamLost
  \/ TaskError
  \/ Crash

Spec == Init /\ [][Next]_vars

(***************************************************************************)
(* tokio keeps polling the account task and the adapter task, and each of  *)
(* their awaits returns: an answer or an error.                            *)
(***************************************************************************)
FairSpec == Spec /\ WF_vars(Task) /\ WF_vars(Adapter)
-----------------------------------------------------------------------------
Tied(e) == \E f \in trades \ {e} : f.ts = e.ts
Exposed == gap \cup unsaved \cup overtaken

(***************************************************************************)
(* Backfill. The restart point max(exchange_ts) never moves past an        *)
(* execution missing from the table, whatever crashes, errors and stream   *)
(* losses happen and at whatever step, unless the execution happened in a  *)
(* subscription gap, was taken from the start-up buffer or made before a   *)
(* restore that found the table empty, was in flight when a later one was  *)
(* emitted, or shares its millisecond with another. Such an execution is   *)
(* found again by no later fetch_historical.                               *)
(***************************************************************************)
HolesExplained ==
  \A e \in trades :
    (e.ts > Epoch /\ Passed(e, db) /\ e \notin db) => (e \in Exposed \/ Tied(e))

(***************************************************************************)
(* Replay. When a replay is done, the position holds every execution of    *)
(* the table since the epoch exactly once, in (exchange_ts, id) order,     *)
(* whatever the position was before.                                       *)
(***************************************************************************)
ReplayDone ==
  \/ pc \in {"replay", "restore_replay"} /\ Pending = {}
  \/ pc = "resubscribe"

InOrder(s) == \A i, j \in DOMAIN s : i < j => Precedes(s[i], s[j])

ReplayExact ==
  ReplayDone => Elements(position) = load_range /\ InOrder(position)

(***************************************************************************)
(* Once the replay is done, no persisted execution is missing from the     *)
(* position but the one whose upsert the loop awaits. A task that dies in  *)
(* that window leaves the row behind and the position without it, and the  *)
(* replay of the next process, or of a restore, makes up for it.           *)
(***************************************************************************)
OnlineCoversTable ==
  pc \in {"drain", "online", "loop"} =>
    \A e \in load_range \ Elements(position) : Consuming /\ Pending = {e}

(***************************************************************************)
(* After a restore cycle the position follows the table exactly: nothing   *)
(* is applied that is not persisted, and nothing twice but a trade emitted *)
(* both as TRADE_LITE and as a late ORDER_TRADE_UPDATE.                     *)
(***************************************************************************)
AppliedOnce(e) ==
  \A i, j \in DOMAIN position : position[i] = e /\ position[j] = e => i = j

LoopExact ==
  pc = "loop" =>
    /\ Elements(position) \subseteq db
    /\ \A e \in Exec : e.id \notin LateOrtu => AppliedOnce(e)

(***************************************************************************)
(* A closed stream is always followed by a new subscription, unless the    *)
(* task returned an error or the process ended.                            *)
(***************************************************************************)
Resubscribes ==
  (Consuming /\ stream = "down") ~>
    ((pc = "loop" /\ stream # "down") \/ pc \in {"dead", "start"})

(***************************************************************************)
(* Unless the process restarts for ever, every execution reaches the       *)
(* table, but for those that HolesExplained excepts and those made after   *)
(* run_market returned an error.                                           *)
(***************************************************************************)
EventuallyPersisted ==
  \/ []<>(pc = "start")
  \/ \A e \in Exec :
       (e \in trades /\ e.ts > Epoch) ~>
         (e \in db \cup Exposed \/ Tied(e) \/ pc = "dead")
=============================================================================
