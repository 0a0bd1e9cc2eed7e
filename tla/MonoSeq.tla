------------------------------- MODULE MonoSeq -------------------------------
(***************************************************************************)
(* The id generator of src/src/xcommons/monoseq.rs: one generator per      *)
(* process, called by many threads at once, over a system clock that may   *)
(* be set back. Client order ids and request ids come from it.             *)
(*                                                                         *)
(* last_state packs a millisecond and a sequence number; it is kept here   *)
(* as that pair, and an id as the number its three bit fields make.        *)
(***************************************************************************)
EXTENDS Naturals, Sequences

CONSTANTS
  Process,       \* processes that run at the same time
  Thread,        \* their threads
  home,          \* the process of each thread
  MachineId,     \* resolve_machine_id of each process
  MachineCount,  \* 2^MACHINE_BITS
  MAX_SEQ,       \* the last sequence number of a millisecond
  MaxMs,         \* bound on the clocks
  MaxSetbacks,   \* how often a clock is set back
  MaxRestarts    \* how often a process is started again

ASSUME HomeAssumption == home \in [Thread -> Process]
ASSUME MachineAssumption ==
  MachineCount \in Nat /\ MachineId \in [Process -> 0 .. MachineCount - 1]
ASSUME BoundsAssumption ==
  MAX_SEQ \in Nat /\ MaxMs \in Nat /\ MaxSetbacks \in Nat /\ MaxRestarts \in Nat

VARIABLES
  last_state,  \* the packed (milliseconds, sequence) of each process
  clock,       \* milliseconds since the custom epoch on each process's host
  pc,          \* where each thread is in next()
  prev,        \* last_state as the thread read it
  new_state,   \* what it wants to replace it by
  log,         \* the ids each process returned since it started
  past,        \* history: the ids it returned before it was started again
  floor,       \* history: no id of past has a later millisecond
  exposed,     \* history: its clock has shown that millisecond or an earlier one since
  setbacks,
  restarts

hostVars == <<clock, setbacks>>
historyVars == <<past, floor, exposed, restarts>>
vars == <<last_state, pc, prev, new_state, log, hostVars, historyVars>>

Stamp == [ms : 0 .. MaxMs, seq : 0 .. MAX_SEQ]
Zero == [ms |-> 0, seq |-> 0]

\* [time 41][machine 10][seq 12]
IdOfWithoutMachine(m, s) == s.ms * MachineCount * (MAX_SEQ + 1) + s.seq
IdOf(m, s) == (s.ms * MachineCount + m) * (MAX_SEQ + 1) + s.seq

Ids(s) == {s[i] : i \in DOMAIN s}
-----------------------------------------------------------------------------
TypeOK ==
  /\ last_state \in [Process -> Stamp]
  /\ clock \in [Process -> 0 .. MaxMs]
  /\ pc \in [Thread -> {"idle", "load", "clock", "cas"}]
  /\ prev \in [Thread -> Stamp]
  /\ new_state \in [Thread -> Stamp]
  /\ log \in [Process -> Seq(Nat)]
  /\ past \in [Process -> SUBSET Nat]
  /\ floor \in [Process -> 0 .. MaxMs]
  /\ exposed \in [Process -> BOOLEAN]
  /\ setbacks \in 0 .. MaxSetbacks
  /\ restarts \in 0 .. MaxRestarts

Init ==
  /\ last_state = [p \in Process |-> Zero]
  /\ clock = [p \in Process |-> 0]
  /\ pc = [t \in Thread |-> "idle"]
  /\ prev = [t \in Thread |-> Zero]
  /\ new_state = [t \in Thread |-> Zero]
  /\ log = [p \in Process |-> << >>]
  /\ past = [p \in Process |-> {}]
  /\ floor = [p \in Process |-> 0]
  /\ exposed = [p \in Process |-> FALSE]
  /\ setbacks = 0
  /\ restarts = 0
-----------------------------------------------------------------------------
Call(t) ==
  /\ pc[t] = "idle"
  /\ pc' = [pc EXCEPT ![t] = "load"]
  /\ UNCHANGED <<last_state, prev, new_state, log, hostVars, historyVars>>

Load(t) ==
  /\ pc[t] = "load"
  /\ prev' = [prev EXCEPT ![t] = last_state[home[t]]]
  /\ pc' = [pc EXCEPT ![t] = "clock"]
  /\ UNCHANGED <<last_state, new_state, log, hostVars, historyVars>>

(***************************************************************************)
(* next() reads the clock, and wait_until_at_least reads it again, until   *)
(* it shows a millisecond that follows prev's, or prev's own while that    *)
(* one has sequence numbers left.                                          *)
(***************************************************************************)
UsableOffByOne(s, now) == now > s.ms \/ (now = s.ms /\ s.seq <= MAX_SEQ)
Usable(s, now) == now > s.ms \/ (now = s.ms /\ s.seq < MAX_SEQ)

Successor(s, now) ==
  IF now = s.ms THEN [s EXCEPT !.seq = @ + 1] ELSE [ms |-> now, seq |-> 0]

ReadClock(t) ==
  /\ pc[t] = "clock"
  /\ Usable(prev[t], clock[home[t]])
  /\ new_state' = [new_state EXCEPT ![t] = Successor(prev[t], clock[home[t]])]
  /\ pc' = [pc EXCEPT ![t] = "cas"]
  /\ UNCHANGED <<last_state, prev, log, hostVars, historyVars>>

\* The locals of one round of next()'s loop are gone at its end.
Leave(T, where) ==
  /\ pc' = [t \in Thread |-> IF t \in T THEN where ELSE pc[t]]
  /\ prev' = [t \in Thread |-> IF t \in T THEN Zero ELSE prev[t]]
  /\ new_state' = [t \in Thread |-> IF t \in T THEN Zero ELSE new_state[t]]

\* compare_exchange_weak succeeds, and next() returns.
CompareExchangeStore(t) ==
  /\ pc[t] = "cas"
  /\ last_state' = [last_state EXCEPT ![home[t]] = new_state[t]]
  /\ log' = [log EXCEPT ![home[t]] = Append(@, IdOf(MachineId[home[t]], new_state[t]))]
  /\ Leave({t}, "idle")
  /\ UNCHANGED <<hostVars, historyVars>>

CompareExchangeOldId(t) ==
  /\ pc[t] = "cas"
  /\ last_state[home[t]] = prev[t]
  /\ last_state' = [last_state EXCEPT ![home[t]] = new_state[t]]
  /\ log' = [log EXCEPT ![home[t]] = Append(@, IdOf(MachineId[home[t]], prev[t]))]
  /\ Leave({t}, "idle")
  /\ UNCHANGED <<hostVars, historyVars>>

CompareExchange(t) ==
  /\ pc[t] = "cas"
  /\ last_state[home[t]] = prev[t]
  /\ last_state' = [last_state EXCEPT ![home[t]] = new_state[t]]
  /\ log' = [log EXCEPT ![home[t]] = Append(@, IdOf(MachineId[home[t]], new_state[t]))]
  /\ Leave({t}, "idle")
  /\ UNCHANGED <<hostVars, historyVars>>

\* It fails: another thread was first, or spuriously, as the weak form may.
ContendedNoReload(t) ==
  /\ pc[t] = "cas"
  /\ pc' = [pc EXCEPT ![t] = "clock"]
  /\ UNCHANGED <<last_state, prev, new_state, log, hostVars, historyVars>>

Contended(t) ==
  /\ pc[t] = "cas"
  /\ Leave({t}, "load")
  /\ UNCHANGED <<last_state, log, hostVars, historyVars>>
-----------------------------------------------------------------------------
Tick(p) ==
  /\ clock[p] < MaxMs
  /\ clock' = [clock EXCEPT ![p] = @ + 1]
  /\ UNCHANGED <<last_state, pc, prev, new_state, log, setbacks, historyVars>>

\* NTP or an operator sets the clock back.
SetBack(p) ==
  /\ setbacks < MaxSetbacks
  /\ \E now \in 0 .. clock[p] :
       /\ clock' = [clock EXCEPT ![p] = now]
       /\ exposed' = [exposed EXCEPT ![p] = @ \/ now <= floor[p]]
  /\ setbacks' = setbacks + 1
  /\ UNCHANGED <<last_state, pc, prev, new_state, log, past, floor, restarts>>

Later(a, b) == IF a > b THEN a ELSE b

\* The process ends and is started again, which takes a millisecond at least:
\* the static generator is new.
Restart(p) ==
  /\ restarts < MaxRestarts
  /\ clock[p] < MaxMs
  /\ clock' = [clock EXCEPT ![p] = @ + 1]
  /\ last_state' = [last_state EXCEPT ![p] = Zero]
  /\ Leave({t \in Thread : home[t] = p}, "idle")
  /\ log' = [log EXCEPT ![p] = << >>]
  /\ past' = [past EXCEPT ![p] = @ \cup Ids(log[p])]
  /\ floor' = [floor EXCEPT ![p] = Later(@, last_state[p].ms)]
  /\ exposed' = [exposed EXCEPT ![p] = clock'[p] <= floor'[p]]
  /\ restarts' = restarts + 1
  /\ UNCHANGED setbacks
-----------------------------------------------------------------------------
Step(t) == Load(t) \/ ReadClock(t) \/ CompareExchange(t) \/ Contended(t)

Next ==
  \/ \E t \in Thread : Call(t) \/ Step(t)
  \/ \E p \in Process : Tick(p) \/ SetBack(p) \/ Restart(p)

Spec == Init /\ [][Next]_vars

(***************************************************************************)
(* Threads are scheduled, clocks advance, and the compare-exchange does    *)
(* not fail spuriously for ever.                                           *)
(***************************************************************************)
FairSpec ==
  /\ Spec
  /\ \A t \in Thread : WF_vars(Step(t)) /\ SF_vars(CompareExchange(t))
  /\ \A p \in Process : WF_vars(Tick(p))
-----------------------------------------------------------------------------
(***************************************************************************)
(* "Monotonic": the ids a process returns increase in the order in which   *)
(* next() succeeds, whichever threads call it and however its clock moves. *)
(* No two calls of a process return the same id.                           *)
(***************************************************************************)
Increasing ==
  \A p \in Process : \A i, j \in DOMAIN log[p] : i < j => log[p][i] < log[p][j]

(***************************************************************************)
(* The generator implements IdDispenser when machine ids differ: ever      *)
(* greater ids within a process, distinct ids across processes.            *)
(***************************************************************************)
DistinctMachines == \A p, q \in Process : MachineId[p] = MachineId[q] => p = q

IdBound == (MaxMs + 1) * MachineCount * (MAX_SEQ + 1)

Dispenser == INSTANCE IdDispenser WITH Id <- 0 .. IdBound, given <- log

DispenserSpec == Dispenser!Spec

(***************************************************************************)
(* A restart loses last_state. The new process returns only greater ids    *)
(* than its predecessors, unless its clock has shown a millisecond at or   *)
(* before their last one since it was started.                             *)
(***************************************************************************)
FreshAfterRestart ==
  \A p \in Process : ~ exposed[p] =>
    \A n \in past[p] : \A i \in DOMAIN log[p] : n < log[p][i]

(***************************************************************************)
(* Lock-free progress: while a thread of p is in next(), some call in p    *)
(* returns, unless the bounded clock has no millisecond left.              *)
(***************************************************************************)
Pending(p) == \E t \in Thread : home[t] = p /\ pc[t] # "idle"
Exhausted(p) == last_state[p] = [ms |-> MaxMs, seq |-> MAX_SEQ]

Progress ==
  \A p \in Process :
    <>[](Pending(p) /\ ~ Exhausted(p)) => []<><<log[p]' # log[p]>>_vars

(***************************************************************************)
(* The claim of monoseq.rs:6, "globally unique".                           *)
(***************************************************************************)
GloballyUnique ==
  /\ \A p \in Process : past[p] \cap Ids(log[p]) = {}
  /\ \A p, q \in Process : p # q =>
       (past[p] \cup Ids(log[p])) \cap (past[q] \cup Ids(log[q])) = {}
=============================================================================
