--------------------------- MODULE CircuitBreaker ---------------------------
(***************************************************************************)
(* src/src/xcommons/circuit_breaker.rs: requests that may only be made     *)
(* while an exchange is believed to work. Its fields are locked or atomic  *)
(* one by one, so calls of different threads interleave between any two of *)
(* them. A thread asks can_execute(), makes its request if it may, and     *)
(* records success or failure. No other part of the program uses it yet.   *)
(***************************************************************************)
EXTENDS Naturals

CONSTANTS
  Threads,
  THRESHOLD,       \* failure_threshold
  MaxCount         \* bound on failure_count

VARIABLES
  failure_count,
  has_failed,      \* whether there is a last_failure_time
  state,           \* "Closed", "Open" or "HalfOpen"
  is_testing,
  at,              \* the step each thread is about to do
  trips            \* whether the failure it records reaches the threshold

breakerVars == <<failure_count, has_failed, state, is_testing>>
vars == <<breakerVars, at, trips>>

Asking == {"idle", "opened", "elapsed", "halfopen"}
Running == {"admit", "run", "success", "stamp", "unflag"}
Steps == Asking \cup Running \cup {"close", "trip"}

Init ==
  /\ failure_count = 0 /\ has_failed = FALSE /\ state = "Closed" /\ is_testing = FALSE
  /\ at = [t \in Threads |-> "idle"] /\ trips = [t \in Threads |-> FALSE]

Goto(t, here, there) == at[t] = here /\ at' = [at EXCEPT ![t] = there]

(***************************************************************************)
(* can_execute.                                                            *)
(***************************************************************************)
ReadState(t) ==
  /\ Goto(t, "idle", CASE state = "Closed" -> "run"
                       [] state = "Open" -> "opened"
                       [] state = "HalfOpen" -> "halfopen")
  /\ UNCHANGED <<breakerVars, trips>>

\* How long ago the last failure was is left open.
CheckElapsed(t) ==
  /\ Goto(t, "opened", "idle") \/ (has_failed /\ Goto(t, "opened", "elapsed"))
  /\ UNCHANGED <<breakerVars, trips>>

SwapTesting(t) ==
  /\ Goto(t, "elapsed", IF is_testing THEN "idle" ELSE "admit") /\ is_testing' = TRUE
  /\ UNCHANGED <<failure_count, has_failed, state, trips>>

SetHalfOpen(t) ==
  /\ Goto(t, "admit", "run") /\ state' = "HalfOpen"
  /\ UNCHANGED <<failure_count, has_failed, is_testing, trips>>

\* In HalfOpen the flag is read and not set.
LoadTesting(t) ==
  /\ Goto(t, "halfopen", IF is_testing THEN "idle" ELSE "run") /\ UNCHANGED <<breakerVars, trips>>

(***************************************************************************)
(* record_success and record_failure.                                      *)
(***************************************************************************)
ResetCount(t) ==
  /\ Goto(t, "run", "success") /\ failure_count' = 0
  /\ UNCHANGED <<has_failed, state, is_testing, trips>>

\* Mutant: a success leaves the flag as it is.
SucceedFlagged(t) == Goto(t, "success", "close") /\ UNCHANGED <<breakerVars, trips>>
Succeed(t) ==
  /\ Goto(t, "success", "close") /\ is_testing' = FALSE
  /\ UNCHANGED <<failure_count, has_failed, state, trips>>

Close(t) ==
  /\ Goto(t, "close", "idle") /\ state' = "Closed"
  /\ UNCHANGED <<failure_count, has_failed, is_testing, trips>>

\* The count this failure makes decides, whatever others do to it meanwhile.
CountFailure(t) ==
  /\ failure_count < MaxCount /\ failure_count' = failure_count + 1
  /\ Goto(t, "run", "stamp") /\ trips' = [trips EXCEPT ![t] = failure_count + 1 >= THRESHOLD]
  /\ UNCHANGED <<has_failed, state, is_testing>>

SetFailureTime(t) ==
  /\ Goto(t, "stamp", "unflag") /\ has_failed' = TRUE
  /\ UNCHANGED <<failure_count, state, is_testing, trips>>

Fail(t) ==
  /\ Goto(t, "unflag", IF trips[t] THEN "trip" ELSE "idle") /\ is_testing' = FALSE
  /\ UNCHANGED <<failure_count, has_failed, state, trips>>

Trip(t) ==
  /\ Goto(t, "trip", "idle") /\ state' = "Open"
  /\ UNCHANGED <<failure_count, has_failed, is_testing, trips>>

Call(t) ==
  \/ ReadState(t) \/ CheckElapsed(t) \/ SwapTesting(t) \/ SetHalfOpen(t) \/ LoadTesting(t)
  \/ ResetCount(t) \/ Succeed(t) \/ Close(t)
  \/ CountFailure(t) \/ SetFailureTime(t) \/ Fail(t) \/ Trip(t)

Next == \E t \in Threads : Call(t)

Spec == Init /\ [][Next]_vars

(***************************************************************************)
(* Properties.                                                             *)
(***************************************************************************)
TypeOK ==
  /\ failure_count \in 0 .. MaxCount /\ has_failed \in BOOLEAN
  /\ state \in {"Closed", "Open", "HalfOpen"} /\ is_testing \in BOOLEAN
  /\ at \in [Threads -> Steps] /\ trips \in [Threads -> BOOLEAN]

\* The breaker never rejects for ever: the flag that rejects all requests but
\* one is set only while some request is being made or recorded, however the
\* steps of others fall between; and a breaker that is open knows the failure
\* it waits from.
NeverStuck ==
  /\ is_testing => \E t \in Threads : at[t] \in Running
  /\ state = "Open" => has_failed
=============================================================================
