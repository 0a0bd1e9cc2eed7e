-------------------------- MODULE StandaloneProofs --------------------------
(***************************************************************************)
(* Proofs about the components that stand alone, for every set of threads, *)
(* requests and trades and every bound of the model.                       *)
(***************************************************************************)
EXTENDS Standalone, SequenceTheorems, WellFoundedInduction, TLAPS

(***************************************************************************)
(* The circuit breaker. The flag that rejects all requests but one is      *)
(* cleared by every step that ends a request; what has to be carried along *)
(* besides is that a failure about to open the breaker has left its time.  *)
(***************************************************************************)
BreakerTypes ==
  /\ has_failed \in BOOLEAN /\ is_testing \in BOOLEAN
  /\ state \in {"Closed", "Open", "HalfOpen"}
  /\ at \in [Threads -> Breaker!Steps] /\ trips \in [Threads -> BOOLEAN]

BreakerInv ==
  /\ BreakerTypes
  /\ NeverStuck
  /\ \A t \in Threads : at[t] \in {"unflag", "trip"} => has_failed

\* Initially nothing is being tested and the breaker is closed.
LEMMA BreakerInit == Init => BreakerInv
  BY DEF Init, Breaker!Init, BreakerInv, BreakerTypes, NeverStuck, Breaker!NeverStuck,
         Breaker!Steps, Breaker!Asking, Breaker!Running

\* Every step of a call keeps it; steps of other components change nothing here.
LEMMA BreakerStep == BreakerInv /\ [Next]_vars => BreakerInv'
<1> SUFFICES ASSUME BreakerInv, [Next]_vars PROVE BreakerInv'
  OBVIOUS
<1> USE DEF BreakerInv, BreakerTypes, NeverStuck, Breaker!NeverStuck,
            Breaker!Steps, Breaker!Asking, Breaker!Running
<1>1. CASE UNCHANGED breakerVars
  BY <1>1 DEF breakerVars
<1>2. CASE RunBreaker
  <2>1. PICK t \in Threads : Breaker!Call(t)
    BY <1>2 DEF RunBreaker, Breaker!Next
  <2>2. CASE Breaker!ReadState(t)
    BY <2>2 DEF Breaker!ReadState, Breaker!Goto, Breaker!breakerVars
  <2>3. CASE Breaker!CheckElapsed(t)
    BY <2>3 DEF Breaker!CheckElapsed, Breaker!Goto, Breaker!breakerVars
  <2>4. CASE Breaker!SwapTesting(t)
    BY <2>4 DEF Breaker!SwapTesting, Breaker!Goto
  <2>5. CASE Breaker!SetHalfOpen(t)
    BY <2>5 DEF Breaker!SetHalfOpen, Breaker!Goto
  <2>6. CASE Breaker!LoadTesting(t)
    BY <2>6 DEF Breaker!LoadTesting, Breaker!Goto, Breaker!breakerVars
  <2>7. CASE Breaker!ResetCount(t)
    BY <2>7 DEF Breaker!ResetCount, Breaker!Goto
  <2>8. CASE Breaker!Succeed(t)
    BY <2>8 DEF Breaker!Succeed, Breaker!Goto
  <2>9. CASE Breaker!Close(t)
    BY <2>9 DEF Breaker!Close, Breaker!Goto
  <2>10. CASE Breaker!CountFailure(t)
    BY <2>10 DEF Breaker!CountFailure, Breaker!Goto
  <2>11. CASE Breaker!SetFailureTime(t)
    BY <2>11 DEF Breaker!SetFailureTime, Breaker!Goto
  <2>12. CASE Breaker!Fail(t)
    BY <2>12 DEF Breaker!Fail, Breaker!Goto
  <2>13. CASE Breaker!Trip(t)
    BY <2>13 DEF Breaker!Trip, Breaker!Goto
  <2> QED
    BY <2>1, <2>2, <2>3, <2>4, <2>5, <2>6, <2>7, <2>8, <2>9, <2>10, <2>11, <2>12, <2>13
    DEF Breaker!Call
<1> QED
  BY <1>1, <1>2 DEF Next, vars, restVars, Only, RunParquet, RunQuestDb, RunApi, RunStream,
    RunHistory, RunPosition

\* The breaker never rejects for ever, for any number of threads and any
\* threshold: is_testing is only set while a request is made or recorded, and
\* an open breaker has a failure to count from (circuit_breaker.rs,
\* can_execute, record_success, record_failure).
THEOREM BreakerNeverStuck == Spec => []NeverStuck
<1>1. BreakerInv => NeverStuck
  BY DEF BreakerInv
<1> QED
  BY BreakerInit, BreakerStep, <1>1, PTL DEF Spec

(***************************************************************************)
(* The WS API. A request is in one place at a time: before it is queued    *)
(* nothing of it exists; it is in one queue once, not yet executed; or it  *)
(* was executed once. The map of the connection it was sent over knows it  *)
(* from before it is sent until it is answered.                            *)
(***************************************************************************)
ApiSteps == {"new", "connect", "store", "insert", "send", "wait"} \cup Api!Final
Untouched == {"new", "connect", "store", "insert", "send", "refused", "unsent"}
Holding == {"store", "insert", "send", "wait"}

ApiTypes ==
  /\ ws_api \in Api!Links \cup {Api!None} /\ opened \in 0 .. MaxLinks
  /\ step \in [Requests -> ApiSteps]
  /\ handle \in [Requests -> Api!Links \cup {Api!None}]
  /\ retried \in [Requests -> BOOLEAN]
  /\ pending \in [Api!Links -> SUBSET Requests]
  /\ queue \in [Api!Links -> Seq(Requests)]
  /\ writer \in [Api!Links -> {"new", "run", "ended"}]
  /\ reader \in [Api!Links -> {"new", "run", "ended"}]
  /\ executed \in [Requests -> Nat]
  /\ answers \in [Api!Links -> SUBSET Requests]

QueuedOnce ==
  \A c, d \in Api!Links : \A i \in DOMAIN queue[c], j \in DOMAIN queue[d] :
    queue[c][i] = queue[d][j] => c = d /\ i = j

Places ==
  \A r \in Requests :
    /\ step[r] \in Untouched =>
         executed[r] = 0 /\ ~ Api!Queued(r) /\ \A c \in Api!Links : r \notin answers[c]
    /\ Api!Queued(r) => executed[r] = 0
    /\ \A c \in Api!Links : r \in answers[c] => executed[r] = 1

Connections ==
  /\ \A c \in Api!Links : c > opened => writer[c] = "new"
  /\ \A r \in Requests : step[r] \in Holding => handle[r] \in Api!Links
  /\ \A r \in Requests : step[r] = "send" => r \in pending[handle[r]]

ApiInv ==
  /\ ApiTypes /\ QueuedOnce /\ Places /\ Connections
  /\ Api!SentOnce /\ Api!PendingExplained

\* Initially nothing is sent.
LEMMA ApiInit == Init => ApiInv
<1> SUFFICES ASSUME Init PROVE ApiInv
  OBVIOUS
<1> USE AccountAssumption DEF Init, Api!Init, Api!Links, Api!None, Api!Final, ApiSteps
<1>1. ApiTypes
  BY DEF ApiTypes
<1>2. \A c \in Api!Links : queue[c] = << >> /\ DOMAIN queue[c] = {}
  OBVIOUS
<1>3. \A r \in Requests : ~ Api!Queued(r)
  BY <1>2 DEF Api!Queued
<1>4. QueuedOnce /\ Places /\ Connections
  BY <1>2, <1>3 DEF QueuedOnce, Places, Connections, Untouched, Holding
<1>5. Api!SentOnce /\ Api!PendingExplained
  BY <1>3 DEF Api!SentOnce, Api!PendingExplained
<1> QED
  BY <1>1, <1>4, <1>5 DEF ApiInv

\* A step that changes none of the queues, nor what was executed and answered,
\* keeps every request in its place, if it leaves it there.
LEMMA SamePlaces ==
  ASSUME ApiInv, UNCHANGED <<queue, executed, answers>>,
         \A r \in Requests : step'[r] \in Untouched => step[r] \in Untouched,
         \A r \in Requests : step'[r] = "answered" => step[r] = "answered"
  PROVE  QueuedOnce' /\ Places' /\ Api!SentOnce'
  BY DEF ApiInv, QueuedOnce, Places, Api!SentOnce, Api!Queued, Untouched

\* A request goes one step, up to the sending of its message.
LEMMA RequestStep ==
  ASSUME ApiInv, NEW r \in Requests,
         \/ Api!FindConnection(r) \/ Api!connect_ws_api(r) \/ Api!StoreConnection(r)
         \/ Api!InsertPending(r) \/ Api!SendFails(r) \/ Api!Timeout(r)
  PROVE  ApiInv'
<1> USE AccountAssumption
        DEF Api!Goto, Api!linkVars, Api!exchangeVars, Api!Links, Api!None, Api!Final, ApiSteps
<1>1. CASE Api!FindConnection(r)
  <2>1. ApiTypes'
    BY <1>1 DEF ApiInv, ApiTypes, Api!FindConnection
  <2>2. /\ pending' = pending /\ retried' = retried /\ writer' = writer /\ opened' = opened
        /\ step[r] = "new" /\ step'[r] \in {"connect", "insert"}
        /\ step'[r] = "insert" => handle'[r] \in Api!Links
        /\ \A q \in Requests \ {r} : step'[q] = step[q] /\ handle'[q] = handle[q]
    BY <1>1 DEF ApiInv, ApiTypes, Api!FindConnection
  <2>3. Connections'
    BY <2>2 DEF ApiInv, Connections, Holding
  <2>4. Api!PendingExplained'
    BY <2>2, ZenonT(30) DEF ApiInv, ApiTypes, Api!PendingExplained
  <2>5. QueuedOnce' /\ Places' /\ Api!SentOnce'
    BY <1>1, SamePlaces DEF ApiInv, ApiTypes, Api!FindConnection, Untouched
  <2> QED
    BY <2>1, <2>3, <2>4, <2>5 DEF ApiInv
<1>2. CASE Api!connect_ws_api(r)
  <2> DEFINE new == opened + 1
  <2>1. /\ step[r] = "connect" /\ pending' = pending /\ retried' = retried /\ ws_api' = ws_api
        /\ queue' = queue /\ executed' = executed /\ answers' = answers
    BY <1>2 DEF Api!connect_ws_api
  <2>2. QueuedOnce' /\ Places' /\ Api!SentOnce'
    BY <1>2, SamePlaces DEF ApiInv, ApiTypes, Api!connect_ws_api, Untouched
  <2>3. CASE /\ opened < MaxLinks /\ opened' = new /\ handle' = [handle EXCEPT ![r] = new]
             /\ writer' = [writer EXCEPT ![new] = "run"]
             /\ reader' = [reader EXCEPT ![new] = "run"]
             /\ step' = [step EXCEPT ![r] = "store"]
    <3>1. new \in Api!Links /\ writer[new] = "new" /\ opened \in Nat
      BY <2>3 DEF ApiInv, ApiTypes, Connections
    <3>2. ApiTypes'
      BY <2>1, <2>3, <3>1 DEF ApiInv, ApiTypes
    <3>3. Connections'
      BY <2>1, <2>3, <3>1 DEF ApiInv, ApiTypes, Connections, Holding
    <3>4. Api!PendingExplained'
      BY <2>1, <2>3, <3>1, ZenonT(30) DEF ApiInv, ApiTypes, Api!PendingExplained
    <3> QED
      BY <2>2, <3>2, <3>3, <3>4 DEF ApiInv
  <2>4. CASE /\ step' = [step EXCEPT ![r] = "refused"] /\ opened' = opened /\ handle' = handle
             /\ writer' = writer /\ reader' = reader
    <3>1. ApiTypes'
      BY <2>1, <2>4 DEF ApiInv, ApiTypes
    <3>2. Connections' /\ Api!PendingExplained'
      BY <2>1, <2>4 DEF ApiInv, ApiTypes, Connections, Api!PendingExplained, Holding
    <3> QED
      BY <2>2, <3>1, <3>2 DEF ApiInv
  <2> QED
    BY <1>2, <2>3, <2>4 DEF Api!connect_ws_api
<1>3. CASE Api!StoreConnection(r)
  <2>1. ApiTypes' /\ Connections' /\ Api!PendingExplained'
    BY <1>3, SMTT(30) DEF ApiInv, ApiTypes, Connections, Api!PendingExplained, Api!StoreConnection, Holding
  <2>2. QueuedOnce' /\ Places' /\ Api!SentOnce'
    BY <1>3, SamePlaces DEF ApiInv, ApiTypes, Api!StoreConnection, Untouched
  <2> QED
    BY <2>1, <2>2 DEF ApiInv
<1>4. CASE Api!InsertPending(r)
  <2>1. ApiTypes' /\ Connections' /\ Api!PendingExplained'
    BY <1>4, SMTT(30) DEF ApiInv, ApiTypes, Connections, Api!PendingExplained, Api!InsertPending, Holding
  <2>2. QueuedOnce' /\ Places' /\ Api!SentOnce'
    BY <1>4, SamePlaces DEF ApiInv, ApiTypes, Api!InsertPending, Untouched
  <2> QED
    BY <2>1, <2>2 DEF ApiInv
<1>5. CASE Api!SendFails(r)
  <2>1. ApiTypes'
    BY <1>5 DEF ApiInv, ApiTypes, Api!SendFails
  <2>2. Connections'
    BY <1>5 DEF ApiInv, ApiTypes, Connections, Api!SendFails, Holding
  <2>3. Api!PendingExplained'
    <3>1. /\ pending' = pending /\ handle' = handle /\ writer' = writer
          /\ writer[handle[r]] = "ended" /\ step[r] = "send"
          /\ step'[r] = "unsent" \/ retried'[r]
          /\ retried[r] => retried'[r]
          /\ step'[r] # "wait"
          /\ \A q \in Requests \ {r} : step'[q] = step[q] /\ retried'[q] = retried[q]
      BY <1>5 DEF ApiInv, ApiTypes, Api!SendFails
    <3> QED
      BY <3>1 DEF ApiInv, ApiTypes, Api!PendingExplained
  <2>4. QueuedOnce' /\ Places' /\ Api!SentOnce'
    BY <1>5, SamePlaces, ZenonT(30) DEF ApiInv, ApiTypes, Api!SendFails, Untouched
  <2> QED
    BY <2>1, <2>2, <2>3, <2>4 DEF ApiInv
<1>6. CASE Api!Timeout(r)
  <2>1. ApiTypes' /\ Connections' /\ Api!PendingExplained'
    BY <1>6, SMTT(30) DEF ApiInv, ApiTypes, Connections, Api!PendingExplained, Api!Timeout, Holding
  <2>2. QueuedOnce' /\ Places' /\ Api!SentOnce'
    BY <1>6, SamePlaces DEF ApiInv, ApiTypes, Api!Timeout, Untouched
  <2> QED
    BY <2>1, <2>2 DEF ApiInv
<1> QED
  BY <1>1, <1>2, <1>3, <1>4, <1>5, <1>6

\* The request is queued: it is in no queue before.
LEMMA SendStep ==
  ASSUME ApiInv, NEW r \in Requests, Api!Send(r) PROVE ApiInv'
<1> DEFINE h == handle[r]
<1>1. /\ step[r] = "send" /\ step' = [step EXCEPT ![r] = "wait"]
      /\ queue' = [queue EXCEPT ![h] = Append(queue[h], r)]
      /\ UNCHANGED <<ws_api, handle, retried, opened, pending, writer, reader, executed, answers>>
  BY DEF Api!Send, Api!Goto, Api!exchangeVars
<1>2. h \in Api!Links /\ r \in pending[h] /\ queue[h] \in Seq(Requests)
  BY <1>1 DEF ApiInv, ApiTypes, Connections, Holding
<1>3. ApiTypes' /\ Connections' /\ Api!PendingExplained'
  BY <1>1, <1>2 DEF ApiInv, ApiTypes, Connections, Api!PendingExplained, Holding, ApiSteps
<1>4. executed[r] = 0 /\ ~ Api!Queued(r) /\ \A c \in Api!Links : r \notin answers[c]
  BY <1>1 DEF ApiInv, Places, Untouched
<1>5. /\ DOMAIN queue'[h] = 1 .. Len(queue[h]) + 1 /\ DOMAIN queue[h] = 1 .. Len(queue[h])
      /\ \A i \in DOMAIN queue[h] : queue'[h][i] = queue[h][i]
      /\ queue'[h][Len(queue[h]) + 1] = r /\ Len(queue[h]) \in Nat
      /\ \A c \in Api!Links \ {h} : queue'[c] = queue[c]
  BY <1>1, <1>2 DEF ApiInv, ApiTypes
<1>6. QueuedOnce'
  <2>1. \A c \in Api!Links : \A i \in DOMAIN queue'[c] :
          \/ c = h /\ i = Len(queue[h]) + 1 /\ queue'[c][i] = r
          \/ i \in DOMAIN queue[c] /\ queue'[c][i] = queue[c][i] /\ queue[c][i] # r
    <3> SUFFICES ASSUME NEW c \in Api!Links, NEW i \in DOMAIN queue'[c],
                        ~ (c = h /\ i = Len(queue[h]) + 1)
                 PROVE  i \in DOMAIN queue[c] /\ queue'[c][i] = queue[c][i] /\ queue[c][i] # r
      BY <1>5
    <3>1. i \in DOMAIN queue[c] /\ queue'[c][i] = queue[c][i]
      BY <1>5
    <3> QED
      BY <1>4, <3>1 DEF Api!Queued
  <2> QED
    BY <2>1 DEF ApiInv, QueuedOnce
<1>7. \A q \in Requests \ {r} : Api!Queued(q)' => Api!Queued(q)
  BY <1>5, SMTT(30) DEF Api!Queued
<1>8. Places' /\ Api!SentOnce'
  BY <1>1, <1>4, <1>7 DEF ApiInv, ApiTypes, Places, Api!SentOnce, Untouched
<1> QED
  BY <1>3, <1>6, <1>8 DEF ApiInv

\* The writer takes the first message of its queue: it was in no other place.
LEMMA WriteStep ==
  ASSUME ApiInv, NEW c \in Api!Links, Api!WriteNext(c) PROVE ApiInv'
<1>0. queue[c] \in Seq(Requests) /\ queue[c] # << >>
  BY DEF ApiInv, ApiTypes, Api!WriteNext
<1> PICK r \in Requests : r = Head(queue[c])
  BY <1>0
<1>1. /\ writer[c] = "run" /\ queue[c] # << >> /\ queue' = [queue EXCEPT ![c] = Tail(queue[c])]
      /\ UNCHANGED <<ws_api, step, handle, retried, opened, pending, reader>>
      /\ writer' = [writer EXCEPT ![c] = "ended"] \/ writer' = writer
      /\ \/ /\ executed' = [executed EXCEPT ![r] = executed[r] + 1]
            /\ answers' = [answers EXCEPT ![c] = answers[c] \cup {r}]
         \/ UNCHANGED <<executed, answers>>
  BY DEF Api!WriteNext, Api!requestVars
<1>2. /\ Tail(queue[c]) \in Seq(Requests)
      /\ 1 \in DOMAIN queue[c] /\ queue[c][1] = r
      /\ \A i \in DOMAIN Tail(queue[c]) :
           i + 1 \in DOMAIN queue[c] /\ Tail(queue[c])[i] = queue[c][i + 1] /\ i \in Nat \ {0}
  BY <1>0
<1>3. executed[r] = 0 /\ step[r] \notin Untouched /\ step[r] # "answered"
  BY <1>2 DEF ApiInv, Places, Api!SentOnce, Api!Queued, Untouched
<1>4. ApiTypes' /\ Connections' /\ Api!PendingExplained'
  <2>1. queue' \in [Api!Links -> Seq(Requests)] /\ writer' \in [Api!Links -> {"new", "run", "ended"}]
    BY <1>1, <1>2 DEF ApiInv, ApiTypes
  <2>2. executed' \in [Requests -> Nat] /\ answers' \in [Api!Links -> SUBSET Requests]
    <3>1. executed \in [Requests -> Nat] /\ answers \in [Api!Links -> SUBSET Requests]
      BY DEF ApiInv, ApiTypes
    <3>2. executed[r] + 1 \in Nat /\ answers[c] \cup {r} \in SUBSET Requests
      BY <3>1
    <3> QED
      BY <1>1, <3>1, <3>2
  <2>3. \A d \in Api!Links : writer'[d] = writer[d] \/ (d = c /\ writer'[d] = "ended")
    BY <1>1 DEF ApiInv, ApiTypes
  <2>4. ApiTypes'
    BY <1>1, <2>1, <2>2 DEF ApiInv, ApiTypes
  <2> QED
    BY <1>1, <2>3, <2>4 DEF ApiInv, Connections, Api!PendingExplained
<1>5. \A d \in Api!Links \ {c} : queue'[d] = queue[d]
  BY <1>1 DEF ApiInv, ApiTypes
<1>6. queue'[c] = Tail(queue[c])
  BY <1>1 DEF ApiInv, ApiTypes
<1>7. ~ Api!Queued(r)' /\ \A q \in Requests : Api!Queued(q)' => Api!Queued(q)
  <2> SUFFICES ASSUME NEW q \in Requests, NEW d \in Api!Links, NEW i \in DOMAIN queue'[d],
                      queue'[d][i] = q
               PROVE  q # r /\ Api!Queued(q)
    BY DEF Api!Queued
  <2>1. CASE d = c
    <3>1. i \in DOMAIN Tail(queue[c]) /\ Tail(queue[c])[i] = q
      BY <1>6, <2>1
    <3>2. i + 1 \in DOMAIN queue[c] /\ queue[c][i + 1] = q /\ i + 1 # 1
      BY <1>2, <3>1
    <3> QED
      BY <1>2, <3>2 DEF ApiInv, QueuedOnce, Api!Queued
  <2>2. CASE d # c
    BY <1>2, <1>5, <2>2 DEF ApiInv, QueuedOnce, Api!Queued
  <2> QED
    BY <2>1, <2>2
<1>8. QueuedOnce'
  <2> DEFINE from(d, i) == IF d = c THEN i + 1 ELSE i
  <2>1. \A d \in Api!Links : \A i \in DOMAIN queue'[d] :
          from(d, i) \in DOMAIN queue[d] /\ queue'[d][i] = queue[d][from(d, i)]
    BY <1>2, <1>5, <1>6
  <2>2. \A i \in DOMAIN queue'[c] : i \in Nat
    BY <1>2, <1>6
  <2> QED
    BY <2>1, <2>2 DEF ApiInv, QueuedOnce
<1>9. \/ executed'[r] = 1 /\ \A q \in Requests \ {r} : executed'[q] = executed[q]
      \/ executed' = executed /\ answers' = answers
  BY <1>1, <1>3 DEF ApiInv, ApiTypes
<1>10. \A d \in Api!Links, q \in Requests : q \in answers'[d] => q \in answers[d] \/ (q = r /\ executed'[r] = 1)
  <2>1. CASE answers' = [answers EXCEPT ![c] = answers[c] \cup {r}] /\ executed'[r] = 1
    BY <2>1 DEF ApiInv, ApiTypes
  <2> QED
    BY <1>1, <1>3, <2>1 DEF ApiInv, ApiTypes
<1>11. Places'
  BY <1>1, <1>3, <1>7, <1>9, <1>10 DEF ApiInv, Places, Untouched
<1>12. Api!SentOnce'
  BY <1>1, <1>3, <1>7, <1>9 DEF ApiInv, Api!SentOnce, Untouched
<1> QED
  BY <1>4, <1>8, <1>11, <1>12 DEF ApiInv

\* An answer is taken from the wire, with the sender that waits for it.
LEMMA AnswerStep ==
  ASSUME ApiInv, NEW c \in Api!Links, NEW r \in Requests, Api!ReadAnswer(c, r) PROVE ApiInv'
<1>1. /\ r \in answers[c] /\ answers' = [answers EXCEPT ![c] = answers[c] \ {r}]
      /\ pending' = [pending EXCEPT ![c] = pending[c] \ {r}]
      /\ UNCHANGED <<ws_api, handle, retried, opened, queue, writer, reader, executed>>
      /\ \/ step[r] = "wait" /\ handle[r] = c /\ step' = [step EXCEPT ![r] = "answered"]
         \/ step' = step /\ ~ (r \in pending[c] /\ step[r] = "wait" /\ handle[r] = c)
  BY DEF Api!ReadAnswer, Api!Goto, Api!linkVars
<1>2. executed[r] = 1 /\ step[r] \notin Untouched
  BY <1>1 DEF ApiInv, Places
<1>3. ApiTypes'
  <2>1. answers' \in [Api!Links -> SUBSET Requests] /\ pending' \in [Api!Links -> SUBSET Requests]
    BY <1>1 DEF ApiInv, ApiTypes
  <2>2. step' \in [Requests -> ApiSteps]
    BY <1>1 DEF ApiInv, ApiTypes, ApiSteps, Api!Final
  <2> QED
    BY <1>1, <2>1, <2>2 DEF ApiInv, ApiTypes
<1>4. Connections'
  BY <1>1, <1>2 DEF ApiInv, ApiTypes, Connections, Holding, Untouched
<1>5. Api!PendingExplained'
  <2>1. \A d \in Api!Links, q \in Requests :
          q \in pending'[d] <=> q \in pending[d] /\ ~ (d = c /\ q = r)
    BY <1>1 DEF ApiInv, ApiTypes
  <2>2. \A q \in Requests : step'[q] = step[q] \/ (q = r /\ step'[q] = "answered" /\ handle[q] = c)
    BY <1>1 DEF ApiInv, ApiTypes
  <2>3. step'[r] = "wait" /\ handle[r] = c => r \notin pending[c]
    BY <1>1 DEF ApiInv, ApiTypes
  <2> QED
    BY <1>1, <2>1, <2>2, <2>3 DEF ApiInv, Api!PendingExplained
<1>6. QueuedOnce' /\ Places' /\ Api!SentOnce'
  BY <1>1, <1>2 DEF ApiInv, ApiTypes, QueuedOnce, Places, Api!SentOnce, Api!Queued, Untouched
<1> QED
  BY <1>3, <1>4, <1>5, <1>6 DEF ApiInv

\* A task ends, or a connection breaks and loses answers.
LEMMA LinkStep ==
  ASSUME ApiInv, NEW c \in Api!Links,
         Api!WriterEnds(c) \/ Api!ReaderEnds(c) \/ Api!Cut(c)
  PROVE  ApiInv'
<1> USE DEF Api!requestVars, Api!linkVars, Api!exchangeVars, Api!Links, Api!None, Api!Final, ApiSteps
<1>1. CASE Api!WriterEnds(c)
  <2>1. ApiTypes' /\ Connections' /\ Api!PendingExplained'
    BY <1>1 DEF ApiInv, ApiTypes, Connections, Api!PendingExplained, Api!WriterEnds
  <2>2. QueuedOnce' /\ Places' /\ Api!SentOnce'
    BY <1>1, SamePlaces DEF Api!WriterEnds
  <2> QED
    BY <2>1, <2>2 DEF ApiInv
<1>2. CASE Api!ReaderEnds(c)
  <2>1. ApiTypes' /\ Connections' /\ Api!PendingExplained'
    BY <1>2 DEF ApiInv, ApiTypes, Connections, Api!PendingExplained, Api!ReaderEnds
  <2>2. QueuedOnce' /\ Places' /\ Api!SentOnce'
    BY <1>2, SamePlaces DEF Api!ReaderEnds
  <2> QED
    BY <2>1, <2>2 DEF ApiInv
<1>3. CASE Api!Cut(c)
  <2>1. PICK kept \in SUBSET answers[c] : answers' = [answers EXCEPT ![c] = kept]
    BY <1>3 DEF Api!Cut
  <2>2. UNCHANGED <<ws_api, step, handle, retried, opened, pending, queue, writer, reader, executed>>
    BY <1>3 DEF Api!Cut
  <2>3. ApiTypes' /\ Connections' /\ Api!PendingExplained'
    BY <2>1, <2>2 DEF ApiInv, ApiTypes, Connections, Api!PendingExplained
  <2>4. QueuedOnce' /\ Places' /\ Api!SentOnce'
    BY <2>1, <2>2 DEF ApiInv, ApiTypes, QueuedOnce, Places, Api!SentOnce, Api!Queued
  <2> QED
    BY <2>3, <2>4 DEF ApiInv
<1> QED
  BY <1>1, <1>2, <1>3

\* Every step of the WS API keeps the invariant; other components change
\* nothing of it.
LEMMA ApiStep == ApiInv /\ [Next]_vars => ApiInv'
<1> SUFFICES ASSUME ApiInv, [Next]_vars PROVE ApiInv'
  OBVIOUS
<1>1. CASE UNCHANGED apiVars
  BY <1>1 DEF apiVars, ApiInv, ApiTypes, QueuedOnce, Places, Connections, Api!Queued,
    Api!SentOnce, Api!PendingExplained
<1>2. CASE RunApi
  <2>1. CASE \E r \in Requests : Api!Request(r)
    BY <2>1, RequestStep, SendStep DEF Api!Request
  <2>2. CASE \E c \in Api!Links, r \in Requests : Api!ReadAnswer(c, r)
    BY <2>2, AnswerStep
  <2>3. CASE \E c \in Api!Links :
               Api!WriteNext(c) \/ Api!WriterEnds(c) \/ Api!ReaderEnds(c) \/ Api!Cut(c)
    BY <2>3, WriteStep, LinkStep
  <2> QED
    BY <1>2, <2>1, <2>2, <2>3 DEF RunApi, Api!Next
<1> QED
  BY <1>1, <1>2 DEF Next, vars, accountVars, Only, RunParquet, RunQuestDb, RunStream,
    RunHistory, RunBreaker, RunPosition

\* For any number of requests and of connections, however they break and are
\* replaced: an order is executed once at most, an answer is only given for an
\* executed one, and a request that waits is in the map of the connection it
\* was sent over (binance_account.rs, ws_api_request).
THEOREM ApiRequestsSound == Spec => []RequestsSound
<1>1. ApiInv => RequestsSound
  BY DEF ApiInv, RequestsSound, Api!RequestsSound
<1> QED
  BY ApiInit, ApiStep, <1>1, PTL DEF Spec

(***************************************************************************)
(* The user-data stream. A trade that waits has sent its TRADE_LITE and    *)
(* has not been reported; one that seen_ortu remembers was reported from   *)
(* its update; and a trade seen_ortu was never cleared of has the history  *)
(* that seen_ortu tells.                                                   *)
(***************************************************************************)
Told(out) == \E i \in DOMAIN out : out[i] = "ORTU"

StreamTypes ==
  /\ seen_ortu \subseteq Trades /\ forgotten \subseteq Trades /\ DOMAIN pending_tl \subseteq Trades
  /\ emitted \in [Trades -> Seq({"TL", "ORTU"})]
  /\ updates \in [Trades -> Nat] /\ lites \in [Trades -> Nat] /\ live \in BOOLEAN

TradeInv(t) ==
  /\ t \in DOMAIN pending_tl => t \notin seen_ortu /\ lites[t] # 0
  /\ t \in seen_ortu \/ updates[t] > 0 => Told(emitted[t])
  /\ live /\ lites[t] > 0 => emitted[t] # << >> \/ t \in DOMAIN pending_tl
  /\ \/ t \in forgotten
     \/ emitted[t] = << >> /\ t \notin seen_ortu
     \/ emitted[t] = <<"TL">> /\ t \notin seen_ortu /\ t \notin DOMAIN pending_tl /\ lites[t] # 0
     \/ emitted[t] \in {<<"ORTU">>, <<"TL", "ORTU">>} /\ t \in seen_ortu

StreamInv == StreamTypes /\ \A t \in Trades : TradeInv(t)

\* What appending one report to what was reported of a trade gives.
LEMMA Appending ==
  ASSUME NEW out \in Seq({"TL", "ORTU"}), NEW e \in {"TL", "ORTU"}
  PROVE  /\ Append(out, e) \in Seq({"TL", "ORTU"}) /\ Append(out, e) # << >>
         /\ Told(out) \/ e = "ORTU" => Told(Append(out, e))
<1>1. /\ Append(out, e) \in Seq({"TL", "ORTU"}) /\ Append(out, e) # << >>
      /\ DOMAIN out = 1 .. Len(out) /\ DOMAIN Append(out, e) = 1 .. Len(out) + 1 /\ Len(out) \in Nat
      /\ \A i \in 1 .. Len(out) : Append(out, e)[i] = out[i]
      /\ Append(out, e)[Len(out) + 1] = e
  OBVIOUS
<1>2. Told(out) \/ e = "ORTU" => Told(Append(out, e))
  BY <1>1 DEF Told
<1> QED
  BY <1>1, <1>2

\* The histories seen_ortu can tell apart.
LEMMA Histories ==
  /\ Append(<< >>, "TL") = <<"TL">> /\ Append(<< >>, "ORTU") = <<"ORTU">>
  /\ Append(<<"TL">>, "ORTU") = <<"TL", "ORTU">>
<1>1. Append(<< >>, "TL") = <<"TL">> /\ Append(<< >>, "ORTU") = <<"ORTU">>
  OBVIOUS
<1>2. Append(<<"TL">>, "ORTU") = <<"TL", "ORTU">>
  <2> DEFINE long == Append(<<"TL">>, "ORTU")
  <2>1. <<"TL">> \in Seq({"TL", "ORTU"}) /\ Len(<<"TL">>) = 1
    OBVIOUS
  <2>2. long \in Seq({"TL", "ORTU"}) /\ Len(long) = 2 /\ long[1] = "TL" /\ long[2] = "ORTU"
    BY <2>1
  <2>3. <<"TL", "ORTU">> \in Seq({"TL", "ORTU"}) /\ Len(<<"TL", "ORTU">>) = 2
    OBVIOUS
  <2> HIDE DEF long
  <2>4. \A i \in 1 .. 2 : long[i] = <<"TL", "ORTU">>[i]
    BY <2>2
  <2> QED
    BY <2>2, <2>3, <2>4, SeqEqual DEF long
<1> QED
  BY <1>1, <1>2

\* What one flush does to each trade: what is old is reported and waits no more.
LEMMA Flushed ==
  ASSUME NEW tl, NEW out, DOMAIN tl \subseteq Trades, Stream!Flush(tl, out)
  PROVE  /\ emitted' = [t \in Trades |->
                          IF t \in Stream!Old(tl) THEN Append(out[t], "TL") ELSE out[t]]
         /\ DOMAIN pending_tl' = DOMAIN tl \ Stream!Old(tl)
         /\ Stream!Old(tl) \subseteq DOMAIN tl
  BY DEF Stream!Flush, Stream!Restrict, Stream!Old

\* Flushing keeps every trade of which nothing else is heard. An old trade has
\* not been reported yet.
LEMMA FlushKeeps ==
  ASSUME StreamInv, NEW t \in Trades, NEW old \in SUBSET Trades,
         emitted'[t] = (IF t \in old THEN Append(emitted[t], "TL") ELSE emitted[t]),
         t \in old => t \in DOMAIN pending_tl,
         t \in DOMAIN pending_tl' <=> t \in DOMAIN pending_tl /\ t \notin old,
         lites'[t] = lites[t], updates'[t] = updates[t], live' = live,
         t \in seen_ortu' => t \in seen_ortu,
         t \in seen_ortu /\ t \notin seen_ortu' => t \in forgotten',
         t \in forgotten => t \in forgotten'
  PROVE  TradeInv(t)'
<1>1. TradeInv(t) /\ emitted[t] \in Seq({"TL", "ORTU"})
  BY DEF StreamInv, StreamTypes
<1>2. CASE t \in old
  <2>1. emitted'[t] = Append(emitted[t], "TL")
    BY <1>2
  <2>2. emitted'[t] # << >> /\ (Told(emitted[t]) => Told(emitted'[t]))
    BY <1>1, <2>1, Appending
  <2>3. emitted[t] = << >> => emitted'[t] = <<"TL">>
    BY <2>1, Histories
  <2> QED
    BY <1>1, <1>2, <2>2, <2>3 DEF TradeInv
<1>3. CASE t \notin old
  BY <1>1, <1>3 DEF TradeInv
<1> QED
  BY <1>2, <1>3

\* Initially nothing was heard of.
LEMMA StreamInit == Init => StreamInv
  BY DEF Init, Stream!Init, StreamInv, StreamTypes, TradeInv

\* An update is reported at once, unless seen_ortu remembers the trade.
LEMMA UpdateStep ==
  ASSUME StreamInv, NEW t \in Trades, Stream!OrderTradeUpdate(t) PROVE StreamInv'
<1> USE DEF StreamInv
<1>1. updates' = [updates EXCEPT ![t] = updates[t] + 1] /\ lites' = lites /\ live' = live
  BY DEF Stream!OrderTradeUpdate
<1>2. CASE t \in seen_ortu
  BY <1>1, <1>2 DEF StreamTypes, TradeInv, Stream!OrderTradeUpdate
<1>3. CASE t \notin seen_ortu
  <2> DEFINE tl == Stream!DropPending(t)
             out == [emitted EXCEPT ![t] = Append(emitted[t], "ORTU")]
             old == Stream!Old(tl)
  <2>1. /\ DOMAIN tl = DOMAIN pending_tl \ {t} /\ Stream!Flush(tl, out)
        /\ \A x \in DOMAIN tl : tl[x] = pending_tl[x]
    BY <1>3 DEF Stream!OrderTradeUpdate, Stream!DropPending, Stream!Restrict
  <2>2. /\ seen_ortu' = {} \/ seen_ortu' = seen_ortu \cup {t}
        /\ forgotten' = forgotten \cup ((seen_ortu \cup {t}) \ seen_ortu')
    BY <1>3 DEF Stream!OrderTradeUpdate, Stream!Remember
  <2>3. /\ emitted' = [x \in Trades |-> IF x \in old THEN Append(out[x], "TL") ELSE out[x]]
        /\ DOMAIN pending_tl' = DOMAIN tl \ old /\ old \subseteq DOMAIN tl
    BY <2>1, Flushed DEF StreamTypes
  <2>4. emitted'[t] = Append(emitted[t], "ORTU") /\ t \notin DOMAIN pending_tl'
    BY <2>1, <2>3 DEF StreamTypes
  <2>5. \A x \in Trades \ {t} :
          emitted'[x] = (IF x \in old THEN Append(emitted[x], "TL") ELSE emitted[x])
    BY <2>1, <2>3 DEF StreamTypes
  <2>6. StreamTypes'
    <3>1. \A x \in Trades : emitted'[x] \in Seq({"TL", "ORTU"})
      BY <2>4, <2>5, Appending DEF StreamTypes
    <3> QED
      BY <1>1, <2>1, <2>2, <2>3, <3>1 DEF StreamTypes
  <2>7. TradeInv(t)'
    <3>1. emitted[t] \in Seq({"TL", "ORTU"}) /\ TradeInv(t)
      BY DEF StreamTypes
    <3>2. emitted'[t] # << >> /\ Told(emitted'[t])
      BY <2>4, <3>1, Appending
    <3>3. /\ emitted[t] = << >> => emitted'[t] = <<"ORTU">>
          /\ emitted[t] = <<"TL">> => emitted'[t] = <<"TL", "ORTU">>
      BY <2>4, Histories
    <3>4. t \in seen_ortu' \/ t \in forgotten'
      BY <2>2
    <3> QED
      BY <1>3, <2>2, <2>4, <3>1, <3>2, <3>3, <3>4 DEF TradeInv
  <2>8. ASSUME NEW x \in Trades \ {t} PROVE TradeInv(x)'
    <3>1. old \in SUBSET Trades /\ (x \in old => x \in DOMAIN pending_tl)
      BY <2>1, <2>3 DEF StreamTypes
    <3>2. x \in DOMAIN pending_tl' <=> x \in DOMAIN pending_tl /\ x \notin old
      BY <2>1, <2>3
    <3>3. updates'[x] = updates[x] /\ lites'[x] = lites[x]
      BY <1>1 DEF StreamTypes
    <3>4. /\ x \in seen_ortu' => x \in seen_ortu
          /\ x \in seen_ortu /\ x \notin seen_ortu' => x \in forgotten'
          /\ x \in forgotten => x \in forgotten'
      BY <2>2
    <3> HIDE DEF old
    <3> QED
      BY <1>1, <2>5, <3>1, <3>2, <3>3, <3>4, FlushKeeps
  <2> QED
    BY <2>6, <2>7, <2>8
<1> QED
  BY <1>2, <1>3

\* A TRADE_LITE starts to wait, unless its trade was reported from its update.
LEMMA LiteStep ==
  ASSUME StreamInv, NEW t \in Trades, Stream!TradeLite(t) PROVE StreamInv'
<1> USE DEF StreamInv
<1>1. /\ lites[t] = 0 /\ lites' = [lites EXCEPT ![t] = 1] /\ live' = live
      /\ seen_ortu' = seen_ortu /\ updates' = updates /\ forgotten' = forgotten
  BY DEF Stream!TradeLite
<1>2. CASE t \in seen_ortu
  <2>1. pending_tl' = pending_tl /\ emitted' = emitted
    BY <1>2 DEF Stream!TradeLite
  <2>2. StreamTypes'
    BY <1>1, <2>1 DEF StreamTypes
  <2>3. emitted[t] # << >>
    BY <1>2 DEF TradeInv, Told
  <2> QED
    BY <1>1, <1>2, <2>1, <2>2, <2>3 DEF StreamTypes, TradeInv
<1>3. CASE t \notin seen_ortu
  <2> DEFINE tl == [x \in DOMAIN pending_tl \cup {t} |->
                      IF x \in DOMAIN pending_tl THEN pending_tl[x] ELSE "young"]
             old == Stream!Old(tl)
  <2>1. Stream!Flush(tl, emitted)
    BY <1>3 DEF Stream!TradeLite
  <2>2. DOMAIN tl = DOMAIN pending_tl \cup {t}
    OBVIOUS
  <2>3. t \notin DOMAIN pending_tl => t \notin old
    BY DEF Stream!Old
  <2> HIDE DEF tl
  <2>4. /\ emitted' = [x \in Trades |-> IF x \in old THEN Append(emitted[x], "TL") ELSE emitted[x]]
        /\ DOMAIN pending_tl' = DOMAIN tl \ old /\ old \subseteq DOMAIN tl
    BY <2>1, <2>2, Flushed DEF StreamTypes
  <2> HIDE DEF old
  <2>5. StreamTypes'
    <3>1. \A x \in Trades : emitted'[x] \in Seq({"TL", "ORTU"})
      BY <2>4, Appending DEF StreamTypes
    <3> QED
      BY <1>1, <2>2, <2>4, <3>1 DEF StreamTypes
  <2>6. ASSUME NEW x \in Trades \ {t} PROVE TradeInv(x)'
    <3>1. old \in SUBSET Trades /\ (x \in old => x \in DOMAIN pending_tl)
      BY <2>2, <2>4 DEF StreamTypes
    <3>2. x \in DOMAIN pending_tl' <=> x \in DOMAIN pending_tl /\ x \notin old
      BY <2>2, <2>4
    <3>3. emitted'[x] = (IF x \in old THEN Append(emitted[x], "TL") ELSE emitted[x])
      BY <2>4
    <3>4. updates'[x] = updates[x] /\ lites'[x] = lites[x]
      BY <1>1 DEF StreamTypes
    <3> QED
      BY <1>1, <3>1, <3>2, <3>3, <3>4, FlushKeeps
  <2>7. TradeInv(t)'
    <3>1. t \notin DOMAIN pending_tl /\ TradeInv(t)
      BY <1>1 DEF TradeInv
    <3>2. emitted'[t] = emitted[t] /\ t \in DOMAIN pending_tl' /\ lites'[t] = 1
      BY <1>1, <2>2, <2>3, <2>4, <3>1 DEF StreamTypes
    <3> QED
      BY <1>1, <1>3, <3>1, <3>2 DEF TradeInv
  <2> QED
    BY <2>5, <2>6, <2>7
<1> QED
  BY <1>2, <1>3

\* Any other message reports what is old.
LEMMA TextStep ==
  ASSUME StreamInv, Stream!OtherText PROVE StreamInv'
<1> USE DEF StreamInv
<1> DEFINE old == Stream!Old(pending_tl)
<1>1. /\ Stream!Flush(pending_tl, emitted)
      /\ UNCHANGED <<seen_ortu, updates, lites, live, forgotten>>
  BY DEF Stream!OtherText
<1>2. /\ emitted' = [x \in Trades |-> IF x \in old THEN Append(emitted[x], "TL") ELSE emitted[x]]
      /\ DOMAIN pending_tl' = DOMAIN pending_tl \ old /\ old \subseteq DOMAIN pending_tl
  BY <1>1, Flushed DEF StreamTypes
<1> HIDE DEF old
<1>3. StreamTypes'
  <2>1. \A x \in Trades : emitted'[x] \in Seq({"TL", "ORTU"})
    BY <1>2, Appending DEF StreamTypes
  <2> QED
    BY <1>1, <1>2, <2>1 DEF StreamTypes
<1>4. ASSUME NEW x \in Trades PROVE TradeInv(x)'
  <2>1. old \in SUBSET Trades /\ (x \in old => x \in DOMAIN pending_tl)
    BY <1>2 DEF StreamTypes
  <2>2. x \in DOMAIN pending_tl' <=> x \in DOMAIN pending_tl /\ x \notin old
    BY <1>2
  <2>3. emitted'[x] = (IF x \in old THEN Append(emitted[x], "TL") ELSE emitted[x])
    BY <1>2
  <2> QED
    BY <1>1, <2>1, <2>2, <2>3, FlushKeeps
<1> QED
  BY <1>3, <1>4

\* Every step of the stream keeps the invariant; other components change
\* nothing of it.
LEMMA StreamStep == StreamInv /\ [Next]_vars => StreamInv'
<1> SUFFICES ASSUME StreamInv, [Next]_vars PROVE StreamInv'
  OBVIOUS
<1>1. CASE UNCHANGED streamVars
  BY <1>1 DEF streamVars, StreamInv, StreamTypes, TradeInv
<1>2. CASE RunStream
  <2>1. CASE \E t \in Trades : Stream!OrderTradeUpdate(t) \/ Stream!TradeLite(t)
    BY <2>1, UpdateStep, LiteStep
  <2>2. CASE Stream!OtherText
    BY <2>2, TextStep
  <2>3. CASE Stream!End
    <3>1. /\ DOMAIN pending_tl' = {} /\ live' = FALSE
          /\ UNCHANGED <<seen_ortu, emitted, updates, lites, forgotten>>
      BY <2>3 DEF Stream!End
    <3>2. StreamTypes'
      BY <3>1 DEF StreamInv, StreamTypes
    <3>3. ASSUME NEW t \in Trades PROVE TradeInv(t)'
      <4>1. TradeInv(t)
        BY DEF StreamInv
      <4> QED
        BY <3>1, <4>1 DEF TradeInv
    <3> QED
      BY <3>2, <3>3 DEF StreamInv
  <2>4. CASE \E t \in Trades : Stream!Wait(t)
    BY <2>4 DEF Stream!Wait, StreamInv, StreamTypes, TradeInv
  <2> QED
    BY <1>2, <2>1, <2>2, <2>3, <2>4 DEF RunStream, Stream!Next
<1> QED
  BY <1>1, <1>2 DEF Next, vars, accountVars, Only, RunParquet, RunQuestDb, RunApi,
    RunHistory, RunBreaker, RunPosition

\* For any number of trades, any limit of seen_ortu and however often each
\* update comes: a trade is reported again only after a TRADE_LITE that was
\* before its update or after seen_ortu was cleared of it, and none that the
\* living stream has heard of is forgotten (binance_account.rs, subscribe_live).
THEOREM StreamTradesReported == Spec => []TradesReported
<1>1. StreamInv => TradesReported
  BY DEF StreamInv, TradeInv, Told, TradesReported, Stream!TradesReported
<1> QED
  BY StreamInit, StreamStep, <1>1, PTL DEF Spec

(***************************************************************************)
(* The Parquet sink. A process that could list the directory counts on     *)
(* from the greatest number of each key, so that no file it creates was    *)
(* there before; its writers have files of their own that are open.        *)
(***************************************************************************)
FileNames == Parquet!Keys \X Nat
Writer == [file : FileNames \cup {Parquet!NoFile}, buffer : SUBSET Nat]

ParquetTypes ==
  /\ rows \in Nat /\ cause \in {"full", "tick", "closed"}
  /\ counters \in [Parquet!Keys -> Nat]
  /\ DOMAIN files \subseteq FileNames
  /\ files \in [DOMAIN files -> [rows : SUBSET Nat, closed : BOOLEAN]]
  /\ DOMAIN writers \subseteq Streams /\ writers \in [DOMAIN writers -> Writer]
  /\ stage \in {"flush", "prune", "close"} => todo \subseteq DOMAIN writers

Numbered ==
  /\ \E b \in Nat : \A f \in DOMAIN files : f[2] <= b
  /\ ~ blind => \A f \in DOMAIN files : f[2] <= counters[f[1]]

Owned ==
  \A s \in DOMAIN writers : writers[s].file # Parquet!NoFile =>
    /\ writers[s].file \in DOMAIN files /\ ~ files[writers[s].file].closed
    /\ writers[s].file[1] = Key[s] /\ writers[s].file[2] <= counters[Key[s]]
    /\ \A u \in DOMAIN writers \ {s} : writers[u].file # writers[s].file

ParquetInv == ParquetTypes /\ Numbered /\ Owned

\* What a step may not do to the files.
Kept == \A f \in DOMAIN files : files[f].closed => blind \/ (f \in DOMAIN files' /\ files'[f] = files[f])

\* A bounded set of numbers that is not empty has a greatest one.
LEMMA Greatest ==
  ASSUME NEW b \in Nat, NEW S \in SUBSET (0 .. b), S # {}
  PROVE  Parquet!Max(S) \in S /\ \A y \in S : y <= Parquet!Max(S)
<1> DEFINE T == {b - x : x \in S}
<1>0. \A x \in S : x \in Nat /\ x <= b /\ b - x \in Nat
  OBVIOUS
<1>1. T \subseteq Nat /\ T # {}
  BY <1>0
<1>2. PICK least \in T : \A y \in T : ~ (<<y, least>> \in OpToRel(<, Nat))
  BY <1>1, NatLessThanWellFounded, WFMin
<1>3. \A y \in T : ~ (y < least)
  BY <1>1, <1>2 DEF OpToRel
<1>4. PICK m \in S : least = b - m
  OBVIOUS
<1>5. \A y \in S : m >= y
  <2> SUFFICES ASSUME NEW y \in S PROVE m >= y
    OBVIOUS
  <2>1. b - y \in T
    OBVIOUS
  <2> QED
    BY <1>0, <1>3, <1>4, <2>1
<1> QED
  BY <1>0, <1>4, <1>5 DEF Parquet!Max

\* Initially there is no file.
LEMMA ParquetInit == Init => ParquetInv
  BY SinksAssumption
  DEF Init, Parquet!Init, ParquetInv, ParquetTypes, Numbered, Owned, FileNames, Writer, Parquet!Keys

\* A step that leaves the files, the counters and the writers' files alone.
LEMMA SameFiles ==
  ASSUME ParquetInv, ParquetTypes', UNCHANGED <<files, counters>>, blind' = blind,
         \A s \in DOMAIN writers' :
           \/ s \in DOMAIN writers /\ writers'[s].file = writers[s].file
           \/ writers'[s].file = Parquet!NoFile
  PROVE  ParquetInv' /\ Kept
<1>1. Numbered' /\ Kept
  BY DEF ParquetInv, Numbered, Kept
<1>2. Owned'
  BY DEF ParquetInv, Owned
<1> QED
  BY <1>1, <1>2 DEF ParquetInv

\* A process starts: the files are those of earlier ones.
LEMMA StartStep == ASSUME ParquetInv, Parquet!Start PROVE ParquetInv' /\ Kept
<1> USE DEF ParquetInv
<1>1. files' = files /\ rows' = rows /\ cause' = cause /\ writers' = << >> /\ stage' = "select"
  BY DEF Parquet!Start
<1>2. Kept
  BY <1>1 DEF Kept, ParquetTypes
<1>3. Owned'
  BY <1>1 DEF Owned
<1>4. CASE counters' = [k \in Parquet!Keys |-> 0] /\ blind' = TRUE
  BY <1>1, <1>2, <1>3, <1>4 DEF ParquetTypes, Numbered
<1>5. CASE counters' = Parquet!initialize_sequences_from_existing_files /\ blind' = FALSE
  <2>1. PICK b \in Nat : \A f \in DOMAIN files : f[2] <= b
    BY DEF Numbered
  <2>2. \A f \in DOMAIN files : f = <<f[1], f[2]>> /\ f[1] \in Parquet!Keys /\ f[2] \in 0 .. b
    BY <2>1 DEF ParquetTypes, FileNames
  <2>3. ASSUME NEW k \in Parquet!Keys
        PROVE  counters'[k] \in Nat /\ \A n \in Parquet!Numbers(k) : n <= counters'[k]
    <3>1. {0} \cup Parquet!Numbers(k) \in SUBSET (0 .. b)
      BY <2>2 DEF Parquet!Numbers
    <3>2. counters'[k] = Parquet!Max({0} \cup Parquet!Numbers(k))
      BY <1>5 DEF Parquet!initialize_sequences_from_existing_files
    <3>3. /\ counters'[k] \in {0} \cup Parquet!Numbers(k)
          /\ \A y \in {0} \cup Parquet!Numbers(k) : y <= counters'[k]
      BY <3>1, <3>2, Greatest
    <3> QED
      BY <3>1, <3>3
  <2>4. counters' \in [Parquet!Keys -> Nat]
    BY <1>5, <2>3 DEF Parquet!initialize_sequences_from_existing_files
  <2>5. \A f \in DOMAIN files : f[2] \in Parquet!Numbers(f[1])
    BY <2>2 DEF Parquet!Numbers
  <2>6. Numbered'
    BY <1>1, <2>1, <2>2, <2>3, <2>5 DEF Numbered
  <2>7. ParquetTypes'
    BY <1>1, <2>4 DEF ParquetTypes
  <2> QED
    BY <1>2, <1>3, <2>6, <2>7
<1> QED
  BY <1>4, <1>5 DEF Parquet!Start

\* A row is put in its buffer, and flushing begins and ends.
LEMMA BufferStep ==
  ASSUME ParquetInv,
         \/ \E s \in Streams : Parquet!write_stream_data(s)
         \/ Parquet!flush_all("tick") \/ Parquet!flush_all("closed")
         \/ Parquet!Flushed_all \/ Parquet!Finished \/ Parquet!Stop
  PROVE  ParquetInv' /\ Kept
<1> USE DEF Parquet!diskVars, Parquet!boundVars
<1>1. ASSUME NEW s \in Streams, Parquet!write_stream_data(s) PROVE ParquetInv' /\ Kept
  <2>1. PICK w : /\ w = [Parquet!Get(s) EXCEPT !.buffer = Parquet!Get(s).buffer \cup (rows + 1 .. rows')]
                 /\ writers' = Parquet!Put(s, w)
    BY <1>1 DEF Parquet!write_stream_data
  <2>2. rows' \in Nat
    BY <1>1 DEF Parquet!write_stream_data, ParquetInv, ParquetTypes
  <2>3. /\ Parquet!Get(s) \in Writer
        /\ \/ s \in DOMAIN writers /\ Parquet!Get(s).file = writers[s].file
           \/ Parquet!Get(s).file = Parquet!NoFile
    BY DEF Parquet!Get, ParquetInv, ParquetTypes, Writer
  <2>4. w \in Writer /\ w.file = Parquet!Get(s).file
    <3>1. Parquet!Get(s).buffer \cup (rows + 1 .. rows') \in SUBSET Nat
      BY <2>2, <2>3 DEF ParquetInv, ParquetTypes, Writer
    <3> QED
      BY <2>1, <2>3, <3>1 DEF Writer
  <2>5. /\ DOMAIN writers' = DOMAIN writers \cup {s}
        /\ \A x \in DOMAIN writers' : writers'[x] = IF x = s THEN w ELSE writers[x]
        /\ writers' = [x \in DOMAIN writers' |-> writers'[x]]
    BY <2>1 DEF Parquet!Put
  <2>6. UNCHANGED <<files, counters, blind>> /\ stage' \in {"flush", "select"}
        /\ (stage' = "flush" => todo' = {s}) /\ cause' \in {cause, "full"}
    BY <1>1 DEF Parquet!write_stream_data
  <2>7. ParquetTypes'
    <3>1. \A x \in DOMAIN writers' : writers'[x] \in Writer
      BY <2>4, <2>5 DEF ParquetInv, ParquetTypes
    <3>2. writers' \in [DOMAIN writers' -> Writer]
      BY <2>5, <3>1
    <3> QED
      BY <2>2, <2>5, <2>6, <3>2 DEF ParquetInv, ParquetTypes
  <2> QED
    BY <2>3, <2>4, <2>5, <2>6, <2>7, SameFiles
<1>2. CASE Parquet!flush_all("tick") \/ Parquet!flush_all("closed")
  <2>1. ParquetTypes'
    BY <1>2 DEF Parquet!flush_all, Parquet!Unflushed, ParquetInv, ParquetTypes
  <2> QED
    BY <1>2, <2>1, SameFiles DEF Parquet!flush_all
<1>3. CASE Parquet!Flushed_all
  <2>1. /\ UNCHANGED <<cause, files, counters, blind, rows, writers>> /\ stage = "flush" /\ todo = {}
        /\ (stage' \in {"flush", "prune", "close"} => todo' \subseteq DOMAIN writers)
    <3>1. CASE cause = "full"
      BY <1>3, <3>1 DEF Parquet!Flushed_all
    <3>2. CASE cause = "tick"
      BY <1>3, <3>2 DEF Parquet!Flushed_all
    <3>3. CASE cause = "closed"
      BY <1>3, <3>3 DEF Parquet!Flushed_all
    <3> QED
      BY <3>1, <3>2, <3>3 DEF ParquetInv, ParquetTypes
  <2>2. ParquetTypes'
    BY <2>1 DEF ParquetInv, ParquetTypes
  <2> QED
    BY <2>1, <2>2, SameFiles
<1>4. CASE Parquet!Finished
  <2>1. ParquetTypes'
    BY <1>4 DEF Parquet!Finished, ParquetInv, ParquetTypes
  <2> QED
    BY <1>4, <2>1, SameFiles DEF Parquet!Finished
<1>5. CASE Parquet!Stop
  <2>1. ParquetTypes'
    BY <1>5 DEF Parquet!Stop, ParquetInv, ParquetTypes
  <2> QED
    BY <1>5, <2>1, SameFiles DEF Parquet!Stop
<1> QED
  BY <1>1, <1>2, <1>3, <1>4, <1>5

\* A file is created: one that was not there, if the process could list the
\* directory, and never that of another writer.
LEMMA CreateStep ==
  ASSUME ParquetInv, NEW s \in Streams, Parquet!ensure_writer_initialized(s)
  PROVE  ParquetInv' /\ Kept
<1> USE DEF ParquetInv
<1> DEFINE n == counters[Key[s]] + 1
           f == <<Key[s], n>>
           created == [x \in DOMAIN files \cup {f} |->
                         IF x = f THEN [rows |-> {}, closed |-> FALSE] ELSE files[x]]
<1>1. /\ stage = "flush" /\ s \in todo /\ writers[s].file = Parquet!NoFile
      /\ counters' = [counters EXCEPT ![Key[s]] = n] /\ UNCHANGED <<cause, todo, blind, rows>>
      /\ \/ files' = created /\ writers' = [writers EXCEPT ![s].file = f] /\ stage' = stage
         \/ files' \in {files, created} /\ stage' = "failed" /\ writers' = << >>
  BY DEF Parquet!ensure_writer_initialized
<1>2. Key[s] \in Parquet!Keys /\ counters[Key[s]] \in Nat /\ n \in Nat /\ f \in FileNames
      /\ f[1] = Key[s] /\ f[2] = n /\ f # Parquet!NoFile
  <2>1. Key[s] \in Parquet!Keys
    BY DEF Parquet!Keys
  <2>2. counters[Key[s]] \in Nat /\ n \in Nat
    BY <2>1 DEF ParquetTypes
  <2>3. f # Parquet!NoFile
    BY DEF Parquet!NoFile
  <2> QED
    BY <2>1, <2>2, <2>3 DEF FileNames
<1>3. \A k \in Parquet!Keys : counters'[k] \in Nat /\ counters[k] <= counters'[k]
  BY <1>1, <1>2 DEF ParquetTypes
<1>4. counters'[Key[s]] = n /\ counters' \in [Parquet!Keys -> Nat]
  BY <1>1, <1>2 DEF ParquetTypes
<1>5. \A x \in FileNames : x[1] \in Parquet!Keys /\ x[2] \in Nat
  BY DEF FileNames
<1>6. created \in [DOMAIN files \cup {f} -> [rows : SUBSET Nat, closed : BOOLEAN]]
  BY DEF ParquetTypes
<1>7. files' = files \/ files' = created
  BY <1>1
<1> HIDE DEF n, f
<1>8. DOMAIN files' \subseteq FileNames /\ files' \in [DOMAIN files' -> [rows : SUBSET Nat, closed : BOOLEAN]]
  BY <1>2, <1>6, <1>7 DEF ParquetTypes
<1>9. Numbered'
  <2>1. PICK b \in Nat : \A x \in DOMAIN files : x[2] <= b
    BY DEF Numbered
  <2>2. \A x \in DOMAIN files' : x[2] <= b + n
    BY <1>2, <1>5, <1>7, <1>8, <2>1 DEF ParquetTypes
  <2>3. ASSUME ~ blind, NEW x \in DOMAIN files' PROVE x[2] <= counters'[x[1]]
    <3>1. CASE x = f
      BY <1>2, <1>4, <3>1
    <3>2. CASE x # f
      <4>1. x \in DOMAIN files /\ x[1] \in Parquet!Keys /\ x[2] \in Nat
        BY <1>5, <1>7, <1>8, <3>2
      <4>2. x[2] <= counters[x[1]]
        BY <2>3, <4>1 DEF Numbered
      <4> QED
        BY <1>3, <4>1, <4>2 DEF ParquetTypes
    <3> QED
      BY <3>1, <3>2
  <2>4. b + n \in Nat
    BY <1>2
  <2>5. \E c \in Nat : \A x \in DOMAIN files' : x[2] <= c
    BY <2>2, <2>4
  <2>6. blind' = blind
    BY <1>1
  <2> QED
    BY <2>3, <2>5, <2>6 DEF Numbered
<1>10. Kept
  <2> SUFFICES ASSUME ~ blind, NEW x \in DOMAIN files, files[x].closed
               PROVE  x \in DOMAIN files' /\ files'[x] = files[x]
    BY DEF Kept
  <2>1. x # f
    BY <1>2 DEF Numbered, n
  <2> QED
    BY <1>7, <2>1
<1>11. CASE files' = created /\ writers' = [writers EXCEPT ![s].file = f] /\ stage' = stage
  <2>1. s \in DOMAIN writers /\ DOMAIN writers' = DOMAIN writers
    BY <1>1, <1>11 DEF ParquetTypes
  <2>2. writers'[s] \in Writer /\ writers'[s].file = f
    BY <1>2, <1>11, <2>1 DEF ParquetTypes, Writer
  <2>3. \A u \in DOMAIN writers \ {s} : writers'[u] = writers[u]
    BY <1>11, <2>1
  <2>4. ParquetTypes'
    <3>1. writers' \in [DOMAIN writers' -> Writer]
      BY <1>11, <2>1, <2>2, <2>3 DEF ParquetTypes
    <3> QED
      BY <1>1, <1>4, <1>8, <1>11, <2>1, <3>1 DEF ParquetTypes
  <2>5. \A u \in DOMAIN writers : writers[u].file # f
    BY <1>2 DEF Owned, n
  <2>6. ~ files'[f].closed /\ f \in DOMAIN files'
    BY <1>11
  <2>7. \A u \in DOMAIN writers \ {s} : writers[u].file # Parquet!NoFile =>
          /\ writers[u].file \in DOMAIN files' /\ files'[writers[u].file] = files[writers[u].file]
          /\ writers[u].file[2] <= counters'[Key[u]]
    <3> SUFFICES ASSUME NEW u \in DOMAIN writers \ {s}, writers[u].file # Parquet!NoFile
                 PROVE  /\ writers[u].file \in DOMAIN files' /\ files'[writers[u].file] = files[writers[u].file]
                        /\ writers[u].file[2] <= counters'[Key[u]]
      OBVIOUS
    <3>1. /\ writers[u].file \in DOMAIN files /\ writers[u].file[2] <= counters[Key[u]]
          /\ Key[u] \in Parquet!Keys /\ writers[u].file[2] \in Nat
      BY <1>5 DEF Owned, ParquetTypes, Parquet!Keys
    <3> QED
      BY <1>3, <1>11, <2>5, <3>1 DEF ParquetTypes
  <2>8. Owned'
    BY <1>2, <1>4, <2>1, <2>2, <2>3, <2>5, <2>6, <2>7 DEF Owned
  <2> QED
    BY <1>9, <1>10, <2>4, <2>8
<1>12. CASE stage' = "failed" /\ writers' = << >>
  <2>1. ParquetTypes' /\ Owned'
    BY <1>1, <1>4, <1>8, <1>12 DEF ParquetTypes, Owned
  <2> QED
    BY <1>9, <1>10, <2>1
<1> QED
  BY <1>1, <1>11, <1>12

\* A batch is written to the writer's file, which is open.
LEMMA WriteBatchStep ==
  ASSUME ParquetInv, NEW s \in Streams, Parquet!write_batch(s) PROVE ParquetInv' /\ Kept
<1> USE DEF ParquetInv
<1> DEFINE g == writers[s].file
<1>1. /\ stage = "flush" /\ s \in todo /\ g # Parquet!NoFile /\ UNCHANGED <<cause, counters, blind, rows>>
      /\ \/ /\ files' = [files EXCEPT ![g].rows = files[g].rows \cup writers[s].buffer]
            /\ writers' = [writers EXCEPT ![s] = Parquet!Cleared(writers[s])]
            /\ todo' = todo \ {s} /\ stage' = stage
         \/ stage' = "failed" /\ writers' = << >> /\ files' = files
  BY DEF Parquet!write_batch
<1>2. s \in DOMAIN writers /\ g \in DOMAIN files /\ ~ files[g].closed
  BY <1>1 DEF ParquetTypes, Owned
<1>3. CASE stage' = "failed" /\ writers' = << >> /\ files' = files
  <2>1. ParquetTypes'
    BY <1>1, <1>3 DEF ParquetTypes
  <2> QED
    BY <1>1, <1>3, <2>1, SameFiles
<1>4. CASE /\ files' = [files EXCEPT ![g].rows = files[g].rows \cup writers[s].buffer]
           /\ writers' = [writers EXCEPT ![s] = Parquet!Cleared(writers[s])]
           /\ todo' = todo \ {s} /\ stage' = stage
  <2>1. /\ writers[s] \in Writer /\ files[g] \in [rows : SUBSET Nat, closed : BOOLEAN]
    BY <1>2 DEF ParquetTypes
  <2>2. Parquet!Cleared(writers[s]) \in Writer /\ Parquet!Cleared(writers[s]).file = g
    BY <2>1 DEF Parquet!Cleared, Writer
  <2>3. /\ DOMAIN writers' = DOMAIN writers /\ writers' \in [DOMAIN writers -> Writer]
        /\ \A u \in DOMAIN writers : writers'[u].file = writers[u].file
    BY <1>2, <1>4, <2>2 DEF ParquetTypes
  <2>4. files[g].rows \cup writers[s].buffer \in SUBSET Nat
    BY <2>1 DEF Writer
  <2>5. /\ DOMAIN files' = DOMAIN files /\ \A x \in DOMAIN files \ {g} : files'[x] = files[x]
        /\ files'[g] = [files[g] EXCEPT !.rows = files[g].rows \cup writers[s].buffer]
        /\ files' = [x \in DOMAIN files |-> files'[x]]
    BY <1>2, <1>4 DEF ParquetTypes
  <2>6. files'[g] \in [rows : SUBSET Nat, closed : BOOLEAN] /\ ~ files'[g].closed
    BY <1>2, <2>1, <2>4, <2>5
  <2>7. files' \in [DOMAIN files -> [rows : SUBSET Nat, closed : BOOLEAN]]
    BY <2>5, <2>6 DEF ParquetTypes
  <2>8. ParquetTypes'
    BY <1>1, <1>4, <2>3, <2>5, <2>7 DEF ParquetTypes
  <2>9. Numbered'
    BY <1>1, <2>5 DEF Numbered
  <2>10. Owned'
    BY <1>1, <2>3, <2>5, <2>6 DEF Owned
  <2>11. Kept
    BY <1>2, <2>5 DEF Kept
  <2> QED
    BY <2>8, <2>9, <2>10, <2>11
<1> QED
  BY <1>1, <1>3, <1>4

\* A writer goes, with its file closed or not: no other writer has that file.
LEMMA CloseStep ==
  ASSUME ParquetInv, NEW s \in Streams, Parquet!prune_idle_writers(s) \/ Parquet!close(s)
  PROVE  ParquetInv' /\ Kept
<1> USE DEF ParquetInv
<1> DEFINE g == writers[s].file
<1>1. /\ stage \in {"prune", "close"} /\ s \in todo /\ todo' = todo \ {s}
      /\ UNCHANGED <<cause, counters, blind, rows>>
      /\ \/ stage' = stage /\ writers' = Parquet!Without(s) /\ files' \in {files, Parquet!Closed(g)}
         \/ stage' = "failed" /\ writers' = << >> /\ files' = files
  BY DEF Parquet!prune_idle_writers, Parquet!close
<1>2. s \in DOMAIN writers
  BY <1>1 DEF ParquetTypes
<1>3. CASE stage' = "failed" /\ writers' = << >> /\ files' = files
  <2>1. ParquetTypes'
    BY <1>1, <1>3 DEF ParquetTypes
  <2> QED
    BY <1>1, <1>3, <2>1, SameFiles
<1>4. CASE stage' = stage /\ writers' = Parquet!Without(s) /\ files' \in {files, Parquet!Closed(g)}
  <2>1. /\ DOMAIN writers' = DOMAIN writers \ {s}
        /\ \A u \in DOMAIN writers \ {s} : writers'[u] = writers[u]
        /\ writers' \in [DOMAIN writers \ {s} -> Writer]
    BY <1>4 DEF Parquet!Without, Parquet!Restrict, ParquetTypes
  <2>2. CASE files' = files
    <3>1. ParquetTypes'
      BY <1>1, <1>4, <2>1, <2>2 DEF ParquetTypes
    <3> QED
      BY <1>1, <2>1, <2>2, <3>1, SameFiles
  <2>3. CASE files' = Parquet!Closed(g) /\ g # Parquet!NoFile
    <3>1. g \in DOMAIN files /\ ~ files[g].closed
      BY <1>2, <2>3 DEF Owned
    <3>2. /\ DOMAIN files' = DOMAIN files /\ \A x \in DOMAIN files \ {g} : files'[x] = files[x]
          /\ files' \in [DOMAIN files -> [rows : SUBSET Nat, closed : BOOLEAN]]
      BY <2>3, <3>1 DEF Parquet!Closed, ParquetTypes
    <3>3. ParquetTypes'
      BY <1>1, <1>4, <2>1, <3>2 DEF ParquetTypes
    <3>4. Numbered'
      BY <1>1, <3>2 DEF Numbered
    <3>5. Owned'
      BY <1>1, <1>2, <2>1, <2>3, <3>2 DEF Owned
    <3>6. Kept
      BY <3>1, <3>2 DEF Kept
    <3> QED
      BY <3>3, <3>4, <3>5, <3>6
  <2> QED
    BY <1>4, <2>2, <2>3 DEF Parquet!Closed
<1> QED
  BY <1>1, <1>3, <1>4

\* Every step of the sink keeps the invariant and the closed files; other
\* components change nothing of it.
LEMMA ParquetStep == ParquetInv /\ [Next]_vars => ParquetInv' /\ Kept
<1> SUFFICES ASSUME ParquetInv, [Next]_vars PROVE ParquetInv' /\ Kept
  OBVIOUS
<1>1. CASE UNCHANGED parquetVars
  BY <1>1 DEF parquetVars, ParquetInv, ParquetTypes, Numbered, Owned, Kept
<1>2. CASE RunParquet
  BY <1>2, StartStep, BufferStep, CreateStep, WriteBatchStep, CloseStep DEF RunParquet, Parquet!Next
<1> QED
  BY <1>1, <1>2 DEF Next, vars, sinkVars, Only, RunQuestDb, RunApi, RunStream,
    RunHistory, RunBreaker, RunPosition

\* For any streams, any number of files and any number of restarts: a file
\* that has been closed is never written again, except by a process that
\* could not list the directory (file_manager.rs,
\* initialize_sequences_from_existing_files; multi_stream_sink.rs).
THEOREM ParquetFilesKept == Spec => FilesKept
<1>1. ParquetInv /\ [Next]_vars =>
        [\A f \in DOMAIN files : files[f].closed =>
            blind \/ (f \in DOMAIN files' /\ files'[f] = files[f])]_Parquet!vars
  BY ParquetStep DEF Kept
<1>2. ParquetInv /\ [Next]_vars => ParquetInv'
  BY ParquetStep
<1> QED
  BY ParquetInit, <1>1, <1>2, PTL DEF Spec, FilesKept, Parquet!FilesKept
=============================================================================
