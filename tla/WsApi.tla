------------------------------- MODULE WsApi -------------------------------
(***************************************************************************)
(* src/src/exchanges/binance_account.rs, ws_api_request and what it calls: *)
(* requests share one WebSocket connection to Binance, which a request     *)
(* that finds none opens. A connection is a writer task that sends what is *)
(* queued, a reader task that hands each answer to the request whose id it *)
(* carries, and the map of pending requests the two sides share. Requests  *)
(* are tasks of their own: the lock is held to look at the connection, to  *)
(* store one and to drop it, not while one is opened.                      *)
(***************************************************************************)
EXTENDS Naturals, Sequences, FiniteSets

CONSTANTS
  Requests,
  MaxLinks, MaxCuts  \* bounds: connections opened, connections that break

None == 0
Links == 1 .. MaxLinks

VARIABLES
  ws_api,          \* the shared connection, or None
  step,            \* what each request is about to do
  handle,          \* the connection it uses
  retried,         \* whether it is on its second connection
  pending,         \* connection -> ids with a sender in its map
  queue,           \* connection -> requests queued for its writer
  writer, reader,  \* connection -> "new", "run" or "ended": its tasks
  cut,             \* connections that are broken
  opened,          \* connections opened
  executed,        \* how often Binance has executed each request
  answers          \* connection -> answers on their way

requestVars == <<ws_api, step, handle, retried, opened>>
linkVars == <<queue, writer, reader>>
exchangeVars == <<cut, executed, answers>>
vars == <<requestVars, pending, linkVars, exchangeVars>>

Final == {"answered", "timeout", "refused", "unsent"}

Init ==
  /\ ws_api = None /\ step = [r \in Requests |-> "new"] /\ handle = [r \in Requests |-> None]
  /\ retried = [r \in Requests |-> FALSE] /\ opened = 0
  /\ pending = [c \in Links |-> {}] /\ queue = [c \in Links |-> << >>]
  /\ writer = [c \in Links |-> "new"] /\ reader = [c \in Links |-> "new"]
  /\ cut = {} /\ executed = [r \in Requests |-> 0] /\ answers = [c \in Links |-> {}]

Goto(r, where) == step' = [step EXCEPT ![r] = where]

(***************************************************************************)
(* A request.                                                              *)
(***************************************************************************)
\* The first half of ensure_ws_api.
FindConnection(r) ==
  /\ step[r] = "new"
  /\ IF ws_api = None THEN Goto(r, "connect") /\ UNCHANGED handle
     ELSE Goto(r, "insert") /\ handle' = [handle EXCEPT ![r] = ws_api]
  /\ UNCHANGED <<ws_api, retried, opened, pending, linkVars, exchangeVars>>

connect_ws_api(r) ==
  /\ step[r] = "connect"
  /\ \/ /\ opened < MaxLinks /\ opened' = opened + 1 /\ handle' = [handle EXCEPT ![r] = opened']
        /\ writer' = [writer EXCEPT ![opened'] = "run"]
        /\ reader' = [reader EXCEPT ![opened'] = "run"] /\ Goto(r, "store")
     \/ Goto(r, "refused") /\ UNCHANGED <<opened, handle, writer, reader>>
  /\ UNCHANGED <<ws_api, retried, pending, queue, exchangeVars>>

\* Whatever another request has stored meanwhile is replaced.
StoreConnection(r) ==
  /\ step[r] = "store" /\ ws_api' = handle[r] /\ Goto(r, "insert")
  /\ UNCHANGED <<handle, retried, opened, pending, linkVars, exchangeVars>>

InsertPending(r) ==
  /\ step[r] = "insert" /\ pending' = [pending EXCEPT ![handle[r]] = @ \cup {r}]
  /\ Goto(r, "send") /\ UNCHANGED <<ws_api, handle, retried, opened, linkVars, exchangeVars>>

Send(r) ==
  /\ step[r] = "send" /\ writer[handle[r]] = "run"
  /\ queue' = [queue EXCEPT ![handle[r]] = Append(@, r)] /\ Goto(r, "wait")
  /\ UNCHANGED <<ws_api, handle, retried, opened, pending, writer, reader, exchangeVars>>

\* The writer has ended: the first time the shared connection, whichever it is
\* now, is dropped and another one used.
SendFails(r) ==
  /\ step[r] = "send" /\ writer[handle[r]] = "ended"
  /\ IF retried[r] THEN Goto(r, "unsent") /\ UNCHANGED <<ws_api, retried>>
     ELSE Goto(r, "new") /\ ws_api' = None /\ retried' = [retried EXCEPT ![r] = TRUE]
  /\ UNCHANGED <<handle, opened, pending, linkVars, exchangeVars>>

\* After 7 seconds. The entry in the map stays. Mutant: the request is sent
\* again over another connection, as after an error of the send.
TimeoutResends(r) ==
  /\ step[r] = "wait"
  /\ IF retried[r] THEN Goto(r, "timeout") /\ UNCHANGED <<ws_api, retried>>
     ELSE Goto(r, "new") /\ ws_api' = None /\ retried' = [retried EXCEPT ![r] = TRUE]
  /\ UNCHANGED <<handle, opened, pending, linkVars, exchangeVars>>
Timeout(r) ==
  /\ step[r] = "wait" /\ Goto(r, "timeout")
  /\ UNCHANGED <<ws_api, handle, retried, opened, pending, linkVars, exchangeVars>>

(***************************************************************************)
(* The tasks of a connection.                                              *)
(***************************************************************************)
\* A broken connection may take a message before its writer notices; Binance
\* then never sees it.
WriteNext(c) ==
  /\ writer[c] = "run" /\ queue[c] # << >> /\ queue' = [queue EXCEPT ![c] = Tail(@)]
  /\ \/ /\ c \notin cut /\ UNCHANGED writer
        /\ executed' = [executed EXCEPT ![Head(queue[c])] = @ + 1]
        /\ answers' = [answers EXCEPT ![c] = @ \cup {Head(queue[c])}]
     \/ /\ c \in cut /\ (writer' = [writer EXCEPT ![c] = "ended"] \/ UNCHANGED writer)
        /\ UNCHANGED <<executed, answers>>
  /\ UNCHANGED <<requestVars, pending, reader, cut>>

\* Nobody can send to it any more: neither the shared connection nor a request.
Unheld(c) ==
  /\ ws_api # c
  /\ \A r \in Requests : handle[r] = c => step[r] \in Final
WriterEnds(c) ==
  /\ writer[c] = "run" /\ queue[c] = << >> /\ Unheld(c)
  /\ writer' = [writer EXCEPT ![c] = "ended"]
  /\ UNCHANGED <<requestVars, pending, queue, reader, exchangeVars>>

\* The sender is taken out of the map; the request may have stopped waiting.
ReadAnswer(c, r) ==
  /\ reader[c] = "run" /\ r \in answers[c] /\ answers' = [answers EXCEPT ![c] = @ \ {r}]
  /\ pending' = [pending EXCEPT ![c] = @ \ {r}]
  /\ IF r \in pending[c] /\ step[r] = "wait" /\ handle[r] = c
     THEN Goto(r, "answered") ELSE UNCHANGED step
  /\ UNCHANGED <<ws_api, handle, retried, opened, linkVars, cut, executed>>

\* The reader ends on a close or an error, the writer knows nothing of it.
ReaderEnds(c) ==
  /\ reader[c] = "run" /\ c \in cut /\ reader' = [reader EXCEPT ![c] = "ended"]
  /\ UNCHANGED <<requestVars, pending, queue, writer, exchangeVars>>

Cut(c) ==
  /\ c <= opened /\ c \notin cut /\ Cardinality(cut) < MaxCuts /\ cut' = cut \cup {c}
  /\ \E kept \in SUBSET answers[c] : answers' = [answers EXCEPT ![c] = kept]
  /\ UNCHANGED <<requestVars, pending, linkVars, executed>>

Request(r) ==
  \/ FindConnection(r) \/ connect_ws_api(r) \/ StoreConnection(r) \/ InsertPending(r)
  \/ Send(r) \/ SendFails(r) \/ Timeout(r)
Next ==
  \/ \E r \in Requests : Request(r)
  \/ \E c \in Links : \/ WriteNext(c) \/ WriterEnds(c) \/ ReaderEnds(c) \/ Cut(c)
                      \/ \E r \in Requests : ReadAnswer(c, r)

Spec == Init /\ [][Next]_vars

(***************************************************************************)
(* Properties.                                                             *)
(***************************************************************************)
TypeOK ==
  /\ ws_api \in Links \cup {None} /\ opened \in 0 .. MaxLinks
  /\ step \in [Requests -> {"new", "connect", "store", "insert", "send", "wait"} \cup Final]
  /\ handle \in [Requests -> Links \cup {None}] /\ retried \in [Requests -> BOOLEAN]
  /\ pending \in [Links -> SUBSET Requests] /\ cut \subseteq Links
  /\ writer \in [Links -> {"new", "run", "ended"}] /\ reader \in [Links -> {"new", "run", "ended"}]

\* An order is executed once at most, however often its request is sent; an
\* answer is only given for a request that was executed; and a request that
\* reports that it could not be sent has not been executed.
Queued(r) == \E c \in Links : \E i \in DOMAIN queue[c] : queue[c][i] = r
SentOnce ==
  \A r \in Requests :
    /\ executed[r] <= 1
    /\ step[r] = "answered" => executed[r] = 1
    /\ step[r] \in {"refused", "unsent"} => executed[r] = 0 /\ ~ Queued(r)

\* What is left in a pending map belongs to a request that waits there, whose
\* answer did not come in time, or that could not be sent there. One that
\* waits can always be answered: it is in the map of the connection it was
\* sent over, whatever connection is shared by then.
PendingExplained ==
  \A c \in Links, r \in Requests :
    /\ r \in pending[c] =>
         \/ handle[r] = c /\ step[r] \in {"send", "wait", "timeout", "unsent"}
         \/ retried[r] /\ writer[c] = "ended"
    /\ step[r] = "wait" /\ handle[r] = c => r \in pending[c]

RequestsSound == SentOnce /\ PendingExplained
=============================================================================
