---------------------------- MODULE QuestDbSink ----------------------------
(***************************************************************************)
(* src/src/output/questdb.rs: the task that sends what the subscriptions   *)
(* produce to QuestDB. The buffer of a stream is serialized and cleared    *)
(* before it is sent; a write that fails is retried as a whole over a new  *)
(* connection, and a connection that is refused ends the task. A write     *)
(* that succeeded has only reached the kernel. The task may be aborted at  *)
(* every await; a new one starts with nothing.                             *)
(***************************************************************************)
EXTENDS Naturals, Sequences, Functions

CONSTANTS
  Streams,
  BATCH_SIZE,
  MaxAttempts,     \* after so many retries send_bytes gives up
  MaxRows, MaxBreaks  \* bounds

VARIABLES
  stage,           \* "select", "flush", "send", "done", "failed" or "stopped"
  cause,           \* what is sent for: "full", "tick" or "closed"
  todo,            \* the streams flush_all still has to send
  buffers,         \* stream -> rows
  batch,           \* the bytes send_bytes was called with
  attempts,
  link,            \* the client's stream: "none", "up", or "dead" without its knowing
  wire,            \* bytes in the kernel that QuestDB has not read
  table,           \* how often each row has arrived
  rows,            \* rows received
  failedWrites,    \* how many writes of each row have failed
  lost,            \* rows in the kernel when their connection died
  abandoned,       \* rows the sink held when it failed or was stopped
  breaks

taskVars == <<stage, cause, todo, buffers, batch, attempts>>
netVars == <<link, wire, table, failedWrites, lost, abandoned, breaks>>
vars == <<taskVars, netVars, rows>>

Init ==
  /\ stage = "select" /\ cause = "tick" /\ todo = {} /\ buffers = << >> /\ batch = << >>
  /\ attempts = 0 /\ link = "none" /\ wire = << >> /\ table = [r \in 1 .. MaxRows |-> 0]
  /\ rows = 0 /\ failedWrites = [r \in 1 .. MaxRows |-> 0] /\ lost = {} /\ abandoned = {} /\ breaks = 0

Occurs(seq, r) == \E i \in DOMAIN seq : seq[i] = r
Held(r) == Occurs(batch, r) \/ \E s \in DOMAIN buffers : Occurs(buffers[s], r)

\* The task ends with what it holds, but for the rows that are already `passed` on.
End(how, passed) ==
  /\ stage' = how /\ todo' = {} /\ buffers' = << >> /\ batch' = << >>
  /\ abandoned' = abandoned \cup {r \in 1 .. rows : Held(r) /\ ~ Occurs(passed, r)}
Continue == UNCHANGED <<stage, todo, buffers, batch, abandoned>>

Put(s, buffer) == [x \in DOMAIN buffers \cup {s} |-> IF x = s THEN buffer ELSE buffers[x]]

\* Mutant: the buffer keeps what has been serialized.
serialize_and_keep(s) == UNCHANGED buffers
serialize_and_clear(s) == buffers' = [buffers EXCEPT ![s] = << >>]

\* A full buffer is sent; it is cleared before.
write_stream_data(s) ==
  /\ stage = "select" /\ rows < MaxRows /\ rows' = rows + 1
  /\ LET buffer == Append(IF s \in DOMAIN buffers THEN buffers[s] ELSE << >>, rows')
     IN IF Len(buffer) >= BATCH_SIZE
        THEN /\ buffers' = Put(s, << >>) /\ batch' = buffer
             /\ stage' = "send" /\ attempts' = 0 /\ cause' = "full"
        ELSE buffers' = Put(s, buffer) /\ UNCHANGED <<stage, batch, attempts, cause>>
  /\ UNCHANGED <<todo, netVars>>

\* The channel has closed, or it is time to flush.
flush_all(why) ==
  /\ stage = "select" /\ stage' = "flush" /\ cause' = why /\ todo' = DOMAIN buffers
  /\ UNCHANGED <<buffers, batch, attempts, netVars, rows>>

FlushStream(s) ==
  /\ stage = "flush" /\ s \in todo /\ todo' = todo \ {s} /\ serialize_and_clear(s)
  /\ IF buffers[s] = << >> THEN UNCHANGED <<stage, batch, attempts>>
     ELSE stage' = "send" /\ batch' = buffers[s] /\ attempts' = 0
  /\ UNCHANGED <<cause, netVars, rows>>

\* After the flush of a tick, writers that have been idle are forgotten; all
\* buffers are empty, and any may be old enough.
Flushed ==
  /\ stage = "flush" /\ todo = {}
  /\ IF cause = "closed" THEN stage' = "done" /\ UNCHANGED buffers
     ELSE stage' = "select" /\ \E kept \in SUBSET DOMAIN buffers : buffers' = Restrict(buffers, kept)
  /\ UNCHANGED <<cause, todo, batch, attempts, netVars, rows>>

\* ensure_connected, first and before each retry: a refusal ends the task.
ensure_connected ==
  /\ stage = "send" /\ link = "none"
  /\ \/ link' = "up" /\ Continue /\ UNCHANGED breaks
     \/ breaks < MaxBreaks /\ breaks' = breaks + 1 /\ End("failed", << >>) /\ UNCHANGED link
  /\ UNCHANGED <<cause, attempts, wire, table, failedWrites, lost, rows>>

Count(seq, r) == IF Occurs(seq, r) THEN 1 ELSE 0
Arrived(seq) == [r \in 1 .. MaxRows |-> table[r] + Count(seq, r)]

Sent ==
  /\ batch' = << >> /\ stage' = IF cause = "full" THEN "select" ELSE "flush"
  /\ UNCHANGED <<cause, todo, buffers, attempts, abandoned, rows>>

\* QuestDB closed the connection and the kernel took the bytes all the same.
WriteIntoVoid ==
  /\ stage = "send" /\ link = "dead" /\ Sent /\ lost' = lost \cup {batch[i] : i \in DOMAIN batch}
  /\ UNCHANGED <<link, wire, table, failedWrites, breaks>>
Write ==
  /\ stage = "send" /\ link = "up" /\ Sent /\ wire' = wire \o batch
  /\ UNCHANGED <<link, table, failedWrites, lost, breaks>>

\* write_all fails after the kernel took some of the bytes, of which QuestDB
\* reads some; a row is read only when all of it has arrived. The whole batch
\* is written again.
WriteFails ==
  /\ stage = "send" /\ link \in {"up", "dead"}
  /\ IF link = "dead" THEN UNCHANGED breaks ELSE breaks < MaxBreaks /\ breaks' = breaks + 1
  /\ \E n \in 0 .. (IF link = "dead" THEN 0 ELSE Len(wire) + Len(batch)) :
       /\ table' = Arrived(SubSeq(wire \o batch, 1, n))
       /\ lost' = lost \cup {wire[i] : i \in n + 1 .. Len(wire)}
  /\ failedWrites' = [r \in 1 .. MaxRows |-> failedWrites[r] + Count(batch, r)]
  /\ link' = "none" /\ wire' = << >> /\ attempts' = attempts + 1
  /\ IF attempts' > MaxAttempts THEN End("failed", << >>) ELSE Continue
  /\ UNCHANGED <<cause, rows>>

\* The task is aborted when its time is up, at the select or inside send_bytes, or
\* the process crashes. The kernel may have taken a first part of the batch, and
\* goes on sending what it has.
Stop ==
  /\ stage \in {"select", "flush", "send"}
  /\ \E n \in 0 .. (IF stage = "send" /\ link = "up" THEN Len(batch) ELSE 0) :
       wire' = wire \o SubSeq(batch, 1, n) /\ End("stopped", SubSeq(batch, 1, n))
  /\ UNCHANGED <<cause, attempts, link, table, failedWrites, lost, breaks, rows>>

\* The network and QuestDB.
Read ==
  /\ wire # << >> /\ table' = Arrived(<<Head(wire)>>) /\ wire' = Tail(wire)
  /\ UNCHANGED <<taskVars, link, failedWrites, lost, abandoned, breaks, rows>>
Break ==
  /\ link = "up" /\ breaks < MaxBreaks /\ breaks' = breaks + 1
  /\ link' = "dead" /\ wire' = << >> /\ lost' = lost \cup {wire[i] : i \in DOMAIN wire}
  /\ UNCHANGED <<taskVars, table, failedWrites, abandoned, rows>>

Next ==
  \/ flush_all("tick") \/ flush_all("closed") \/ Flushed
  \/ ensure_connected \/ Write \/ WriteIntoVoid \/ WriteFails \/ Stop \/ Read \/ Break
  \/ \E s \in Streams : write_stream_data(s) \/ FlushStream(s)

Spec == Init /\ [][Next]_vars

(***************************************************************************)
(* Properties.                                                             *)
(***************************************************************************)
TypeOK ==
  /\ stage \in {"select", "flush", "send", "done", "failed", "stopped"}
  /\ cause \in {"full", "tick", "closed"}
  /\ todo \subseteq DOMAIN buffers /\ DOMAIN buffers \subseteq Streams
  /\ \A s \in DOMAIN buffers : Len(buffers[s]) < BATCH_SIZE
  /\ link \in {"none", "up", "dead"} /\ attempts \in 0 .. MaxAttempts + 1
  /\ rows \in 0 .. MaxRows /\ breaks \in 0 .. MaxBreaks

\* A row arrives once, except that each failed write of it may have brought it
\* one time more. It is missing only while the running sink holds it, while the
\* kernel has it, when the kernel had it as its connection died, or when the sink
\* held it as it failed or was stopped. Otherwise an ended sink holds nothing.
Waiting(r) == Held(r) \/ Occurs(wire, r)
RowsExplained ==
  /\ \A r \in 1 .. rows :
       /\ table[r] <= 1 + failedWrites[r]
       /\ table[r] = 0 /\ ~ Waiting(r) => r \in lost \cup abandoned
       /\ Held(r) => stage \in {"select", "flush", "send"}
  /\ abandoned # {} => stage \in {"failed", "stopped"}

\* What docs/QUESTDB_SINK_IMPLEMENTATION.md:92 says of the sink: on a connect
\* failure it retries, and buffers are kept until a write has completed. Unless it
\* is stopped, a row that has not arrived is held, or the kernel has or had it.
KeptUntilWritten ==
  \A r \in 1 .. rows :
    table[r] = 0 /\ stage # "stopped" => Waiting(r) \/ r \in lost
=============================================================================
