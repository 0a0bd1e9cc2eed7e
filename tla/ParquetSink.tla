---------------------------- MODULE ParquetSink ----------------------------
(***************************************************************************)
(* src/src/output/multi_stream_sink.rs and file_manager.rs: the task that  *)
(* writes what the subscriptions produce to Parquet files. A stream has a  *)
(* buffer and, from its first flush, a file. Buffers are flushed when they *)
(* are full, at every tick and when the channel closes; at a tick, writers *)
(* that have been idle are closed and forgotten. A file can be read only   *)
(* when it has been closed: its footer is written last.                    *)
(*                                                                         *)
(* Rows are numbered as they are received. The process may be stopped or   *)
(* crash at every await, and be started again in the same directory.       *)
(***************************************************************************)
EXTENDS Naturals, FiniteSets, Functions, FiniteSetsExt

CONSTANTS
  Streams,         \* stream type, exchange and symbol
  ObsStreams,      \* those whose rows are not written
  Key,             \* the part of a file's name before its number, by stream
  BATCH_SIZE,
  MaxRows, MaxFaults, MaxLives  \* bounds

VARIABLES
  stage,           \* "down", "select", "flush", "prune", "close", "done" or "failed"
  cause,           \* what the flush is for: "full", "tick" or "closed"
  todo,            \* the streams this stage still has to treat
  writers,         \* stream -> [file, buffer]
  counters,        \* sequence_counters of the file manager
  files,           \* <<key, number>> -> [rows, closed]
  rows, first,     \* rows received, and the number before this process's first
  unclosed,        \* files whose close failed while pruning
  blind,           \* whether this process could not list the directory
  rowFaults, lives

sinkVars == <<stage, cause, todo, writers, counters>>
diskVars == <<files, unclosed, blind>>
boundVars == <<rows, first, rowFaults, lives>>
vars == <<sinkVars, diskVars, boundVars>>

NoFile == << >>
Keys == {Key[s] : s \in Streams}

Init ==
  /\ stage = "down" /\ cause = "tick" /\ todo = {} /\ writers = << >>
  /\ counters = [k \in Keys |-> 0] /\ files = << >> /\ unclosed = {} /\ blind = FALSE
  /\ rows = 0 /\ first = 0 /\ rowFaults = 0 /\ lives = 0

Fault == rowFaults < MaxFaults /\ rowFaults' = rowFaults + 1
NoFault == rowFaults' = rowFaults

\* The counters start from the greatest number of each key in the directory.
Numbers(k) == {n \in {f[2] : f \in DOMAIN files} : <<k, n>> \in DOMAIN files}
\* Mutant: files of earlier processes are not counted.
initialize_sequences_from_zero == [k \in Keys |-> 0]
initialize_sequences_from_existing_files == [k \in Keys |-> Max({0} \cup Numbers(k))]

\* A directory that cannot be read is taken for an empty one.
Start ==
  /\ stage \in {"down", "done", "failed"} /\ lives < MaxLives /\ lives' = lives + 1
  /\ \/ counters' = initialize_sequences_from_existing_files /\ NoFault /\ blind' = FALSE
     \/ counters' = [k \in Keys |-> 0] /\ Fault /\ blind' = TRUE
  /\ stage' = "select" /\ writers' = << >> /\ todo' = {} /\ first' = rows
  /\ UNCHANGED <<cause, files, unclosed, rows>>

Get(s) == IF s \in DOMAIN writers THEN writers[s] ELSE [file |-> NoFile, buffer |-> {}]
Put(s, w) == [x \in DOMAIN writers \cup {s} |-> IF x = s THEN w ELSE writers[x]]
Unflushed(ws) == {s \in DOMAIN ws : ws[s].buffer # {}}

write_stream_data(s) ==
  /\ stage = "select" /\ rows < MaxRows
  /\ rows' = IF s \in ObsStreams THEN rows ELSE rows + 1
  /\ LET w == [Get(s) EXCEPT !.buffer = @ \cup (rows + 1 .. rows')]
         full == Cardinality(w.buffer) >= BATCH_SIZE
     IN /\ writers' = Put(s, w)
        /\ stage' = IF full THEN "flush" ELSE "select"
        /\ cause' = IF full THEN "full" ELSE cause
        /\ todo' = IF full THEN {s} ELSE {}
  /\ UNCHANGED <<counters, diskVars, first, rowFaults, lives>>

flush_all(why) ==
  /\ stage = "select" /\ stage' = "flush" /\ cause' = why /\ todo' = Unflushed(writers)
  /\ UNCHANGED <<writers, counters, diskVars, boundVars>>

\* generate_file_path takes the next number whatever comes of it. The file is
\* created, and truncated if it exists, and may still not get its writer.
ensure_writer_initialized(s) ==
  /\ stage = "flush" /\ s \in todo /\ writers[s].file = NoFile
  /\ LET n == counters[Key[s]] + 1
         f == <<Key[s], n>>
         created == [x \in DOMAIN files \cup {f} |->
                       IF x = f THEN [rows |-> {}, closed |-> FALSE] ELSE files[x]]
     IN /\ counters' = [counters EXCEPT ![Key[s]] = n]
        /\ \/ /\ NoFault /\ files' = created
              /\ writers' = [writers EXCEPT ![s].file = f] /\ UNCHANGED stage
           \/ /\ Fault /\ files' \in {files, created}
              /\ stage' = "failed" /\ writers' = << >>
  /\ UNCHANGED <<cause, todo, unclosed, blind, rows, first, lives>>

\* The writer is taken out for the write and put back after it, and then the
\* buffer is cleared. An error ends the task: every writer is dropped as it is.
\* Mutant: the buffer is not cleared.
NotCleared(w) == w
Cleared(w) == [w EXCEPT !.buffer = {}]
write_batch(s) ==
  /\ stage = "flush" /\ s \in todo /\ writers[s].file # NoFile
  /\ \/ /\ NoFault /\ files' = [files EXCEPT ![writers[s].file].rows = @ \cup writers[s].buffer]
        /\ writers' = [writers EXCEPT ![s] = Cleared(@)] /\ todo' = todo \ {s} /\ UNCHANGED stage
     \/ Fault /\ stage' = "failed" /\ writers' = << >> /\ UNCHANGED <<files, todo>>
  /\ UNCHANGED <<cause, counters, unclosed, blind, rows, first, lives>>

\* A tick goes on with the writers that have been idle for long enough, which
\* may be any of them; a closed channel with all.
Flushed_all ==
  /\ stage = "flush" /\ todo = {}
  /\ CASE cause = "full" -> stage' = "select" /\ UNCHANGED todo
       [] cause = "tick" -> stage' = "prune" /\ todo' \in SUBSET (DOMAIN writers \ Unflushed(writers))
       [] cause = "closed" -> stage' = "close" /\ todo' = DOMAIN writers
  /\ UNCHANGED <<cause, writers, counters, diskVars, boundVars>>

Without(s) == Restrict(writers, DOMAIN writers \ {s})
Closed(f) == IF f = NoFile THEN files ELSE [files EXCEPT ![f].closed = TRUE]

\* The error of a close is ignored here.
prune_idle_writers(s) ==
  /\ stage = "prune" /\ s \in todo /\ todo' = todo \ {s} /\ writers' = Without(s)
  /\ \/ NoFault /\ files' = Closed(writers[s].file) /\ UNCHANGED unclosed
     \/ /\ Fault /\ writers[s].file # NoFile /\ unclosed' = unclosed \cup {writers[s].file}
        /\ UNCHANGED files
  /\ UNCHANGED <<stage, cause, counters, blind, rows, first, lives>>

close(s) ==
  /\ stage = "close" /\ s \in todo /\ todo' = todo \ {s}
  /\ \/ NoFault /\ files' = Closed(writers[s].file) /\ writers' = Without(s) /\ UNCHANGED stage
     \/ /\ Fault /\ writers[s].file # NoFile /\ stage' = "failed" /\ writers' = << >>
        /\ UNCHANGED files
  /\ UNCHANGED <<cause, counters, unclosed, blind, rows, first, lives>>

Finished ==
  /\ todo = {} /\ \/ stage = "prune" /\ stage' = "select"
                  \/ stage = "close" /\ stage' = "done"
  /\ UNCHANGED <<cause, todo, writers, counters, diskVars, boundVars>>

\* The process crashes, or aborts the task when its time is up.
Stop ==
  /\ stage \in {"select", "flush", "prune", "close"}
  /\ stage' = "down" /\ writers' = << >> /\ todo' = {}
  /\ UNCHANGED <<cause, counters, diskVars, boundVars>>

Next ==
  \/ Start \/ Stop \/ Flushed_all \/ Finished \/ flush_all("tick") \/ flush_all("closed")
  \/ \E s \in Streams :
       \/ write_stream_data(s) \/ ensure_writer_initialized(s) \/ write_batch(s)
       \/ prune_idle_writers(s) \/ close(s)

Spec == Init /\ [][Next]_vars

(***************************************************************************)
(* Properties.                                                             *)
(***************************************************************************)
TypeOK ==
  /\ stage \in {"down", "select", "flush", "prune", "close", "done", "failed"}
  /\ cause \in {"full", "tick", "closed"} /\ todo \subseteq Streams
  /\ DOMAIN writers \subseteq Streams /\ rows \in 0 .. MaxRows /\ first \in 0 .. rows
  /\ \A s \in DOMAIN writers :
       /\ writers[s].file = NoFile \/ writers[s].file \in DOMAIN files
       /\ writers[s].buffer \subseteq 1 .. rows /\ Cardinality(writers[s].buffer) <= BATCH_SIZE
  /\ \A f \in DOMAIN files : f[1] \in Keys /\ files[f].rows \subseteq 1 .. rows

\* No row is in two files, and no two streams write one file, though two
\* symbols may have the same file name. While the sink works, and when it has
\* closed, every row of this process is in one place: the buffer of its
\* stream, an open file some writer will close, a closed file, or a file whose
\* close failed while pruning; in the end it can be read.
Holding(r) == {f \in DOMAIN files : r \in files[f].rows}
Buffering(r) == {s \in DOMAIN writers : r \in writers[s].buffer}
Writing(f) == {s \in DOMAIN writers : writers[s].file = f}
RowsOnce ==
  /\ \A r \in 1 .. rows : Cardinality(Holding(r)) <= 1
  /\ \A f \in DOMAIN files : Cardinality(Writing(f)) <= 1 /\ (Writing(f) # {} => ~ files[f].closed)
  /\ stage \in {"select", "flush", "prune", "close", "done"} =>
       \A r \in first + 1 .. rows :
         /\ Cardinality(Holding(r)) + Cardinality(Buffering(r)) = 1
         /\ \A f \in Holding(r) : files[f].closed \/ Writing(f) # {} \/ f \in unclosed

\* A file that has been closed is never written again, by this process or a
\* later one, except by a process that could not list the directory.
FilesKept ==
  [][\A f \in DOMAIN files : files[f].closed => blind \/ (f \in DOMAIN files' /\ files'[f] = files[f])]_vars
=============================================================================
