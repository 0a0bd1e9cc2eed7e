---------------------------- MODULE MarketFrames ----------------------------
(***************************************************************************)
(* What an exchange puts on a market-data WebSocket, as the connectors and *)
(* processors of src/src/exchanges read it.                                *)
(*                                                                         *)
(* Events (depth diffs, or trades) are numbered as they happen. A depth    *)
(* diff e covers the update ids FirstId(e) .. FinalId(e) and names the     *)
(* last id of the diff before it; two ids each, so that a REST snapshot    *)
(* can fall inside a diff. Prices, sizes and times are left out.           *)
(***************************************************************************)
EXTENDS Naturals, Sequences

FirstId(e) == 2 * e - 1
FinalId(e) == 2 * e
PrevId(e) == 2 * e - 2

\* A text frame with the events `es`. A bad one does not parse as `text`, so that
\* no id in it can be read; or the last of its events has a `time` stamp that does
\* not parse, a price or size (`number`), or a `side` that is neither buy nor sell.
Defect == {"none", "text", "time", "number", "side"}
Data(es, bad) == [kind |-> "data", ev |-> es, bad |-> bad]

\* Frames without events: "ack" and "error" answer a request, "heartbeat" is
\* Deribit's, "ping" stands for every frame that is not text, "close" is the
\* close frame, "eof" the end of the stream and "fault" an error of the socket.
Control(k) == [kind |-> k, ev |-> << >>, bad |-> "none"]
LastEvent(f) == f.ev[Len(f.ev)]

\* What a connector's next_message makes of one frame: its new state, and
\* whether it hands the frame on, reads another, or ends with None or an error.
Hand(c) == [conn |-> c, ret |-> "message"]
Again(c) == [conn |-> c, ret |-> "again"]
None_(c) == [conn |-> c, ret |-> "none"]
Error(c) == [conn |-> c, ret |-> "error"]

\* What a processor makes of one message: its new state, the events it
\* returns, and whether it fails.
Updates(p, es) == [proc |-> p, ev |-> es, ok |-> TRUE]
Failure(p) == [proc |-> p, ev |-> << >>, ok |-> FALSE]
=============================================================================
