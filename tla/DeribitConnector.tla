-------------------------- MODULE DeribitConnector --------------------------
(***************************************************************************)
(* src/src/exchanges/deribit.rs: requests and market data share one        *)
(* WebSocket; while a request waits for its answer, send_rpc_request reads *)
(* the frames itself and throws away what they carry.                      *)
(***************************************************************************)
EXTENDS MarketFrames

New == [status |-> "Disconnected", active |-> FALSE, next_id |-> 1, pending |-> {}, waiting |-> 0]
Connect(c) == [c EXCEPT !.status = "Connected"]

\* send_rpc_request, up to its loop.
SendRpc(c) == [c EXCEPT !.next_id = @ + 1, !.pending = @ \cup {c.next_id}, !.waiting = c.next_id]
Answer(k, id) == [Control(k) EXCEPT !.ev = <<id>>]

\* process_message. Market data of a channel that is not in
\* active_subscriptions is ignored. A heartbeat parses as an RPC response, all
\* of whose fields are optional, and is not answered. None stands for "no
\* market data in this frame" as well as for "no more frames".
ProcessFrame(c, f) ==
  CASE f.kind = "data" -> IF c.active THEN Hand(c) ELSE None_(c)
    [] f.kind \in {"ack", "error"} -> None_([c EXCEPT !.pending = @ \ {f.ev[1]}])
    [] f.kind = "close" -> None_([c EXCEPT !.status = "Disconnected"])
    [] OTHER -> None_(c)

NextMessage(c, f) == IF f.kind = "fault" THEN Error(c) ELSE ProcessFrame(c, f)

\* The loop of send_rpc_request: a frame is processed and dropped; the answer
\* ends the wait; the time-out forgets the request; a socket that fails or ends
\* leaves it pending. A close frame does not end the wait, what follows does.
AwaitFrame(c, f) ==
  IF f.kind \in {"fault", "eof"} THEN Error([c EXCEPT !.waiting = 0])
  ELSE LET d == ProcessFrame(c, f).conn
           over == [d EXCEPT !.waiting = 0]
       IN IF c.waiting \in d.pending THEN Again(d)
          ELSE IF f.kind = "error" THEN Error(over) ELSE Hand(over)
AwaitTimeout(c) == [c EXCEPT !.pending = @ \ {c.waiting}, !.waiting = 0]

\* subscribe_*_internal inserts the channel after the answer.
Subscribed(c) == [c EXCEPT !.active = TRUE]

\* DeribitProcessor: each notification stands alone, change_id is not chained.
ProcessMessage(p, f) == IF f.bad = "none" THEN Updates(p, f.ev) ELSE Failure(p)
=============================================================================
