---------------------------- MODULE OkxConnector ----------------------------
(***************************************************************************)
(* src/src/exchanges/okx.rs: a connector without synchronization of its    *)
(* own, and a processor that follows the chain of prevSeqId.               *)
(***************************************************************************)
EXTENDS MarketFrames

New == [status |-> "Disconnected"]
Connect(c) == [c EXCEPT !.status = "Connected"]
Subscribe(c) == [c EXCEPT !.status = "Subscribed"]

\* Every frame that is neither text nor the end of the stream returns None.
NextMessage(c, f) ==
  CASE f.kind \in {"close", "eof"} -> None_([c EXCEPT !.status = "Disconnected"])
    [] f.kind = "ping" -> None_(c)
    [] f.kind = "fault" -> Error([c EXCEPT !.status = "Error"])
    [] OTHER -> Hand(c)

\* OkxProcessor: last_seq_id, 0 for none.
NewProcessor == 0

\* The events of one depth message are taken in turn: the first whose
\* prevSeqId is known and is not last_seq_id fails the whole message, with
\* last_seq_id at the event before it. `chained` tells whether the channel
\* carries prevSeqId.
Gap(p, es, i) == LET last == IF i = 1 THEN p ELSE FinalId(es[i - 1])
                 IN last # 0 /\ PrevId(es[i]) # last
Gaps(p, es) == {i \in 1 .. Len(es) : Gap(p, es, i)}
FirstGap(p, es) == CHOOSE i \in Gaps(p, es) : \A j \in Gaps(p, es) : i <= j

\* The time stamp of an event is read before its seqId, price and size after it.
Reached(f) == IF f.bad = "time" THEN SubSeq(f.ev, 1, Len(f.ev) - 1) ELSE f.ev
Following(p, es) == IF es = << >> THEN p ELSE FinalId(es[Len(es)])

ProcessMessage(p, f, chained) ==
  CASE f.kind = "ack" -> Updates(p, << >>)
    [] f.kind = "error" \/ (f.kind = "data" /\ f.bad = "text") -> Failure(p)
    [] f.kind = "data" /\ f.bad # "text" /\ chained /\ Gaps(p, Reached(f)) # {} ->
         LET i == FirstGap(p, Reached(f))
         IN Failure(IF i = 1 THEN p ELSE FinalId(f.ev[i - 1]))
    [] OTHER -> IF f.bad = "none" THEN Updates(FinalId(LastEvent(f)), f.ev)
                ELSE Failure(Following(p, Reached(f)))

\* A trade whose side is unknown is left out, any other defect takes the trades of
\* its message with it; acknowledgements and errors are logged only. Mutant: an
\* unknown side is a defect like the others.
ProcessTradeMessageStrictly(p, f) ==
  CASE f.kind # "data" -> Updates(p, << >>)
    [] f.kind = "data" /\ f.bad = "none" -> Updates(p, f.ev)
    [] OTHER -> Failure(p)
ProcessTradeMessage(p, f) ==
  CASE f.kind # "data" -> Updates(p, << >>)
    [] f.kind = "data" /\ f.bad = "none" -> Updates(p, f.ev)
    [] f.kind = "data" /\ f.bad = "side" -> Updates(p, SubSeq(f.ev, 1, Len(f.ev) - 1))
    [] OTHER -> Failure(p)
=============================================================================
