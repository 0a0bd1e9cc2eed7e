----------------------------- MODULE Connectors -----------------------------
(***************************************************************************)
(* ConnectorFactory, ProcessorFactory and the traits of                    *)
(* src/src/exchanges/mod.rs: the exchange of a subscription decides which  *)
(* connector and which processor its streams go through.                   *)
(***************************************************************************)
EXTENDS MarketFrames

CONSTANT MAX_BUFFERED_UPDATES

Binance == INSTANCE BinanceConnector
Okx == INSTANCE OkxConnector
Deribit == INSTANCE DeribitConnector

Venue == {"binance", "okx", "deribit"}

\* A subscription; `chained` tells whether OKX's channel carries prevSeqId.
Subscription == [venue : Venue, stream : {"L2", "Trade"}, chained : BOOLEAN]

create_connector(v) ==
  CASE v = "binance" -> Binance!New [] v = "okx" -> Okx!New [] OTHER -> Deribit!New

\* OkxProcessor's last_seq_id is the one thing a processor remembers.
create_processor == Okx!NewProcessor

next_message(v, c, f) ==
  CASE v = "binance" -> Binance!NextMessage(c, f)
    [] v = "okx" -> Okx!NextMessage(c, f)
    [] OTHER -> Deribit!NextMessage(c, f)

\* Only Binance reconciles: for the others these do nothing.
prepare_l2_sync(v, c, snapshot) ==
  IF v = "binance" THEN Binance!PrepareL2Sync(c, snapshot) ELSE c
take_l2_replay_messages(v, c) ==
  IF v = "binance" THEN Binance!TakeReplay(c) ELSE [conn |-> c, msgs |-> << >>]

process_message(sub, p, f) ==
  CASE sub.venue = "binance" -> Binance!ProcessMessage(p, f)
    [] sub.venue = "okx" -> Okx!ProcessMessage(p, f, sub.chained)
    [] OTHER -> Deribit!ProcessMessage(p, f)

process_trade_message(sub, p, f) ==
  CASE sub.venue = "binance" -> Binance!ProcessTradeMessage(p, f)
    [] sub.venue = "okx" -> Okx!ProcessTradeMessage(p, f)
    [] OTHER -> Deribit!ProcessMessage(p, f)

process_unified_message(sub, p, f) ==
  IF sub.stream = "Trade" THEN process_trade_message(sub, p, f) ELSE process_message(sub, p, f)

\* Frames an exchange may put between the events. Binance is subscribed by
\* the URL and answers nothing.
ControlFrames(v) ==
  CASE v = "binance" -> {"ping", "close", "eof", "fault"}
    [] v = "okx" -> {"ack", "error", "ping", "close", "eof", "fault"}
    [] OTHER -> {"heartbeat", "ping", "close", "eof", "fault"}
Ending == {"close", "eof", "fault"}
Frames(k) == IF k = "close" THEN <<Control("close"), Control("eof")>> ELSE <<Control(k)>>

\* The events a server whose last one was s may put in its next frame: it may
\* leave one out, and OKX and Deribit may batch two.
Batches(v, s) ==
  {<<s + 1>>, <<s + 2>>} \cup (IF v = "binance" THEN {} ELSE {<<s + 1, s + 2>>, <<s + 1, s + 3>>})
Covered(es) == {es[i] : i \in 1 .. Len(es)}

\* The defects that the connector and the processor tell apart.
Defects(sub) ==
  {"none", "number"} \cup
    CASE sub.venue = "binance" /\ sub.stream = "L2" -> {"text"}
      [] sub.venue = "okx" /\ sub.stream = "L2" /\ sub.chained -> {"text", "time"}
      [] sub.venue = "okx" /\ sub.stream = "Trade" -> {"side"}
      [] OTHER -> {}

\* The events of a bad frame that cannot come through: all of them, but for an
\* OKX trade with an unknown side, which is skipped alone.
Spoilt(sub, es, bad) ==
  CASE bad = "none" -> {}
    [] sub.venue = "okx" /\ sub.stream = "Trade" /\ bad = "side" -> {es[Len(es)]}
    [] OTHER -> Covered(es)

\* Those whose seqId OKX's processor does not come to take.
Unlinked(sub, es, bad) ==
  IF sub.venue # "okx" \/ sub.stream # "L2" THEN {}
  ELSE CASE bad = "text" -> Covered(es) [] bad = "time" -> {es[Len(es)]} [] OTHER -> {}
=============================================================================
