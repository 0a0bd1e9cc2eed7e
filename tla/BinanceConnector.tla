-------------------------- MODULE BinanceConnector --------------------------
(***************************************************************************)
(* src/src/exchanges/binance.rs: the connector that reconciles a REST      *)
(* snapshot with the diffs of its WebSocket, and the processor. The        *)
(* operators transform the connector's fields; who calls them, and when,   *)
(* is up to UnifiedHandler and LatencyArb.                                 *)
(***************************************************************************)
EXTENDS MarketFrames

CONSTANT MAX_BUFFERED_UPDATES
SyncState == {"Disconnected", "Connecting", "BufferingUpdates", "Synchronizing",
              "Synchronized", "Resynchronizing", "TradeStream"}
New == [status |-> "Disconnected", sync |-> "Disconnected", last |-> 0, buffer |-> << >>]

Connect(c) == [c EXCEPT !.status = "Connected", !.sync = "Connecting"]

\* subscribe_l2 keeps the state of a connector that has been synchronized.
SubscribeL2(c) ==
  IF c.sync \in {"Disconnected", "Connecting"}
  THEN [c EXCEPT !.sync = "BufferingUpdates"] ELSE c
SubscribeTrades(c) == [c EXCEPT !.sync = "TradeStream", !.status = "Connected"]

\* prepare_l2_sync leaves the buffer to take_l2_replay_messages.
PrepareL2Sync(c, snapshot) == [c EXCEPT !.sync = "Synchronizing", !.last = snapshot]

\* process_buffered_updates: what is newer than the snapshot stays; from there
\* a diff that covers the next id empties the buffer into `valid`, one beyond
\* it is a gap.
Newer(c) == SelectSeq(c.buffer, LAMBDA e : FinalId(e) > c.last)
NothingNewer(c) == \A i \in 1 .. Len(c.buffer) : FinalId(c.buffer[i]) <= c.last
ProcessBuffered(c) ==
  IF NothingNewer(c)
  THEN [conn |-> [c EXCEPT !.buffer = << >>], valid |-> << >>, gap |-> FALSE]
  ELSE LET rest == Newer(c)
       IN IF FirstId(rest[1]) <= c.last + 1
          THEN [conn |-> [c EXCEPT !.buffer = << >>], valid |-> rest, gap |-> FALSE]
          ELSE [conn |-> [c EXCEPT !.buffer = rest, !.sync = "Resynchronizing"],
                valid |-> << >>, gap |-> TRUE]

\* take_l2_replay_messages encodes what ProcessBuffered left in the buffer: of
\* the diffs in `valid` nothing is replayed.
TakeReplay(c) ==
  IF c.sync # "Synchronizing" THEN [conn |-> c, msgs |-> << >>]
  ELSE LET r == ProcessBuffered(c)
       IN IF r.gap THEN [conn |-> r.conn, msgs |-> << >>]
          ELSE [conn |-> [r.conn EXCEPT !.buffer = << >>], msgs |-> r.conn.buffer]

Trimmed(b) ==
  IF Len(b) > MAX_BUFFERED_UPDATES
  THEN SubSeq(b, Len(b) - MAX_BUFFERED_UPDATES + 1, Len(b)) ELSE b

\* Mutants: the diff that straddles the snapshot is old; a diff may follow any
\* older one; a frame that is not text ends the stream.
OldByFirstId(c, e) == FirstId(e) <= c.last
Old(c, e) == FinalId(e) <= c.last
ContinuesAny(c, e) == PrevId(e) >= c.last
Continues(c, e) == PrevId(e) = c.last
NotTextEnds(c) == None_(c)
NotText(c) == Again(c)

\* A depth diff. While it synchronizes, the connector takes any diff that ends
\* beyond the snapshot, whether or not one between them is missing.
DepthUpdate(c, e) ==
  LET synced == [c EXCEPT !.sync = "Synchronized", !.last = FinalId(e)]
  IN CASE c.sync = "BufferingUpdates" ->
            Again([c EXCEPT !.buffer = Trimmed(Append(@, e))])
       [] c.sync = "Synchronizing" ->
            IF Old(c, e) THEN Again(c) ELSE Hand(synced)
       [] c.sync = "Synchronized" ->
            IF Continues(c, e) THEN Hand(synced) ELSE Error(c)
       [] OTHER -> Error(c)

NextMessage(c, f) ==
  CASE f.kind = "data" /\ f.bad # "text" /\ c.sync # "TradeStream" -> DepthUpdate(c, f.ev[1])
    [] f.kind = "ping" -> NotText(c)
    [] f.kind = "close" ->
         None_([c EXCEPT !.status = "Disconnected", !.sync = "Disconnected"])
    [] f.kind = "eof" -> None_([c EXCEPT !.status = "Disconnected"])
    [] f.kind = "fault" -> Error([c EXCEPT !.status = "Failed"])
    [] OTHER -> Hand(c)

\* BinanceProcessor keeps nothing from one message to the next but counters.
ProcessMessage(p, f) ==
  CASE f.kind # "data" -> Updates(p, << >>)
    [] f.kind = "data" /\ f.bad = "none" -> Updates(p, f.ev)
    [] OTHER -> Failure(p)

\* A text that is not a trade does not parse as one.
ProcessTradeMessage(p, f) ==
  IF f.kind = "data" /\ f.bad = "none" THEN Updates(p, f.ev) ELSE Failure(p)
=============================================================================
