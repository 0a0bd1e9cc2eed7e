--------------------------- MODULE UnifiedHandler ---------------------------
(***************************************************************************)
(* The task of one subscription, src/src/md/unified_handler.rs, on the     *)
(* connector and processor of its exchange: connect, validate, subscribe,  *)
(* fetch a snapshot, then read, process and send until something ends it.  *)
(* Nothing starts it again.                                                *)
(*                                                                         *)
(* The server is external. It may leave events out (a slow consumer), send *)
(* a frame that does not convert, a control frame, or end the stream; it   *)
(* never reorders. A REST snapshot may be older than the stream.           *)
(***************************************************************************)
EXTENDS Connectors, FiniteSets

CONSTANTS
  Subscriptions,  \* the subscriptions to choose from
  MaxEvent,       \* bound on the events at the exchange
  MaxSock,        \* bound on the frames in the socket
  MaxFaults       \* bound on skips, bad and control frames and the loss of the receiver, together

VARIABLES
  sub,                 \* the subscription
  pc, conn, proc,      \* where the task is, its connector and its processor
  todo,                \* updates of the message at hand that are not sent yet
  out,                 \* updates sent downstream
  cancelled, dropped,  \* the token is cancelled; the receiver is dropped
  sock, wire,          \* frames under way; the socket is "down" or "up"
  controls,            \* kinds of control frames the server sent
  market, start, sent, \* events at the exchange: all, when subscribed, sent
  answered,            \* the last request Deribit answered
  skipped, spoilt, early,  \* events left out, in bad frames, sent before the answer
  unlinked,            \* events whose seqId OKX's processor cannot take
  faults,              \* how many of MaxFaults were used
  snap                 \* lastUpdateId of the snapshot, 0 before

taskVars == <<sub, pc, conn, proc, todo, out>>
serverVars ==
  <<wire, controls, market, start, sent, answered, skipped, spoilt, early, unlinked, faults>>
vars == <<taskVars, cancelled, dropped, sock, serverVars, snap>>

v == sub.venue
Listening == start # 0
Open == wire = "up" /\ controls \cap Ending = {}
Reading == pc = "loop" /\ todo = << >> /\ sock # << >>

Init ==
  /\ sub \in Subscriptions
  /\ pc = "connect" /\ conn = create_connector(sub.venue) /\ proc = create_processor
  /\ todo = << >> /\ out = << >> /\ cancelled = FALSE /\ dropped = FALSE
  /\ sock = << >> /\ wire = "down" /\ controls = {} /\ market = 0 /\ start = 0 /\ sent = 0 /\ answered = 0
  /\ skipped = {} /\ spoilt = {} /\ early = {} /\ unlinked = {} /\ faults = 0 /\ snap = 0

End(cause) == pc' = cause

(***************************************************************************)
(* The exchange. `start` is one more than the events before the            *)
(* subscription, so that 0 says there is none.                             *)
(***************************************************************************)
Happen ==
  /\ market < MaxEvent /\ market' = market + 1
  /\ UNCHANGED <<taskVars, cancelled, dropped, sock, snap, wire, controls, start, sent, answered,
                 skipped, spoilt, early, unlinked, faults>>

SendFrame(es, bad) ==
  LET left == (sent + 1 .. es[Len(es)]) \ Covered(es)
      cost == Cardinality(left) + (IF bad = "none" THEN 0 ELSE 1)
  IN /\ Listening /\ Open /\ Len(sock) < MaxSock
     /\ es[Len(es)] <= market /\ faults + cost <= MaxFaults
     /\ sock' = Append(sock, Data(es, bad))
     /\ sent' = es[Len(es)] /\ faults' = faults + cost
     /\ skipped' = skipped \cup left
     /\ spoilt' = spoilt \cup Spoilt(sub, es, bad)
     /\ unlinked' = unlinked \cup Unlinked(sub, es, bad)
     /\ early' = IF v = "deribit" /\ answered < 3 THEN early \cup Covered(es) ELSE early
     /\ UNCHANGED <<taskVars, cancelled, dropped, snap, wire, controls, market, start,
                    answered>>

SendControl(k) ==
  /\ Open /\ Len(sock) < MaxSock /\ faults < MaxFaults
  /\ sock' = sock \o Frames(k) /\ faults' = faults + 1
  /\ controls' = controls \cup {k}
  /\ UNCHANGED <<taskVars, cancelled, dropped, snap, wire, market, start, sent, answered,
                 skipped, spoilt, early, unlinked>>

AnswerRpc(k) ==
  /\ Open /\ v = "deribit" /\ conn.waiting > answered
  /\ k = "error" => faults < MaxFaults
  /\ answered' = conn.waiting /\ sock' = Append(sock, Deribit!Answer(k, conn.waiting))
  /\ faults' = IF k = "error" THEN faults + 1 ELSE faults
  /\ UNCHANGED <<taskVars, cancelled, dropped, snap, wire, controls, market, start, sent,
                 skipped, spoilt, early, unlinked>>

Exchange ==
  \/ Happen
  \/ \E es \in Batches(v, sent), bad \in Defects(sub) : SendFrame(es, bad)
  \/ \E k \in ControlFrames(v) : SendControl(k)
  \/ \E k \in {"ack", "error"} : AnswerRpc(k)

(***************************************************************************)
(* The task.                                                               *)
(***************************************************************************)
quietVars == <<sub, proc, todo, out, cancelled, dropped, controls, market,
               answered, skipped, spoilt, early, unlinked, faults>>

\* A step that opens or uses the network may fail; run() returns the error.
Fail ==
  /\ pc \in {"connect", "validate", "subscribe"} \/ (pc = "snapshot" /\ v # "deribit")
  /\ ~ (v = "binance" /\ pc \in {"connect", "validate"})
  /\ End("failed") /\ UNCHANGED <<quietVars, conn, sock, wire, start, sent, snap>>

\* Binance opens its socket when it subscribes. Deribit authenticates and asks
\* for heartbeats before connect() returns.
ConnectStep ==
  /\ pc = "connect"
  /\ CASE v = "binance" -> pc' = "validate" /\ conn' = Binance!Connect(conn) /\ UNCHANGED wire
       [] v = "okx" -> pc' = "validate" /\ conn' = Okx!Connect(conn) /\ wire' = "up"
       [] OTHER -> pc' = "auth" /\ conn' = Deribit!SendRpc(Deribit!Connect(conn)) /\ wire' = "up"
  /\ UNCHANGED <<quietVars, sock, start, sent, snap>>

Validate ==
  /\ pc = "validate" /\ pc' = "subscribe"
  /\ UNCHANGED <<quietVars, conn, sock, wire, start, sent, snap>>

AfterSubscribe == IF sub.stream = "L2" THEN "snapshot" ELSE "loop"

\* The server sends what happens from now on.
Subscribe ==
  /\ pc = "subscribe" /\ start' = market + 1 /\ sent' = market
  /\ CASE v = "binance" -> /\ pc' = AfterSubscribe /\ wire' = "up"
                           /\ conn' = IF sub.stream = "L2" THEN Binance!SubscribeL2(conn)
                                      ELSE Binance!SubscribeTrades(conn)
       [] v = "okx" -> pc' = AfterSubscribe /\ conn' = Okx!Subscribe(conn) /\ UNCHANGED wire
       [] OTHER -> pc' = "asked" /\ conn' = Deribit!SendRpc(conn) /\ UNCHANGED wire
  /\ UNCHANGED <<quietVars, sock, snap>>

\* What follows the answer to a request.
Answered(c) ==
  CASE pc = "auth" -> pc' = "heartbeat" /\ conn' = Deribit!SendRpc(c)
    [] pc = "heartbeat" -> pc' = "validate" /\ conn' = c
    [] OTHER -> pc' = AfterSubscribe /\ conn' = Deribit!Subscribed(c)

\* send_rpc_request reads one frame while it waits.
AwaitFrame ==
  /\ pc \in {"auth", "heartbeat", "asked"} /\ sock # << >>
  /\ LET r == Deribit!AwaitFrame(conn, Head(sock))
     IN CASE r.ret = "error" -> End("failed") /\ conn' = r.conn
          [] r.ret = "again" -> UNCHANGED pc /\ conn' = r.conn
          [] OTHER -> Answered(r.conn)
  /\ sock' = Tail(sock) /\ UNCHANGED <<quietVars, wire, start, sent, snap>>

AwaitTimeout ==
  /\ pc \in {"auth", "heartbeat", "asked"}
  /\ conn' = Deribit!AwaitTimeout(conn) /\ End("failed")
  /\ UNCHANGED <<quietVars, sock, wire, start, sent, snap>>

\* get_snapshot, prepare_l2_sync and the replay. Only the id of the snapshot
\* is used; Deribit's is empty.
FetchSnapshot(id) ==
  LET r == take_l2_replay_messages(v, prepare_l2_sync(v, conn, id))
  IN /\ pc = "snapshot" /\ pc' = "loop" /\ snap' = id
     /\ conn' = r.conn /\ todo' = r.msgs
     /\ UNCHANGED <<sub, proc, out, cancelled, dropped, sock, serverVars>>

\* One turn of the loop that reads a frame. A message that fails in the
\* processor is logged.
ReadFrame ==
  /\ Reading
  /\ LET r == next_message(v, conn, Head(sock))
         u == process_unified_message(sub, proc, Head(sock))
     IN /\ conn' = r.conn
        /\ CASE r.ret = "message" -> proc' = u.proc /\ todo' = u.ev /\ UNCHANGED pc
             [] r.ret = "again" -> UNCHANGED <<proc, todo, pc>>
             [] r.ret = "none" -> End("ended") /\ UNCHANGED <<proc, todo>>
             [] OTHER -> End("failed") /\ UNCHANGED <<proc, todo>>
  /\ sock' = Tail(sock) /\ UNCHANGED <<sub, out, cancelled, dropped, serverVars, snap>>

\* The updates of a message are sent one by one; the token is not looked at
\* in between.
SendUpdate ==
  /\ pc = "loop" /\ todo # << >>
  /\ IF dropped THEN End("failed") /\ UNCHANGED <<out, todo>>
     ELSE UNCHANGED pc /\ out' = Append(out, Head(todo)) /\ todo' = Tail(todo)
  /\ UNCHANGED <<sub, conn, proc, cancelled, dropped, sock, serverVars, snap>>

Stop ==
  /\ pc = "loop" /\ todo = << >> /\ cancelled /\ End("cancelled")
  /\ UNCHANGED <<sub, conn, proc, todo, out, cancelled, dropped, sock, serverVars, snap>>

Cancel ==
  /\ ~ cancelled /\ cancelled' = TRUE
  /\ UNCHANGED <<taskVars, dropped, sock, serverVars, snap>>
DropReceiver ==
  /\ ~ dropped /\ dropped' = TRUE /\ faults < MaxFaults /\ faults' = faults + 1
  /\ UNCHANGED <<taskVars, cancelled, sock, snap, wire, controls, market, start, sent, answered,
                 skipped, spoilt, early, unlinked>>

SnapshotIds == IF v = "deribit" THEN {0} ELSE 0 .. FinalId(market)
Task ==
  \/ ConnectStep \/ Validate \/ Subscribe \/ AwaitFrame \/ AwaitTimeout
  \/ (\E id \in SnapshotIds : FetchSnapshot(id))
Loop == ReadFrame \/ SendUpdate \/ Stop

Next == Exchange \/ Fail \/ Task \/ Loop \/ Cancel \/ DropReceiver
Spec == Init /\ [][Next]_vars

(***************************************************************************)
(* Properties.                                                             *)
(***************************************************************************)
OnWire == UNION {Covered(sock[i].ev) : i \in {j \in 1 .. Len(sock) : sock[j].kind = "data"}}
Sequenced == sub.stream = "L2" /\ (v = "binance" \/ (v = "okx" /\ sub.chained))

TypeOK ==
  /\ sub \in Subscriptions
  /\ pc \in {"connect", "auth", "heartbeat", "validate", "subscribe", "asked", "snapshot",
            "loop", "ended", "failed", "cancelled", "aborted"}
  /\ proc \in 0 .. FinalId(MaxEvent) /\ wire \in {"down", "up"}
  /\ v = "binance" => conn.sync \in Binance!SyncState \ {"Resynchronizing"}
  /\ v = "deribit" => conn.pending \subseteq {conn.waiting} \/ pc = "failed"
  /\ \A i \in 1 .. Len(out) : out[i] \in 1 .. MaxEvent
  /\ Covered(todo) \cap Covered(out) = {}

\* What goes downstream is in the order of the exchange, without repetition.
\* Where the stream is sequenced (Binance's pu, OKX's prevSeqId), a diff is
\* missing between two others only if it came in a frame that did not convert:
\* the checks of next_message and process_message never bridge a diff the
\* server left out.
Gapless ==
  \A i \in 1 .. Len(out) - 1 :
    /\ out[i] < out[i + 1]
    /\ Sequenced => (out[i] + 1 .. out[i + 1] - 1) \subseteq spoilt

\* While the loop runs, an event that left the socket was handed on, or its
\* message did not convert, or Binance's snapshot has it already, or it came
\* before Deribit's answer, or it is behind a gap in OKX's chain, which an event
\* makes that was left out or whose seqId the processor could not take, or in the
\* message that shows the gap. Nothing else is lost between the socket and the
\* output.
Accounted ==
  pc = "loop" =>
    \A e \in start .. sent :
      \/ e \in skipped \cup spoilt \cup early \cup OnWire \cup Covered(out) \cup Covered(todo)
      \/ v = "binance" /\ FinalId(e) <= snap
      \/ v = "okx" /\ Sequenced /\ (skipped \cup unlinked) \cap (start .. e + 1) # {}

\* The diffs that arrive while Binance's snapshot is fetched wait in the
\* socket: if the server left none out and the snapshot reaches back to the
\* stream, the first diff sent downstream covers the id after the snapshot.
SnapshotBridged ==
  v = "binance" /\ sub.stream = "L2" /\ out # << >> /\ snap + 1 >= FirstId(start)
    => LET missing == (start .. out[1] - 1) \cap (skipped \cup spoilt)
       IN \/ FirstId(out[1]) <= snap + 1 /\ FinalId(out[1]) >= snap + 1
          \/ \E e \in missing : FinalId(e) > snap

\* Without an error and a cancellation a task ends only after the server has
\* ended the stream, but on OKX and Deribit also when a frame came that carries
\* no market data: a ping, or Deribit's heartbeat.
EndExplained ==
  pc = "ended" =>
    controls \cap (Ending \cup (IF v = "binance" THEN {} ELSE {"ping", "heartbeat"})) # {}
=============================================================================
