------------------------ MODULE UnifiedHandlerProofs ------------------------
(***************************************************************************)
(* Proofs about the handler of one subscription, as the subscription       *)
(* manager runs it: for every plan, any number of events and of faults.    *)
(*                                                                         *)
(* An event leaves the exchange in a frame, waits in the socket, is read,  *)
(* checked and converted, waits in `todo` and goes out. The invariant says *)
(* for each of these places which events can be there and in what order,   *)
(* and, while the loop runs, how the connector's or the processor's last   *)
(* id relates to the events that have been read.                           *)
(***************************************************************************)
EXTENDS SubscriptionManager, SequenceTheorems, TLAPS

Covered(es) == Handler!Covered(es)
Handed == Covered(out) \cup Covered(todo)
Carried(q) == {e \in Nat : \E i \in 1 .. Len(q) : q[i].kind = "data" /\ e \in Covered(q[i].ev)}

Kinds == {"data"} \cup Handler!ControlFrames(sub.venue)
         \cup (IF sub.venue = "deribit" THEN {"ack", "error"} ELSE {})
Frame == [kind : Kinds, ev : Seq(Nat), bad : Handler!Defect]

\* The events of a data frame: one or two, in order.
Batch(venue, es) ==
  /\ es \in Seq(Nat) /\ Len(es) \in 1 .. 2
  /\ Len(es) = 2 => es[1] < es[2] /\ venue # "binance"

\* What a bad frame loses has been recorded.
Recorded(sb, f, lost, cut) ==
  /\ Handler!Spoilt(sb, f.ev, f.bad) \subseteq lost
  /\ Handler!Unlinked(sb, f.ev, f.bad) \subseteq cut

Increasing(s) == \A i, j \in 1 .. Len(s) : i < j => s[i] < s[j]
Below(S, T) == \A a \in S, b \in T : a < b

Live == {"connect", "auth", "heartbeat", "validate", "subscribe", "asked", "snapshot", "loop"}
Before == {"connect", "auth", "heartbeat", "validate", "subscribe"}

HandlerTypes ==
  /\ sub \in Handler!Subscription
  /\ pc \in Live \cup {"ended", "failed", "cancelled", "aborted"}
  /\ sock \in Seq(Frame) /\ out \in Seq(Nat) /\ todo \in Seq(Nat)
  /\ market \in Nat /\ start \in Nat /\ sent \in Nat /\ sent <= market /\ snap \in Nat /\ answered \in Nat
  /\ start <= sent + 1 /\ (start = 0 => sent = 0)

\* What is where, in the order of the exchange.
SockOrdered ==
  \A i \in 1 .. Len(sock) : sock[i].kind = "data" =>
    /\ Batch(sub.venue, sock[i].ev) /\ Covered(sock[i].ev) \subseteq start .. sent /\ start # 0
    /\ Recorded(sub, sock[i], spoilt, unlinked)
    /\ \A j \in 1 .. i - 1 : sock[j].kind = "data" => Below(Covered(sock[j].ev), Covered(sock[i].ev))
HandedOrdered ==
  /\ Increasing(out) /\ Increasing(todo) /\ Below(Covered(out), Covered(todo))
  /\ Below(Handed, Carried(sock)) /\ Handed \subseteq start .. sent
  /\ Handed # {} => start # 0

\* Where the task is says how far the subscription has come.
Phased ==
  /\ pc \in Before => start = 0
  /\ pc \in {"asked", "snapshot", "loop"} => start # 0
  /\ pc \in Live \ {"loop"} => out = << >> /\ todo = << >>
  /\ pc = "snapshot" => sub.stream = "L2"
  /\ pc \in {"auth", "heartbeat", "asked"} => sub.venue = "deribit"

\* Control frames in the socket are among those the server sent; a stream ends
\* after a close frame, too.
Controlled ==
  \A i \in 1 .. Len(sock) : sock[i].kind \notin {"data", "ack", "error"} =>
    sock[i].kind \in controls \/ (sock[i].kind = "eof" /\ "close" \in controls)

(***************************************************************************)
(* How the last id of a connector or a processor relates to what has been  *)
(* read.                                                                   *)
(***************************************************************************)
Sequenced == Handler!Sequenced

\* The server skipped what is neither in the socket nor before it.
WireGaps ==
  \A w \in Carried(sock), e \in Nat : w <= e /\ e <= sent => e \in skipped \cup Carried(sock)

\* Event p is the last that was read, and between the first update handed on
\* and p nothing is missing that converted.
Unbroken(p) ==
  /\ Below({p}, Carried(sock)) /\ \A h \in Handed : h <= p
  /\ \A h \in Handed, y \in Nat : h <= y /\ y <= p => y \in Handed \cup spoilt
Pending(p) == \A e \in p + 1 .. sent : e \in skipped \cup Carried(sock)

\* The event after p was skipped, or its id cannot be taken: no event continues the
\* chain any more.
Broken(p) == p + 1 \in skipped \cup unlinked /\ p + 1 <= sent /\ Below({p + 1}, Carried(sock))

Continuous ==
  Sequenced => \A h, z \in Handed, y \in Nat : h <= y /\ y <= z => y \in Handed \cup spoilt

BinanceRec ==
  [status : {"Disconnected", "Connected", "Failed"}, sync : Handler!Binance!SyncState, last : Nat,
   buffer : Seq(Nat)]
DeribitRec ==
  [status : {"Disconnected", "Connected"}, active : BOOLEAN, next_id : Nat, pending : SUBSET Nat,
   waiting : Nat]
ConnTypes ==
  /\ sub.venue = "binance" => conn \in BinanceRec
  /\ sub.venue = "okx" => conn \in [status : {"Disconnected", "Connected", "Subscribed", "Error"}]
  /\ sub.venue = "deribit" => conn \in DeribitRec

\* Nothing has been read since the subscription was asked for.
Unread == \A e \in start .. sent : e \in skipped \cup Carried(sock)

BinanceConn ==
  sub.venue = "binance" =>
    /\ pc = "connect" => conn = Handler!Binance!New
    /\ pc \in {"validate", "subscribe"} => conn.sync = "Connecting" /\ conn.buffer = << >>
    /\ pc = "snapshot" => conn.sync = "BufferingUpdates" /\ conn.buffer = << >> /\ Unread
    /\ pc = "loop" /\ sub.stream = "Trade" => conn.sync = "TradeStream"
    /\ pc = "loop" /\ sub.stream = "L2" =>
         \/ conn.sync = "Synchronizing" /\ conn.last = snap /\ Handed = {}
         \/ conn.sync = "Synchronized"
            /\ \E p \in Nat : conn.last = 2 * p /\ 2 * p > snap /\ p \in start .. sent /\ Unbroken(p)

OkxConn ==
  sub.venue = "okx" =>
    /\ pc \in Live \ {"loop"} /\ ~ plan.arb => proc = 0
    /\ pc = "loop" /\ Sequenced =>
         \/ proc = 0 /\ Handed = {}
         \/ \E p \in Nat :
              /\ proc = 2 * p /\ p \in start .. sent
              /\ Broken(p) \/ (Unbroken(p) /\ Pending(p))

\* Deribit answers each request once; what is before the answer to the
\* subscription is early.
IsAnswer(i) == sock[i].kind \in {"ack", "error"}
Asking == {"auth", "heartbeat", "asked"}
Request(at, id) ==
  pc = at =>
    /\ conn.waiting = id /\ conn.pending = {id} /\ conn.next_id = id + 1
    /\ answered \in {id - 1, id}
DeribitConn ==
  sub.venue = "deribit" =>
    /\ pc = "connect" => conn = Handler!Deribit!New /\ answered = 0
    /\ Request("auth", 1) /\ Request("heartbeat", 2) /\ Request("asked", 3)
    /\ pc \in {"validate", "subscribe"} =>
         conn.waiting = 0 /\ conn.pending = {} /\ conn.next_id = 3 /\ answered = 2
    /\ pc \in {"snapshot", "loop"} => conn.waiting = 0 /\ conn.active
    /\ pc \in Asking /\ answered = conn.waiting => \E i \in 1 .. Len(sock) : IsAnswer(i)
    /\ \A i \in 1 .. Len(sock) : IsAnswer(i) /\ pc \in Live =>
         /\ pc \in Asking /\ answered = conn.waiting /\ sock[i].ev = <<conn.waiting>>
         /\ \A j \in 1 .. Len(sock) : IsAnswer(j) => j = i
    /\ pc = "asked" => \A i \in 1 .. Len(sock) :
         sock[i].kind = "data" /\ (\A j \in 1 .. i - 1 : ~ IsAnswer(j)) => Covered(sock[i].ev) \subseteq early

\* Accounted, from the time the subscription was asked for, and what
\* SnapshotBridged says of the first update, of one that is still to be sent, too.
Explained(e) ==
  \/ e \in skipped \cup spoilt \cup early \cup Carried(sock) \cup Handed
  \/ sub.venue = "binance" /\ 2 * e <= snap
  \/ sub.venue = "okx" /\ Sequenced /\ \E d \in start .. e + 1 : d \in skipped \cup unlinked
AllExplained ==
  /\ pc \in {"asked", "snapshot", "loop"} => \A e \in start .. sent : Explained(e)
  /\ sub.venue # "deribit" => early = {}
Bridged ==
  sub.venue = "binance" /\ sub.stream = "L2" /\ snap + 2 >= 2 * start =>
    \A z \in Handed : (\A y \in Handed : z <= y) =>
      /\ 2 * z >= snap + 1
      /\ 2 * z <= snap + 2 \/ \E e \in start .. z - 1 : e \in skipped \cup spoilt /\ 2 * e > snap

PlanKept == plan \in Plans /\ sub = plan.sub /\ (plan.arb => pc = "connect")

HandlerInv ==
  /\ PlanKept /\ HandlerTypes /\ ConnTypes /\ SockOrdered /\ HandedOrdered /\ Phased /\ Controlled
  /\ WireGaps /\ Continuous /\ BinanceConn /\ OkxConn /\ DeribitConn /\ AllExplained /\ Bridged /\ EndExplained

LEMMA CoveredDef == ASSUME NEW es, NEW e PROVE e \in Covered(es) <=> \E i \in 1 .. Len(es) : es[i] = e
  BY DEF Covered, Handler!Covered

LEMMA CoveredTail ==
  ASSUME NEW s \in Seq(Nat), s # << >>
  PROVE  Covered(s) = {Head(s)} \cup Covered(Tail(s))
<1>1. /\ Head(s) = s[1] /\ Len(Tail(s)) = Len(s) - 1 /\ Len(s) \in Nat /\ Len(s) > 0
      /\ \A i \in 1 .. Len(Tail(s)) : Tail(s)[i] = s[i + 1]
  BY HeadTailProperties, EmptySeq
<1>2. ASSUME NEW e \in Covered(s) PROVE e \in {Head(s)} \cup Covered(Tail(s))
  <2>1. PICK i \in 1 .. Len(s) : s[i] = e
    BY <1>2, CoveredDef
  <2>2. CASE i # 1
    <3>1. i - 1 \in 1 .. Len(Tail(s)) /\ Tail(s)[i - 1] = e
      BY <1>1, <2>1, <2>2
    <3> QED
      BY <3>1, CoveredDef
  <2> QED
    BY <1>1, <2>1, <2>2
<1>3. ASSUME NEW e \in Covered(Tail(s)) PROVE e \in Covered(s)
  <2>1. PICK i \in 1 .. Len(Tail(s)) : Tail(s)[i] = e
    BY <1>3, CoveredDef
  <2>2. i + 1 \in 1 .. Len(s) /\ s[i + 1] = e
    BY <1>1, <2>1
  <2> QED
    BY <2>2, CoveredDef
<1>4. Head(s) \in Covered(s)
  BY <1>1, CoveredDef
<1> QED
  BY <1>2, <1>3, <1>4

LEMMA CoveredAppend ==
  ASSUME NEW s \in Seq(Nat), NEW x \in Nat
  PROVE  Covered(Append(s, x)) = Covered(s) \cup {x}
<1> DEFINE t == Append(s, x)
<1>1. /\ Len(t) = Len(s) + 1 /\ Len(s) \in Nat
      /\ \A i \in 1 .. Len(s) : t[i] = s[i]
      /\ t[Len(s) + 1] = x
  BY AppendProperties
<1> HIDE DEF t
<1>2. ASSUME NEW e \in Covered(t) PROVE e \in Covered(s) \/ e = x
  <2>1. PICK i \in 1 .. Len(s) + 1 : t[i] = e
    BY <1>1, <1>2, CoveredDef
  <2>2. i \in 1 .. Len(s) \/ i = Len(s) + 1
    BY <1>1
  <2> QED
    BY <1>1, <2>1, <2>2, CoveredDef
<1>3. ASSUME NEW e \in Covered(s) PROVE e \in Covered(t)
  <2>1. PICK i \in 1 .. Len(s) : s[i] = e
    BY <1>3, CoveredDef
  <2> QED
    BY <1>1, <2>1, CoveredDef
<1>4. x \in Covered(t)
  <2>1. Len(s) + 1 \in 1 .. Len(t)
    BY <1>1
  <2> QED
    BY <1>1, <2>1, CoveredDef
<1> QED
  BY <1>2, <1>3, <1>4 DEF t

LEMMA CoveredEmpty == Covered(<< >>) = {}
  BY DEF Covered, Handler!Covered

LEMMA CarriedDef ==
  ASSUME NEW q, NEW e
  PROVE  e \in Carried(q) <=>
           e \in Nat /\ \E i \in 1 .. Len(q) : q[i].kind = "data" /\ e \in Covered(q[i].ev)
  BY DEF Carried

\* What a socket carries once its first frame has been read.
LEMMA CarriedTail ==
  ASSUME NEW q \in Seq(Frame), q # << >>
  PROVE  /\ Head(q) \in Frame /\ Tail(q) \in Seq(Frame)
         /\ Carried(Tail(q)) \subseteq Carried(q)
         /\ Head(q).kind # "data" => Carried(q) = Carried(Tail(q))
         /\ Head(q).kind = "data" => Carried(q) = Covered(Head(q).ev) \cup Carried(Tail(q))
<1>1. /\ Head(q) = q[1] /\ Len(Tail(q)) = Len(q) - 1 /\ Len(q) \in Nat /\ Len(q) > 0
      /\ Head(q) \in Frame /\ Tail(q) \in Seq(Frame)
      /\ \A i \in 1 .. Len(Tail(q)) : Tail(q)[i] = q[i + 1]
  BY HeadTailProperties, EmptySeq
<1>2. ASSUME NEW e \in Carried(Tail(q)) PROVE e \in Carried(q)
  <2>1. PICK i \in 1 .. Len(Tail(q)) : Tail(q)[i].kind = "data" /\ e \in Covered(Tail(q)[i].ev)
    BY <1>2, CarriedDef
  <2>2. i + 1 \in 1 .. Len(q) /\ q[i + 1] = Tail(q)[i]
    BY <1>1
  <2> QED
    BY <1>2, <2>1, <2>2, CarriedDef
<1>3. ASSUME NEW e \in Carried(q)
      PROVE  e \in Carried(Tail(q)) \/ (Head(q).kind = "data" /\ e \in Covered(Head(q).ev))
  <2>1. PICK i \in 1 .. Len(q) : q[i].kind = "data" /\ e \in Covered(q[i].ev)
    BY <1>3, CarriedDef
  <2>2. CASE i # 1
    <3>1. i - 1 \in 1 .. Len(Tail(q)) /\ Tail(q)[i - 1] = q[i]
      BY <1>1, <2>2
    <3> QED
      BY <1>3, <2>1, <3>1, CarriedDef
  <2> QED
    BY <1>1, <2>1, <2>2
<1>4. ASSUME NEW e \in Covered(Head(q).ev), Head(q).kind = "data" PROVE e \in Carried(q)
  <2>1. Head(q).ev \in Seq(Nat)
    BY <1>1 DEF Frame
  <2>2. e \in Nat
    BY <1>4, <2>1, CoveredDef
  <2> QED
    BY <1>1, <1>4, <2>2, CarriedDef
<1> QED
  BY <1>1, <1>2, <1>3, <1>4

\* What it carries once a frame has been put in it.
LEMMA CarriedAppend ==
  ASSUME NEW q \in Seq(Frame), NEW f \in Frame
  PROVE  /\ Append(q, f) \in Seq(Frame)
         /\ f.kind # "data" => Carried(Append(q, f)) = Carried(q)
         /\ f.kind = "data" => Carried(Append(q, f)) = Carried(q) \cup Covered(f.ev)
<1> DEFINE r == Append(q, f)
<1>1. /\ r \in Seq(Frame) /\ Len(r) = Len(q) + 1 /\ Len(q) \in Nat
      /\ \A i \in 1 .. Len(q) : r[i] = q[i]
      /\ r[Len(q) + 1] = f
  BY AppendProperties
<1> HIDE DEF r
<1>2. ASSUME NEW e \in Carried(r) PROVE e \in Carried(q) \/ (f.kind = "data" /\ e \in Covered(f.ev))
  <2>1. PICK i \in 1 .. Len(q) + 1 : r[i].kind = "data" /\ e \in Covered(r[i].ev)
    BY <1>1, <1>2, CarriedDef
  <2>2. i \in 1 .. Len(q) \/ i = Len(q) + 1
    BY <1>1
  <2> QED
    BY <1>1, <1>2, <2>1, <2>2, CarriedDef
<1>3. ASSUME NEW e \in Carried(q) PROVE e \in Carried(r)
  <2>1. PICK i \in 1 .. Len(q) : q[i].kind = "data" /\ e \in Covered(q[i].ev)
    BY <1>3, CarriedDef
  <2>2. i \in 1 .. Len(r)
    BY <1>1
  <2> QED
    BY <1>1, <1>3, <2>1, <2>2, CarriedDef
<1>4. ASSUME NEW e \in Covered(f.ev), f.kind = "data" PROVE e \in Carried(r)
  <2>1. f.ev \in Seq(Nat)
    BY DEF Frame
  <2>2. e \in Nat
    BY <1>4, <2>1, CoveredDef
  <2>3. Len(q) + 1 \in 1 .. Len(r)
    BY <1>1
  <2> QED
    BY <1>1, <1>4, <2>2, <2>3, CarriedDef
<1> QED
  BY <1>1, <1>2, <1>3, <1>4 DEF r

LEMMA CarriedEmpty == Carried(<< >>) = {}
  BY DEF Carried
(***************************************************************************)
(* The socket.                                                             *)
(***************************************************************************)
\* The frame that is read comes before everything that stays in the socket.
LEMMA FirstFrame ==
  ASSUME HandlerTypes, SockOrdered, sock # << >>, Head(sock).kind = "data"
  PROVE  /\ Batch(sub.venue, Head(sock).ev) /\ Covered(Head(sock).ev) \subseteq start .. sent /\ start # 0
         /\ Recorded(sub, Head(sock), spoilt, unlinked)
         /\ Below(Covered(Head(sock).ev), Carried(Tail(sock)))
<1>1. /\ Head(sock) = sock[1] /\ Len(Tail(sock)) = Len(sock) - 1 /\ Len(sock) \in Nat /\ Len(sock) > 0
      /\ \A i \in 1 .. Len(Tail(sock)) : Tail(sock)[i] = sock[i + 1]
  BY HeadTailProperties, EmptySeq DEF HandlerTypes
<1>2. /\ Batch(sub.venue, Head(sock).ev) /\ Covered(Head(sock).ev) \subseteq start .. sent /\ start # 0
      /\ Recorded(sub, Head(sock), spoilt, unlinked)
  BY <1>1 DEF SockOrdered
<1>3. ASSUME NEW e \in Carried(Tail(sock)), NEW a \in Covered(Head(sock).ev) PROVE a < e
  <2>1. PICK i \in 1 .. Len(Tail(sock)) : Tail(sock)[i].kind = "data" /\ e \in Covered(Tail(sock)[i].ev)
    BY <1>3, CarriedDef
  <2>2. /\ i + 1 \in 1 .. Len(sock) /\ sock[i + 1] = Tail(sock)[i] /\ 1 \in 1 .. (i + 1) - 1
    BY <1>1
  <2>3. Below(Covered(sock[1].ev), Covered(sock[i + 1].ev))
    BY <1>1, <2>1, <2>2 DEF SockOrdered
  <2> QED
    BY <1>1, <1>3, <2>1, <2>2, <2>3 DEF Below
<1> QED
  BY <1>2, <1>3 DEF Below

\* A frame leaves the socket.
LEMMA TailKeeps ==
  ASSUME HandlerTypes, SockOrdered, Controlled, WireGaps, sock # << >>, sock' = Tail(sock),
         UNCHANGED <<sub, start, sent, spoilt, unlinked, skipped, controls>>
  PROVE  SockOrdered' /\ Controlled' /\ WireGaps' /\ (sock \in Seq(Frame))'
<1>1. /\ Head(sock) = sock[1] /\ Len(sock') = Len(sock) - 1 /\ Len(sock) \in Nat /\ Len(sock) > 0
      /\ \A i \in 1 .. Len(sock') : sock'[i] = sock[i + 1]
  BY HeadTailProperties, EmptySeq DEF HandlerTypes
<1>2. sock' \in Seq(Frame) /\ Frame' = Frame
  BY CarriedTail DEF HandlerTypes, Frame, Kinds
<1>3. SockOrdered'
  <2> SUFFICES ASSUME NEW i \in 1 .. Len(sock'), sock'[i].kind = "data"
               PROVE  /\ Batch(sub'.venue, sock'[i].ev) /\ Covered(sock'[i].ev) \subseteq start' .. sent' /\ start' # 0
                      /\ Recorded(sub', sock'[i], spoilt', unlinked')
                      /\ \A j \in 1 .. i - 1 : sock'[j].kind = "data" =>
                           Below(Covered(sock'[j].ev), Covered(sock'[i].ev))
    BY DEF SockOrdered
  <2>1. i + 1 \in 1 .. Len(sock) /\ sock'[i] = sock[i + 1]
    BY <1>1
  <2>2. /\ Batch(sub.venue, sock'[i].ev) /\ Covered(sock'[i].ev) \subseteq start .. sent /\ start # 0
        /\ Recorded(sub, sock'[i], spoilt, unlinked)
    BY <2>1 DEF SockOrdered
  <2>3. ASSUME NEW j \in 1 .. i - 1, sock'[j].kind = "data"
        PROVE  Below(Covered(sock'[j].ev), Covered(sock'[i].ev))
    <3>1. j + 1 \in 1 .. (i + 1) - 1 /\ sock'[j] = sock[j + 1]
      BY <1>1
    <3> QED
      BY <2>1, <2>3, <3>1 DEF SockOrdered
  <2> QED
    BY <2>2, <2>3
<1>4. Controlled'
  BY <1>1 DEF Controlled
<1>5. WireGaps'
  <2> SUFFICES ASSUME NEW w \in Carried(sock'), NEW e \in Nat, w <= e, e <= sent
               PROVE  e \in skipped \cup Carried(sock')
    BY DEF WireGaps
  <2>1. w \in Carried(sock)
    BY CarriedTail DEF HandlerTypes
  <2>2. e \in skipped \cup Carried(sock)
    BY <2>1 DEF WireGaps
  <2>3. CASE e \notin Carried(sock') /\ e \in Carried(sock)
    <3>1. Head(sock).kind = "data" /\ e \in Covered(Head(sock).ev)
      BY <2>3, CarriedTail DEF HandlerTypes
    <3>2. e < w
      BY <3>1, FirstFrame DEF Below
    <3>3. w \in Nat
      BY CarriedDef
    <3> QED
      BY <3>2, <3>3
  <2> QED
    BY <2>2, <2>3
<1> QED
  BY <1>2, <1>3, <1>4, <1>5

\* A frame is put in the socket; the events it carries are the newest.
LEMMA AppendOrdered ==
  ASSUME HandlerTypes, SockOrdered, NEW f \in Frame, sock' = Append(sock, f),
         UNCHANGED <<sub, start>>, spoilt \subseteq spoilt', unlinked \subseteq unlinked', sent' \in Nat, sent <= sent',
         f.kind = "data" =>
           /\ Batch(sub.venue, f.ev) /\ Covered(f.ev) \subseteq sent + 1 .. sent' /\ start # 0
           /\ Recorded(sub, f, spoilt', unlinked')
  PROVE  SockOrdered' /\ (sock \in Seq(Frame))'
<1>1. /\ sock' \in Seq(Frame) /\ Len(sock') = Len(sock) + 1 /\ Len(sock) \in Nat
      /\ \A i \in 1 .. Len(sock) : sock'[i] = sock[i]
      /\ sock'[Len(sock) + 1] = f
  BY AppendProperties DEF HandlerTypes
<1>2. Frame' = Frame
  BY DEF Frame, Kinds
<1>3. start \in Nat /\ sent \in Nat /\ start <= sent + 1
  BY DEF HandlerTypes
<1>4. SockOrdered'
  <2> SUFFICES ASSUME NEW i \in 1 .. Len(sock'), sock'[i].kind = "data"
               PROVE  /\ Batch(sub'.venue, sock'[i].ev) /\ Covered(sock'[i].ev) \subseteq start' .. sent' /\ start' # 0
                      /\ Recorded(sub', sock'[i], spoilt', unlinked')
                      /\ \A j \in 1 .. i - 1 : sock'[j].kind = "data" =>
                           Below(Covered(sock'[j].ev), Covered(sock'[i].ev))
    BY DEF SockOrdered
  <2>1. CASE i \in 1 .. Len(sock)
    <3>1. /\ Batch(sub.venue, sock[i].ev) /\ Covered(sock[i].ev) \subseteq start .. sent /\ start # 0
          /\ Recorded(sub, sock[i], spoilt, unlinked)
          /\ \A j \in 1 .. i - 1 : sock[j].kind = "data" => Below(Covered(sock[j].ev), Covered(sock[i].ev))
      BY <1>1, <2>1 DEF SockOrdered
    <3>2. start .. sent \subseteq start' .. sent'
      BY <1>3
    <3>3. \A j \in 1 .. i - 1 : sock'[j] = sock[j]
      BY <1>1, <2>1
    <3>4. Recorded(sub', sock'[i], spoilt', unlinked')
      BY <1>1, <2>1, <3>1 DEF Recorded
    <3> QED
      BY <1>1, <2>1, <3>1, <3>2, <3>3, <3>4
  <2>2. CASE i = Len(sock) + 1
    <3>1. sent + 1 .. sent' \subseteq start' .. sent'
      BY <1>3
    <3>2. ASSUME NEW j \in 1 .. i - 1, sock'[j].kind = "data"
          PROVE  Below(Covered(sock'[j].ev), Covered(f.ev))
      <4>1. j \in 1 .. Len(sock) /\ sock'[j] = sock[j]
        BY <1>1, <2>2
      <4>2. Covered(sock[j].ev) \subseteq start .. sent
        BY <3>2, <4>1 DEF SockOrdered
      <4> QED
        BY <1>1, <1>3, <2>2, <4>1, <4>2 DEF Below
    <3> QED
      BY <1>1, <2>2, <3>1, <3>2
  <2> QED
    BY <1>1, <2>1, <2>2
<1> QED
  BY <1>1, <1>2, <1>4

(***************************************************************************)
(* The exchange.                                                           *)
(***************************************************************************)
\* What a server may put in a frame is newer than what it has sent.
LEMMA BatchIsNew ==
  ASSUME NEW venue, NEW s \in Nat, NEW es \in Handler!Batches(venue, s)
  PROVE  /\ Batch(venue, es) /\ es[Len(es)] \in Nat /\ es[Len(es)] > s
         /\ es[Len(es)] \in Covered(es) /\ Covered(es) \subseteq s + 1 .. es[Len(es)]
<1>1. es \in {<<s + 1>>, <<s + 2>>} \/ (venue # "binance" /\ es \in {<<s + 1, s + 2>>, <<s + 1, s + 3>>})
  BY DEF Handler!Batches
<1>2. ASSUME NEW a \in Nat, es = <<a>>, a > s
      PROVE  /\ Batch(venue, es) /\ es[Len(es)] = a /\ Covered(es) = {a}
  <2>1. es \in Seq(Nat) /\ Len(es) = 1 /\ es[1] = a
    BY <1>2
  <2> HIDE <1>2
  <2> QED
    BY <2>1 DEF Batch, Covered, Handler!Covered
<1>3. ASSUME NEW a \in Nat, NEW b \in Nat, es = <<a, b>>, a > s, a < b, venue # "binance"
      PROVE  /\ Batch(venue, es) /\ es[Len(es)] = b /\ Covered(es) = {a, b}
  <2>1. es \in Seq(Nat) /\ Len(es) = 2 /\ es[1] = a /\ es[2] = b
    BY <1>3
  <2>2. Batch(venue, es) /\ es[Len(es)] = b
    BY <1>3, <2>1 DEF Batch
  <2>3. \A e : e \in Covered(es) <=> e = a \/ e = b
    BY <2>1, CoveredDef
  <2> QED
    BY <2>2, <2>3
<1>4. CASE es = <<s + 1>>
  BY <1>2, <1>4
<1>5. CASE es = <<s + 2>>
  BY <1>2, <1>5
<1>6. CASE es = <<s + 1, s + 2>> /\ venue # "binance"
  BY <1>3, <1>6
<1>7. CASE es = <<s + 1, s + 3>> /\ venue # "binance"
  BY <1>3, <1>7
<1> QED
  BY <1>1, <1>4, <1>5, <1>6, <1>7

LEMMA DataFrame ==
  ASSUME NEW es \in Seq(Nat), NEW bad \in Handler!Defect
  PROVE  /\ Handler!Data(es, bad) \in Frame /\ Handler!Data(es, bad).kind = "data"
         /\ Handler!Data(es, bad).ev = es /\ Handler!Data(es, bad).bad = bad
  BY DEF Handler!Data, Frame, Kinds

LEMMA DefectsKnown == Handler!Defects(sub) \subseteq Handler!Defect
  BY DEF Handler!Defects, Handler!Defect

LEMMA SendFrameStep ==
  ASSUME HandlerInv, NEW es \in Handler!Batches(sub.venue, sent), NEW bad \in Handler!Defect,
         Handler!SendFrame(es, bad), plan' = plan
  PROVE  HandlerInv'
<1> USE DEF HandlerInv
<1> DEFINE z == es[Len(es)]
           left == (sent + 1 .. z) \ Covered(es)
           f == Handler!Data(es, bad)
<1>1. /\ start # 0 /\ sock' = Append(sock, f) /\ sent' = z /\ z <= market /\ skipped' = skipped \cup left
      /\ spoilt' = spoilt \cup Handler!Spoilt(sub, es, bad)
      /\ unlinked' = unlinked \cup Handler!Unlinked(sub, es, bad)
      /\ early' = IF sub.venue = "deribit" /\ answered < 3 THEN early \cup Covered(es) ELSE early
      /\ UNCHANGED <<sub, pc, conn, proc, todo, out, snap, controls, market, start, answered>>
  BY DEF Handler!SendFrame, Handler!Listening, Handler!v, Handler!taskVars, Covered
<1>2. sent \in Nat /\ Batch(sub.venue, es) /\ z \in Nat /\ z > sent /\ z \in Covered(es)
      /\ Covered(es) \subseteq sent + 1 .. z /\ es \in Seq(Nat) /\ start \in Nat /\ market \in Nat
      /\ start <= sent + 1
  BY BatchIsNew DEF HandlerTypes, Batch
<1>3. f \in Frame /\ f.kind = "data" /\ f.ev = es /\ f.bad = bad
  BY <1>2, DataFrame
<1> HIDE DEF z, left, f
<1>4. Carried(sock') = Carried(sock) \cup Covered(es) /\ sock \in Seq(Frame)
  BY <1>1, <1>3, CarriedAppend DEF HandlerTypes
<1>5. spoilt \subseteq spoilt' /\ unlinked \subseteq unlinked' /\ skipped \subseteq skipped' /\ early \subseteq early'
  BY <1>1
<1>6. SockOrdered' /\ (sock \in Seq(Frame))'
  <2>1. Recorded(sub, f, spoilt', unlinked')
    BY <1>1, <1>3 DEF Recorded
  <2>2. /\ Batch(sub.venue, f.ev) /\ Covered(f.ev) \subseteq sent + 1 .. sent' /\ start # 0
        /\ sent' \in Nat /\ sent <= sent' /\ UNCHANGED <<sub, start>>
    BY <1>1, <1>2, <1>3
  <2> QED
    BY <1>1, <1>3, <1>5, <2>1, <2>2, AppendOrdered
<1>7. Handed' = Handed /\ Covered(out)' = Covered(out) /\ Covered(todo)' = Covered(todo)
  BY <1>1 DEF Handed
<1>8. /\ Len(sock') = Len(sock) + 1 /\ Len(sock) \in Nat
      /\ \A i \in 1 .. Len(sock) : sock'[i] = sock[i]
      /\ sock'[Len(sock) + 1] = f
  BY <1>1, <1>3, <1>4, AppendProperties
<1>9. PlanKept' /\ HandlerTypes' /\ ConnTypes' /\ Phased' /\ EndExplained'
  BY <1>1, <1>2, <1>6 DEF PlanKept, HandlerTypes, ConnTypes, Phased, EndExplained, Handler!EndExplained, Handler!Ending, Handler!v
<1>10. HandedOrdered'
  <2>1. Handed \subseteq start .. sent
    BY DEF HandedOrdered
  <2>2. Below(Handed, Carried(sock'))
    BY <1>2, <1>4, <2>1 DEF HandedOrdered, Below
  <2>3. start .. sent \subseteq start' .. sent'
    BY <1>1, <1>2
  <2> QED
    BY <1>1, <1>7, <2>1, <2>2, <2>3 DEF HandedOrdered
<1>11. Controlled'
  <2> SUFFICES ASSUME NEW i \in 1 .. Len(sock'), sock'[i].kind \notin {"data", "ack", "error"}
               PROVE  sock'[i].kind \in controls \/ (sock'[i].kind = "eof" /\ "close" \in controls)
    BY <1>1 DEF Controlled
  <2>1. i \in 1 .. Len(sock) /\ sock'[i] = sock[i]
    BY <1>3, <1>8
  <2> QED
    BY <2>1 DEF Controlled
<1>12. ASSUME NEW e \in Nat, e > sent, e <= z PROVE e \in skipped' \cup Carried(sock')
  BY <1>1, <1>2, <1>4, <1>12 DEF left
<1>13. WireGaps'
  <2> SUFFICES ASSUME NEW w \in Carried(sock'), NEW e \in Nat, w <= e, e <= z
               PROVE  e \in skipped' \cup Carried(sock')
    BY <1>1 DEF WireGaps
  <2>1. CASE e <= sent
    <3>1. w \in Nat
      BY CarriedDef
    <3>2. w \in Carried(sock)
      BY <1>2, <1>4, <2>1, <3>1
    <3> QED
      BY <1>4, <1>5, <2>1, <3>2 DEF WireGaps
  <2> QED
    BY <1>2, <1>12, <2>1
<1>14. ASSUME NEW p \in Nat, p <= sent, Unbroken(p) PROVE Unbroken(p)'
  <2>1. Below({p}, Carried(sock'))
    BY <1>2, <1>4, <1>14 DEF Unbroken, Below
  <2> QED
    BY <1>5, <1>7, <1>14, <2>1 DEF Unbroken
<1>15. ASSUME NEW p \in Nat, p <= sent, Pending(p) PROVE Pending(p)'
  <2> SUFFICES ASSUME NEW e \in p + 1 .. z PROVE e \in skipped' \cup Carried(sock')
    BY <1>1 DEF Pending
  <2>1. CASE e <= sent
    BY <1>2, <1>4, <1>5, <1>15, <2>1 DEF Pending
  <2> QED
    BY <1>2, <1>12, <2>1
<1>16. ASSUME NEW p \in Nat, Broken(p) PROVE Broken(p)'
  <2>1. Below({p + 1}, Carried(sock'))
    BY <1>2, <1>4, <1>16 DEF Broken, Below
  <2> QED
    BY <1>1, <1>2, <1>5, <1>16, <2>1 DEF Broken
<1>17. Sequenced' = Sequenced
  BY <1>1 DEF Sequenced, Handler!Sequenced, Handler!v
<1>18. Continuous'
  BY <1>5, <1>7, <1>17 DEF Continuous
<1>19. start .. sent \subseteq start' .. sent'
  BY <1>1, <1>2
<1>20a. Unread => Unread'
  <2> SUFFICES ASSUME Unread, NEW e \in start' .. sent' PROVE e \in skipped' \cup Carried(sock')
    BY DEF Unread
  <2>1. CASE e <= sent
    BY <1>1, <1>2, <1>4, <1>5, <2>1 DEF Unread
  <2> QED
    BY <1>1, <1>2, <1>12, <2>1
<1>20. BinanceConn'
  <2>1. \A p \in Nat : p \in start .. sent /\ Unbroken(p) => p \in start' .. sent' /\ Unbroken(p)'
    BY <1>14, <1>19
  <2> QED
    BY <1>1, <1>7, <1>20a, <2>1 DEF BinanceConn
<1>21. OkxConn'
  <2>1. \A p \in Nat : p \in start .. sent => p \in start' .. sent' /\ p <= sent
    BY <1>2, <1>19
  <2> QED
    BY <1>1, <1>7, <1>14, <1>15, <1>16, <1>17, <1>20a, <2>1 DEF OkxConn
<1>22. DeribitConn'
  <2>1. SUFFICES ASSUME sub.venue = "deribit" PROVE DeribitConn'
    BY <1>1 DEF DeribitConn
  <2>2. \A i \in 1 .. Len(sock') : IsAnswer(i)' <=> i \in 1 .. Len(sock) /\ IsAnswer(i)
    BY <1>3, <1>8 DEF IsAnswer
  <2>3. \A i \in 1 .. Len(sock) : i \in 1 .. Len(sock')
    BY <1>8
  <2>4. ASSUME pc = "asked", NEW i \in 1 .. Len(sock'), sock'[i].kind = "data",
               \A j \in 1 .. i - 1 : ~ IsAnswer(j)'
        PROVE  Covered(sock'[i].ev) \subseteq early'
    <3>1. CASE i \in 1 .. Len(sock)
      <4>1. \A j \in 1 .. i - 1 : j \in 1 .. Len(sock') /\ j \in 1 .. Len(sock)
        BY <1>8, <3>1
      <4> QED
        BY <1>5, <1>8, <2>1, <2>2, <2>4, <3>1, <4>1 DEF DeribitConn
    <3>2. CASE i = Len(sock) + 1
      <4>1. \A j \in 1 .. Len(sock) : ~ IsAnswer(j)
        BY <1>8, <2>2, <2>3, <2>4, <3>2
      <4>2. answered # conn.waiting /\ conn.waiting = 3 /\ answered \in {2, 3}
        BY <2>1, <2>4, <4>1 DEF DeribitConn, Request, Asking
      <4>3. answered < 3
        BY <4>2
      <4> QED
        BY <1>1, <1>3, <1>8, <2>1, <3>2, <4>3
    <3> QED
      BY <1>8, <3>1, <3>2
  <2>5. \A i \in 1 .. Len(sock) : sock'[i].ev = sock[i].ev
    BY <1>8
  <2> QED
    BY <1>1, <2>1, <2>2, <2>3, <2>4, <2>5 DEF DeribitConn, Request
<1>23. AllExplained'
  <2>1. ASSUME pc \in {"asked", "snapshot", "loop"}, NEW e \in start' .. sent' PROVE Explained(e)'
    <3>1. CASE e <= sent
      <4>1. Explained(e)
        BY <1>1, <1>2, <2>1, <3>1 DEF AllExplained
      <4> QED
        BY <1>1, <1>4, <1>5, <1>7, <1>17, <4>1 DEF Explained
    <3>2. CASE e > sent
      BY <1>1, <1>2, <1>12, <3>2 DEF Explained
    <3> QED
      BY <1>1, <1>2, <3>1, <3>2
  <2> QED
    BY <1>1, <2>1 DEF AllExplained
<1>24. Bridged'
  BY <1>1, <1>5, <1>7 DEF Bridged
<1> QED
  BY <1>6, <1>9, <1>10, <1>11, <1>13, <1>18, <1>20, <1>21, <1>22, <1>23, <1>24

\* A step that moves no event: the socket carries what it carried, and the
\* task stays where it is.
LEMMA KeepStep ==
  ASSUME HandlerInv, (sock \in Seq(Frame))', SockOrdered', Carried(sock') = Carried(sock),
         UNCHANGED <<plan, sub, pc, conn, todo, out, snap, start, sent, skipped, early, unlinked>>,
         market' \in Nat, market <= market', spoilt \subseteq spoilt', controls \subseteq controls',
         answered' \in Nat, Controlled', DeribitConn', plan.arb \/ proc' = proc
  PROVE  HandlerInv'
<1> USE DEF HandlerInv
<1>1. Handed' = Handed /\ Covered(out)' = Covered(out) /\ Covered(todo)' = Covered(todo)
  BY DEF Handed
<1>2. Sequenced' = Sequenced
  BY DEF Sequenced, Handler!Sequenced, Handler!v
<1>3. PlanKept' /\ HandlerTypes' /\ ConnTypes' /\ Phased'
  BY DEF PlanKept, HandlerTypes, ConnTypes, Phased
<1>4. EndExplained'
  BY DEF EndExplained, Handler!EndExplained, Handler!v, Handler!Ending
<1>5. HandedOrdered' /\ WireGaps'
  BY <1>1 DEF HandedOrdered, WireGaps
<1>6. Continuous' /\ Bridged'
  BY <1>1, <1>2 DEF Continuous, Bridged
<1>7. \A p \in Nat : (Unbroken(p) => Unbroken(p)') /\ (Pending(p) => Pending(p)') /\ (Broken(p) => Broken(p)')
  BY <1>1 DEF Unbroken, Pending, Broken
<1>7a. Unread => Unread'
  BY DEF Unread
<1>8. BinanceConn'
  BY <1>1, <1>7, <1>7a DEF BinanceConn
<1>9. OkxConn'
  <2>1. CASE plan.arb
    BY <2>1 DEF OkxConn, PlanKept, Live
  <2>2. CASE proc' = proc
    BY <1>1, <1>2, <1>7, <1>7a, <2>2 DEF OkxConn
  <2> QED
    BY <2>1, <2>2
<1>10. AllExplained'
  <2>1. \A e \in Nat : Explained(e) => Explained(e)'
    BY <1>1, <1>2 DEF Explained
  <2>2. start .. sent \subseteq Nat
    BY DEF HandlerTypes
  <2> QED
    BY <2>1, <2>2 DEF AllExplained
<1> QED
  BY <1>3, <1>4, <1>5, <1>6, <1>8, <1>9, <1>10

\* Nothing of the handler changes; somebody else uses what is shared.
LEMMA OthersStep ==
  ASSUME HandlerInv,
         UNCHANGED <<plan, sub, pc, conn, todo, out, sock, snap, start, sent, skipped, early, unlinked,
                     controls, answered>>,
         market' \in Nat, market <= market', spoilt \subseteq spoilt', plan.arb \/ proc' = proc
  PROVE  HandlerInv'
<1> USE DEF HandlerInv
<1>1. (sock \in Seq(Frame))' /\ Carried(sock') = Carried(sock) /\ Controlled'
  BY DEF HandlerTypes, Frame, Kinds, Controlled
<1>2. SockOrdered'
  BY DEF SockOrdered, Recorded
<1>3. DeribitConn' /\ answered' \in Nat
  BY ZenonT(30) DEF DeribitConn, Request, IsAnswer, HandlerTypes
<1> QED
  BY <1>1, <1>2, <1>3, KeepStep

\* Frames without events are put in the socket.
LEMMA AppendControl ==
  ASSUME HandlerTypes, SockOrdered, NEW q \in Seq(Frame), \A i \in 1 .. Len(q) : q[i].kind # "data",
         sock' = sock \o q, UNCHANGED <<sub, start, sent, spoilt, unlinked>>
  PROVE  /\ (sock \in Seq(Frame))' /\ SockOrdered' /\ Carried(sock') = Carried(sock)
         /\ Len(sock') = Len(sock) + Len(q) /\ Len(sock) \in Nat /\ Len(q) \in Nat
         /\ \A i \in 1 .. Len(sock) : sock'[i] = sock[i]
         /\ \A i \in 1 .. Len(sock') : i \notin 1 .. Len(sock) =>
              i - Len(sock) \in 1 .. Len(q) /\ sock'[i] = q[i - Len(sock)]
<1>1. /\ sock' \in Seq(Frame) /\ Len(sock') = Len(sock) + Len(q) /\ Len(sock) \in Nat /\ Len(q) \in Nat
      /\ \A i \in 1 .. Len(sock') : sock'[i] = IF i <= Len(sock) THEN sock[i] ELSE q[i - Len(sock)]
  BY ConcatProperties DEF HandlerTypes
<1>2. /\ \A i \in 1 .. Len(sock) : sock'[i] = sock[i]
      /\ \A i \in 1 .. Len(sock') : i \notin 1 .. Len(sock) =>
           i - Len(sock) \in 1 .. Len(q) /\ sock'[i] = q[i - Len(sock)]
  BY <1>1
<1>3. \A i \in 1 .. Len(sock') : sock'[i].kind = "data" => i \in 1 .. Len(sock)
  BY <1>2
<1>4. Frame' = Frame
  BY DEF Frame, Kinds
<1>5. SockOrdered'
  <2> SUFFICES ASSUME NEW i \in 1 .. Len(sock'), sock'[i].kind = "data"
               PROVE  /\ Batch(sub'.venue, sock'[i].ev) /\ Covered(sock'[i].ev) \subseteq start' .. sent' /\ start' # 0
                      /\ Recorded(sub', sock'[i], spoilt', unlinked')
                      /\ \A j \in 1 .. i - 1 : sock'[j].kind = "data" =>
                           Below(Covered(sock'[j].ev), Covered(sock'[i].ev))
    BY DEF SockOrdered
  <2>1. i \in 1 .. Len(sock) /\ \A j \in 1 .. i - 1 : j \in 1 .. Len(sock)
    BY <1>1, <1>3
  <2> QED
    BY <1>2, <2>1 DEF SockOrdered
<1>6. Carried(sock') = Carried(sock)
  <2>1. ASSUME NEW e \in Carried(sock') PROVE e \in Carried(sock)
    <3>1. PICK i \in 1 .. Len(sock') : sock'[i].kind = "data" /\ e \in Covered(sock'[i].ev)
      BY <2>1, CarriedDef
    <3> QED
      BY <1>2, <1>3, <2>1, <3>1, CarriedDef
  <2>2. ASSUME NEW e \in Carried(sock) PROVE e \in Carried(sock')
    <3>1. PICK i \in 1 .. Len(sock) : sock[i].kind = "data" /\ e \in Covered(sock[i].ev)
      BY <2>2, CarriedDef
    <3>2. i \in 1 .. Len(sock')
      BY <1>1
    <3> QED
      BY <1>2, <2>2, <3>1, <3>2, CarriedDef
  <2> QED
    BY <2>1, <2>2
<1> QED
  BY <1>1, <1>2, <1>4, <1>5, <1>6

LEMMA SendControlStep ==
  ASSUME HandlerInv, NEW k \in Handler!ControlFrames(sub.venue), Handler!SendControl(k),
         plan' = plan
  PROVE  HandlerInv'
<1> USE DEF HandlerInv
<1> DEFINE q == Handler!Frames(k)
<1>1. /\ sock' = sock \o q /\ controls' = controls \cup {k}
      /\ UNCHANGED <<sub, pc, conn, proc, todo, out, snap, market, start, sent, answered, skipped, spoilt, early, unlinked>>
  BY DEF Handler!SendControl, Handler!taskVars
<1>2. /\ q \in Seq(Frame)
      /\ \A i \in 1 .. Len(q) : q[i].kind # "data" /\ (q[i].kind = k \/ (q[i].kind = "eof" /\ k = "close"))
  <2>1. k # "data" /\ k \in Kinds /\ (k = "close" => "eof" \in Kinds)
    BY DEF Kinds, Handler!ControlFrames, HandlerTypes, Handler!Subscription, Handler!Venue
  <2>2. \A c \in Kinds : Handler!Control(c) \in Frame /\ Handler!Control(c).kind = c
    BY DEF Handler!Control, Handler!Defect, Frame
  <2>3. CASE k = "close"
    <3>1. q = <<Handler!Control("close"), Handler!Control("eof")>>
      BY <2>3 DEF Handler!Frames
    <3> HIDE DEF q
    <3>2. q \in Seq(Frame) /\ Len(q) = 2 /\ q[1].kind = "close" /\ q[2].kind = "eof"
      BY <2>1, <2>2, <2>3, <3>1
    <3>3. \A i \in 1 .. 2 : i = 1 \/ i = 2
      OBVIOUS
    <3> QED
      BY <2>3, <3>2, <3>3
  <2>4. CASE k # "close"
    <3>1. q = <<Handler!Control(k)>>
      BY <2>4 DEF Handler!Frames
    <3> HIDE DEF q
    <3>2. q \in Seq(Frame) /\ Len(q) = 1 /\ q[1].kind = k
      BY <2>1, <2>2, <3>1
    <3>3. \A i \in 1 .. 1 : i = 1
      OBVIOUS
    <3> QED
      BY <2>1, <3>2, <3>3
  <2> QED
    BY <2>3, <2>4
<1> HIDE DEF q
<1>3. /\ (sock \in Seq(Frame))' /\ SockOrdered' /\ Carried(sock') = Carried(sock)
      /\ Len(sock') = Len(sock) + Len(q) /\ Len(sock) \in Nat /\ Len(q) \in Nat
      /\ \A i \in 1 .. Len(sock) : sock'[i] = sock[i]
      /\ \A i \in 1 .. Len(sock') : i \notin 1 .. Len(sock) =>
           i - Len(sock) \in 1 .. Len(q) /\ sock'[i] = q[i - Len(sock)]
  BY <1>1, <1>2, AppendControl
<1>4. Controlled'
  <2> SUFFICES ASSUME NEW i \in 1 .. Len(sock'), sock'[i].kind \notin {"data", "ack", "error"}
               PROVE  sock'[i].kind \in controls' \/ (sock'[i].kind = "eof" /\ "close" \in controls')
    BY DEF Controlled
  <2>1. CASE i \in 1 .. Len(sock)
    BY <1>1, <1>3, <2>1 DEF Controlled
  <2>2. CASE i \notin 1 .. Len(sock)
    BY <1>1, <1>2, <1>3, <2>2
  <2> QED
    BY <2>1, <2>2
<1>5. DeribitConn'
  <2>1. SUFFICES ASSUME sub.venue = "deribit" PROVE DeribitConn'
    BY <1>1 DEF DeribitConn
  <2>2. k \notin {"ack", "error"}
    BY <2>1 DEF Handler!ControlFrames
  <2>3. \A i \in 1 .. Len(sock') : IsAnswer(i)' <=> i \in 1 .. Len(sock) /\ IsAnswer(i)
    BY <1>2, <1>3, <2>2 DEF IsAnswer
  <2>4. \A i \in 1 .. Len(sock) : i \in 1 .. Len(sock') /\ sock'[i] = sock[i]
    BY <1>3
  <2>5. \A i \in 1 .. Len(sock') : sock'[i].kind = "data" => i \in 1 .. Len(sock)
    BY <1>2, <1>3
  <2>6. ASSUME pc = "asked", NEW i \in 1 .. Len(sock'), sock'[i].kind = "data",
               \A j \in 1 .. i - 1 : ~ IsAnswer(j)'
        PROVE  Covered(sock'[i].ev) \subseteq early
    <3>1. \A j \in 1 .. i - 1 : j \in 1 .. Len(sock) /\ j \in 1 .. Len(sock')
      BY <1>3, <2>5, <2>6, SMTT(30)
    <3> QED
      BY <2>1, <2>3, <2>4, <2>5, <2>6, <3>1 DEF DeribitConn
  <2> QED
    BY <1>1, <2>1, <2>3, <2>4, <2>6 DEF DeribitConn, Request
<1>6. market \in Nat /\ market <= market /\ answered \in Nat
  BY DEF HandlerTypes
<1> QED
  BY <1>1, <1>3, <1>4, <1>5, <1>6, KeepStep

LEMMA AnswerRpcStep ==
  ASSUME HandlerInv, NEW k \in {"ack", "error"}, Handler!AnswerRpc(k), plan' = plan
  PROVE  HandlerInv'
<1> USE DEF HandlerInv
<1> DEFINE f == Handler!Deribit!Answer(k, conn.waiting)
           q == <<f>>
<1>1. /\ sub.venue = "deribit" /\ conn.waiting > answered /\ answered' = conn.waiting
      /\ sock' = Append(sock, f)
      /\ UNCHANGED <<sub, pc, conn, proc, todo, out, snap, controls, market, start, sent, skipped, spoilt, early, unlinked>>
  BY DEF Handler!AnswerRpc, Handler!taskVars, Handler!v
<1>2. conn.waiting \in Nat
  BY <1>1 DEF ConnTypes, DeribitRec
<1>3. f \in Frame /\ f.kind = k /\ f.ev = <<conn.waiting>>
  <2>1. k \in Kinds /\ <<conn.waiting>> \in Seq(Nat)
    BY <1>1, <1>2 DEF Kinds
  <2>2. Handler!Deribit!Control(k) \in Frame
    BY <2>1 DEF Handler!Deribit!Control, Handler!Defect, Frame
  <2>3. \A c \in Frame, es \in Seq(Nat) : [c EXCEPT !.ev = es] \in Frame
    BY DEF Frame
  <2>4. f \in Frame
    BY <2>1, <2>2, <2>3 DEF Handler!Deribit!Answer
  <2> QED
    BY <2>4 DEF Handler!Deribit!Answer, Handler!Deribit!Control
<1> HIDE DEF f
<1>4. q \in Seq(Frame) /\ Len(q) = 1 /\ q[1] = f /\ (\A i \in 1 .. Len(q) : i = 1)
  BY <1>3
<1>5. sock' = sock \o q
  BY <1>1, <1>3, AppendIsConcat DEF HandlerTypes
<1> HIDE DEF q
<1>6. /\ (sock \in Seq(Frame))' /\ SockOrdered' /\ Carried(sock') = Carried(sock)
      /\ Len(sock') = Len(sock) + 1 /\ Len(sock) \in Nat
      /\ \A i \in 1 .. Len(sock) : sock'[i] = sock[i]
      /\ \A i \in 1 .. Len(sock') : i \notin 1 .. Len(sock) => i = Len(sock) + 1 /\ sock'[i] = f
  <2>1. \A i \in 1 .. Len(q) : q[i].kind # "data"
    BY <1>3, <1>4
  <2>2. /\ (sock \in Seq(Frame))' /\ SockOrdered' /\ Carried(sock') = Carried(sock)
        /\ Len(sock') = Len(sock) + Len(q) /\ Len(sock) \in Nat /\ Len(q) \in Nat
        /\ \A i \in 1 .. Len(sock) : sock'[i] = sock[i]
        /\ \A i \in 1 .. Len(sock') : i \notin 1 .. Len(sock) =>
             i - Len(sock) \in 1 .. Len(q) /\ sock'[i] = q[i - Len(sock)]
    BY <1>1, <1>4, <1>5, <2>1, AppendControl
  <2>3. \A i \in 1 .. Len(sock') : i \notin 1 .. Len(sock) => i - Len(sock) = 1
    BY <1>4, <2>2
  <2> QED
    BY <1>4, <2>2, <2>3
<1>7. Controlled'
  <2> SUFFICES ASSUME NEW i \in 1 .. Len(sock'), sock'[i].kind \notin {"data", "ack", "error"}
               PROVE  sock'[i].kind \in controls' \/ (sock'[i].kind = "eof" /\ "close" \in controls')
    BY DEF Controlled
  <2> QED
    BY <1>1, <1>3, <1>6 DEF Controlled
<1>8. \A i \in 1 .. Len(sock) : ~ (pc \in Live /\ IsAnswer(i))
  BY <1>1, <1>2 DEF DeribitConn
<1>9. pc \in Live => pc \in Asking
  <2>1. pc \in {"connect"} => conn.waiting = 0
    BY <1>1 DEF DeribitConn, Handler!Deribit!New
  <2>2. pc \in {"validate", "subscribe", "snapshot", "loop"} => conn.waiting = 0
    BY <1>1 DEF DeribitConn
  <2>3. conn.waiting # 0
    BY <1>1, <1>2 DEF HandlerTypes
  <2> QED
    BY <2>1, <2>2, <2>3 DEF Live, Asking
<1>10. DeribitConn'
  <2>1. \A i \in 1 .. Len(sock') : pc \in Live => (IsAnswer(i)' <=> i = Len(sock) + 1)
    BY <1>3, <1>6, <1>8 DEF IsAnswer
  <2>2. Len(sock) + 1 \in 1 .. Len(sock') /\ sock'[Len(sock) + 1] = f
    BY <1>6
  <2>3. \A id \in Nat, at \in Live : Request(at, id) => Request(at, id)'
    BY <1>1 DEF Request
  <2>4. Request("auth", 1)' /\ Request("heartbeat", 2)' /\ Request("asked", 3)'
    BY <1>1, <2>3 DEF DeribitConn, Live
  <2>5. \A i \in 1 .. Len(sock) : i \in 1 .. Len(sock') /\ sock'[i] = sock[i] /\ i # Len(sock) + 1
    BY <1>6
  <2>6. ASSUME pc = "asked", NEW i \in 1 .. Len(sock'), sock'[i].kind = "data",
               \A j \in 1 .. i - 1 : ~ IsAnswer(j)'
        PROVE  Covered(sock'[i].ev) \subseteq early
    <3>1. i \in 1 .. Len(sock) /\ \A j \in 1 .. i - 1 : j \in 1 .. Len(sock)
      BY <1>3, <1>6, <2>6
    <3> QED
      BY <1>1, <1>8, <2>5, <2>6, <3>1 DEF DeribitConn, Live
  <2>7. pc \in Live => \A i \in 1 .. Len(sock') : IsAnswer(i)' =>
          /\ pc \in Asking /\ sock'[i].ev = <<conn.waiting>>
          /\ \A j \in 1 .. Len(sock') : IsAnswer(j)' => j = i
    BY <1>3, <1>9, <2>1, <2>2
  <2>8. pc \notin {"connect", "validate", "subscribe"}
    BY <1>9 DEF Live, Asking
  <2>9. pc \in Asking => \E i \in 1 .. Len(sock') : IsAnswer(i)'
    BY <2>1, <2>2 DEF Asking, Live
  <2>10. pc \in {"snapshot", "loop"} => conn.waiting = 0 /\ conn.active
    BY <1>1 DEF DeribitConn
  <2> QED
    BY <1>1, <2>4, <2>6, <2>7, <2>8, <2>9, <2>10 DEF DeribitConn
<1>11. market \in Nat /\ market <= market
  BY DEF HandlerTypes
<1> QED
  BY <1>1, <1>2, <1>6, <1>7, <1>10, <1>11, KeepStep

LEMMA ExchangeStep == ASSUME HandlerInv, Handler!Exchange, plan' = plan PROVE HandlerInv'
<1>1. CASE Handler!Happen
  <2>1. market \in Nat /\ market' = market + 1
    BY <1>1 DEF HandlerInv, HandlerTypes, Handler!Happen
  <2>2. market' \in Nat /\ market <= market'
    BY <2>1
  <2> QED
    BY <1>1, <2>2, OthersStep DEF Handler!Happen, Handler!taskVars
<1> QED
  BY <1>1, SendFrameStep, SendControlStep, AnswerRpcStep, DefectsKnown DEF Handler!Exchange, Handler!v

(***************************************************************************)
(* The task.                                                               *)
(***************************************************************************)
\* The task ends, having read a frame or not.
LEMMA EndStep ==
  ASSUME HandlerInv, ~ plan.arb, pc' \in {"ended", "failed", "cancelled", "aborted"},
         sock' = sock \/ (sock # << >> /\ sock' = Tail(sock)), ConnTypes', EndExplained',
         UNCHANGED <<plan, sub, out, todo, snap, start, sent, market, answered, skipped, spoilt, early, unlinked,
                     controls>>
  PROVE  HandlerInv'
<1> USE DEF HandlerInv
<1>1. Handed' = Handed /\ Covered(out)' = Covered(out) /\ Covered(todo)' = Covered(todo)
  BY DEF Handed
<1>2. SockOrdered' /\ Controlled' /\ WireGaps' /\ (sock \in Seq(Frame))' /\ Carried(sock') \subseteq Carried(sock)
  <2>1. CASE sock' = sock
    BY <2>1 DEF SockOrdered, Controlled, WireGaps, HandlerTypes, Frame, Kinds
  <2>2. CASE sock # << >> /\ sock' = Tail(sock)
    <3>1. SockOrdered' /\ Controlled' /\ WireGaps' /\ (sock \in Seq(Frame))'
      BY <2>2, TailKeeps
    <3>2. Carried(sock') \subseteq Carried(sock)
      BY <2>2, CarriedTail DEF HandlerTypes
    <3> QED
      BY <3>1, <3>2
  <2> QED
    BY <2>1, <2>2
<1>3. HandedOrdered'
  BY <1>1, <1>2 DEF HandedOrdered, Below
<1>4. Sequenced' = Sequenced
  BY DEF Sequenced, Handler!Sequenced, Handler!v
<1>5. PlanKept' /\ HandlerTypes'
  BY <1>2 DEF PlanKept, HandlerTypes
<1>6. Continuous' /\ Bridged'
  BY <1>1, <1>4 DEF Continuous, Bridged
<1>7. Phased' /\ BinanceConn' /\ OkxConn' /\ DeribitConn' /\ AllExplained'
  BY DEF Phased, BinanceConn, OkxConn, DeribitConn, AllExplained, Request, Live, Asking, Before
<1> QED
  BY <1>2, <1>3, <1>5, <1>6, <1>7

\* Before the loop the task moves on, having read a frame or not: nothing has
\* been handed on.
LEMMA MoveStep ==
  ASSUME HandlerInv, ~ plan.arb, pc' \in Live, out = << >>, todo = << >>, snap' \in Nat,
         sock' = sock \/ (sock # << >> /\ sock' = Tail(sock)),
         UNCHANGED <<plan, sub, out, todo, start, sent, market, answered, skipped, spoilt, early, unlinked,
                     controls>>,
         ConnTypes', Phased', BinanceConn', OkxConn', DeribitConn', AllExplained', (plan.arb => pc = "connect")'
  PROVE  HandlerInv'
<1> USE DEF HandlerInv
<1>1. Handed' = {} /\ Covered(out') = {} /\ Covered(todo') = {}
  BY CoveredEmpty DEF Handed
<1>2. SockOrdered' /\ Controlled' /\ WireGaps' /\ (sock \in Seq(Frame))'
  <2>1. CASE sock' = sock
    BY <2>1 DEF SockOrdered, Controlled, WireGaps, HandlerTypes, Frame, Kinds
  <2>2. CASE sock # << >> /\ sock' = Tail(sock)
    BY <2>2, TailKeeps
  <2> QED
    BY <2>1, <2>2
<1>3. HandedOrdered' /\ Continuous' /\ Bridged'
  <2>1. Increasing(<< >>)
    BY DEF Increasing
  <2> QED
    BY <1>1, <2>1 DEF HandedOrdered, Below, Continuous, Bridged
<1>4. PlanKept' /\ HandlerTypes' /\ EndExplained'
  BY <1>2 DEF PlanKept, HandlerTypes, EndExplained, Handler!EndExplained, Live
<1> QED
  BY <1>2, <1>3, <1>4

\* A request goes out and is waited for.
LEMMA SendRpcConn ==
  ASSUME NEW c \in DeribitRec
  PROVE  /\ Handler!Deribit!SendRpc(c) \in DeribitRec
         /\ Handler!Deribit!SendRpc(c).waiting = c.next_id
         /\ Handler!Deribit!SendRpc(c).pending = c.pending \cup {c.next_id}
         /\ Handler!Deribit!SendRpc(c).next_id = c.next_id + 1
<1>1. c.next_id \in Nat /\ c.next_id + 1 \in Nat /\ c.pending \cup {c.next_id} \in SUBSET Nat
  BY DEF DeribitRec
<1>2. \A d \in DeribitRec, n \in Nat : [d EXCEPT !.next_id = n] \in DeribitRec
  BY DEF DeribitRec
<1>3. \A d \in DeribitRec, q \in SUBSET Nat : [d EXCEPT !.pending = q] \in DeribitRec
  BY DEF DeribitRec
<1>4. \A d \in DeribitRec, n \in Nat : [d EXCEPT !.waiting = n] \in DeribitRec
  BY DEF DeribitRec
<1> DEFINE d == [c EXCEPT !.next_id = c.next_id + 1]
           r == [d EXCEPT !.pending = c.pending \cup {c.next_id}]
<1>5. d \in DeribitRec
  BY <1>1, <1>2
<1> HIDE DEF d
<1>8. r \in DeribitRec
  BY <1>1, <1>3, <1>5
<1> HIDE DEF r
<1>9. [r EXCEPT !.waiting = c.next_id] \in DeribitRec
  BY <1>1, <1>4, <1>8
<1>6. Handler!Deribit!SendRpc(c) \in DeribitRec
  BY <1>9 DEF Handler!Deribit!SendRpc, d, r
<1>7. /\ Handler!Deribit!SendRpc(c).waiting = c.next_id
      /\ Handler!Deribit!SendRpc(c).pending = c.pending \cup {c.next_id}
      /\ Handler!Deribit!SendRpc(c).next_id = c.next_id + 1
  BY DEF Handler!Deribit!SendRpc, DeribitRec
<1> QED
  BY <1>6, <1>7

\* Connecting and validating.
LEMMA ConnectStep ==
  ASSUME HandlerInv, ~ plan.arb, plan' = plan, Handler!ConnectStep \/ Handler!Validate
  PROVE  HandlerInv'
<1> USE DEF HandlerInv
<1>1. /\ pc \in {"connect", "validate"}
      /\ UNCHANGED <<sub, sock, start, sent, snap, proc, todo, out, controls, market, answered, skipped, spoilt, early, unlinked>>
  BY DEF Handler!ConnectStep, Handler!Validate, Handler!quietVars
<1>2. out = << >> /\ todo = << >> /\ start = 0
  BY <1>1 DEF Phased, Live, Before
<1>3. sub.venue \in {"binance", "okx", "deribit"}
  BY DEF HandlerTypes, Handler!Subscription, Handler!Venue
<1>4. CASE Handler!ConnectStep /\ sub.venue = "binance"
  <2>1. pc = "connect" /\ pc' = "validate" /\ conn = Handler!Binance!New /\ conn' = Handler!Binance!Connect(conn)
    BY <1>4 DEF Handler!ConnectStep, Handler!v, BinanceConn
  <2>2. conn' = [Handler!Binance!New EXCEPT !.status = "Connected", !.sync = "Connecting"]
    BY <2>1 DEF Handler!Binance!Connect
  <2>3. ConnTypes'
    BY <1>1, <1>4, <2>1, <2>2 DEF ConnTypes, BinanceRec, Handler!Binance!New, Handler!Binance!SyncState
  <2>4. conn'.sync = "Connecting" /\ conn'.buffer = << >>
    BY <2>2 DEF Handler!Binance!New
  <2>5. BinanceConn' /\ OkxConn' /\ DeribitConn' /\ Phased' /\ AllExplained'
    BY <1>1, <1>2, <1>4, <2>1, <2>4 DEF BinanceConn, OkxConn, DeribitConn, Phased, AllExplained, Live, Before
  <2> QED
    BY <1>1, <1>2, <2>1, <2>3, <2>5, MoveStep DEF HandlerTypes, Live
<1>5. CASE Handler!ConnectStep /\ sub.venue = "okx"
  <2>1. pc = "connect" /\ pc' = "validate" /\ conn' = Handler!Okx!Connect(conn) /\ proc = 0
    BY <1>5 DEF Handler!ConnectStep, Handler!v, OkxConn, Live
  <2>2. ConnTypes'
    BY <1>1, <1>5, <2>1 DEF ConnTypes, Handler!Okx!Connect
  <2>3. BinanceConn' /\ OkxConn' /\ DeribitConn' /\ Phased' /\ AllExplained'
    BY <1>1, <1>2, <1>5, <2>1 DEF BinanceConn, OkxConn, DeribitConn, Phased, AllExplained, Live, Before
  <2> QED
    BY <1>1, <1>2, <2>1, <2>2, <2>3, MoveStep DEF HandlerTypes, Live
<1>6. CASE Handler!ConnectStep /\ sub.venue = "deribit"
  <2>1. /\ pc = "connect" /\ pc' = "auth" /\ conn = Handler!Deribit!New /\ answered = 0
        /\ conn' = Handler!Deribit!SendRpc(Handler!Deribit!Connect(conn))
    BY <1>6 DEF Handler!ConnectStep, Handler!v, DeribitConn
  <2>2. /\ ConnTypes' /\ conn'.waiting = 1 /\ conn'.pending = {1} /\ conn'.next_id = 2
    <3> DEFINE c == Handler!Deribit!Connect(conn)
    <3>1. c \in DeribitRec /\ c.next_id = 1 /\ c.pending = {}
      BY <2>1 DEF Handler!Deribit!Connect, Handler!Deribit!New, DeribitRec
    <3> HIDE DEF c
    <3> QED
      BY <1>1, <1>6, <2>1, <3>1, SendRpcConn DEF ConnTypes, c
  <2>3. DeribitConn'
    <3>1. \A i \in 1 .. Len(sock) : ~ IsAnswer(i)
      BY <1>6, <2>1 DEF DeribitConn, Live, Asking
    <3> QED
      BY <1>1, <2>1, <2>2, <3>1 DEF DeribitConn, Request, Asking, IsAnswer
  <2>4. BinanceConn' /\ OkxConn' /\ Phased' /\ AllExplained'
    BY <1>1, <1>2, <1>6, <2>1 DEF BinanceConn, OkxConn, Phased, AllExplained, Live, Before
  <2> QED
    BY <1>1, <1>2, <2>1, <2>2, <2>3, <2>4, MoveStep DEF HandlerTypes, Live
<1>7. CASE Handler!Validate
  <2>1. pc = "validate" /\ pc' = "subscribe" /\ conn' = conn
    BY <1>7 DEF Handler!Validate
  <2>2. ConnTypes'
    BY <1>1, <2>1 DEF ConnTypes, BinanceRec
  <2>3. BinanceConn' /\ OkxConn' /\ Phased' /\ AllExplained'
    BY <1>1, <1>2, <2>1 DEF BinanceConn, OkxConn, Phased, AllExplained, Live, Before
  <2>4. DeribitConn'
    BY <1>1, <2>1 DEF DeribitConn, Request, Live, Asking, IsAnswer
  <2> QED
    BY <1>1, <1>2, <2>1, <2>2, <2>3, <2>4, MoveStep DEF HandlerTypes, Live
<1> QED
  BY <1>3, <1>4, <1>5, <1>6, <1>7

\* The subscription begins with nothing in the socket but control frames.
LEMMA SubscribeStep ==
  ASSUME HandlerInv, ~ plan.arb, plan' = plan, Handler!Subscribe PROVE HandlerInv'
<1> USE DEF HandlerInv
<1>1. /\ pc = "subscribe" /\ start' = market + 1 /\ sent' = market
      /\ UNCHANGED <<sub, sock, snap, proc, todo, out, controls, market, answered, skipped, spoilt, early, unlinked>>
  BY DEF Handler!Subscribe, Handler!quietVars
<1>2. out = << >> /\ todo = << >> /\ start = 0 /\ market \in Nat
  BY <1>1 DEF Phased, Live, Before, HandlerTypes
<1>3. \A i \in 1 .. Len(sock) : sock[i].kind # "data"
  BY <1>2 DEF SockOrdered
<1>4. Carried(sock) = {}
  BY <1>3, CarriedDef
<1>5. Handed' = {} /\ Covered(out') = {} /\ Covered(todo') = {}
  BY <1>1, <1>2, CoveredEmpty DEF Handed
<1>6. start' # 0 /\ start' .. sent' = {}
  BY <1>1, <1>2
<1>6a. Unread'
  BY <1>6 DEF Unread
<1>7. SockOrdered' /\ WireGaps' /\ Controlled'
  BY <1>1, <1>3, <1>4 DEF SockOrdered, WireGaps, Controlled
<1>8. HandedOrdered' /\ Continuous' /\ Bridged'
  <2>1. Increasing(<< >>)
    BY DEF Increasing
  <2> QED
    BY <1>1, <1>2, <1>5, <2>1 DEF HandedOrdered, Below, Continuous, Bridged
<1>9. sub.stream \in {"L2", "Trade"} /\ sub.venue \in {"binance", "okx", "deribit"}
  BY DEF HandlerTypes, Handler!Subscription, Handler!Venue
<1>10. AllExplained'
  BY <1>1, <1>6 DEF AllExplained
<1>11. ASSUME pc' \in Live PROVE HandlerTypes' /\ PlanKept' /\ EndExplained'
  BY <1>1, <1>2, <1>11 DEF HandlerTypes, PlanKept, EndExplained, Handler!EndExplained, Live, Frame, Kinds
<1>12. CASE sub.venue = "binance"
  <2>1. /\ pc' = IF sub.stream = "L2" THEN "snapshot" ELSE "loop"
        /\ conn' = IF sub.stream = "L2" THEN Handler!Binance!SubscribeL2(conn) ELSE Handler!Binance!SubscribeTrades(conn)
    BY <1>12 DEF Handler!Subscribe, Handler!v, Handler!AfterSubscribe
  <2>2. conn.sync = "Connecting" /\ conn.buffer = << >>
    BY <1>1, <1>12 DEF BinanceConn
  <2>3. CASE sub.stream = "L2"
    <3>1. conn' = [conn EXCEPT !.sync = "BufferingUpdates"]
      BY <2>1, <2>2, <2>3 DEF Handler!Binance!SubscribeL2
    <3>2. ConnTypes' /\ conn'.sync = "BufferingUpdates" /\ conn'.buffer = << >>
      BY <1>1, <1>12, <2>2, <3>1 DEF ConnTypes, BinanceRec, Handler!Binance!SyncState
    <3>3. BinanceConn' /\ OkxConn' /\ DeribitConn' /\ Phased'
      BY <1>1, <1>2, <1>6a, <1>12, <2>1, <2>3, <3>2 DEF BinanceConn, OkxConn, DeribitConn, Phased, Before, Live
    <3> QED
      BY <1>7, <1>8, <1>10, <1>11, <2>1, <2>3, <3>2, <3>3 DEF Live
  <2>4. CASE sub.stream = "Trade"
    <3>1. conn' = [conn EXCEPT !.sync = "TradeStream", !.status = "Connected"]
      BY <2>1, <2>4 DEF Handler!Binance!SubscribeTrades
    <3>2. ConnTypes' /\ conn'.sync = "TradeStream"
      BY <1>1, <1>12, <3>1 DEF ConnTypes, BinanceRec, Handler!Binance!SyncState
    <3>3. BinanceConn' /\ OkxConn' /\ DeribitConn' /\ Phased'
      BY <1>1, <1>2, <1>6, <1>12, <2>1, <2>4, <3>2 DEF BinanceConn, OkxConn, DeribitConn, Phased, Before, Live
    <3> QED
      BY <1>7, <1>8, <1>10, <1>11, <2>1, <2>4, <3>2, <3>3 DEF Live
  <2> QED
    BY <1>9, <2>3, <2>4
<1>13. CASE sub.venue = "okx"
  <2>1. /\ pc' = IF sub.stream = "L2" THEN "snapshot" ELSE "loop"
        /\ conn' = Handler!Okx!Subscribe(conn) /\ proc = 0
    BY <1>1, <1>13 DEF Handler!Subscribe, Handler!v, Handler!AfterSubscribe, OkxConn, Live
  <2>2. ConnTypes'
    BY <1>1, <1>13, <2>1 DEF ConnTypes, Handler!Okx!Subscribe
  <2>3. BinanceConn' /\ OkxConn' /\ DeribitConn' /\ Phased'
    BY <1>1, <1>2, <1>5, <1>6, <1>6a, <1>9, <1>13, <2>1 DEF BinanceConn, OkxConn, DeribitConn, Phased, Before, Live
  <2> QED
    BY <1>7, <1>8, <1>9, <1>10, <1>11, <2>1, <2>2, <2>3 DEF Live
<1>14. CASE sub.venue = "deribit"
  <2>1. pc' = "asked" /\ conn' = Handler!Deribit!SendRpc(conn)
    BY <1>14 DEF Handler!Subscribe, Handler!v
  <2>2. conn.waiting = 0 /\ conn.pending = {} /\ conn.next_id = 3 /\ answered = 2
    BY <1>1, <1>14 DEF DeribitConn
  <2>3. ConnTypes' /\ conn'.waiting = 3 /\ conn'.pending = {3} /\ conn'.next_id = 4
    BY <1>1, <1>14, <2>1, <2>2, SendRpcConn DEF ConnTypes, BinanceRec
  <2>4. DeribitConn'
    <3>1. \A i \in 1 .. Len(sock) : ~ IsAnswer(i)
      BY <1>1, <1>14 DEF DeribitConn, Live, Asking
    <3> QED
      BY <1>1, <1>3, <2>1, <2>2, <2>3, <3>1 DEF DeribitConn, Request, Asking, IsAnswer
  <2>5. BinanceConn' /\ OkxConn' /\ Phased'
    BY <1>1, <1>2, <1>6, <1>14, <2>1 DEF BinanceConn, OkxConn, Phased, Live, Before
  <2> QED
    BY <1>7, <1>8, <1>10, <1>11, <2>1, <2>3, <2>4, <2>5 DEF Live
<1> QED
  BY <1>9, <1>12, <1>13, <1>14

\* What send_rpc_request makes of a frame: an answer ends the wait, the end of
\* the stream too, anything else is thrown away.
LEMMA AwaitConn ==
  ASSUME NEW c \in DeribitRec, NEW f \in Frame, c.pending = {c.waiting},
         NEW r, r = Handler!Deribit!AwaitFrame(c, f)
  PROVE  /\ r.conn \in DeribitRec
         /\ f.kind \in {"fault", "eof"} => r.ret = "error"
         /\ f.kind \notin {"fault", "eof", "ack", "error"} =>
              /\ r.ret = "again" /\ r.conn.waiting = c.waiting /\ r.conn.pending = c.pending
              /\ r.conn.next_id = c.next_id
         /\ f.kind \in {"ack", "error"} /\ f.ev = <<c.waiting>> =>
              /\ r.ret \in {"error", "message"} /\ r.conn.waiting = 0 /\ r.conn.pending = {}
              /\ r.conn.next_id = c.next_id
<1> DEFINE d == Handler!Deribit!ProcessFrame(c, f).conn
<1>1. \A x \in DeribitRec : [x EXCEPT !.waiting = 0] \in DeribitRec
  BY DEF DeribitRec
<1>2. \A x \in DeribitRec : [x EXCEPT !.status = "Disconnected"] \in DeribitRec
  BY DEF DeribitRec
<1>3. \A x \in DeribitRec, q \in SUBSET Nat : [x EXCEPT !.pending = q] \in DeribitRec
  BY DEF DeribitRec
<1>4. \A x \in DeribitRec, q \in SUBSET Nat :
        [x EXCEPT !.pending = q].pending = q /\ [x EXCEPT !.pending = q].waiting = x.waiting
        /\ [x EXCEPT !.pending = q].next_id = x.next_id
  BY DEF DeribitRec
<1>5. \A x \in DeribitRec :
        [x EXCEPT !.status = "Disconnected"].pending = x.pending
        /\ [x EXCEPT !.status = "Disconnected"].waiting = x.waiting
        /\ [x EXCEPT !.status = "Disconnected"].next_id = x.next_id
  BY DEF DeribitRec
<1>6. \A x \in DeribitRec :
        [x EXCEPT !.waiting = 0].pending = x.pending /\ [x EXCEPT !.waiting = 0].waiting = 0
        /\ [x EXCEPT !.waiting = 0].next_id = x.next_id
  BY DEF DeribitRec
<1>7. c.pending \ {f.ev[1]} \in SUBSET Nat
  BY DEF DeribitRec
<1>8. f.kind \in {"ack", "error"} => d = [c EXCEPT !.pending = c.pending \ {f.ev[1]}]
  BY DEF Handler!Deribit!ProcessFrame, Handler!Deribit!None_
<1>9. f.kind \notin {"ack", "error"} => d = c \/ d = [c EXCEPT !.status = "Disconnected"]
  BY DEF Handler!Deribit!ProcessFrame, Handler!Deribit!None_, Handler!Deribit!Hand
<1> HIDE DEF d
<1>10. d \in DeribitRec
  BY <1>2, <1>3, <1>7, <1>8, <1>9
<1>11a. ASSUME f.kind \notin {"ack", "error"}
        PROVE  d.pending = c.pending /\ d.waiting = c.waiting /\ d.next_id = c.next_id
  BY <1>5, <1>9, <1>11a
<1>11b. ASSUME f.kind \in {"ack", "error"}
        PROVE  d.pending = c.pending \ {f.ev[1]} /\ d.waiting = c.waiting /\ d.next_id = c.next_id
  <2> DEFINE q == c.pending \ {f.ev[1]}
  <2>1. q \in SUBSET Nat /\ d = [c EXCEPT !.pending = q]
    BY <1>7, <1>8, <1>11b
  <2> HIDE DEF q
  <2>2. d.pending = q /\ d.waiting = c.waiting /\ d.next_id = c.next_id
    BY <1>4, <2>1
  <2> QED
    BY <2>2 DEF q
<1>12. /\ f.kind \in {"fault", "eof"} => r.ret = "error" /\ r.conn = [c EXCEPT !.waiting = 0]
       /\ f.kind \notin {"fault", "eof"} /\ c.waiting \in d.pending => r.ret = "again" /\ r.conn = d
       /\ f.kind \notin {"fault", "eof"} /\ c.waiting \notin d.pending =>
            r.ret \in {"error", "message"} /\ r.conn = [d EXCEPT !.waiting = 0]
  BY DEF Handler!Deribit!AwaitFrame, Handler!Deribit!Error, Handler!Deribit!Again, Handler!Deribit!Hand, d
<1>13. r.conn \in DeribitRec
  BY <1>1, <1>10, <1>12
<1>14. f.kind \notin {"fault", "eof", "ack", "error"} =>
         /\ r.ret = "again" /\ r.conn.waiting = c.waiting /\ r.conn.pending = c.pending
         /\ r.conn.next_id = c.next_id
  BY <1>11a, <1>12
<1>15. ASSUME f.kind \in {"ack", "error"}, f.ev = <<c.waiting>>
       PROVE  r.ret \in {"error", "message"} /\ r.conn.waiting = 0 /\ r.conn.pending = {} /\ r.conn.next_id = c.next_id
  <2>1. f.ev[1] = c.waiting /\ d.pending = {}
    BY <1>11b, <1>15
  <2>2. r.ret \in {"error", "message"} /\ r.conn = [d EXCEPT !.waiting = 0]
    BY <1>12, <1>15, <2>1
  <2> QED
    BY <1>6, <1>10, <1>11b, <1>15, <2>1, <2>2
<1> QED
  BY <1>12, <1>13, <1>14, <1>15

LEMMA AwaitFrameStep ==
  ASSUME HandlerInv, ~ plan.arb, plan' = plan, Handler!AwaitFrame PROVE HandlerInv'
<1> USE DEF HandlerInv
<1> DEFINE h == Head(sock)
           r == Handler!Deribit!AwaitFrame(conn, h)
<1>1. /\ pc \in Asking /\ sock # << >> /\ sock' = Tail(sock)
      /\ UNCHANGED <<sub, start, sent, snap, proc, todo, out, controls, market, answered, skipped, spoilt, early, unlinked>>
  BY DEF Handler!AwaitFrame, Handler!quietVars, Asking
<1>2. /\ r.ret = "error" => pc' = "failed" /\ conn' = r.conn
      /\ r.ret = "again" => pc' = pc /\ conn' = r.conn
      /\ r.ret = "message" /\ pc = "auth" => pc' = "heartbeat" /\ conn' = Handler!Deribit!SendRpc(r.conn)
      /\ r.ret = "message" /\ pc = "heartbeat" => pc' = "validate" /\ conn' = r.conn
      /\ r.ret = "message" /\ pc = "asked" =>
           pc' = Handler!AfterSubscribe /\ conn' = Handler!Deribit!Subscribed(r.conn)
  <2>1. ASSUME r.ret = "error" PROVE pc' = "failed" /\ conn' = r.conn
    BY <2>1 DEF Handler!AwaitFrame, Handler!End
  <2>2. ASSUME r.ret = "again" PROVE pc' = pc /\ conn' = r.conn
    BY <2>2 DEF Handler!AwaitFrame
  <2>3. CASE r.ret = "message"
    BY <2>3 DEF Handler!AwaitFrame, Handler!Answered
  <2> QED
    BY <2>1, <2>2, <2>3
<1>3. sub.venue = "deribit" /\ out = << >> /\ todo = << >> /\ conn \in DeribitRec /\ answered \in Nat /\ snap \in Nat
  BY <1>1 DEF Phased, Live, Asking, ConnTypes, HandlerTypes
<1>4. /\ conn.pending = {conn.waiting} /\ pc \in {"auth", "heartbeat"} => start = 0
      /\ pc = "auth" => conn.waiting = 1 /\ conn.next_id = 2 /\ answered \in {0, 1}
      /\ pc = "heartbeat" => conn.waiting = 2 /\ conn.next_id = 3 /\ answered \in {1, 2}
      /\ pc = "asked" => conn.waiting = 3 /\ conn.next_id = 4 /\ answered \in {2, 3}
  BY <1>1, <1>3 DEF DeribitConn, Request, Asking, Phased, Before
<1>4a. conn.pending = {conn.waiting}
  BY <1>1, <1>3 DEF DeribitConn, Request, Asking
<1>5. /\ h = sock[1] /\ Len(sock') = Len(sock) - 1 /\ Len(sock) \in Nat /\ Len(sock) > 0
      /\ \A i \in 1 .. Len(sock') : sock'[i] = sock[i + 1] /\ i + 1 \in 1 .. Len(sock)
  BY <1>1, HeadTailProperties, EmptySeq DEF HandlerTypes
<1>6. /\ h \in Frame
      /\ h.kind # "data" => Carried(sock) = Carried(sock')
      /\ h.kind = "data" => Carried(sock) = Covered(h.ev) \cup Carried(sock')
  BY <1>1, CarriedTail DEF HandlerTypes
<1> HIDE DEF h
<1>7. /\ r.conn \in DeribitRec
      /\ h.kind \in {"fault", "eof"} => r.ret = "error"
      /\ h.kind \notin {"fault", "eof", "ack", "error"} =>
           /\ r.ret = "again" /\ r.conn.waiting = conn.waiting /\ r.conn.pending = conn.pending
           /\ r.conn.next_id = conn.next_id
      /\ h.kind \in {"ack", "error"} /\ h.ev = <<conn.waiting>> =>
           /\ r.ret \in {"error", "message"} /\ r.conn.waiting = 0 /\ r.conn.pending = {}
           /\ r.conn.next_id = conn.next_id
  BY <1>3, <1>4a, <1>6, AwaitConn
<1> HIDE DEF r
<1>8. \A i \in 1 .. Len(sock') : IsAnswer(i)' <=> IsAnswer(i + 1)
  BY <1>5 DEF IsAnswer
<1>9. pc \in Live /\ 1 \in 1 .. Len(sock)
  BY <1>1, <1>5 DEF Asking, Live
<1>10. CASE r.ret = "error"
  <2>1. pc' = "failed" /\ ConnTypes' /\ EndExplained'
    BY <1>1, <1>2, <1>3, <1>7, <1>10 DEF ConnTypes, EndExplained, Handler!EndExplained, DeribitRec
  <2> QED
    BY <1>1, <2>1, EndStep
<1>11. CASE h.kind \notin {"fault", "eof", "ack", "error"}
  <2>1. /\ pc' = pc /\ conn' = r.conn /\ conn'.waiting = conn.waiting /\ conn'.pending = conn.pending
        /\ conn'.next_id = conn.next_id
    BY <1>2, <1>7, <1>11
  <2>2. ConnTypes' /\ Phased' /\ BinanceConn' /\ OkxConn'
    BY <1>1, <1>3, <1>7, <2>1 DEF ConnTypes, Phased, BinanceConn, OkxConn, DeribitRec
  <2>3. ~ IsAnswer(1)
    BY <1>5, <1>11 DEF IsAnswer
  <2>4. DeribitConn'
    <3>1. ASSUME answered' = conn'.waiting PROVE \E i \in 1 .. Len(sock') : IsAnswer(i)'
      <4>1. PICK i \in 1 .. Len(sock) : IsAnswer(i)
        BY <1>1, <1>3, <2>1, <3>1 DEF DeribitConn
      <4>2. i # 1
        BY <2>3, <4>1
      <4>3. i - 1 \in 1 .. Len(sock') /\ (i - 1) + 1 = i
        BY <1>5, <4>2
      <4>4. IsAnswer(i - 1)'
        BY <1>8, <4>1, <4>3
      <4> QED
        BY <4>3, <4>4
    <3>2. ASSUME NEW i \in 1 .. Len(sock'), IsAnswer(i)'
          PROVE  /\ answered' = conn'.waiting /\ sock'[i].ev = <<conn'.waiting>>
                 /\ \A j \in 1 .. Len(sock') : IsAnswer(j)' => j = i
      <4>1. IsAnswer(i + 1) /\ i + 1 \in 1 .. Len(sock) /\ sock'[i] = sock[i + 1]
        BY <1>5, <1>8, <3>2
      <4>2. /\ answered = conn.waiting /\ sock[i + 1].ev = <<conn.waiting>>
            /\ \A j \in 1 .. Len(sock) : IsAnswer(j) => j = i + 1
        BY <1>3, <1>9, <4>1 DEF DeribitConn
      <4>3. \A j \in 1 .. Len(sock') : IsAnswer(j)' => j + 1 = i + 1
        BY <1>5, <1>8, <4>2
      <4> QED
        BY <1>1, <2>1, <4>1, <4>2, <4>3, SMTT(30)
    <3>3. ASSUME pc' = "asked", NEW i \in 1 .. Len(sock'), sock'[i].kind = "data",
                 \A j \in 1 .. i - 1 : ~ IsAnswer(j)'
          PROVE  Covered(sock'[i].ev) \subseteq early'
      <4>1. sock'[i] = sock[i + 1] /\ i + 1 \in 1 .. Len(sock)
        BY <1>5
      <4>2. ASSUME NEW j \in 1 .. (i + 1) - 1 PROVE ~ IsAnswer(j)
        <5>1. CASE j # 1
          <6>1. j - 1 \in 1 .. i - 1 /\ j - 1 \in 1 .. Len(sock') /\ (j - 1) + 1 = j
            BY <1>5, <5>1
          <6> QED
            BY <1>8, <3>3, <6>1
        <5> QED
          BY <2>3, <5>1
      <4> QED
        BY <1>1, <1>3, <2>1, <3>3, <4>1, <4>2 DEF DeribitConn
    <3>4. Request("auth", 1)' /\ Request("heartbeat", 2)' /\ Request("asked", 3)'
      BY <1>1, <1>3, <2>1 DEF DeribitConn, Request
    <3> QED
      BY <1>1, <2>1, <3>1, <3>2, <3>3, <3>4 DEF DeribitConn, Asking, Live
  <2>5. AllExplained'
    <3>1. ASSUME pc = "asked", NEW e \in start .. sent, Explained(e) PROVE Explained(e)'
      <4>1. h.kind = "data" => Covered(h.ev) \subseteq early
        <5>1. \A j \in 1 .. 1 - 1 : ~ IsAnswer(j)
          OBVIOUS
        <5> QED
          BY <1>3, <1>5, <1>9, <3>1, <5>1 DEF DeribitConn
      <4>2. Sequenced' = Sequenced /\ Handed' = Handed
        BY <1>1 DEF Sequenced, Handler!Sequenced, Handler!v, Handed
      <4> QED
        BY <1>1, <1>6, <3>1, <4>1, <4>2 DEF Explained
    <3> QED
      BY <1>1, <1>3, <2>1, <3>1 DEF AllExplained, Asking
  <2> QED
    BY <1>1, <1>3, <1>9, <2>1, <2>2, <2>4, <2>5, MoveStep DEF PlanKept
<1>12. CASE h.kind \in {"ack", "error"} /\ r.ret # "error"
  <2>1. IsAnswer(1)
    BY <1>5, <1>12 DEF IsAnswer
  <2>2. answered = conn.waiting /\ h.ev = <<conn.waiting>> /\ \A j \in 1 .. Len(sock) : IsAnswer(j) => j = 1
    BY <1>3, <1>5, <1>9, <2>1 DEF DeribitConn
  <2>3. \A i \in 1 .. Len(sock') : ~ IsAnswer(i)'
    BY <1>5, <1>8, <2>2
  <2>4. r.ret = "message" /\ r.conn.waiting = 0 /\ r.conn.pending = {} /\ r.conn.next_id = conn.next_id
    BY <1>7, <1>12, <2>2
  <2>5. BinanceConn' /\ OkxConn'
    BY <1>1, <1>3 DEF BinanceConn, OkxConn
  <2>6. Carried(sock') = Carried(sock) /\ Sequenced' = Sequenced /\ Handed' = Handed
    BY <1>1, <1>6, <1>12 DEF Sequenced, Handler!Sequenced, Handler!v, Handed
  <2>7. CASE pc = "auth"
    <3>1. pc' = "heartbeat" /\ conn' = Handler!Deribit!SendRpc(r.conn) /\ r.conn.next_id = 2 /\ answered = 1
      BY <1>2, <1>4, <2>2, <2>4, <2>7
    <3>2. conn' \in DeribitRec /\ conn'.waiting = 2 /\ conn'.pending = {2} /\ conn'.next_id = 3
      BY <1>7, <2>4, <3>1, SendRpcConn
    <3>3. ConnTypes' /\ Phased' /\ AllExplained'
      BY <1>1, <1>3, <1>4, <2>7, <3>1, <3>2 DEF ConnTypes, Phased, AllExplained, Live, Before
    <3>4. DeribitConn'
      BY <1>1, <2>3, <3>1, <3>2 DEF DeribitConn, Request
    <3> QED
      BY <1>1, <1>3, <2>5, <3>1, <3>3, <3>4, MoveStep DEF PlanKept, Live
  <2>8. CASE pc = "heartbeat"
    <3>1. pc' = "validate" /\ conn' = r.conn /\ conn'.next_id = 3 /\ answered = 2
      BY <1>2, <1>4, <2>2, <2>4, <2>8
    <3>3. ConnTypes' /\ Phased' /\ AllExplained'
      BY <1>1, <1>3, <1>4, <1>7, <2>8, <3>1 DEF ConnTypes, Phased, AllExplained, Live, Before
    <3>4. DeribitConn'
      BY <1>1, <2>3, <2>4, <3>1 DEF DeribitConn, Request, Asking
    <3> QED
      BY <1>1, <1>3, <2>5, <3>1, <3>3, <3>4, MoveStep DEF PlanKept, Live
  <2>9. CASE pc = "asked"
    <3>1. /\ pc' = (IF sub.stream = "L2" THEN "snapshot" ELSE "loop")
          /\ conn' = [r.conn EXCEPT !.active = TRUE] /\ start # 0
      BY <1>2, <2>4, <2>9 DEF Handler!AfterSubscribe, Handler!Deribit!Subscribed, Phased
    <3>2. conn' \in DeribitRec /\ conn'.waiting = 0 /\ conn'.active
      <4>1. \A d \in DeribitRec : [d EXCEPT !.active = TRUE] \in DeribitRec
        BY DEF DeribitRec
      <4>2. \A d \in DeribitRec : [d EXCEPT !.active = TRUE].active /\ [d EXCEPT !.active = TRUE].waiting = d.waiting
        BY DEF DeribitRec
      <4> QED
        BY <1>7, <2>4, <3>1, <4>1, <4>2
    <3>3. ConnTypes' /\ Phased'
      BY <1>1, <1>3, <3>1, <3>2 DEF ConnTypes, Phased, Live, Before
    <3>4. DeribitConn'
      BY <1>1, <2>3, <3>1, <3>2 DEF DeribitConn, Request, Asking
    <3>5. AllExplained'
      <4>1. \A e \in start .. sent : Explained(e) => Explained(e)'
        BY <1>1, <2>6 DEF Explained
      <4> QED
        BY <1>1, <2>9, <4>1 DEF AllExplained
    <3> QED
      BY <1>1, <1>3, <2>5, <3>1, <3>3, <3>4, <3>5, MoveStep DEF PlanKept, Live
  <2> QED
    BY <1>1, <2>7, <2>8, <2>9 DEF Asking
<1> QED
  BY <1>7, <1>10, <1>11, <1>12

\* The steps that end the task before the loop, and the cancelled loop.
LEMMA StopStep ==
  ASSUME HandlerInv, ~ plan.arb, plan' = plan, Handler!Fail \/ Handler!AwaitTimeout \/ Handler!Stop
  PROVE  HandlerInv'
<1> USE DEF HandlerInv
<1>1. /\ pc' \in {"failed", "cancelled"} /\ sock' = sock
      /\ UNCHANGED <<sub, out, todo, snap, start, sent, market, answered, skipped, spoilt, early, unlinked, controls>>
  BY DEF Handler!Fail, Handler!AwaitTimeout, Handler!Stop, Handler!End, Handler!quietVars, Handler!serverVars
<1>2. conn' = conn \/ (Handler!AwaitTimeout /\ conn' = Handler!Deribit!AwaitTimeout(conn))
  BY DEF Handler!Fail, Handler!AwaitTimeout, Handler!Stop
<1>3. ConnTypes'
  <2>1. CASE conn' = conn
    BY <1>1, <2>1 DEF ConnTypes, DeribitRec
  <2>2. CASE Handler!AwaitTimeout /\ conn' = Handler!Deribit!AwaitTimeout(conn)
    <3>1. sub.venue = "deribit" /\ conn \in DeribitRec
      BY <2>2 DEF Handler!AwaitTimeout, Phased, ConnTypes, Live
    <3>2. \A d \in DeribitRec, q \in SUBSET Nat : [d EXCEPT !.pending = q, !.waiting = 0] \in DeribitRec
      BY DEF DeribitRec
    <3>3. conn.pending \ {conn.waiting} \in SUBSET Nat
      BY <3>1 DEF DeribitRec
    <3>4. conn' \in DeribitRec
      BY <2>2, <3>1, <3>2, <3>3 DEF Handler!Deribit!AwaitTimeout
    <3> QED
      BY <1>1, <3>1, <3>4 DEF ConnTypes, DeribitRec
  <2> QED
    BY <1>2, <2>1, <2>2
<1>4. EndExplained'
  BY <1>1 DEF EndExplained, Handler!EndExplained
<1> QED
  BY <1>1, <1>3, <1>4, EndStep

\* The snapshot is fetched once; diffs that arrived before it are in the
\* socket, none in the connector's buffer, so nothing is replayed.
LEMMA FetchSnapshotStep ==
  ASSUME HandlerInv, ~ plan.arb, plan' = plan, NEW id \in Handler!SnapshotIds, Handler!FetchSnapshot(id)
  PROVE  HandlerInv'
<1> USE DEF HandlerInv
<1>1. /\ pc = "snapshot" /\ pc' = "loop" /\ snap' = id
      /\ UNCHANGED <<sub, proc, out, sock, controls, market, start, sent, answered, skipped, spoilt, early, unlinked>>
  BY DEF Handler!FetchSnapshot, Handler!serverVars
<1>2. out = << >> /\ todo = << >> /\ start # 0 /\ sub.stream = "L2"
  BY <1>1 DEF Phased, Live
<1>3. sub.venue \in {"binance", "okx", "deribit"}
  BY DEF HandlerTypes, Handler!Subscription, Handler!Venue
<1>4. Handed = {}
  BY <1>2, CoveredEmpty DEF Handed
<1>5. id \in Nat
  BY DEF Handler!SnapshotIds, HandlerTypes, Handler!FinalId
<1>6. Sequenced' = Sequenced
  BY <1>1 DEF Sequenced, Handler!Sequenced, Handler!v
<1>7. CASE sub.venue = "binance"
  <2> DEFINE c == [conn EXCEPT !.sync = "Synchronizing", !.last = id]
  <2>1. conn.sync = "BufferingUpdates" /\ conn.buffer = << >> /\ ConnTypes
    BY <1>1, <1>7 DEF BinanceConn
  <2>2. /\ c \in BinanceRec
        /\ c.sync = "Synchronizing" /\ c.last = id /\ c.buffer = << >>
    BY <1>5, <1>7, <2>1 DEF ConnTypes, BinanceRec, Handler!Binance!SyncState
  <2>3. c = Handler!prepare_l2_sync(sub.venue, conn, id)
    BY <1>7 DEF Handler!prepare_l2_sync, Handler!Binance!PrepareL2Sync
  <2>4. conn' = Handler!Binance!TakeReplay(c).conn /\ todo' = Handler!Binance!TakeReplay(c).msgs
    BY <1>7, <2>3 DEF Handler!FetchSnapshot, Handler!take_l2_replay_messages, Handler!v
  <2> HIDE DEF c
  <2>5. Handler!Binance!NothingNewer(c)
    BY <2>2 DEF Handler!Binance!NothingNewer
  <2> DEFINE d == [c EXCEPT !.buffer = << >>]
  <2>6. Handler!Binance!ProcessBuffered(c) = [conn |-> d, valid |-> << >>, gap |-> FALSE]
    BY <2>5 DEF Handler!Binance!ProcessBuffered
  <2>7. /\ d \in BinanceRec
        /\ d.sync = "Synchronizing" /\ d.last = id /\ d.buffer = << >>
    BY <2>2 DEF BinanceRec
  <2> HIDE DEF d
  <2>8. conn' = [d EXCEPT !.buffer = << >>] /\ todo' = << >>
    BY <2>2, <2>4, <2>6, <2>7 DEF Handler!Binance!TakeReplay
  <2>9. /\ conn' \in BinanceRec
        /\ conn'.sync = "Synchronizing" /\ conn'.last = id
    BY <2>7, <2>8 DEF BinanceRec
  <2>10. Handed' = {}
    BY <1>1, <1>2, <2>8, CoveredEmpty DEF Handed
  <2>11. ConnTypes' /\ Phased' /\ BinanceConn' /\ OkxConn' /\ DeribitConn'
    BY <1>1, <1>2, <1>7, <2>8, <2>9, <2>10 DEF ConnTypes, Phased, BinanceConn, OkxConn, DeribitConn, Live, Before
  <2>12. AllExplained'
    <3>1. Unread
      BY <1>1, <1>7 DEF BinanceConn
    <3> QED
      BY <1>1, <3>1 DEF AllExplained, Explained, Unread
  <2> QED
    BY <1>1, <1>2, <1>5, <2>8, <2>11, <2>12, MoveStep DEF Live, PlanKept
<1>8. CASE sub.venue # "binance"
  <2>1. conn' = conn /\ todo' = << >>
    BY <1>8 DEF Handler!FetchSnapshot, Handler!take_l2_replay_messages, Handler!prepare_l2_sync, Handler!v
  <2>2. Handed' = {}
    BY <1>1, <1>2, <2>1, CoveredEmpty DEF Handed
  <2>3. ConnTypes' /\ Phased' /\ BinanceConn'
    BY <1>1, <1>2, <1>8, <2>1 DEF ConnTypes, DeribitRec, Phased, BinanceConn, Live, Before
  <2>4. DeribitConn'
    BY <1>1, <2>1 DEF DeribitConn, Request, IsAnswer, Asking, Live
  <2>5. AllExplained'
    <3>1. \A e \in start .. sent : Explained(e) => Explained(e)'
      BY <1>1, <1>4, <1>6, <1>8 DEF Explained
    <3> QED
      BY <1>1, <3>1 DEF AllExplained
  <2>6. OkxConn'
    <3>1. sub.venue = "okx" => proc = 0
      BY <1>1 DEF OkxConn, Live
    <3> QED
      BY <1>1, <2>2, <3>1 DEF OkxConn, Live
  <2> QED
    BY <1>1, <1>2, <1>5, <2>1, <2>3, <2>4, <2>5, <2>6, MoveStep DEF Live, PlanKept
<1> QED
  BY <1>7, <1>8

(***************************************************************************)
(* The loop reads a frame.                                                 *)
(***************************************************************************)
\* What the step leaves alone, whatever the frame.
Reads ==
  /\ pc = "loop" /\ todo = << >> /\ sock # << >> /\ sock' = Tail(sock)
  /\ UNCHANGED <<plan, sub, out, snap, start, sent, market, answered, skipped, spoilt, early, unlinked, controls>>

\* The loop goes on with `todo'`, a part of the frame; the rest is explained.
LEMMA ReadStep ==
  ASSUME HandlerInv, ~ plan.arb, Reads, pc' = "loop", todo' \in Seq(Nat), Increasing(todo'),
         Covered(todo') # {} => Head(sock).kind = "data",
         Head(sock).kind = "data" => Covered(todo') \subseteq Covered(Head(sock).ev),
         Head(sock).kind = "data" => \A e \in Covered(Head(sock).ev) : Explained(e)',
         sub.venue = "binance" /\ sub.stream = "L2" =>
           Handed # {} \/ \A e \in Covered(todo') : 2 * e > snap,
         sub.venue = "deribit" => conn'.waiting = 0 /\ conn'.active,
         ConnTypes', BinanceConn', OkxConn', Continuous'
  PROVE  HandlerInv'
<1> USE DEF HandlerInv
<1> DEFINE h == Head(sock)
<1>1. /\ pc = "loop" /\ todo = << >> /\ sock # << >> /\ sock' = Tail(sock) /\ sock \in Seq(Frame)
      /\ UNCHANGED <<plan, sub, out, snap, start, sent, market, answered, skipped, spoilt, early, unlinked, controls>>
  BY DEF Reads, HandlerTypes
<1>2. Handed = Covered(out) /\ Handed' = Covered(out) \cup Covered(todo') /\ Handed' = Handed \cup Covered(todo')
  BY <1>1, CoveredEmpty DEF Handed
<1>3. /\ h \in Frame
      /\ h.kind # "data" => Carried(sock) = Carried(sock')
      /\ h.kind = "data" => Carried(sock) = Covered(h.ev) \cup Carried(sock')
  BY <1>1, CarriedTail
<1>4. SockOrdered' /\ Controlled' /\ WireGaps' /\ (sock \in Seq(Frame))'
  BY <1>1, TailKeeps
<1>5. h.kind = "data" =>
        /\ Batch(sub.venue, h.ev) /\ Covered(h.ev) \subseteq start .. sent /\ start # 0
        /\ Below(Covered(h.ev), Carried(sock'))
  BY <1>1, FirstFrame
<1> HIDE DEF h
<1>6. Covered(todo') \subseteq start .. sent /\ (Covered(todo') # {} => start # 0)
  BY <1>5 DEF h
<1>7. Below(Covered(todo'), Carried(sock'))
  BY <1>5 DEF h, Below
<1>8. Covered(todo') \subseteq Carried(sock) /\ Carried(sock') \subseteq Carried(sock)
  BY <1>3 DEF h
<1>9. HandedOrdered'
  <2>1. Below(Handed, Carried(sock)) /\ Handed \subseteq start .. sent /\ Increasing(out) /\ (Handed # {} => start # 0)
    BY DEF HandedOrdered
  <2>2. Below(Covered(out'), Covered(todo'))
    BY <1>1, <1>2, <1>8, <2>1 DEF Below
  <2>3. Below(Handed', Carried(sock'))
    BY <1>2, <1>7, <1>8, <2>1 DEF Below
  <2> QED
    BY <1>1, <1>2, <1>6, <2>1, <2>2, <2>3 DEF HandedOrdered
<1>10. HandlerTypes' /\ PlanKept' /\ Phased' /\ EndExplained'
  BY <1>1, <1>4 DEF HandlerTypes, PlanKept, Phased, EndExplained, Handler!EndExplained, Live, Before
<1>11. DeribitConn'
  <2>1. SUFFICES ASSUME sub.venue = "deribit" PROVE DeribitConn'
    BY <1>1 DEF DeribitConn
  <2>2. \A i \in 1 .. Len(sock) : ~ IsAnswer(i)
    BY <1>1, <2>1 DEF DeribitConn, Live, Asking
  <2>3. \A i \in 1 .. Len(sock') : sock'[i] = sock[i + 1] /\ i + 1 \in 1 .. Len(sock)
    BY <1>1, HeadTailProperties, EmptySeq
  <2>4. \A i \in 1 .. Len(sock') : ~ IsAnswer(i)'
    BY <2>2, <2>3 DEF IsAnswer
  <2> QED
    BY <1>1, <2>1, <2>4 DEF DeribitConn, Request, Asking
<1>12. Sequenced' = Sequenced
  BY <1>1 DEF Sequenced, Handler!Sequenced, Handler!v
<1>13. AllExplained'
  <2>1. ASSUME NEW e \in start .. sent PROVE Explained(e)'
    <3>1. Explained(e)
      BY <1>1, <2>1 DEF AllExplained
    <3>2. CASE e \in Carried(sock) /\ e \notin Carried(sock')
      BY <1>3, <3>2 DEF h
    <3>3. CASE e \notin Carried(sock) \/ e \in Carried(sock')
      BY <1>1, <1>2, <1>12, <3>1, <3>3 DEF Explained
    <3> QED
      BY <3>2, <3>3
  <2> QED
    BY <1>1, <2>1 DEF AllExplained
<1>14. Bridged'
  <2> SUFFICES ASSUME sub.venue = "binance", sub.stream = "L2", snap + 2 >= 2 * start,
                      NEW z \in Handed', \A y \in Handed' : z <= y
               PROVE  /\ 2 * z >= snap + 1
                      /\ 2 * z <= snap + 2 \/ \E e \in start .. z - 1 : e \in skipped \cup spoilt /\ 2 * e > snap
    BY <1>1 DEF Bridged
  <2>1. start \in Nat /\ sent \in Nat /\ snap \in Nat
    BY DEF HandlerTypes
  <2>2. CASE Handed # {}
    <3>1. PICK a \in Handed : TRUE
      BY <2>2
    <3>2. a \in Nat /\ (z \in Covered(todo') => a < z /\ z \in Nat)
      BY <1>6, <1>8, <2>1 DEF HandedOrdered, Below
    <3>3. z \in Handed /\ \A y \in Handed : z <= y
      BY <1>2, <3>2
    <3> QED
      BY <3>3 DEF Bridged
  <2>3. CASE Handed = {}
    <3>1. z \in Covered(todo') /\ z \in start .. sent /\ 2 * z > snap /\ h.kind = "data" /\ z \in Covered(h.ev)
      BY <1>2, <1>6, <2>3 DEF h
    <3>2. ASSUME 2 * z > snap + 2 PROVE \E e \in start .. z - 1 : e \in skipped \cup spoilt /\ 2 * e > snap
      <4>1. z - 1 \in start .. z - 1 /\ 2 * (z - 1) > snap /\ z - 1 \in start .. sent /\ z - 1 < z /\ z \in Nat
        BY <2>1, <3>1, <3>2
      <4>2. Explained(z - 1) /\ early = {}
        BY <1>1, <4>1 DEF AllExplained
      <4>3. z - 1 \notin Covered(h.ev)
        <5>1. Len(h.ev) = 1
          BY <1>5, <3>1 DEF Batch
        <5>2. \A i \in 1 .. Len(h.ev) : i = 1
          BY <5>1
        <5>3. h.ev[1] = z
          <6>1. PICK i \in 1 .. Len(h.ev) : h.ev[i] = z
            BY <3>1, CoveredDef, SMTT(30)
          <6> QED
            BY <5>2, <6>1
        <5>4. z - 1 \in Covered(h.ev) => z - 1 = z
          <6>1. SUFFICES ASSUME z - 1 \in Covered(h.ev) PROVE z - 1 = z
            OBVIOUS
          <6>2. PICK i \in 1 .. Len(h.ev) : h.ev[i] = z - 1
            BY <6>1, CoveredDef, SMTT(30)
          <6> QED
            BY <5>2, <5>3, <6>2
        <5> QED
          BY <4>1, <5>4
      <4>4. z - 1 \notin Carried(sock')
        BY <1>5, <3>1, <4>1 DEF Below
      <4>5. z - 1 \in skipped \cup spoilt
        <5>1. z - 1 \notin Carried(sock) /\ z - 1 \notin Handed
          BY <1>3, <2>3, <3>1, <4>3, <4>4
        <5>2. ~ (2 * (z - 1) <= snap)
          BY <2>1, <4>1
        <5> QED
          BY <4>2, <5>1, <5>2 DEF Explained
      <4> QED
        BY <4>1, <4>5
    <3> QED
      BY <2>1, <3>1, <3>2
  <2> QED
    BY <2>2, <2>3
<1> QED
  BY <1>4, <1>9, <1>10, <1>11, <1>13, <1>14

\* Up to q the events es follow what was handed on, or are the first.
Chained(es, q) ==
  \/ Handed = {} /\ \A e \in Covered(es), y \in Nat : e <= y /\ y <= q => y \in Covered(es)
  \/ \E p \in Nat : Unbroken(p) /\ \A y \in Nat : p < y /\ y <= q => y \in Covered(es)

\* The chain goes on over the events of the frame: those handed on and those
\* that did not convert.
LEMMA ChainGoesOn ==
  ASSUME HandlerInv, Reads, Head(sock).kind = "data",
         NEW q \in Covered(Head(sock).ev), \A e \in Covered(Head(sock).ev) : e <= q,
         Covered(todo') \subseteq Covered(Head(sock).ev),
         Covered(Head(sock).ev) \subseteq Covered(todo') \cup spoilt,
         Chained(Head(sock).ev, q)
  PROVE  q \in Nat /\ q \in start .. sent /\ Unbroken(q)' /\ Continuous'
<1> USE DEF HandlerInv
<1> DEFINE C == Covered(Head(sock).ev)
<1>1. /\ pc = "loop" /\ todo = << >> /\ sock # << >> /\ sock' = Tail(sock) /\ sock \in Seq(Frame)
      /\ UNCHANGED <<plan, sub, out, snap, start, sent, market, answered, skipped, spoilt, early, unlinked, controls>>
  BY DEF Reads, HandlerTypes
<1>2. Handed' = Handed \cup Covered(todo')
  BY <1>1, CoveredEmpty DEF Handed
<1>3. C \subseteq start .. sent /\ Below(C, Carried(sock'))
  BY <1>1, FirstFrame
<1>4. start \in Nat /\ sent \in Nat /\ C \subseteq Nat /\ q \in Nat /\ q \in start .. sent
  BY <1>3 DEF HandlerTypes
<1>5. C \subseteq Carried(sock)
  BY <1>1, CarriedTail
<1>6. Handed \subseteq Nat /\ \A a \in Handed, b \in C : a < b
  BY <1>4, <1>5 DEF HandedOrdered, Below
<1> HIDE DEF C
<1>7. \A a \in Handed' : a \in Nat /\ a <= q
  BY <1>2, <1>4, <1>6 DEF C
<1>8. ASSUME NEW a \in Handed', NEW y \in Nat, a <= y, y <= q PROVE y \in Handed' \cup spoilt'
  <2>1. a \in Handed \/ a \in C
    BY <1>2 DEF C
  <2>2. y \in C => y \in Handed' \cup spoilt'
    BY <1>1, <1>2 DEF C
  <2>3. CASE Handed = {} /\ \A e \in C, x \in Nat : e <= x /\ x <= q => x \in C
    BY <1>8, <2>1, <2>2, <2>3
  <2>4. ASSUME NEW p \in Nat, Unbroken(p), \A x \in Nat : p < x /\ x <= q => x \in C
        PROVE  y \in Handed' \cup spoilt'
    <3>1. CASE p < y
      BY <1>8, <2>2, <2>4, <3>1
    <3>2. CASE y <= p
      <4>1. \A b \in C : p < b
        BY <1>5, <2>4 DEF Unbroken, Below
      <4>2. a \in Handed
        <5>1. a \in C => p < a /\ a \in Nat
          BY <1>4, <4>1
        <5> QED
          BY <1>8, <2>1, <2>4, <3>2, <5>1
      <4> QED
        BY <1>1, <1>2, <1>8, <2>4, <3>2, <4>2 DEF Unbroken
    <3> QED
      BY <3>1, <3>2
  <2> QED
    BY <2>3, <2>4 DEF C, Chained
<1>9. Below({q}, Carried(sock'))
  BY <1>3 DEF Below, C
<1>10. Unbroken(q)'
  BY <1>7, <1>8, <1>9 DEF Unbroken
<1>11. Continuous'
  <2> SUFFICES ASSUME NEW a \in Handed', NEW z \in Handed', NEW y \in Nat, a <= y, y <= z
               PROVE  y \in Handed' \cup spoilt'
    BY DEF Continuous
  <2>1. y <= q
    BY <1>4, <1>7
  <2> QED
    BY <1>8, <2>1
<1> QED
  BY <1>4, <1>10, <1>11

\* A frame hands nothing on: the order of what was handed on stays.
LEMMA ReadNothing ==
  ASSUME HandlerInv, Reads, todo' = << >>
  PROVE  Handed' = Handed /\ Covered(todo') = {} /\ Continuous' /\ Increasing(todo') /\ todo' \in Seq(Nat)
<1>1. Handed' = Handed /\ Covered(todo') = {} /\ Increasing(todo') /\ todo' \in Seq(Nat)
  BY CoveredEmpty DEF Reads, Handed, Increasing
<1>2. Sequenced' = Sequenced /\ spoilt' = spoilt
  BY DEF Reads, Sequenced, Handler!Sequenced, Handler!v
<1> QED
  BY <1>1, <1>2 DEF Continuous, HandlerInv

LEMMA BatchFacts ==
  ASSUME NEW venue, NEW es, Batch(venue, es)
  PROVE  /\ es \in Seq(Nat) /\ Len(es) \in 1 .. 2 /\ es # << >> /\ Increasing(es)
         /\ es[1] \in Nat /\ es[1] \in Covered(es)
         /\ es[Len(es)] \in Nat /\ es[Len(es)] \in Covered(es)
         /\ \A e \in Covered(es) : e \in Nat /\ e <= es[Len(es)] /\ es[1] <= e
         /\ \A e \in Covered(es) : e = es[1] \/ e = es[Len(es)]
         /\ venue = "binance" => Len(es) = 1
<1>1. es \in Seq(Nat) /\ Len(es) \in 1 .. 2
  BY DEF Batch
<1>2. es[1] \in Nat /\ es[Len(es)] \in Nat /\ es # << >>
  BY <1>1
<1>3. es[1] \in Covered(es) /\ es[Len(es)] \in Covered(es)
  BY <1>1, CoveredDef
<1>4. Len(es) = 1 \/ (Len(es) = 2 /\ es[1] < es[2])
  BY <1>1 DEF Batch
<1>5. ASSUME NEW e \in Covered(es) PROVE e = es[1] \/ e = es[Len(es)]
  <2>1. PICK i \in 1 .. Len(es) : es[i] = e
    BY <1>5, CoveredDef
  <2> QED
    BY <1>4, <2>1
<1>6. es[1] <= es[Len(es)]
  BY <1>2, <1>4
<1>7. Increasing(es)
  BY <1>4 DEF Increasing
<1>8. venue = "binance" => Len(es) = 1
  BY <1>1 DEF Batch
<1> QED
  BY <1>1, <1>2, <1>3, <1>5, <1>6, <1>7, <1>8

\* The end of the stream is in the controls the server sent.
LEMMA EndedByServer ==
  ASSUME HandlerInv, ~ plan.arb, Reads, pc' = "ended", todo' = todo, ConnTypes',
         \/ Head(sock).kind \in {"close", "eof"}
         \/ sub.venue # "binance" /\ Head(sock).kind \in {"ping", "heartbeat"}
  PROVE  HandlerInv'
<1>1. 1 \in 1 .. Len(sock) /\ sock[1] = Head(sock)
  BY HeadTailProperties, EmptySeq DEF Reads, HandlerInv, HandlerTypes
<1>2. Head(sock).kind \notin {"data", "ack", "error"}
  OBVIOUS
<1>3. Head(sock).kind \in controls \/ (Head(sock).kind = "eof" /\ "close" \in controls)
  BY <1>1, <1>2 DEF HandlerInv, Controlled
<1>4. EndExplained'
  BY <1>3 DEF EndExplained, Handler!EndExplained, Handler!Ending, Handler!v, Reads
<1> QED
  BY <1>4, EndStep DEF Reads

LEMMA ReadFails ==
  ASSUME HandlerInv, ~ plan.arb, Reads, pc' = "failed", todo' = todo, ConnTypes' PROVE HandlerInv'
<1>1. EndExplained'
  BY DEF EndExplained, Handler!EndExplained
<1> QED
  BY <1>1, EndStep DEF Reads

\* Binance's next_message in a loop that has its snapshot.
LEMMA BinanceReads ==
  ASSUME NEW c \in BinanceRec, c.sync \in {"Synchronizing", "Synchronized", "TradeStream"}, NEW f,
         f.kind \in {"data", "ping", "close", "eof", "fault"}, f.kind = "data" => f.ev[1] \in Nat,
         NEW r, r = Handler!Binance!NextMessage(c, f)
  PROVE  /\ r.conn \in BinanceRec
         /\ r.ret \in {"message", "again", "none", "error"}
         /\ r.ret = "none" => f.kind \in {"close", "eof"}
         /\ r.ret = "again" =>
              /\ r.conn = c
              /\ f.kind = "data" => c.sync = "Synchronizing" /\ 2 * f.ev[1] <= c.last
         /\ r.ret = "message" =>
              /\ f.kind = "data"
              /\ c.sync = "TradeStream" \/ f.bad = "text" => r.conn = c
              /\ c.sync # "TradeStream" /\ f.bad # "text" =>
                   /\ r.conn.sync = "Synchronized" /\ r.conn.last = 2 * f.ev[1]
                   /\ c.sync = "Synchronizing" => 2 * f.ev[1] > c.last
                   /\ c.sync = "Synchronized" => 2 * f.ev[1] = c.last + 2
<1> DEFINE e == f.ev[1]
           synced == [c EXCEPT !.sync = "Synchronized", !.last = Handler!Binance!FinalId(e)]
<1> USE DEF Handler!Binance!None_, Handler!Binance!Again, Handler!Binance!Hand, Handler!Binance!Error
<1>1. CASE f.kind = "data" /\ f.bad # "text" /\ c.sync # "TradeStream"
  <2>1. r = Handler!Binance!DepthUpdate(c, e) /\ e \in Nat /\ c.last \in Nat
    BY <1>1 DEF Handler!Binance!NextMessage, BinanceRec
  <2>2. Handler!Binance!FinalId(e) = 2 * e /\ Handler!Binance!PrevId(e) = 2 * e - 2 /\ 2 * e \in Nat
    BY <2>1 DEF Handler!Binance!FinalId, Handler!Binance!PrevId
  <2>3. synced \in BinanceRec /\ synced.sync = "Synchronized" /\ synced.last = 2 * e
    BY <2>2 DEF BinanceRec, Handler!Binance!SyncState
  <2> HIDE DEF synced, e
  <2>4. CASE c.sync = "Synchronizing"
    <3>1. /\ 2 * e <= c.last => r = [conn |-> c, ret |-> "again"]
          /\ ~ (2 * e <= c.last) => r = [conn |-> synced, ret |-> "message"]
      BY <2>1, <2>2, <2>4 DEF Handler!Binance!DepthUpdate, Handler!Binance!Old, synced
    <3>2. ~ (2 * e <= c.last) => 2 * e > c.last
      BY <2>1
    <3> QED
      BY <1>1, <2>3, <2>4, <3>1, <3>2 DEF e
  <2>5. CASE c.sync = "Synchronized"
    <3>1. /\ 2 * e - 2 = c.last => r = [conn |-> synced, ret |-> "message"]
          /\ ~ (2 * e - 2 = c.last) => r = [conn |-> c, ret |-> "error"]
      BY <2>1, <2>2, <2>5 DEF Handler!Binance!DepthUpdate, Handler!Binance!Continues, synced
    <3>2. 2 * e - 2 = c.last => 2 * e = c.last + 2
      BY <2>1
    <3> QED
      BY <1>1, <2>3, <2>5, <3>1, <3>2 DEF e
  <2> QED
    BY <1>1, <2>4, <2>5
<1>2. CASE f.kind = "data" /\ (f.bad = "text" \/ c.sync = "TradeStream")
  <2>1. r = [conn |-> c, ret |-> "message"]
    BY <1>2 DEF Handler!Binance!NextMessage
  <2> QED
    BY <1>2, <2>1
<1>3. CASE f.kind = "ping"
  <2>1. r = [conn |-> c, ret |-> "again"]
    BY <1>3 DEF Handler!Binance!NextMessage, Handler!Binance!NotText
  <2> QED
    BY <1>3, <2>1
<1>4. CASE f.kind \in {"close", "eof", "fault"}
  <2>1. r.ret = IF f.kind = "fault" THEN "error" ELSE "none"
    BY <1>4 DEF Handler!Binance!NextMessage
  <2>2. r.conn \in {[c EXCEPT !.status = "Disconnected", !.sync = "Disconnected"],
                    [c EXCEPT !.status = "Disconnected"], [c EXCEPT !.status = "Failed"]}
    BY <1>4 DEF Handler!Binance!NextMessage
  <2>3. r.conn \in BinanceRec
    BY <2>2 DEF BinanceRec, Handler!Binance!SyncState
  <2> QED
    BY <1>4, <2>1, <2>3
<1> QED
  BY <1>1, <1>2, <1>3, <1>4

LEMMA ReadBinance ==
  ASSUME HandlerInv, ~ plan.arb, plan' = plan, Handler!ReadFrame, sub.venue = "binance"
  PROVE  HandlerInv'
<1> USE DEF HandlerInv
<1> DEFINE h == Head(sock)
           r == Handler!Binance!NextMessage(conn, h)
           u == Handler!process_unified_message(sub, proc, h)
<1>1. Reads /\ pc = "loop" /\ todo = << >>
  BY DEF Handler!ReadFrame, Handler!Reading, Reads, Handler!serverVars
<1>2. r = Handler!next_message(sub.venue, conn, h)
  BY DEF Handler!next_message
<1>3. /\ conn' = r.conn
      /\ r.ret = "message" => todo' = u.ev /\ pc' = pc
      /\ r.ret = "again" => todo' = todo /\ pc' = pc
      /\ r.ret = "none" => todo' = todo /\ pc' = "ended"
      /\ r.ret = "error" => todo' = todo /\ pc' = "failed"
  BY <1>2 DEF Handler!ReadFrame, Handler!v, Handler!End
<1>4. /\ h \in Frame
      /\ h.kind = "data" => Covered(h.ev) \subseteq Carried(sock) /\ Covered(h.ev) \cap Carried(sock') = {}
  BY <1>1, CarriedTail, FirstFrame DEF HandlerTypes, Reads, Below
<1>5. h.kind = "data" =>
        /\ Batch(sub.venue, h.ev) /\ Covered(h.ev) \subseteq start .. sent /\ start # 0
        /\ Recorded(sub, h, spoilt, unlinked)
  BY <1>1, FirstFrame DEF Reads
<1> HIDE DEF h
<1>6. h.kind \in {"data", "ping", "close", "eof", "fault"}
  BY <1>4 DEF Frame, Kinds, Handler!ControlFrames
<1>7. h.kind = "data" => /\ h.ev[1] \in Nat /\ Covered(h.ev) = {h.ev[1]} /\ Len(h.ev) = 1
                         /\ h.ev \in Seq(Nat) /\ Increasing(h.ev)
  <2> SUFFICES ASSUME h.kind = "data"
               PROVE  /\ h.ev[1] \in Nat /\ Covered(h.ev) = {h.ev[1]} /\ Len(h.ev) = 1
                      /\ h.ev \in Seq(Nat) /\ Increasing(h.ev)
    OBVIOUS
  <2>1. Batch(sub.venue, h.ev)
    BY <1>5
  <2> QED
    BY <2>1, BatchFacts
<1>8. conn \in BinanceRec /\ conn.sync \in {"Synchronizing", "Synchronized", "TradeStream"}
  <2>1. sub.stream \in {"L2", "Trade"}
    BY DEF HandlerTypes, Handler!Subscription
  <2> QED
    BY <1>1, <2>1 DEF ConnTypes, BinanceConn
<1>9. /\ r.conn \in BinanceRec
      /\ r.ret \in {"message", "again", "none", "error"}
      /\ r.ret = "none" => h.kind \in {"close", "eof"}
      /\ r.ret = "again" =>
           /\ r.conn = conn
           /\ h.kind = "data" => conn.sync = "Synchronizing" /\ 2 * h.ev[1] <= conn.last
      /\ r.ret = "message" =>
           /\ h.kind = "data"
           /\ conn.sync = "TradeStream" \/ h.bad = "text" => r.conn = conn
           /\ conn.sync # "TradeStream" /\ h.bad # "text" =>
                /\ r.conn.sync = "Synchronized" /\ r.conn.last = 2 * h.ev[1]
                /\ conn.sync = "Synchronizing" => 2 * h.ev[1] > conn.last
                /\ conn.sync = "Synchronized" => 2 * h.ev[1] = conn.last + 2
  BY <1>6, <1>7, <1>8, BinanceReads
<1> HIDE DEF r
<1>10. ConnTypes' /\ OkxConn'
  BY <1>1, <1>3, <1>9 DEF ConnTypes, OkxConn, Reads
<1>11. CASE r.ret = "error"
  BY <1>1, <1>3, <1>10, <1>11, ReadFails
<1>12. CASE r.ret = "none"
  BY <1>1, <1>3, <1>9, <1>10, <1>12, EndedByServer DEF h
<1>13. CASE r.ret = "again"
  <2>1. conn' = conn /\ todo' = << >> /\ pc' = "loop"
    BY <1>1, <1>3, <1>9, <1>13
  <2>2. Handed' = Handed /\ Covered(todo') = {} /\ Continuous' /\ Increasing(todo') /\ todo' \in Seq(Nat)
    BY <1>1, <2>1, ReadNothing
  <2>3. ASSUME NEW p \in Nat, Unbroken(p) PROVE Unbroken(p)'
    <3>1. Carried(sock') \subseteq Carried(sock)
      BY <1>1, CarriedTail DEF Reads, HandlerTypes
    <3> QED
      BY <1>1, <2>2, <2>3, <3>1 DEF Unbroken, Below, Reads
  <2>4. BinanceConn'
    BY <1>1, <2>1, <2>2, <2>3 DEF BinanceConn, Reads
  <2>5. ASSUME h.kind = "data", NEW e \in Covered(h.ev) PROVE Explained(e)'
    <3>1. conn.sync = "Synchronizing" /\ 2 * e <= conn.last
      BY <1>7, <1>9, <1>13, <2>5
    <3>2. sub.stream = "L2" /\ conn.last = snap
      BY <1>1, <3>1 DEF BinanceConn, HandlerTypes, Handler!Subscription
    <3> QED
      BY <1>1, <3>1, <3>2 DEF Explained, Reads
  <2> QED
    BY <1>1, <1>10, <2>1, <2>2, <2>4, <2>5, ReadStep DEF h
<1>14. CASE r.ret = "message"
  <2>1. h.kind = "data" /\ todo' = u.ev /\ pc' = "loop"
    BY <1>1, <1>3, <1>9, <1>14
  <2>0. PICK e \in Nat : e = h.ev[1]
    BY <1>7, <2>1
  <2>2. u.ev = (IF h.bad = "none" THEN h.ev ELSE << >>)
    BY <2>1 DEF Handler!process_unified_message, Handler!process_message, Handler!process_trade_message,
                Handler!Binance!ProcessMessage, Handler!Binance!ProcessTradeMessage,
                Handler!Binance!Updates, Handler!Binance!Failure
  <2>3. todo' \in Seq(Nat) /\ Increasing(todo') /\ Covered(todo') \subseteq Covered(h.ev)
        /\ (h.bad = "none" => Covered(todo') = Covered(h.ev))
    BY <1>7, <2>1, <2>2, CoveredEmpty DEF Increasing
  <2>4. Covered(h.ev) \subseteq Covered(todo') \cup spoilt
    <3>1. h.bad # "none" => Covered(h.ev) \subseteq spoilt
      BY <1>5, <2>1 DEF Recorded, Handler!Spoilt, Covered
    <3> QED
      BY <2>3, <3>1
  <2>5. Handed' = Handed \cup Covered(todo')
    BY <1>1, CoveredEmpty DEF Handed, Reads
  <2>6. \A x \in Covered(h.ev) : Explained(x)'
    BY <1>1, <2>4, <2>5 DEF Explained, Reads
  <2>7. CASE conn.sync = "TradeStream"
    <3>1. conn' = conn /\ sub.stream = "Trade"
      BY <1>1, <1>3, <1>9, <1>14, <2>7 DEF BinanceConn, HandlerTypes, Handler!Subscription
    <3>2. BinanceConn' /\ Continuous'
      BY <1>1, <2>1, <2>7, <3>1 DEF BinanceConn, Continuous, Sequenced, Handler!Sequenced, Reads
    <3> QED
      BY <1>1, <1>10, <2>1, <2>3, <2>6, <3>1, <3>2, ReadStep DEF h
  <2>9. CASE conn.sync # "TradeStream" /\ h.bad = "text"
    <3>1. conn' = conn /\ todo' = << >>
      BY <1>3, <1>9, <1>14, <2>1, <2>2, <2>9
    <3>2. Handed' = Handed /\ Covered(todo') = {} /\ Continuous' /\ Increasing(todo') /\ todo' \in Seq(Nat)
      BY <1>1, <3>1, ReadNothing
    <3>3. ASSUME NEW p \in Nat, Unbroken(p) PROVE Unbroken(p)'
      <4>1. Carried(sock') \subseteq Carried(sock)
        BY <1>1, CarriedTail DEF Reads, HandlerTypes
      <4> QED
        BY <1>1, <3>2, <3>3, <4>1 DEF Unbroken, Below, Reads
    <3>4. BinanceConn'
      BY <1>1, <2>1, <3>1, <3>2, <3>3 DEF BinanceConn, Reads
    <3> QED
      BY <1>1, <1>10, <2>1, <2>6, <3>2, <3>4, ReadStep DEF h
  <2>8. CASE conn.sync # "TradeStream" /\ h.bad # "text"
    <3>1. sub.stream = "L2" /\ conn'.sync = "Synchronized" /\ conn'.last = 2 * e
      BY <1>1, <1>3, <1>9, <1>14, <2>0, <2>8 DEF BinanceConn, HandlerTypes, Handler!Subscription
    <3>2. Covered(h.ev) = {e}
      BY <1>7, <2>0, <2>1
    <3>3. conn.sync = "Synchronizing" => Handed = {} /\ 2 * e > snap
      <4>1. ASSUME conn.sync = "Synchronizing" PROVE conn.last = snap /\ Handed = {} /\ 2 * h.ev[1] > conn.last
        BY <1>1, <1>9, <1>14, <2>8, <3>1, <4>1 DEF BinanceConn
      <4> QED
        BY <2>0, <4>1
    <3>4. conn.sync = "Synchronized" => \E p \in Nat : Unbroken(p) /\ e = p + 1 /\ 2 * p > snap
      <4>1. ASSUME conn.sync = "Synchronized" PROVE \E p \in Nat : Unbroken(p) /\ e = p + 1 /\ 2 * p > snap
        <5>1. PICK p \in Nat : conn.last = 2 * p /\ 2 * p > snap /\ Unbroken(p)
          BY <1>1, <3>1, <4>1 DEF BinanceConn
        <5>2. 2 * h.ev[1] = 2 * p + 2
          BY <1>9, <1>14, <2>8, <4>1, <5>1
        <5> QED
          BY <2>0, <5>1, <5>2
      <4> QED
        BY <4>1
    <3>5. e \in Covered(h.ev) /\ \A x \in Covered(h.ev) : x <= e
      BY <3>2
    <3>6. Chained(h.ev, e)
      <4>1. CASE conn.sync = "Synchronizing"
        <5>1. \A x \in Covered(h.ev), y \in Nat : x <= y /\ y <= e => y \in Covered(h.ev)
          BY <3>2
        <5> QED
          BY <3>3, <4>1, <5>1 DEF Chained
      <4>2. CASE conn.sync = "Synchronized"
        <5>1. PICK p \in Nat : Unbroken(p) /\ e = p + 1
          BY <3>4, <4>2
        <5>2. \A y \in Nat : p < y /\ y <= e => y \in Covered(h.ev)
          BY <3>2, <5>1
        <5> QED
          BY <5>1, <5>2 DEF Chained
      <4> QED
        BY <1>8, <2>8, <4>1, <4>2
    <3>7. e \in start .. sent /\ Unbroken(e)' /\ Continuous'
      BY <1>1, <2>1, <2>3, <2>4, <3>5, <3>6, ChainGoesOn DEF h
    <3>7a. 2 * e > snap
      <4>1. ASSUME NEW p \in Nat, e = p + 1, 2 * p > snap PROVE 2 * e > snap
        BY <4>1 DEF HandlerTypes
      <4> QED
        BY <1>8, <2>8, <3>3, <3>4, <4>1
    <3>8. BinanceConn'
      BY <1>1, <2>1, <3>1, <3>2, <3>7, <3>7a DEF BinanceConn, Reads
    <3>9. Handed # {} \/ \A x \in Covered(todo') : 2 * x > snap
      BY <2>3, <3>2, <3>7a
    <3> QED
      BY <1>1, <1>10, <2>1, <2>3, <2>6, <3>7, <3>8, <3>9, ReadStep DEF h
  <2> QED
    BY <2>7, <2>8, <2>9
<1> QED
  BY <1>9, <1>11, <1>12, <1>13, <1>14

\* A batch without its last event, or whole.
Prefix(es, n) == SubSeq(es, 1, Len(es) - n)
LEMMA PrefixFacts ==
  ASSUME NEW venue, NEW es, Batch(venue, es), NEW n \in {0, 1}
  PROVE  /\ Prefix(es, n) \in Seq(Nat) /\ Increasing(Prefix(es, n))
         /\ Covered(Prefix(es, n)) \subseteq Covered(es)
         /\ Covered(es) \subseteq Covered(Prefix(es, n)) \cup {es[Len(es)]}
         /\ n = 0 => Covered(Prefix(es, n)) = Covered(es)
         /\ Len(Prefix(es, n)) = Len(es) - n /\ \A i \in 1 .. Len(Prefix(es, n)) : Prefix(es, n)[i] = es[i]
<1> DEFINE t == Prefix(es, n)
<1>1. es \in Seq(Nat) /\ Len(es) \in 1 .. 2 /\ Increasing(es)
  BY BatchFacts
<1>2. t \in Seq(Nat) /\ Len(t) = Len(es) - n /\ \A i \in 1 .. Len(t) : t[i] = es[i]
  <2>a. Len(es) \in Nat /\ 1 <= Len(es)
    <3> DEFINE k == Len(es)
    <3>1. k \in 1 .. 2
      BY <1>1
    <3> HIDE DEF k
    <3>2. k \in Nat /\ 1 <= k
      BY <3>1
    <3> QED
      BY <3>2 DEF k
  <2>b. n \in Nat /\ n <= 1
    OBVIOUS
  <2>0. n \in Nat /\ n <= 1 /\ Len(es) \in Nat /\ 1 <= Len(es)
    BY <2>a, <2>b
  <2>1. Len(es) - n \in Int /\ Len(es) - n >= 0 /\ \A i \in 1 .. Len(es) - n : i \in 1 .. Len(es)
    BY <2>0
  <2>2. 1 \in Int /\ \A i \in 1 .. Len(es) - n : es[i] \in Nat
    BY <1>1, <2>1
  <2> DEFINE m == Len(es) - n
  <2>3. m \in Int /\ \A i \in 1 .. m : es[i] \in Nat
    BY <2>1, <2>2
  <2>4. t = SubSeq(es, 1, m)
    BY DEF Prefix
  <2> HIDE DEF m
  <2>5. /\ t \in Seq(Nat)
        /\ Len(t) = IF 1 <= m THEN m - 1 + 1 ELSE 0
        /\ \A i \in 1 .. m - 1 + 1 : t[i] = es[1 + i - 1]
    BY <2>2, <2>3, <2>4, SubSeqProperties
  <2>6. m >= 0
    BY <2>1 DEF m
  <2>7. Len(t) = m
    BY <2>3, <2>5, <2>6
  <2>8. \A i \in 1 .. m : i \in 1 .. m - 1 + 1 /\ 1 + i - 1 = i
    BY <2>3
  <2> QED
    BY <2>5, <2>7, <2>8 DEF m
<1> HIDE DEF t
<1>3. Increasing(t)
  <2>1. \A i \in 1 .. Len(t) : i \in 1 .. Len(es)
    BY <1>1, <1>2
  <2> QED
    BY <1>1, <1>2, <2>1 DEF Increasing
<1>4. ASSUME NEW e \in Covered(t) PROVE e \in Covered(es)
  <2>1. PICK i \in 1 .. Len(t) : t[i] = e
    BY <1>4, CoveredDef
  <2>2. i \in 1 .. Len(es) /\ es[i] = e
    BY <1>1, <1>2, <2>1, SMTT(30)
  <2> QED
    BY <2>2, CoveredDef
<1>5. ASSUME NEW e \in Covered(es) PROVE e \in Covered(t) \/ (n = 1 /\ e = es[Len(es)])
  <2>1. PICK i \in 1 .. Len(es) : es[i] = e
    BY <1>5, CoveredDef
  <2>2. i \in 1 .. Len(t) \/ (n = 1 /\ i = Len(es))
    BY <1>1, <1>2
  <2> QED
    BY <1>2, <2>1, <2>2, CoveredDef
<1>6. /\ t \in Seq(Nat) /\ Increasing(t) /\ Covered(t) \subseteq Covered(es)
      /\ Covered(es) \subseteq Covered(t) \cup {es[Len(es)]}
      /\ n = 0 => Covered(t) = Covered(es)
  BY <1>2, <1>3, <1>4, <1>5, SMTT(30)
<1> QED
  BY <1>2, <1>6 DEF t

\* The chain of prevSeqId over the events a .. q of one message: the message
\* fails before its first event if nothing in it can be read, or at the first
\* event that does not follow or whose time stamp is bad, or moves the chain to q.
Stops(f) == f.bad = "text" \/ (f.bad = "time" /\ Len(f.ev) = 1)
ChainOutcome(p, f, a, q, u) ==
  /\ Stops(f) \/ (p # 0 /\ 2 * a - 2 # p) => u.proc = p /\ u.ev = << >>
  /\ ~ Stops(f) /\ (p = 0 \/ 2 * a - 2 = p) /\ Len(f.ev) = 2 /\ (q # a + 1 \/ f.bad = "time") =>
       u.proc = 2 * a /\ u.ev = << >>
  /\ f.bad \notin {"text", "time"} /\ (p = 0 \/ 2 * a - 2 = p) /\ (Len(f.ev) = 1 \/ q = a + 1) =>
       u.proc = 2 * q /\ u.ev = IF f.bad = "none" THEN f.ev ELSE << >>

\* Where the chain stands once the events `es` of a message that can be read have
\* been taken, g being the first that does not follow.
LEMMA GapIn ==
  ASSUME NEW p \in Nat, NEW es \in Seq(Nat), Len(es) \in 0 .. 2, \A i \in 1 .. Len(es) : es[i] # 0
  PROVE  LET G == Handler!Okx!Gaps(p, es)
             g == Handler!Okx!FirstGap(p, es)
         IN /\ Len(es) = 0 => G = {}
            /\ Len(es) > 0 /\ p # 0 /\ 2 * es[1] - 2 # p => G # {} /\ g = 1
            /\ Len(es) = 2 /\ (p = 0 \/ 2 * es[1] - 2 = p) /\ es[2] # es[1] + 1 => G # {} /\ g = 2
            /\ Len(es) > 0 /\ (p = 0 \/ 2 * es[1] - 2 = p) /\ (Len(es) = 1 \/ es[2] = es[1] + 1) => G = {}
<1> DEFINE G == Handler!Okx!Gaps(p, es)
           g == Handler!Okx!FirstGap(p, es)
<1>1. \A i \in 1 .. Len(es) : es[i] \in Nat /\ (i = 1 \/ (i = 2 /\ Len(es) = 2))
  BY ElementOfSeq
<1>2. \A i : i \in G <=> i \in 1 .. Len(es) /\ Handler!Okx!Gap(p, es, i)
  BY DEF Handler!Okx!Gaps
<1>3. g = CHOOSE k \in G : \A j \in G : k <= j
  BY DEF Handler!Okx!FirstGap
<1> HIDE DEF G, g
<1>4. Handler!Okx!Gap(p, es, 1) <=> p # 0 /\ 2 * es[1] - 2 # p
  BY DEF Handler!Okx!Gap, Handler!Okx!PrevId
<1>5. ASSUME Len(es) = 2 PROVE Handler!Okx!Gap(p, es, 2) <=> es[2] # es[1] + 1
  <2>1. Handler!Okx!Gap(p, es, 2) <=> 2 * es[2 - 1] # 0 /\ 2 * es[2] - 2 # 2 * es[2 - 1]
    BY DEF Handler!Okx!Gap, Handler!Okx!PrevId, Handler!Okx!FinalId
  <2>2. es[1] \in Nat /\ es[2] \in Nat /\ es[1] # 0
    BY <1>1, <1>5
  <2>3. ASSUME NEW a \in Nat, NEW b \in Nat, a # 0
        PROVE (2 * a # 0 /\ 2 * b - 2 # 2 * a) <=> b # a + 1
    BY <2>3, SMTT(30)
  <2>4. es[2 - 1] = es[1]
    OBVIOUS
  <2> QED
    BY <2>1, <2>2, <2>3, <2>4
<1>6. CASE Len(es) = 0
  BY <1>2, <1>6 DEF G
<1>7. CASE Len(es) > 0 /\ p # 0 /\ 2 * es[1] - 2 # p
  <2>1. 1 \in G /\ \A j \in G : 1 <= j
    BY <1>2, <1>4, <1>7
  <2>2. g \in G /\ \A j \in G : g <= j
    BY <1>3, <2>1
  <2>3. g = 1
    BY <1>2, <2>1, <2>2
  <2> QED
    BY <1>7, <2>1, <2>3 DEF G, g
<1>8. CASE Len(es) = 2 /\ (p = 0 \/ 2 * es[1] - 2 = p) /\ es[2] # es[1] + 1
  <2>1. G = {2}
    BY <1>1, <1>2, <1>4, <1>5, <1>8
  <2>2. g = 2
    BY <1>3, <2>1
  <2> QED
    BY <1>8, <2>1, <2>2 DEF G, g
<1>9. CASE Len(es) > 0 /\ (p = 0 \/ 2 * es[1] - 2 = p) /\ (Len(es) = 1 \/ es[2] = es[1] + 1)
  <2>1. G = {}
    BY <1>1, <1>2, <1>4, <1>5, <1>9
  <2> QED
    BY <1>9, <2>1 DEF G
<1> QED
  BY <1>6, <1>7, <1>8, <1>9 DEF G, g

LEMMA OkxChain ==
  ASSUME NEW venue, NEW f, NEW p \in Nat, f.kind = "data", Batch(venue, f.ev), f.ev[1] # 0,
         NEW a \in Nat, a = f.ev[1], NEW q \in Nat, q = f.ev[Len(f.ev)], a <= q,
         NEW u, u = Handler!Okx!ProcessMessage(p, f, TRUE)
  PROVE  ChainOutcome(p, f, a, q, u)
<1> DEFINE es == Handler!Okx!Reached(f)
           G == Handler!Okx!Gaps(p, es)
           g == Handler!Okx!FirstGap(p, es)
           last == Handler!Okx!Following(p, es)
<1>1. /\ f.ev \in Seq(Nat) /\ Len(f.ev) \in 1 .. 2 /\ f.ev[1] = a
      /\ Len(f.ev) = 1 => q = a
      /\ Len(f.ev) = 2 => q = f.ev[2]
  BY BatchFacts
<1>2. /\ f.bad # "time" => es = f.ev
      /\ f.bad = "time" => es = SubSeq(f.ev, 1, Len(f.ev) - 1)
  BY DEF Handler!Okx!Reached
<1> HIDE DEF es
<1>3. f.bad = "time" => /\ es \in Seq(Nat)
                        /\ Len(f.ev) = 1 => Len(es) = 0
                        /\ Len(f.ev) = 2 => Len(es) = 1 /\ es[1] = a
  <2>1. /\ Prefix(f.ev, 1) \in Seq(Nat) /\ Len(Prefix(f.ev, 1)) = Len(f.ev) - 1
        /\ \A i \in 1 .. Len(Prefix(f.ev, 1)) : Prefix(f.ev, 1)[i] = f.ev[i]
    BY PrefixFacts, SMTT(30)
  <2>2. f.bad = "time" => es = Prefix(f.ev, 1)
    BY <1>2 DEF Prefix
  <2> HIDE DEF Prefix
  <2>3. /\ Len(f.ev) = 1 => Len(Prefix(f.ev, 1)) = 0
        /\ Len(f.ev) = 2 => Len(Prefix(f.ev, 1)) = 1
    <3>1. ASSUME NEW m, NEW n, m = n - 1 PROVE (n = 1 => m = 0) /\ (n = 2 => m = 1)
      BY <3>1
    <3> QED
      BY <2>1, <3>1
  <2>4. 1 \in 1 .. 1
    OBVIOUS
  <2> QED
    BY <1>1, <2>1, <2>2, <2>3, <2>4
<1>4. es \in Seq(Nat) /\ Len(es) \in 0 .. 2 /\ \A i \in 1 .. Len(es) : es[i] # 0
  <2>1. CASE f.bad = "time"
    <3>1. \A i \in 1 .. 1 : i = 1
      OBVIOUS
    <3>2. 1 .. 0 = {}
      OBVIOUS
    <3>3. Len(f.ev) = 1 \/ Len(f.ev) = 2
      BY <1>1
    <3>4. CASE Len(f.ev) = 1
      <4>1. Len(es) = 0
        BY <1>3, <2>1, <3>4
      <4> QED
        BY <1>3, <2>1, <3>2, <4>1
    <3>5. CASE Len(f.ev) = 2
      <4>1. Len(es) = 1 /\ es[1] = a
        BY <1>3, <2>1, <3>5
      <4>2. 1 .. Len(es) = 1 .. 1 /\ a # 0
        BY <1>1, <4>1
      <4> QED
        BY <1>3, <2>1, <3>1, <4>1, <4>2
    <3> QED
      BY <3>3, <3>4, <3>5
  <2>2. CASE f.bad # "time"
    <3>1. \A i \in 1 .. Len(es) : i = 1 \/ (i = 2 /\ Len(f.ev) = 2)
      BY <1>1, <1>2, <2>2
    <3> QED
      BY <1>1, <1>2, <2>2, <3>1
  <2> QED
    BY <2>1, <2>2
<1>5. /\ Len(es) = 0 => G = {}
      /\ Len(es) > 0 /\ p # 0 /\ 2 * es[1] - 2 # p => G # {} /\ g = 1
      /\ Len(es) = 2 /\ (p = 0 \/ 2 * es[1] - 2 = p) /\ es[2] # es[1] + 1 => G # {} /\ g = 2
      /\ Len(es) > 0 /\ (p = 0 \/ 2 * es[1] - 2 = p) /\ (Len(es) = 1 \/ es[2] = es[1] + 1) => G = {}
  BY <1>4, GapIn
<1>6. f.bad = "text" => u.proc = p /\ u.ev = << >>
  BY DEF Handler!Okx!ProcessMessage, Handler!Okx!Failure
<1>7. f.bad # "text" /\ G # {} => u.proc = (IF g = 1 THEN p ELSE 2 * f.ev[g - 1]) /\ u.ev = << >>
  BY DEF Handler!Okx!ProcessMessage, Handler!Okx!Failure, Handler!Okx!FinalId, es
<1>8. f.bad = "none" /\ G = {} => u.proc = 2 * q /\ u.ev = f.ev
  BY DEF Handler!Okx!ProcessMessage, Handler!Okx!Updates, Handler!Okx!FinalId, Handler!Okx!LastEvent, es
<1>9. f.bad \notin {"none", "text"} /\ G = {} => u.proc = last /\ u.ev = << >>
  BY DEF Handler!Okx!ProcessMessage, Handler!Okx!Failure, es
<1>10. last = IF es = << >> THEN p ELSE 2 * es[Len(es)]
  BY DEF Handler!Okx!Following, Handler!Okx!FinalId
<1> HIDE DEF G, g, last
<1>11. CASE f.bad = "text"
  BY <1>6, <1>11 DEF ChainOutcome, Stops
<1>12. CASE f.bad = "time" /\ Len(f.ev) = 1
  <2>1. Len(es) = 0 /\ es = << >>
    BY <1>3, <1>12, EmptySeq
  <2> QED
    BY <1>5, <1>9, <1>10, <1>12, <2>1 DEF ChainOutcome, Stops
<1>13. CASE f.bad = "time" /\ Len(f.ev) = 2
  <2>1. Len(es) = 1 /\ es[1] = a
    BY <1>3, <1>13
  <2>2. es # << >> /\ es[Len(es)] = a
    <3>1. es = << >> => Len(es) = 0
      BY <1>4, EmptySeq
    <3>2. es # << >>
      BY <2>1, <3>1
    <3>3. es[Len(es)] = es[1]
      BY <2>1
    <3> QED
      BY <2>1, <3>2, <3>3
  <2>3. /\ p # 0 /\ 2 * a - 2 # p => G # {} /\ g = 1
        /\ p = 0 \/ 2 * a - 2 = p => G = {}
    BY <1>5, <2>1
  <2>4. f.bad # "text" /\ f.bad # "none" /\ f.bad = "time" /\ Len(f.ev) # 1
    BY <1>13
  <2>5. p # 0 /\ 2 * a - 2 # p => u.proc = p /\ u.ev = << >>
    BY <1>7, <2>3, <2>4
  <2>6. p = 0 \/ 2 * a - 2 = p => u.proc = 2 * a /\ u.ev = << >>
    BY <1>9, <1>10, <2>2, <2>3, <2>4
  <2> QED
    BY <2>4, <2>5, <2>6 DEF ChainOutcome, Stops
<1>14. CASE f.bad \notin {"text", "time"}
  <2>1. es = f.ev /\ es[1] = a /\ Len(es) > 0 /\ (Len(es) = 2 => es[2] = q) /\ es # << >> /\ es[Len(es)] = q
    BY <1>1, <1>2, <1>14, EmptySeq
  <2>2. p # 0 /\ 2 * a - 2 # p => u.proc = p /\ u.ev = << >>
    BY <1>5, <1>7, <1>14, <2>1
  <2>3. ASSUME p = 0 \/ 2 * a - 2 = p, Len(f.ev) = 2, q # a + 1 PROVE u.proc = 2 * a /\ u.ev = << >>
    <3>1. G # {} /\ g = 2
      BY <1>5, <2>1, <2>3
    <3>2. f.ev[g - 1] = a /\ g # 1
      BY <1>1, <3>1
    <3> QED
      BY <1>7, <1>14, <3>1, <3>2
  <2>4. ASSUME p = 0 \/ 2 * a - 2 = p, Len(f.ev) = 1 \/ q = a + 1
        PROVE  u.proc = 2 * q /\ u.ev = IF f.bad = "none" THEN f.ev ELSE << >>
    <3>1. G = {}
      BY <1>1, <1>5, <2>1, <2>4
    <3> QED
      BY <1>8, <1>9, <1>10, <1>14, <2>1, <3>1
  <2> QED
    BY <1>14, <2>2, <2>3, <2>4 DEF ChainOutcome, Stops
<1>15. Len(f.ev) = 1 \/ Len(f.ev) = 2
  BY <1>1
<1> QED
  BY <1>11, <1>12, <1>13, <1>14, <1>15

LEMMA ReadOkx ==
  ASSUME HandlerInv, ~ plan.arb, plan' = plan, Handler!ReadFrame, sub.venue = "okx"
  PROVE  HandlerInv'
<1> USE DEF HandlerInv
<1> DEFINE h == Head(sock)
           r == Handler!Okx!NextMessage(conn, h)
           u == Handler!process_unified_message(sub, proc, h)
<1>1. Reads /\ pc = "loop" /\ todo = << >>
  BY DEF Handler!ReadFrame, Handler!Reading, Reads, Handler!serverVars
<1>2. r = Handler!next_message(sub.venue, conn, h)
  BY DEF Handler!next_message
<1>3. /\ conn' = r.conn
      /\ r.ret = "message" => proc' = u.proc /\ todo' = u.ev /\ pc' = pc
      /\ r.ret = "none" => todo' = todo /\ pc' = "ended"
      /\ r.ret = "error" => todo' = todo /\ pc' = "failed"
  BY <1>2 DEF Handler!ReadFrame, Handler!v, Handler!End
<1>4. h \in Frame
  BY <1>1, CarriedTail DEF HandlerTypes, Reads
<1>5. h.kind = "data" =>
        /\ Batch(sub.venue, h.ev) /\ Covered(h.ev) \subseteq start .. sent /\ start # 0
        /\ Recorded(sub, h, spoilt, unlinked)
        /\ Below(Covered(h.ev), Carried(sock'))
  BY <1>1, FirstFrame DEF Reads
<1>6. h.kind = "data" => Carried(sock) = Covered(h.ev) \cup Carried(sock')
  BY <1>1, CarriedTail DEF HandlerTypes, Reads
<1> HIDE DEF h
<1>7. h.kind \in {"data", "ack", "error", "ping", "close", "eof", "fault"}
  BY <1>4 DEF Frame, Kinds, Handler!ControlFrames
<1>8. /\ h.kind \in {"close", "eof", "ping"} => r.ret = "none"
      /\ h.kind = "fault" => r.ret = "error"
      /\ h.kind \in {"data", "ack", "error"} => r.ret = "message" /\ r.conn = conn
      /\ r.conn \in {conn, [conn EXCEPT !.status = "Disconnected"], [conn EXCEPT !.status = "Error"]}
  BY <1>7 DEF Handler!Okx!NextMessage, Handler!Okx!None_, Handler!Okx!Error, Handler!Okx!Hand
<1>9. ConnTypes'
  BY <1>1, <1>3, <1>8 DEF ConnTypes, Reads
<1>10. BinanceConn'
  BY <1>1 DEF BinanceConn, Reads
<1>11. Sequenced' = Sequenced /\ (Sequenced <=> sub.stream = "L2" /\ sub.chained)
  BY <1>1 DEF Sequenced, Handler!Sequenced, Handler!v, Reads
<1>12. start \in Nat /\ sent \in Nat /\ sub.stream \in {"L2", "Trade"} /\ sub.chained \in BOOLEAN
  BY DEF HandlerTypes, Handler!Subscription
<1>13. CASE h.kind = "fault"
  BY <1>1, <1>3, <1>8, <1>9, <1>13, ReadFails
<1>14. CASE h.kind \in {"close", "eof", "ping"}
  BY <1>1, <1>3, <1>8, <1>9, <1>14, EndedByServer DEF h
<1>15. CASE h.kind \in {"ack", "error"}
  <2>0. u.proc = proc /\ u.ev = << >>
    <3>1. CASE sub.stream = "Trade"
      BY <1>15, <3>1 DEF Handler!process_unified_message, Handler!process_trade_message,
                         Handler!Okx!ProcessTradeMessage, Handler!Okx!Updates
    <3>2. CASE sub.stream # "Trade" /\ h.kind = "ack"
      BY <3>2 DEF Handler!process_unified_message, Handler!process_message,
                  Handler!Okx!ProcessMessage, Handler!Okx!Updates
    <3>3. CASE sub.stream # "Trade" /\ h.kind = "error"
      BY <3>3 DEF Handler!process_unified_message, Handler!process_message,
                  Handler!Okx!ProcessMessage, Handler!Okx!Failure
    <3> QED
      BY <1>15, <3>1, <3>2, <3>3
  <2>1. proc' = proc /\ todo' = << >> /\ pc' = "loop"
    BY <1>1, <1>3, <1>8, <1>15, <2>0
  <2>2. Handed' = Handed /\ Covered(todo') = {} /\ Continuous' /\ Increasing(todo') /\ todo' \in Seq(Nat)
    BY <1>1, <2>1, ReadNothing
  <2>3. Carried(sock') = Carried(sock)
    BY <1>1, <1>15, CarriedTail DEF HandlerTypes, Reads, h
  <2>4. \A p \in Nat : (Unbroken(p) => Unbroken(p)') /\ (Pending(p) => Pending(p)') /\ (Broken(p) => Broken(p)')
    BY <1>1, <2>2, <2>3 DEF Unbroken, Pending, Broken, Reads
  <2>6. OkxConn'
    BY <1>1, <1>11, <2>1, <2>2, <2>4 DEF OkxConn, Reads
  <2> QED
    BY <1>1, <1>9, <1>10, <1>15, <2>1, <2>2, <2>6, ReadStep DEF h
<1>16. CASE h.kind = "data"
  <2>1. proc' = u.proc /\ todo' = u.ev /\ pc' = "loop"
    BY <1>1, <1>3, <1>8, <1>16
  <2>2. Batch(sub.venue, h.ev)
    BY <1>5, <1>16
  <2>3. PICK a \in Nat : a = h.ev[1]
    BY <2>2, BatchFacts
  <2>4. PICK q \in Nat : q = h.ev[Len(h.ev)]
    BY <2>2, BatchFacts
  <2>5. /\ h.ev \in Seq(Nat) /\ Len(h.ev) \in 1 .. 2 /\ Increasing(h.ev)
        /\ a \in Covered(h.ev) /\ q \in Covered(h.ev)
        /\ \A e \in Covered(h.ev) : e \in Nat /\ e <= q /\ a <= e
        /\ \A e \in Covered(h.ev) : e = a \/ e = q
    BY <2>2, <2>3, <2>4, BatchFacts
  <2>6. a \in start .. sent /\ q \in start .. sent /\ a # 0 /\ a <= q /\ start # 0
    BY <1>5, <1>12, <1>16, <2>5
  <2>7. Handed' = Handed \cup Covered(todo')
    BY <1>1, CoveredEmpty DEF Handed, Reads
  <2>8. \A e \in Covered(h.ev) : e \in Covered(todo') \cup spoilt => Explained(e)'
    BY <1>1, <2>7 DEF Explained, Reads
  <2>9. CASE sub.stream = "Trade"
    <3>1. /\ todo' \in Seq(Nat) /\ Increasing(todo') /\ Covered(todo') \subseteq Covered(h.ev)
          /\ Covered(h.ev) \subseteq Covered(todo') \cup spoilt
      <4>1. CASE h.bad \in {"none", "side"}
        <5> DEFINE n == IF h.bad = "side" THEN 1 ELSE 0
        <5>1. todo' = SubSeq(h.ev, 1, Len(h.ev) - n)
          <6>1. h.bad = "none" => todo' = h.ev /\ n = 0
            BY <1>16, <2>1, <2>9 DEF Handler!process_unified_message, Handler!process_trade_message,
                                     Handler!Okx!ProcessTradeMessage, Handler!Okx!Updates
          <6>2. h.bad = "side" => todo' = SubSeq(h.ev, 1, Len(h.ev) - 1) /\ n = 1
            BY <1>16, <2>1, <2>9 DEF Handler!process_unified_message, Handler!process_trade_message,
                                     Handler!Okx!ProcessTradeMessage, Handler!Okx!Updates
          <6>3. SubSeq(h.ev, 1, Len(h.ev) - 0) = h.ev
            BY <2>5
          <6> HIDE DEF n
          <6> QED
            BY <4>1, <6>1, <6>2, <6>3
        <5>2. n \in {0, 1} /\ (n = 1 => q \in spoilt)
          BY <1>5, <1>16, <2>4, <2>9 DEF Recorded, Handler!Spoilt
        <5> HIDE DEF n
        <5>3. /\ todo' \in Seq(Nat) /\ Increasing(todo') /\ Covered(todo') \subseteq Covered(h.ev)
              /\ Covered(h.ev) \subseteq Covered(todo') \cup {h.ev[Len(h.ev)]}
              /\ n = 0 => Covered(todo') = Covered(h.ev)
          BY <2>2, <5>1, <5>2, PrefixFacts DEF Prefix
        <5> QED
          BY <2>4, <5>2, <5>3
      <4>2. CASE h.bad \notin {"none", "side"}
        <5>1. todo' = << >>
          BY <1>16, <2>1, <2>9, <4>2 DEF Handler!process_unified_message, Handler!process_trade_message,
                                         Handler!Okx!ProcessTradeMessage, Handler!Okx!Failure
        <5>2. Covered(h.ev) \subseteq spoilt
          BY <1>5, <1>16, <4>2 DEF Recorded, Handler!Spoilt, Covered
        <5> QED
          BY <5>1, <5>2, CoveredEmpty DEF Increasing
      <4> QED
        BY <4>1, <4>2
    <3>4. \A e \in Covered(h.ev) : Explained(e)'
      BY <2>8, <3>1
    <3>5. OkxConn' /\ Continuous'
      BY <1>1, <1>11, <2>1, <2>9 DEF OkxConn, Continuous, Reads
    <3> QED
      BY <1>1, <1>9, <1>10, <1>16, <2>1, <3>1, <3>4, <3>5, ReadStep DEF h
  <2>9a. sub.stream = "L2" /\ h.bad # "none" => Covered(h.ev) \subseteq spoilt
    BY <1>5, <1>16 DEF Recorded, Handler!Spoilt, Covered
  <2>10. ASSUME todo' = (IF h.bad = "none" THEN h.ev ELSE << >>), sub.stream = "L2"
         PROVE  /\ todo' \in Seq(Nat) /\ Increasing(todo') /\ Covered(todo') \subseteq Covered(h.ev)
                /\ Covered(h.ev) \subseteq Covered(todo') \cup spoilt
                /\ \A e \in Covered(h.ev) : Explained(e)'
    <3>1. /\ todo' \in Seq(Nat) /\ Increasing(todo') /\ Covered(todo') \subseteq Covered(h.ev)
          /\ h.bad = "none" => Covered(todo') = Covered(h.ev)
      BY <2>5, <2>10, CoveredEmpty DEF Increasing
    <3> QED
      BY <2>8, <2>9a, <2>10, <3>1
  <2>11. CASE sub.stream = "L2" /\ ~ sub.chained
    <3>1. todo' = (IF h.bad = "none" THEN h.ev ELSE << >>)
      BY <1>16, <2>1, <2>11 DEF Handler!process_unified_message, Handler!process_message,
                               Handler!Okx!ProcessMessage, Handler!Okx!Updates, Handler!Okx!Failure
    <3>2. OkxConn' /\ Continuous'
      BY <1>1, <1>11, <2>1, <2>11 DEF OkxConn, Continuous, Reads
    <3> QED
      BY <1>1, <1>9, <1>10, <1>16, <2>1, <2>10, <2>11, <3>1, <3>2, ReadStep DEF h
  <2>12. CASE sub.stream = "L2" /\ sub.chained
    <3>0. sub.chained = TRUE /\ u = Handler!Okx!ProcessMessage(proc, h, TRUE) /\ Sequenced
      BY <1>11, <1>12, <2>12 DEF Handler!process_unified_message, Handler!process_message
    <3>1. /\ proc = 0 /\ Handed = {}
          \/ \E p \in Nat : proc = 2 * p /\ p \in start .. sent /\ (Broken(p) \/ (Unbroken(p) /\ Pending(p)))
      BY <1>1, <3>0 DEF OkxConn
    <3>2. proc \in Nat
      BY <3>1
    <3> HIDE DEF u
    <3>3. ChainOutcome(proc, h, a, q, u)
      <4>1. h.ev[1] # 0 /\ a = h.ev[1] /\ q = h.ev[Len(h.ev)] /\ h.kind = "data" /\ Batch(sub.venue, h.ev)
        BY <1>16, <2>2, <2>3, <2>4, <2>6
      <4>2. u = Handler!Okx!ProcessMessage(proc, h, TRUE)
        BY <3>0
      <4> HIDE <3>0
      <4> QED
        BY <2>6, <3>2, <4>1, <4>2, OkxChain
    <3>4. ASSUME NEW p \in Nat, p \in start .. sent, proc' = 2 * p, todo' = << >>, Broken(p)',
                 \A e \in Covered(h.ev) : p <= e
          PROVE  HandlerInv'
      <4>1. Handed' = Handed /\ Covered(todo') = {} /\ Continuous' /\ Increasing(todo') /\ todo' \in Seq(Nat)
        BY <1>1, <3>4, ReadNothing
      <4>2. OkxConn'
        BY <1>1, <2>1, <3>4 DEF OkxConn, Reads
      <4>3. ASSUME NEW e \in Covered(h.ev) PROVE Explained(e)'
        <5>1. p + 1 \in start .. e + 1 /\ p + 1 \in (skipped \cup unlinked)'
          BY <1>12, <2>5, <3>4, <4>3 DEF Broken
        <5> QED
          BY <1>1, <1>11, <3>0, <5>1 DEF Explained, Reads
      <4> QED
        BY <1>1, <1>9, <1>10, <1>16, <2>1, <4>1, <4>2, <4>3, ReadStep DEF h
    <3>4a. CASE Stops(h) /\ proc = 0
      <4>1. proc' = 0 /\ todo' = << >>
        BY <2>1, <3>3, <3>4a DEF ChainOutcome
      <4>2. Handed' = Handed /\ Covered(todo') = {} /\ Continuous' /\ Increasing(todo') /\ todo' \in Seq(Nat)
        BY <1>1, <4>1, ReadNothing
      <4>3. Handed' = {}
        BY <1>12, <2>6, <3>1, <3>4a, <4>2
      <4>4. OkxConn'
        BY <1>1, <2>1, <4>1, <4>3 DEF OkxConn, Reads
      <4>5. \A e \in Covered(h.ev) : Explained(e)'
        BY <2>8, <2>9a, <2>12, <3>4a DEF Stops
      <4> QED
        BY <1>1, <1>9, <1>10, <1>16, <2>1, <4>1, <4>2, <4>4, <4>5, ReadStep DEF h
    <3>4b. Stops(h) => a \in unlinked
      BY <1>5, <1>16, <2>3, <2>5, <2>12 DEF Recorded, Handler!Unlinked, Stops, Covered
    <3>5. CASE proc # 0 /\ (Stops(h) \/ 2 * a - 2 # proc)
      <4>1. PICK p \in Nat : proc = 2 * p /\ p \in start .. sent /\ (Broken(p) \/ (Unbroken(p) /\ Pending(p)))
        BY <3>1, <3>5
      <4>2. (a = p + 1 => a \in unlinked) /\ a \in Carried(sock)
        BY <1>6, <1>16, <2>5, <3>4b, <3>5, <4>1
      <4>3. \A e \in Carried(sock) : e \in Nat /\ a <= e
        BY <1>5, <1>6, <1>16, <2>5, CarriedDef DEF Below
      <4>4. Carried(sock') \subseteq Carried(sock)
        BY <1>6, <1>16
      <4>5. CASE Broken(p)
        <5>1. Broken(p)' /\ p + 1 < a
          BY <1>1, <4>2, <4>4, <4>5 DEF Broken, Below, Reads
        <5>2. \A e \in Covered(h.ev) : p <= e
          BY <2>5, <5>1
        <5> QED
          BY <2>1, <3>3, <3>4, <3>5, <4>1, <5>1, <5>2 DEF ChainOutcome
      <4>6. CASE Unbroken(p) /\ Pending(p)
        <5>1. p < a
          BY <4>2, <4>6 DEF Unbroken, Below
        <5>2. p + 1 <= a /\ p + 1 \in p + 1 .. sent /\ p + 1 <= sent
          BY <1>12, <2>6, <5>1
        <5>3. p + 1 # a => p + 1 \notin Carried(sock)
          BY <4>3, <5>2
        <5>4. p + 1 \in skipped \cup unlinked
          BY <4>2, <4>6, <5>2, <5>3 DEF Pending
        <5>5. Below({p + 1}, Carried(sock'))
          BY <1>5, <1>16, <2>5, <5>2, CarriedDef DEF Below
        <5>6. Broken(p)'
          BY <1>1, <5>2, <5>4, <5>5 DEF Broken, Reads
        <5>7. \A e \in Covered(h.ev) : p <= e
          BY <2>5, <5>1
        <5> QED
          BY <2>1, <3>3, <3>4, <3>5, <4>1, <5>6, <5>7 DEF ChainOutcome
      <4> QED
        BY <4>1, <4>5, <4>6
    <3>6. CASE ~ Stops(h) /\ (proc = 0 \/ 2 * a - 2 = proc) /\ Len(h.ev) = 2 /\ (q # a + 1 \/ h.bad = "time")
      <4>1. a + 1 <= q /\ a + 1 <= sent
        BY <1>12, <2>2, <2>3, <2>4, <2>6, <3>6 DEF Batch
      <4>2. a + 1 = q => a + 1 \in unlinked
        BY <1>5, <1>16, <2>4, <2>12, <3>6 DEF Recorded, Handler!Unlinked
      <4>3. ASSUME a + 1 # q PROVE a + 1 \notin Carried(sock)
        <5>1. a + 1 \notin Covered(h.ev)
          BY <2>5, <4>1, <4>3
        <5>2. a + 1 \notin Carried(sock')
          BY <1>5, <1>16, <2>5, <4>1, CarriedDef DEF Below
        <5> QED
          BY <1>6, <1>16, <5>1, <5>2
      <4>4. a + 1 \in skipped \cup unlinked
        <5>1. a \in Carried(sock)
          BY <1>6, <1>16, <2>5
        <5> QED
          BY <4>1, <4>2, <4>3, <5>1 DEF WireGaps
      <4>5. Below({a + 1}, Carried(sock'))
        BY <1>5, <1>16, <2>5, <4>1, CarriedDef DEF Below
      <4>6. Broken(a)'
        BY <1>1, <4>1, <4>4, <4>5 DEF Broken, Reads
      <4>7. \A e \in Covered(h.ev) : a <= e
        BY <2>5
      <4> QED
        BY <2>1, <2>6, <3>3, <3>4, <3>6, <4>6, <4>7 DEF ChainOutcome
    <3>7. CASE /\ h.bad \notin {"text", "time"} /\ (proc = 0 \/ 2 * a - 2 = proc)
               /\ Len(h.ev) = 1 \/ q = a + 1
      <4>1. proc' = 2 * q /\ todo' = IF h.bad = "none" THEN h.ev ELSE << >>
        BY <2>1, <3>3, <3>7 DEF ChainOutcome
      <4>2. /\ todo' \in Seq(Nat) /\ Increasing(todo') /\ Covered(todo') \subseteq Covered(h.ev)
            /\ Covered(h.ev) \subseteq Covered(todo') \cup spoilt
            /\ \A e \in Covered(h.ev) : Explained(e)'
        BY <2>10, <2>12, <4>1
      <4>3. \A y \in Nat : a <= y /\ y <= q => y \in Covered(h.ev)
        <5>1. q = a \/ q = a + 1
          BY <2>3, <2>4, <3>7
        <5> QED
          BY <2>5, <5>1
      <4>4. Chained(h.ev, q)
        <5>1. CASE proc = 0
          <6>1. Handed = {}
            BY <1>12, <2>6, <3>1, <5>1
          <6>2. \A e \in Covered(h.ev), y \in Nat : e <= y /\ y <= q => y \in Covered(h.ev)
            BY <2>5, <4>3
          <6> QED
            BY <6>1, <6>2 DEF Chained
        <5>2. CASE proc # 0 /\ 2 * a - 2 = proc
          <6>1. PICK p \in Nat : proc = 2 * p /\ (Broken(p) \/ (Unbroken(p) /\ Pending(p)))
            BY <3>1, <5>2
          <6>2. a = p + 1 /\ a \in Carried(sock)
            BY <1>6, <1>16, <2>5, <5>2, <6>1
          <6>3. ~ Broken(p)
            BY <6>2 DEF Broken, Below
          <6>4. Unbroken(p) /\ \A y \in Nat : p < y /\ y <= q => y \in Covered(h.ev)
            BY <4>3, <6>1, <6>2, <6>3
          <6> QED
            BY <6>4 DEF Chained
        <5> QED
          BY <3>7, <5>1, <5>2
      <4>5. q \in start .. sent /\ Unbroken(q)' /\ Continuous'
        BY <1>1, <1>16, <2>5, <4>2, <4>4, ChainGoesOn DEF h
      <4>6. Pending(q)'
        <5> SUFFICES ASSUME NEW e \in q + 1 .. sent PROVE e \in skipped \cup Carried(sock')
          BY <1>1 DEF Pending, Reads
        <5>1. e \in Nat /\ q <= e /\ e <= sent /\ e \notin Covered(h.ev)
          BY <1>12, <2>5
        <5>2. q \in Carried(sock)
          BY <1>6, <1>16, <2>5
        <5>3. e \in skipped \cup Carried(sock)
          BY <5>1, <5>2 DEF WireGaps
        <5> QED
          BY <1>6, <1>16, <5>1, <5>3
      <4>7. OkxConn'
        BY <1>1, <2>1, <4>1, <4>5, <4>6 DEF OkxConn, Reads
      <4> QED
        BY <1>1, <1>9, <1>10, <1>16, <2>1, <4>2, <4>5, <4>7, ReadStep DEF h
    <3> QED
      BY <2>5, <3>4a, <3>5, <3>6, <3>7 DEF Stops
  <2> QED
    BY <1>12, <2>9, <2>11, <2>12
<1> QED
  BY <1>7, <1>13, <1>14, <1>15, <1>16

LEMMA ReadDeribit ==
  ASSUME HandlerInv, ~ plan.arb, plan' = plan, Handler!ReadFrame, sub.venue = "deribit"
  PROVE  HandlerInv'
<1> USE DEF HandlerInv
<1> DEFINE h == Head(sock)
           r == Handler!Deribit!NextMessage(conn, h)
           u == Handler!process_unified_message(sub, proc, h)
<1>1. Reads /\ pc = "loop" /\ todo = << >>
  BY DEF Handler!ReadFrame, Handler!Reading, Reads, Handler!serverVars
<1>2. r = Handler!next_message(sub.venue, conn, h)
  BY DEF Handler!next_message
<1>3. /\ conn' = r.conn
      /\ r.ret = "message" => proc' = u.proc /\ todo' = u.ev /\ pc' = pc
      /\ r.ret = "none" => todo' = todo /\ pc' = "ended"
      /\ r.ret = "error" => todo' = todo /\ pc' = "failed"
  BY <1>2 DEF Handler!ReadFrame, Handler!v, Handler!End
<1>4. h \in Frame /\ 1 \in 1 .. Len(sock) /\ sock[1] = h
  BY <1>1, CarriedTail, HeadTailProperties, EmptySeq DEF HandlerTypes, Reads
<1>5. h.kind = "data" => /\ Batch(sub.venue, h.ev)
                         /\ Recorded(sub, h, spoilt, unlinked)
  BY <1>1, FirstFrame DEF Reads
<1> HIDE DEF h
<1>6. h.kind \in {"data", "heartbeat", "ping", "close", "eof", "fault"} /\ conn.active /\ conn.waiting = 0
      /\ conn \in DeribitRec
  <2>1. ~ IsAnswer(1)
    BY <1>1, <1>4 DEF DeribitConn, Live, Asking
  <2> QED
    BY <1>1, <1>4, <2>1 DEF IsAnswer, Frame, Kinds, Handler!ControlFrames, DeribitConn, ConnTypes
<1>7. /\ h.kind \in {"heartbeat", "ping", "close", "eof"} => r.ret = "none"
      /\ h.kind = "fault" => r.ret = "error"
      /\ h.kind = "data" => r.ret = "message" /\ r.conn = conn
      /\ r.conn \in {conn, [conn EXCEPT !.status = "Disconnected"]}
  BY <1>6 DEF Handler!Deribit!NextMessage, Handler!Deribit!ProcessFrame, Handler!Deribit!None_,
              Handler!Deribit!Error, Handler!Deribit!Hand
<1>8. ConnTypes'
  BY <1>1, <1>3, <1>6, <1>7 DEF ConnTypes, DeribitRec, Reads
<1>9. BinanceConn' /\ OkxConn' /\ Continuous'
  BY <1>1 DEF BinanceConn, OkxConn, Continuous, Sequenced, Handler!Sequenced, Handler!v, Reads
<1>10. CASE h.kind = "fault"
  BY <1>1, <1>3, <1>7, <1>8, <1>10, ReadFails
<1>11. CASE h.kind \in {"heartbeat", "ping", "close", "eof"}
  BY <1>1, <1>3, <1>7, <1>8, <1>11, EndedByServer DEF h
<1>12. CASE h.kind = "data"
  <2>1. todo' = u.ev /\ pc' = "loop" /\ conn' = conn
    BY <1>1, <1>3, <1>7, <1>12
  <2>2. u.ev = IF h.bad = "none" THEN h.ev ELSE << >>
    BY <1>12 DEF Handler!process_unified_message, Handler!process_message, Handler!process_trade_message,
                 Handler!Deribit!ProcessMessage, Handler!Deribit!Updates, Handler!Deribit!Failure
  <2>3. h.ev \in Seq(Nat) /\ Increasing(h.ev)
    BY <1>5, <1>12, BatchFacts
  <2>4. /\ todo' \in Seq(Nat) /\ Increasing(todo') /\ Covered(todo') \subseteq Covered(h.ev)
        /\ h.bad = "none" => Covered(todo') = Covered(h.ev)
    BY <2>1, <2>2, <2>3, CoveredEmpty DEF Increasing
  <2>5. h.bad # "none" => Covered(h.ev) \subseteq spoilt
    BY <1>5, <1>12 DEF Recorded, Handler!Spoilt, Covered
  <2>6. Handed' = Handed \cup Covered(todo')
    BY <1>1, CoveredEmpty DEF Handed, Reads
  <2>7. \A e \in Covered(h.ev) : Explained(e)'
    BY <1>1, <2>4, <2>5, <2>6 DEF Explained, Reads
  <2> QED
    BY <1>1, <1>6, <1>8, <1>9, <1>12, <2>1, <2>4, <2>7, ReadStep DEF h
<1> QED
  BY <1>6, <1>10, <1>11, <1>12

\* An update goes from `todo` to `out`; what has been handed on is the same.
LEMMA SendUpdateOrder ==
  ASSUME HandlerTypes, HandedOrdered, todo # << >>, out' = Append(out, Head(todo)), todo' = Tail(todo)
  PROVE  /\ (out \in Seq(Nat))' /\ (todo \in Seq(Nat))' /\ Handed' = Handed
         /\ Increasing(out') /\ Increasing(todo') /\ Below(Covered(out'), Covered(todo'))
<1> DEFINE x == Head(todo)
<1>1. /\ out \in Seq(Nat) /\ todo \in Seq(Nat)
      /\ Increasing(out) /\ Increasing(todo) /\ Below(Covered(out), Covered(todo))
  BY DEF HandlerTypes, HandedOrdered
<1>2. /\ x = todo[1] /\ x \in Nat /\ Len(todo') = Len(todo) - 1 /\ Len(todo) \in Nat /\ Len(todo) > 0
      /\ todo' \in Seq(Nat) /\ \A i \in 1 .. Len(todo') : todo'[i] = todo[i + 1]
  BY <1>1, HeadTailProperties, EmptySeq
<1>3. Covered(todo) = {x} \cup Covered(todo')
  BY <1>1, CoveredTail
<1>4. Covered(out') = Covered(out) \cup {x}
  BY <1>1, <1>2, CoveredAppend
<1>5. /\ out' \in Seq(Nat) /\ Len(out') = Len(out) + 1 /\ Len(out) \in Nat
      /\ \A i \in 1 .. Len(out) : out'[i] = out[i]
      /\ out'[Len(out) + 1] = x
  BY <1>1, <1>2, AppendProperties
<1> HIDE DEF x
<1>6. Handed' = Handed
  BY <1>3, <1>4 DEF Handed
<1>7. ASSUME NEW i \in 1 .. Len(out'), NEW j \in 1 .. Len(out'), i < j PROVE out'[i] < out'[j]
  <2>1. i \in 1 .. Len(out) /\ out'[i] = out[i]
    BY <1>5, <1>7
  <2>2. CASE j \in 1 .. Len(out)
    BY <1>1, <1>5, <1>7, <2>1, <2>2 DEF Increasing
  <2>3. CASE j = Len(out) + 1
    <3>1. out[i] \in Covered(out) /\ x \in Covered(todo)
      BY <1>3, <2>1, CoveredDef
    <3> QED
      BY <1>1, <1>5, <2>1, <2>3, <3>1 DEF Below
  <2> QED
    BY <1>5, <2>2, <2>3
<1>8. Increasing(out')
  BY <1>7 DEF Increasing
<1>9. Increasing(todo')
  <2> SUFFICES ASSUME NEW i \in 1 .. Len(todo'), NEW j \in 1 .. Len(todo'), i < j PROVE todo'[i] < todo'[j]
    BY DEF Increasing
  <2>1. i + 1 \in 1 .. Len(todo) /\ j + 1 \in 1 .. Len(todo) /\ i + 1 < j + 1
    BY <1>2
  <2>2. todo[i + 1] < todo[j + 1]
    BY <1>1, <2>1 DEF Increasing
  <2> QED
    BY <1>2, <2>2
<1>10. ASSUME NEW b \in Covered(todo') PROVE x < b
  <2>1. PICK i \in 1 .. Len(todo') : todo'[i] = b
    BY <1>10, CoveredDef
  <2>2. 1 \in 1 .. Len(todo) /\ i + 1 \in 1 .. Len(todo) /\ 1 < i + 1
    BY <1>2
  <2>3. todo[1] < todo[i + 1]
    BY <1>1, <2>2 DEF Increasing
  <2> QED
    BY <1>2, <2>1, <2>3
<1>11. Below(Covered(out'), Covered(todo'))
  <2> SUFFICES ASSUME NEW a \in Covered(out'), NEW b \in Covered(todo') PROVE a < b
    BY DEF Below
  <2>1. CASE a \in Covered(out)
    BY <1>1, <1>3, <2>1 DEF Below
  <2>2. CASE a = x
    BY <1>10, <2>2
  <2> QED
    BY <1>4, <2>1, <2>2
<1> QED
  BY <1>2, <1>5, <1>6, <1>8, <1>9, <1>11

LEMMA SendUpdateStep ==
  ASSUME HandlerInv, ~ plan.arb, plan' = plan, Handler!SendUpdate PROVE HandlerInv'
<1> USE DEF HandlerInv
<1>1. /\ pc = "loop" /\ todo # << >>
      /\ UNCHANGED <<sub, conn, proc, sock, snap, start, sent, market, answered, skipped, spoilt, early, unlinked,
                     controls>>
  BY DEF Handler!SendUpdate, Handler!serverVars
<1>2. CASE dropped
  <2>1. pc' = "failed" /\ UNCHANGED <<out, todo>>
    BY <1>2 DEF Handler!SendUpdate, Handler!End
  <2>2. ConnTypes' /\ EndExplained'
    BY <1>1, <2>1 DEF ConnTypes, DeribitRec, EndExplained, Handler!EndExplained
  <2> QED
    BY <1>1, <2>1, <2>2, EndStep
<1>3. CASE ~ dropped
  <2>1. pc' = pc /\ out' = Append(out, Head(todo)) /\ todo' = Tail(todo)
    BY <1>3 DEF Handler!SendUpdate
  <2>2. /\ (out \in Seq(Nat))' /\ (todo \in Seq(Nat))' /\ Handed' = Handed
        /\ Increasing(out') /\ Increasing(todo') /\ Below(Covered(out'), Covered(todo'))
    BY <1>1, <2>1, SendUpdateOrder
  <2>3. Sequenced' = Sequenced /\ Carried(sock') = Carried(sock)
    BY <1>1 DEF Sequenced, Handler!Sequenced, Handler!v
  <2>4. PlanKept' /\ HandlerTypes' /\ ConnTypes'
    BY <1>1, <2>1, <2>2 DEF PlanKept, HandlerTypes, ConnTypes, DeribitRec, Frame, Kinds
  <2>5. Phased' /\ Controlled' /\ EndExplained'
    BY <1>1, <2>1 DEF Phased, Controlled, EndExplained, Handler!EndExplained, Before
  <2>6. SockOrdered' /\ WireGaps' /\ HandedOrdered'
    BY <1>1, <2>2, <2>3 DEF SockOrdered, WireGaps, HandedOrdered
  <2>7. Continuous' /\ Bridged'
    BY <1>1, <2>2, <2>3 DEF Continuous, Bridged
  <2>8. \A p \in Nat : (Unbroken(p) => Unbroken(p)') /\ (Pending(p) => Pending(p)') /\ (Broken(p) => Broken(p)')
    BY <1>1, <2>2, <2>3 DEF Unbroken, Pending, Broken
  <2>9. BinanceConn'
    BY <1>1, <2>1, <2>2, <2>8 DEF BinanceConn
  <2>10. OkxConn'
    <3>2. sub.venue = "okx" /\ Sequenced =>
           \/ proc = 0 /\ Handed = {}
           \/ \E p \in Nat : /\ proc = 2 * p /\ p \in start .. sent
                             /\ Broken(p) \/ (Unbroken(p) /\ Pending(p))
      BY <1>1 DEF OkxConn
    <3>3. sub'.venue = "okx" /\ Sequenced' =>
           \/ proc' = 0 /\ Handed' = {}
           \/ \E p \in Nat : /\ proc' = 2 * p /\ p \in start' .. sent'
                             /\ Broken(p)' \/ (Unbroken(p)' /\ Pending(p)')
      BY <1>1, <2>2, <2>3, <2>8, <3>2
    <3> QED
      BY <1>1, <2>1, <3>3 DEF OkxConn, Live
  <2>11. DeribitConn'
    BY <1>1, <2>1 DEF DeribitConn, Request, IsAnswer, Asking
  <2>12. AllExplained'
    <3>1. \A e \in Nat : Explained(e) => Explained(e)'
      BY <1>1, <2>2, <2>3 DEF Explained
    <3>2. start .. sent \subseteq Nat
      BY DEF HandlerTypes
    <3> QED
      BY <1>1, <2>1, <3>1, <3>2 DEF AllExplained
  <2> QED
    BY <2>4, <2>5, <2>6, <2>7, <2>9, <2>10, <2>11, <2>12
<1> QED
  BY <1>2, <1>3

(***************************************************************************)
(* What the manager does, and the other runner.                            *)
(***************************************************************************)
\* Shutdown aborts the task or leaves it alone.
LEMMA ShutdownStep == ASSUME HandlerInv, Shutdown PROVE HandlerInv'
<1> USE DEF HandlerInv
<1>1. UNCHANGED <<plan, sub, conn, proc, todo, out, sock, snap, start, sent, market, answered, skipped,
                  spoilt, early, unlinked, controls>>
  BY DEF Shutdown, notAborted, sharedVars
<1>2. pc' = pc \/ (pc' = "aborted" /\ ~ plan.arb)
  BY DEF Shutdown, Aborted, Abort
<1>3. CASE pc' = pc
  <2>1. market' \in Nat /\ market <= market'
    BY <1>1 DEF HandlerTypes
  <2> QED
    BY <1>1, <1>3, <2>1, OthersStep
<1>4. CASE pc' = "aborted" /\ ~ plan.arb
  <2>1. ConnTypes' /\ EndExplained'
    BY <1>1, <1>4 DEF ConnTypes, DeribitRec, EndExplained, Handler!EndExplained
  <2> QED
    BY <1>1, <1>4, <2>1, EndStep
<1> QED
  BY <1>2, <1>3, <1>4

\* What the exchange does to a group leaves what has gone downstream alone.
LEMMA ArbExchangeKeeps ==
  ASSUME Arb!Exchange
  PROVE  /\ UNCHANGED <<sub, fwd, wins_window, raw>> /\ spoilt \subseteq spoilt'
         /\ market' = market \/ (Arb!Happen /\ market' = market + 1)
<1> USE DEF Arb!groupVars
<1>1. CASE Arb!Happen
  BY <1>1 DEF Arb!Happen
<1>2. CASE Arb!Wait
  BY <1>2 DEF Arb!Wait
<1>3. ASSUME NEW c, NEW es, NEW bad, Arb!SendFrame(c, es, bad) PROVE UNCHANGED <<sub, fwd, wins_window, raw, market>>
  BY <1>3 DEF Arb!SendFrame
<1>4. ASSUME NEW c, NEW es, NEW bad, Arb!SendFrame(c, es, bad) PROVE spoilt \subseteq spoilt'
  BY <1>4 DEF Arb!SendFrame
<1>5. ASSUME NEW c, NEW k, Arb!SendControl(c, k) PROVE UNCHANGED <<sub, fwd, wins_window, raw, market, spoilt>>
  BY <1>5 DEF Arb!SendControl
<1>6. Arb!Happen \/ Arb!Wait \/ (\E c, es, bad : Arb!SendFrame(c, es, bad)) \/ (\E c, k : Arb!SendControl(c, k))
  BY DEF Arb!Exchange
<1> QED
  BY <1>1, <1>2, <1>3, <1>4, <1>5, <1>6

\* The group of an arbitrated subscription shares with the handler no more
\* than the exchange and the place of its processor.
LEMMA RunArbStep == ASSUME HandlerInv, RunArb PROVE HandlerInv'
<1>1. plan.arb /\ UNCHANGED <<handlerVars, managerVars>>
  BY DEF RunArb, ArbStop, ArbRotate, ByArb
<1>2. UNCHANGED <<plan, pc, conn, todo, out, sock, snap, start, sent, skipped, early, unlinked, controls, answered>>
  BY <1>1 DEF handlerVars, managerVars
<1>3. Arb!Exchange \/ Arb!Tasks \/ Arb!Spawn \/ Arb!Rotate \/ Arb!Receive \/ Arb!Stop
  BY DEF RunArb, ArbStop, ArbRotate
<1>4. sub' = sub /\ (market' = market \/ market' = market + 1) /\ spoilt \subseteq spoilt'
  <2>1. CASE Arb!Exchange
    BY <2>1, ArbExchangeKeeps
  <2>2. CASE Arb!Tasks
    BY <2>2 DEF Arb!Tasks, Arb!TaskSubscribe, Arb!TaskSnapshot, Arb!TaskSnapshotFails, Arb!TaskRead,
                Arb!TaskCancelled, Arb!TaskConnectFails, Arb!taskOnly, Arb!groupVars
  <2>3. CASE Arb!Spawn \/ Arb!Rotate \/ Arb!Receive \/ Arb!Stop
    BY <2>3 DEF Arb!Spawn, Arb!Rotate, Arb!Receive, Arb!Stop, Arb!groupOnly
  <2> QED
    BY <1>3, <2>1, <2>2, <2>3
<1>5. market \in Nat
  BY DEF HandlerInv, HandlerTypes
<1>6. market' \in Nat /\ market <= market'
  BY <1>4, <1>5
<1> QED
  BY <1>1, <1>2, <1>4, <1>6, OthersStep

LEMMA RunHandlerStep == ASSUME HandlerInv, RunHandler PROVE HandlerInv'
<1>1. ~ plan.arb /\ plan' = plan
  BY DEF RunHandler, HandlerLoop, ByHandler, managerVars
<1>2. sub.venue \in {"binance", "okx", "deribit"}
  BY DEF HandlerInv, HandlerTypes, Handler!Subscription, Handler!Venue
<1>3. CASE Handler!Loop
  BY <1>1, <1>2, <1>3, ReadBinance, ReadOkx, ReadDeribit, SendUpdateStep, StopStep DEF Handler!Loop
<1>4. CASE Handler!Exchange \/ Handler!Fail
  BY <1>1, <1>4, ExchangeStep, StopStep
<1>5. CASE Handler!Task
  BY <1>1, <1>5, ConnectStep, SubscribeStep, AwaitFrameStep, StopStep, FetchSnapshotStep DEF Handler!Task
<1> QED
  BY <1>3, <1>4, <1>5 DEF RunHandler, HandlerLoop

LEMMA HandlerNext == ASSUME HandlerInv, [Next]_vars PROVE HandlerInv'
<1>1. market \in Nat /\ market <= market
  BY DEF HandlerInv, HandlerTypes
<1>2. CASE Spawn \/ Adapt \/ AdapterEnds \/ WaitForAny \/ UNCHANGED vars
  <2>1. /\ UNCHANGED <<plan, sub, pc, conn, todo, out, sock, snap, start, sent, skipped, early, unlinked,
                       controls, answered>>
        /\ UNCHANGED <<market, spoilt, proc>>
    BY <1>2 DEF Spawn, Adapt, AdapterEnds, WaitForAny, vars, handlerVars, sharedVars, managerVars
  <2> QED
    BY <1>1, <2>1, OthersStep
<1>3. CASE ReceiverGone
  <2>1. UNCHANGED <<plan, pc, conn, todo, out, sock, snap, start, sent, skipped, early, unlinked, controls, answered>>
    BY <1>3 DEF ReceiverGone, handlerVars
  <2>2. UNCHANGED <<sub, market, spoilt, proc>>
    BY <1>3 DEF ReceiverGone, Arb!DropReceiver, Arb!groupVars, Handler!DropReceiver, Handler!taskVars
  <2> QED
    BY <1>1, <2>1, <2>2, OthersStep
<1> QED
  BY <1>2, <1>3, RunHandlerStep, RunArbStep, ShutdownStep DEF Next

LEMMA HandlerInit == ASSUME Init PROVE HandlerInv
<1>1. /\ plan \in Plans /\ sub = plan.sub /\ sub \in Handler!Subscription
      /\ pc = "connect" /\ conn = Handler!create_connector(sub.venue) /\ proc = Handler!create_processor
      /\ todo = << >> /\ out = << >> /\ sock = << >> /\ controls = {} /\ market = 0 /\ start = 0
      /\ sent = 0 /\ answered = 0 /\ skipped = {} /\ spoilt = {} /\ early = {} /\ unlinked = {} /\ snap = 0
  BY PlansAssumption DEF Init, Handler!Init
<1>2. proc = 0
  BY <1>1 DEF Handler!create_processor, Handler!Okx!NewProcessor
<1>3. Handed = {} /\ Carried(sock) = {} /\ Covered(out) = {} /\ Covered(todo) = {}
  BY <1>1, CoveredEmpty, CarriedEmpty DEF Handed
<1>4. Len(sock) = 0 /\ sock \in Seq(Frame) /\ out \in Seq(Nat) /\ todo \in Seq(Nat) /\ Len(out) = 0 /\ Len(todo) = 0
  BY <1>1
<1>5. PlanKept /\ HandlerTypes
  BY <1>1, <1>4 DEF PlanKept, HandlerTypes, Live
<1>6. ConnTypes
  <2>1. CASE sub.venue = "binance"
    BY <1>1, <2>1 DEF ConnTypes, Handler!create_connector, Handler!Binance!New, BinanceRec, Handler!Binance!SyncState
  <2>2. CASE sub.venue = "okx"
    BY <1>1, <2>2 DEF ConnTypes, Handler!create_connector, Handler!Okx!New
  <2>3. CASE sub.venue = "deribit"
    BY <1>1, <2>3 DEF ConnTypes, Handler!create_connector, Handler!Deribit!New, DeribitRec
  <2> QED
    BY <2>1, <2>2, <2>3 DEF ConnTypes
<1>7. SockOrdered /\ HandedOrdered /\ Phased /\ Controlled /\ WireGaps /\ Continuous
  BY <1>1, <1>3, <1>4 DEF SockOrdered, HandedOrdered, Phased, Controlled, WireGaps, Continuous, Increasing,
                          Below, Before
<1>8. BinanceConn /\ OkxConn /\ DeribitConn
  BY <1>1, <1>2, <1>4 DEF BinanceConn, OkxConn, DeribitConn, Handler!create_connector, Request, Asking
<1>9. AllExplained /\ Bridged /\ EndExplained
  BY <1>1, <1>3 DEF AllExplained, Bridged, EndExplained, Handler!EndExplained
<1> QED
  BY <1>5, <1>6, <1>7, <1>8, <1>9 DEF HandlerInv

(***************************************************************************)
(* What the invariant says of the output.                                  *)
(***************************************************************************)
LEMMA OutputOrdered == ASSUME HandlerInv PROVE Gapless
<1> USE DEF HandlerInv
<1>1. out \in Seq(Nat) /\ Increasing(out) /\ Below(Covered(out), Covered(todo)) /\ Len(out) \in Nat
  BY DEF HandlerTypes, HandedOrdered
<1> SUFFICES ASSUME NEW i \in 1 .. Len(out) - 1
             PROVE  /\ out[i] < out[i + 1]
                    /\ Sequenced => (out[i] + 1 .. out[i + 1] - 1) \subseteq spoilt
  BY DEF Gapless, Handler!Gapless, Sequenced
<1>2. /\ i \in 1 .. Len(out) /\ i + 1 \in 1 .. Len(out) /\ i < i + 1
      /\ out[i] \in Nat /\ out[i + 1] \in Nat
  BY <1>1, ElementOfSeq
<1>3. out[i] < out[i + 1]
  BY <1>1, <1>2 DEF Increasing
<1>4. ASSUME Sequenced, NEW y \in out[i] + 1 .. out[i + 1] - 1 PROVE y \in spoilt
  <2>1. y \in Nat /\ out[i] < y /\ y < out[i + 1]
    BY <1>2, <1>4
  <2>2. out[i] \in Covered(out) /\ out[i + 1] \in Covered(out)
    BY <1>2, CoveredDef
  <2>3. y \in Handed \cup spoilt
    BY <1>2, <1>4, <2>1, <2>2 DEF Continuous, Handed
  <2>4. y \notin Covered(out)
    <3> SUFFICES ASSUME NEW k \in 1 .. Len(out), out[k] = y PROVE FALSE
      BY CoveredDef
    <3>1. k < i \/ k = i \/ k = i + 1 \/ i + 1 < k
      BY <1>1
    <3>2. /\ k < i => out[k] < out[i]
          /\ i + 1 < k => out[i + 1] < out[k]
      BY <1>1, <1>2 DEF Increasing
    <3> QED
      BY <1>2, <2>1, <3>1, <3>2
  <2>5. y \notin Covered(todo)
    <3>1. y \in Covered(todo) => out[i + 1] < y
      BY <1>1, <2>2 DEF Below
    <3> QED
      BY <1>2, <2>1, <3>1
  <2> QED
    BY <2>3, <2>4, <2>5 DEF Handed
<1> QED
  BY <1>3, <1>4

LEMMA NothingElseLost == ASSUME HandlerInv PROVE Accounted
<1> USE DEF HandlerInv
<1> SUFFICES ASSUME pc = "loop", NEW e \in start .. sent
             PROVE  \/ e \in skipped \cup spoilt \cup early \cup Handler!OnWire \cup Covered(out) \cup Covered(todo)
                    \/ Handler!v = "binance" /\ Handler!FinalId(e) <= snap
                    \/ Handler!v = "okx" /\ Handler!Sequenced /\ (skipped \cup unlinked) \cap (start .. e + 1) # {}
  BY DEF Accounted, Handler!Accounted, Covered
<1>1. Explained(e)
  BY DEF AllExplained
<1>2. e \in Carried(sock) => e \in Handler!OnWire
  BY DEF Carried, Handler!OnWire, Covered
<1>3. Handler!FinalId(e) = 2 * e
  BY DEF Handler!FinalId
<1> QED
  BY <1>1, <1>2, <1>3 DEF Explained, Handed, Sequenced, Handler!v

LEMMA FirstIsBridged == ASSUME HandlerInv PROVE SnapshotBridged
<1> USE DEF HandlerInv
<1> SUFFICES ASSUME sub.venue = "binance", sub.stream = "L2", out # << >>,
                    snap + 1 >= Handler!FirstId(start),
                    NEW missing, missing = (start .. out[1] - 1) \cap (skipped \cup spoilt)
             PROVE  \/ Handler!FirstId(out[1]) <= snap + 1 /\ Handler!FinalId(out[1]) >= snap + 1
                    \/ \E e \in missing : Handler!FinalId(e) > snap
  BY DEF SnapshotBridged, Handler!SnapshotBridged, Handler!v
<1> DEFINE z == out[1]
<1>1. /\ out \in Seq(Nat) /\ Increasing(out) /\ Below(Covered(out), Covered(todo)) /\ Len(out) \in Nat
      /\ start \in Nat /\ snap \in Nat
  BY DEF HandlerTypes, HandedOrdered
<1>2. 1 \in 1 .. Len(out) /\ z \in Nat /\ z \in Covered(out)
  <2>1. 1 \in 1 .. Len(out)
    BY <1>1, EmptySeq
  <2> QED
    BY <1>1, <2>1, ElementOfSeq, CoveredDef
<1>3. snap + 2 >= 2 * start
  BY <1>1 DEF Handler!FirstId
<1>4. ASSUME NEW y \in Handed PROVE z <= y
  <2>1. CASE y \in Covered(out)
    <3>1. PICK k \in 1 .. Len(out) : out[k] = y
      BY <2>1, CoveredDef
    <3>2. k = 1 \/ 1 < k
      BY <1>1
    <3>3. 1 < k => out[1] < out[k]
      BY <1>1, <1>2, <3>1 DEF Increasing
    <3>4. out[k] \in Nat
      BY <1>1, <3>1, ElementOfSeq
    <3> QED
      BY <1>2, <3>1, <3>2, <3>3, <3>4
  <2>2. CASE y \in Covered(todo)
    <3>1. z < y
      BY <1>1, <1>2, <2>2 DEF Below
    <3>2. PICK k \in 1 .. Len(todo) : todo[k] = y
      BY <2>2, CoveredDef
    <3>3. y \in Nat
      BY <3>2, ElementOfSeq DEF HandlerTypes
    <3> QED
      BY <1>2, <3>1, <3>3
  <2> QED
    BY <1>4, <2>1, <2>2 DEF Handed
<1>5. /\ 2 * z >= snap + 1
      /\ 2 * z <= snap + 2 \/ \E e \in start .. z - 1 : e \in skipped \cup spoilt /\ 2 * e > snap
  BY <1>2, <1>3, <1>4 DEF Bridged, Handed
<1>6. CASE 2 * z <= snap + 2
  <2>1. Handler!FirstId(z) = 2 * z - 1 /\ Handler!FinalId(z) = 2 * z
    BY DEF Handler!FirstId, Handler!FinalId
  <2>2. 2 * z - 1 <= snap + 1 /\ 2 * z >= snap + 1
    BY <1>1, <1>2, <1>5, <1>6
  <2> QED
    BY <2>1, <2>2
<1>7. CASE \E e \in start .. z - 1 : e \in skipped \cup spoilt /\ 2 * e > snap
  BY <1>7 DEF Handler!FinalId
<1> QED
  BY <1>5, <1>6, <1>7

LEMMA HandlerInvariant == Spec => []HandlerInv
<1>1. Init => HandlerInv
  BY HandlerInit
<1>2. HandlerInv /\ [Next]_vars => HandlerInv'
  BY HandlerNext
<1> QED
  BY <1>1, <1>2, PTL DEF Spec

(***************************************************************************)
(* The theorems.                                                           *)
(***************************************************************************)
\* What a handler sends downstream is in the order of the exchange and without
\* repetition, and where the stream is sequenced a diff is missing between two
\* others only if its frame did not convert: whatever the server leaves out,
\* and whenever, Binance's pu and OKX's prevSeqId checks never bridge it.
THEOREM OutputIsGapless == Spec => []Gapless
<1>1. HandlerInv => Gapless
  BY OutputOrdered
<1> QED
  BY <1>1, HandlerInvariant, PTL

\* While the loop of run() runs, every event the server sent since the
\* subscription is in the socket, in the message at hand or downstream, or was
\* lost for one of the known reasons.
THEOREM EveryEventAccounted == Spec => []Accounted
<1>1. HandlerInv => Accounted
  BY NothingElseLost
<1> QED
  BY <1>1, HandlerInvariant, PTL

\* The first diff sent after Binance's snapshot covers the id after it, unless
\* the server, or a frame that did not convert, left a newer one out: however
\* long the snapshot takes, the diffs that arrive meanwhile wait in the socket.
THEOREM SnapshotIsBridged == Spec => []SnapshotBridged
<1>1. HandlerInv => SnapshotBridged
  BY FirstIsBridged
<1> QED
  BY <1>1, HandlerInvariant, PTL

\* run() returns Ok without a cancellation only after the server ended the
\* stream, or, on OKX and Deribit, after a frame that carries no market data.
THEOREM EndIsExplained == Spec => []EndExplained
<1>1. HandlerInv => EndExplained
  BY DEF HandlerInv
<1> QED
  BY <1>1, HandlerInvariant, PTL
=============================================================================
