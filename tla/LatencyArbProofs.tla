--------------------------- MODULE LatencyArbProofs ---------------------------
(***************************************************************************)
(* Proofs about a group of connections to one stream, as the subscription  *)
(* manager runs it: for every plan, any number of connections, events and  *)
(* faults, and any capacity of the deduper.                                *)
(*                                                                         *)
(* The deduper holds the newest insertions, with nothing between them left *)
(* out. An event that some connection was sent is on its way through that  *)
(* connection's socket or the channel, or has gone downstream, or is one   *)
(* the connection was not given; so nothing older can follow an event that *)
(* has gone downstream, except what was missed.                            *)
(***************************************************************************)
EXTENDS UnifiedHandlerProofs, FiniteSetTheorems

Conn == Arb!Conn
Receiving == Arb!Receiving

(***************************************************************************)
(* The deduper.                                                            *)
(***************************************************************************)
\* What the deduper d remembers of the events f sent downstream, when the first
\* h of them are too old: the last ones, from first to last, and of those before
\* them each is too old or as many others came after it as d holds.
Remembers(d, f, h) ==
  LET gone == Len(f) - Len(d.order)
  IN /\ d.order \in Seq([key : Nat, at : Nat]) /\ Len(d.order) <= Len(f) /\ Len(d.order) <= Capacity
     /\ \A k \in 1 .. Len(d.order) : d.order[k].at = gone + k /\ d.order[k].key = f[gone + k]
     /\ \A k, l \in 1 .. Len(d.order) : k < l => d.order[k].key # d.order[l].key
     /\ d.set = Arb!Dedup!Keys(d.order)
     /\ \A i \in 1 .. gone : i <= h \/ i + Capacity <= Len(f)

\* Where an event is a second time, it had been forgotten.
Repeats(f, h) ==
  \A j \in 1 .. Len(f) : \A i \in 1 .. j - 1 : f[i] = f[j] => j - i > Capacity \/ i <= h

(***************************************************************************)
(* A task and its socket.                                                  *)
(***************************************************************************)
OkxRec == [status : {"Disconnected", "Connected", "Subscribed", "Error"}]
Connector ==
  IF sub.venue = "binance" THEN BinanceRec ELSE IF sub.venue = "okx" THEN OkxRec ELSE DeribitRec
Task == [pc : {"none", "connect", "snapshot", "read", "done"}, conn : Connector, sock : Seq(Frame),
         open : BOOLEAN, sent : Nat]

Message == [from : Conn, frame : Frame]

\* A frame of subscription b holds events in order, and x holds those that cannot
\* come through.
FrameSound(b, x, f) ==
  f.kind = "data" => Batch(b.venue, f.ev) /\ Handler!Spoilt(b, f.ev, f.bad) \subseteq x

\* The frames of a socket, after which the server has sent nothing beyond `last`.
InOrder(b, x, q, last) ==
  \A i \in 1 .. Len(q) :
    /\ FrameSound(b, x, q[i])
    /\ q[i].kind = "data" => Covered(q[i].ev) \subseteq 1 .. last
    /\ \A j \in 1 .. i - 1 : q[i].kind = "data" /\ q[j].kind = "data" =>
         Below(Covered(q[j].ev), Covered(q[i].ev))

\* What its place in run_arbitrated_* says of a connector.
ConnSound(t) ==
  /\ t.pc \in {"none", "connect"} => t.conn = Handler!create_connector(sub.venue)
  /\ t.pc = "snapshot" =>
       sub.venue = "binance" /\ sub.stream = "L2" /\ t.conn.sync = "BufferingUpdates" /\ t.conn.buffer = << >>
  /\ sub.venue = "binance" /\ t.pc = "read" =>
       t.conn.sync \in (IF sub.stream = "Trade" THEN {"TradeStream"}
                        ELSE {"BufferingUpdates", "Synchronizing", "Synchronized"})
  /\ sub.venue = "binance" /\ t.conn.sync = "Synchronizing" =>
       t.conn.buffer = << >> /\ \A e \in Nat \ {0} : 2 * e <= t.conn.last => e \in missed
  /\ sub.venue = "deribit" /\ t.pc = "read" => t.conn.active

TaskSound(t) ==
  /\ t \in Task /\ t.sent <= market /\ InOrder(sub, spoilt, t.sock, t.sent) /\ ConnSound(t)
  /\ t.pc \in {"none", "connect", "done"} => t.sock = << >> /\ ~ t.open
  /\ t.pc \in {"none", "connect"} => t.sent = 0

(***************************************************************************)
(* Where the events are.                                                   *)
(***************************************************************************)
\* A Binance task whose snapshot failed reads on and hands nothing over.
Delivers(t) ==
  t.pc \in {"snapshot", "read"}
  /\ ~ (sub.venue = "binance" /\ t.pc = "read" /\ t.conn.sync = "BufferingUpdates")

\* The events of the first n messages in the channel.
Queued(q, n) == {e \in Nat : \E k \in 1 .. n : q[k].frame.kind = "data" /\ e \in Covered(q[k].frame.ev)}
Passed == missed \cup Covered(fwd)

TaskClosed(t) ==
  Delivers(t) => \A e \in 1 .. t.sent : e \in Passed \cup Queued(raw, Len(raw)) \cup Carried(t.sock)
ChannelClosed ==
  \A k \in 1 .. Len(raw) : raw[k].frame.kind = "data" /\ raw[k].frame.bad # "text" =>
    \A z \in Covered(raw[k].frame.ev) : \A e \in 1 .. z : e \in Passed \cup Queued(raw, k)
Closed(f, m) == \A z \in Covered(f) : \A e \in 1 .. z : e \in m \cup Covered(f)
LateMissed(f, m) ==
  \A j \in 1 .. Len(f) : \A i \in 1 .. j - 1 : f[i] > f[j] => (\E k \in 1 .. j - 1 : f[k] = f[j]) \/ f[j] \in m

ChannelKinds == {"data"} \cup (IF sub.venue = "okx" THEN {"ack", "error"} ELSE {})
ArbTypes ==
  /\ sub \in Handler!Subscription /\ group \in {"ramp", "run", "failed", "cancelled", "aborted"}
  /\ raw \in Seq(Message) /\ fwd \in Seq(Nat) /\ aged \in 0 .. Len(fwd)
  /\ market \in Nat
  /\ plan.arb => spoilt \subseteq missed
  /\ task = [c \in Conn |-> task[c]]
  /\ ~ plan.arb => raw = << >> /\ fwd = << >> /\ group = "ramp" /\ \A c \in Conn : task[c].pc = "none"

ChannelSound ==
  \A k \in 1 .. Len(raw) :
    /\ raw[k].frame.kind \in ChannelKinds /\ FrameSound(sub, spoilt, raw[k].frame)
    /\ raw[k].frame.kind = "data" => 0 \notin Covered(raw[k].frame.ev)

ArbInv ==
  /\ ArbTypes /\ ChannelSound /\ \A c \in Conn : TaskSound(task[c])
  /\ Remembers(dedup, fwd, aged) /\ Repeats(fwd, aged)
  /\ Receiving => ChannelClosed /\ \A c \in Conn : TaskClosed(task[c])
  /\ Closed(fwd, missed) /\ LateMissed(fwd, missed)

(***************************************************************************)
(* The deduper's operators.                                                *)
(***************************************************************************)
Entry == [key : Nat, at : Nat]
Distinct(order) == \A k, l \in 1 .. Len(order) : k < l => order[k].key # order[l].key

\* The queue holds the last of the events f, in order and once each, and the
\* set their keys.
Suffix(d, f) ==
  LET gone == Len(f) - Len(d.order)
  IN /\ d.order \in Seq(Entry) /\ Len(d.order) <= Len(f)
     /\ \A k \in 1 .. Len(d.order) : d.order[k].at = gone + k /\ d.order[k].key = f[gone + k]
     /\ Distinct(d.order) /\ d.set = Arb!Dedup!Keys(d.order)

LEMMA RemembersDef ==
  ASSUME NEW d, NEW f, NEW h
  PROVE  Remembers(d, f, h) <=>
           /\ Suffix(d, f) /\ Len(d.order) <= Capacity
           /\ \A i \in 1 .. Len(f) - Len(d.order) : i <= h \/ i + Capacity <= Len(f)
  BY DEF Remembers, Suffix, Entry, Distinct

LEMMA KeysDef ==
  ASSUME NEW order, NEW x
  PROVE  x \in Arb!Dedup!Keys(order) <=> \E k \in 1 .. Len(order) : order[k].key = x
  BY DEF Arb!Dedup!Keys

LEMMA Counted == ASSUME NEW n \in Nat PROVE IsFiniteSet(1 .. n) /\ Cardinality(1 .. n) = n
<1>1. n \in Int /\ 1 \in Int
  OBVIOUS
<1>2. IsFiniteSet(1 .. n) /\ Cardinality(1 .. n) = IF 1 > n THEN 0 ELSE n - 1 + 1
  BY <1>1, FS_Interval
<1>3. (IF 1 > n THEN 0 ELSE n - 1 + 1) = n
  OBVIOUS
<1> QED
  BY <1>2, <1>3

\* The deduper's instance of FiniteSets.
LEMMA SameCardinality == ASSUME NEW S PROVE Arb!Dedup!Cardinality(S) = Cardinality(S)
  BY DEF Arb!Dedup!Cardinality, Cardinality

LEMMA KeysCounted ==
  ASSUME NEW order \in Seq(Entry), Distinct(order)
  PROVE  IsFiniteSet(Arb!Dedup!Keys(order)) /\ Cardinality(Arb!Dedup!Keys(order)) = Len(order)
<1> DEFINE S == 1 .. Len(order)
           T == Arb!Dedup!Keys(order)
           g == [k \in S |-> order[k].key]
<1>1. Len(order) \in Nat /\ IsFiniteSet(S) /\ Cardinality(S) = Len(order)
  BY LenProperties, Counted
<1>2. g \in Surjection(S, T)
  BY KeysDef DEF Surjection
<1>3. g \in Injection(S, T)
  <2> SUFFICES ASSUME NEW a \in S, NEW b \in S, g[a] = g[b] PROVE a = b
    BY <1>2 DEF Injection, IsInjective, Surjection
  <2>1. a < b \/ a = b \/ b < a
    BY <1>1
  <2> QED
    BY <2>1 DEF Distinct
<1>4. ExistsBijection(S, T)
  BY <1>2, <1>3 DEF Bijection, ExistsBijection
<1> HIDE DEF S, T, g
<1> QED
  BY <1>1, <1>4, FS_Bijection DEF T

\* Forgetting the oldest n leaves the newest.
LEMMA ForgetKeeps ==
  ASSUME NEW d, NEW f \in Seq(Nat), Suffix(d, f), NEW n \in Nat, n <= Len(d.order)
  PROVE  Suffix(Arb!Dedup!Forget(d, n), f) /\ Len(Arb!Dedup!Forget(d, n).order) = Len(d.order) - n
<1> DEFINE L == Len(d.order)
           order == SubSeq(d.order, n + 1, L)
           old == SubSeq(d.order, 1, n)
           r == Arb!Dedup!Forget(d, n)
<1>1. d.order \in Seq(Entry) /\ L \in Nat /\ L <= Len(f) /\ Len(f) \in Nat
  BY LenProperties DEF Suffix
<1>2. /\ order \in Seq(Entry) /\ Len(order) = L - n
      /\ \A k \in 1 .. L - n : order[k] = d.order[n + k]
  <2>1. \A i \in n + 1 .. L : d.order[i] \in Entry
    BY <1>1, ElementOfSeq
  <2>2. /\ order \in Seq(Entry) /\ Len(order) = IF n + 1 <= L THEN L - (n + 1) + 1 ELSE 0
        /\ \A k \in 1 .. L - (n + 1) + 1 : order[k] = d.order[(n + 1) + k - 1]
    BY <1>1, <2>1, SubSeqProperties
  <2>3. \A k \in 1 .. L - n : (n + 1) + k - 1 = n + k /\ k \in 1 .. L - (n + 1) + 1
    BY <1>1
  <2>4. (IF n + 1 <= L THEN L - (n + 1) + 1 ELSE 0) = L - n
    BY <1>1
  <2> QED
    BY <2>2, <2>3, <2>4
<1>3. /\ Len(old) = n
      /\ \A k \in 1 .. n : old[k] = d.order[k]
  <2>1. \A i \in 1 .. n : d.order[i] \in Entry
    BY <1>1, ElementOfSeq
  <2>2. /\ Len(old) = IF 1 <= n THEN n - 1 + 1 ELSE 0
        /\ \A k \in 1 .. n - 1 + 1 : old[k] = d.order[1 + k - 1]
    BY <2>1, SubSeqProperties
  <2> QED
    BY <2>2
<1>4. r.order = order /\ r.set = d.set \ Arb!Dedup!Keys(old)
  BY DEF Arb!Dedup!Forget
<1> HIDE DEF order, old, r, L
<1>5. \A k \in 1 .. L - n : n + k \in 1 .. L
  BY <1>1
<1>6. Distinct(order)
  <2> SUFFICES ASSUME NEW k \in 1 .. L - n, NEW l \in 1 .. L - n, k < l
               PROVE  order[k].key # order[l].key
    BY <1>2 DEF Distinct
  <2>1. n + k \in 1 .. L /\ n + l \in 1 .. L /\ n + k < n + l
    BY <1>1, <1>5
  <2>2. Distinct(d.order)
    BY DEF Suffix
  <2>3. d.order[n + k].key # d.order[n + l].key
    BY <2>1, <2>2 DEF Distinct, L
  <2> QED
    BY <1>2, <2>3
<1>7. d.set \ Arb!Dedup!Keys(old) = Arb!Dedup!Keys(order)
  <2>1. ASSUME NEW x \in d.set, x \notin Arb!Dedup!Keys(old) PROVE x \in Arb!Dedup!Keys(order)
    <3>1. PICK k \in 1 .. L : d.order[k].key = x
      BY <2>1, KeysDef DEF Suffix, L
    <3>2. ~ (k <= n)
      <4>1. k <= n => k \in 1 .. n
        BY <1>1
      <4> QED
        BY <1>3, <2>1, <3>1, <4>1, KeysDef
    <3>3. k - n \in 1 .. L - n /\ n + (k - n) = k
      BY <1>1, <3>2
    <3> QED
      BY <1>2, <3>1, <3>3, KeysDef
  <2>2. ASSUME NEW x \in Arb!Dedup!Keys(order) PROVE x \in d.set /\ x \notin Arb!Dedup!Keys(old)
    <3>1. PICK k \in 1 .. L - n : order[k].key = x
      BY <1>2, <2>2, KeysDef, SMTT(30)
    <3>2. n + k \in 1 .. L /\ d.order[n + k].key = x
      BY <1>2, <1>5, <3>1
    <3>3. x \in d.set
      BY <3>2, KeysDef DEF Suffix, L
    <3>4. ASSUME NEW l \in 1 .. n PROVE old[l].key # x
      <4>1. l \in 1 .. L /\ l < n + k
        BY <1>1, <3>2
      <4> QED
        BY <1>3, <3>2, <4>1, SMTT(30) DEF Distinct, Suffix, L
    <3> QED
      BY <1>3, <3>3, <3>4, KeysDef
  <2> QED
    BY <2>1, <2>2
<1>8. ASSUME NEW k \in 1 .. L - n
      PROVE  order[k].at = (Len(f) - (L - n)) + k /\ order[k].key = f[(Len(f) - (L - n)) + k]
  <2>1. n + k \in 1 .. L /\ order[k] = d.order[n + k] /\ (Len(f) - L) + (n + k) = (Len(f) - (L - n)) + k
    BY <1>1, <1>2, <1>5
  <2>2. /\ d.order[n + k].at = (Len(f) - L) + (n + k)
        /\ d.order[n + k].key = f[(Len(f) - L) + (n + k)]
    BY <2>1 DEF Suffix, L
  <2> QED
    BY <2>1, <2>2
<1>9. L - n <= Len(f)
  BY <1>1
<1> QED
  BY <1>2, <1>4, <1>6, <1>7, <1>8, <1>9 DEF Suffix, L, r

\* Pruning forgets what is too old, and nothing else.
LEMMA PruneKeeps ==
  ASSUME NEW d, NEW f \in Seq(Nat), NEW h \in Nat, h <= Len(f), Remembers(d, f, h)
  PROVE  Remembers(Arb!Dedup!Prune(d, h), f, h)
<1> DEFINE L == Len(d.order)
           gone == Len(f) - L
           n == IF h <= gone THEN 0 ELSE h - gone
           X == Arb!Dedup!Expired(d, h)
           r == Arb!Dedup!Forget(d, n)
<1>1. Suffix(d, f) /\ L <= Capacity /\ \A i \in 1 .. gone : i <= h \/ i + Capacity <= Len(f)
  BY RemembersDef
<1>2. L \in Nat /\ Len(f) \in Nat /\ L <= Len(f) /\ gone \in Nat
  BY <1>1, LenProperties DEF Suffix
<1>3. n \in Nat /\ n <= L
  BY <1>2
<1>4. X = 1 .. n
  <2>1. X = {i \in 1 .. L : \A j \in 1 .. i : gone + j <= h}
    <3>1. \A j \in 1 .. L : d.order[j].at = gone + j
      BY <1>1 DEF Suffix
    <3>2. \A i \in 1 .. L : \A j \in 1 .. i : j \in 1 .. L
      BY <1>2
    <3> QED
      BY <3>1, <3>2 DEF Arb!Dedup!Expired
  <2> HIDE DEF gone, L, X
  <2>2. \A i \in 1 .. L : (\A j \in 1 .. i : gone + j <= h) <=> gone + i <= h
    BY <1>2
  <2>3. \A i \in 1 .. L : gone + i <= h <=> i <= n
    BY <1>2
  <2> QED
    BY <1>2, <1>3, <2>1, <2>2, <2>3
<1>5. Cardinality(X) = n
  BY <1>3, <1>4, Counted
<1>6. Arb!Dedup!Prune(d, h) = r
  <2>1. Arb!Dedup!Prune(d, h) = Arb!Dedup!Forget(d, Cardinality(X))
    BY SameCardinality DEF Arb!Dedup!Prune
  <2> HIDE DEF n, X
  <2> QED
    BY <1>5, <2>1
<1>7. Suffix(r, f) /\ Len(r.order) = L - n
  <2> HIDE DEF n
  <2> QED
    BY <1>1, <1>3, ForgetKeeps
<1>8. L - n <= Capacity
  BY <1>1, <1>2, <1>3, SizesAssumption
<1>9. ASSUME NEW i \in 1 .. Len(f) - (L - n) PROVE i <= h \/ i + Capacity <= Len(f)
  <2>1. CASE i \in 1 .. gone
    BY <1>1, <2>1
  <2>2. CASE i \notin 1 .. gone
    BY <1>2, <2>2
  <2> QED
    BY <2>1, <2>2
<1> HIDE DEF r, n, L, gone
<1> QED
  BY <1>6, <1>7, <1>8, <1>9, RemembersDef

\* A new key goes to the end, and the oldest makes room for it.
LEMMA InsertFresh ==
  ASSUME NEW d, NEW f \in Seq(Nat), NEW h \in Nat, h <= Len(f), Remembers(d, f, h), NEW e \in Nat,
         e \notin d.set,
         NEW r, r = Arb!Dedup!EnforceCapacity([set |-> d.set \cup {e},
                                               order |-> Append(d.order, [key |-> e, at |-> Len(f) + 1])])
  PROVE  Remembers(r, Append(f, e), h)
<1> DEFINE x == [key |-> e, at |-> Len(f) + 1]
           L == Len(d.order)
           t == Append(d.order, x)
           g == Append(f, e)
           b == [set |-> d.set \cup {e}, order |-> t]
<1>1. Suffix(d, f) /\ L <= Capacity /\ \A i \in 1 .. Len(f) - L : i <= h \/ i + Capacity <= Len(f)
  BY RemembersDef
<1>2. /\ d.order \in Seq(Entry) /\ L \in Nat /\ Len(f) \in Nat /\ L <= Len(f)
      /\ x \in Entry /\ x.key = e /\ x.at = Len(f) + 1
  BY <1>1, LenProperties DEF Suffix, Entry
<1>2a. (Len(f) - L) + (L + 1) = Len(f) + 1
  <2>1. \A m, n \in Nat : n <= m => (m - n) + (n + 1) = m + 1
    OBVIOUS
  <2> HIDE DEF L
  <2> QED
    BY <1>2, <2>1
<1>3. /\ t \in Seq(Entry) /\ Len(t) = L + 1 /\ \A k \in 1 .. L : t[k] = d.order[k]
      /\ t[L + 1] = x
  BY <1>2, AppendProperties
<1>4. /\ g \in Seq(Nat) /\ Len(g) = Len(f) + 1 /\ \A k \in 1 .. Len(f) : g[k] = f[k]
      /\ g[Len(f) + 1] = e
  BY AppendProperties
<1>4a. d.set = Arb!Dedup!Keys(d.order) /\ Distinct(d.order)
  BY <1>1 DEF Suffix
<1>5. b.order = t /\ b.set = d.set \cup {e}
  OBVIOUS
<1>6. r = Arb!Dedup!EnforceCapacity(b)
  OBVIOUS
<1> HIDE DEF x, t, g, b
<1>7. Distinct(t)
  <2> SUFFICES ASSUME NEW k \in 1 .. L + 1, NEW l \in 1 .. L + 1, k < l PROVE t[k].key # t[l].key
    BY <1>3 DEF Distinct
  <2>1. k \in 1 .. L /\ (l \in 1 .. L \/ l = L + 1)
    BY <1>2, SMTT(30)
  <2>2. CASE l \in 1 .. L
    BY <1>3, <1>4a, <2>1, <2>2 DEF Distinct, L
  <2>3. CASE l = L + 1
    <3>1. d.order[k].key \in d.set
      BY <1>4a, <2>1, KeysDef DEF L
    <3> QED
      BY <1>2, <1>3, <2>1, <2>3, <3>1
  <2> QED
    BY <2>1, <2>2, <2>3
<1>8. d.set \cup {e} = Arb!Dedup!Keys(t)
  <2>1. ASSUME NEW y \in Arb!Dedup!Keys(t) PROVE y \in d.set \cup {e}
    <3>1. PICK k \in 1 .. L + 1 : t[k].key = y
      BY <1>3, <2>1, KeysDef
    <3>2. k \in 1 .. L \/ k = L + 1
      BY <1>2
    <3>3. k = L + 1 => y = e
      BY <1>2, <1>3, <3>1
    <3>4. k \in 1 .. L => y \in d.set
      BY <1>3, <1>4a, <3>1, KeysDef DEF L
    <3> QED
      BY <3>2, <3>3, <3>4
  <2>2. ASSUME NEW y \in d.set PROVE y \in Arb!Dedup!Keys(t)
    <3>1. PICK k \in 1 .. L : d.order[k].key = y
      BY <1>4a, <2>2, KeysDef DEF L
    <3>2. k \in 1 .. L + 1
      BY <1>2
    <3> QED
      BY <1>3, <3>1, <3>2, KeysDef
  <2>3. e \in Arb!Dedup!Keys(t)
    <3>1. L + 1 \in 1 .. Len(t)
      BY <1>2, <1>3
    <3> QED
      BY <1>2, <1>3, <3>1, KeysDef
  <2> QED
    BY <2>1, <2>2, <2>3
<1>9. Suffix(b, g)
  <2>1. ASSUME NEW k \in 1 .. L + 1
        PROVE  t[k].at = (Len(g) - (L + 1)) + k /\ t[k].key = g[(Len(g) - (L + 1)) + k]
    <3>1. (Len(g) - (L + 1)) + k = (Len(f) - L) + k /\ (k \in 1 .. L \/ k = L + 1)
      BY <1>2, <1>4
    <3>2. CASE k \in 1 .. L
      <4>1. d.order[k].at = (Len(f) - L) + k /\ d.order[k].key = f[(Len(f) - L) + k]
        BY <1>1, <3>2 DEF Suffix, L
      <4>2. (Len(f) - L) + k \in 1 .. Len(f)
        BY <1>2, <3>2
      <4> QED
        BY <1>3, <1>4, <3>1, <3>2, <4>1, <4>2
    <3>3. CASE k = L + 1
      <4>1. (Len(f) - L) + k = Len(f) + 1
        BY <1>2a, <3>3
      <4> QED
        BY <1>2, <1>3, <1>4, <3>1, <3>3, <4>1
    <3> QED
      BY <3>1, <3>2, <3>3
  <2>2. L + 1 <= Len(g)
    BY <1>2, <1>4
  <2> QED
    BY <1>3, <1>5, <1>7, <1>8, <2>1, <2>2 DEF Suffix
<1>10. Cardinality(b.set) = L + 1
  BY <1>3, <1>5, <1>7, <1>8, KeysCounted
<1>11. CASE L + 1 > Capacity
  <2>1. L + 1 - Capacity = 1
    BY <1>1, <1>2, <1>11, SizesAssumption
  <2>2. r = Arb!Dedup!Forget(b, 1)
    <3> DEFINE n == Arb!Dedup!Cardinality(b.set)
    <3>1. n = L + 1
      BY <1>10, SameCardinality
    <3>2. r = IF n > Capacity THEN Arb!Dedup!Forget(b, n - Capacity) ELSE b
      BY <1>6 DEF Arb!Dedup!EnforceCapacity
    <3> HIDE DEF n, L
    <3>3. n \in Nat /\ Capacity \in Nat /\ n > Capacity /\ n <= Capacity + 1
      BY <1>1, <1>2, <1>11, <3>1, SizesAssumption
    <3>4. \A j, k \in Nat : j > k /\ j <= k + 1 => j - k = 1
      OBVIOUS
    <3>5. n - Capacity = 1
      BY <3>3, <3>4
    <3> QED
      BY <3>2, <3>3, <3>5
  <2>3. Suffix(r, g) /\ Len(r.order) = L
    <3>1. 1 <= Len(b.order) /\ Len(b.order) - 1 = L
      BY <1>2, <1>3, <1>5
    <3>2. Suffix(Arb!Dedup!Forget(b, 1), g) /\ Len(Arb!Dedup!Forget(b, 1).order) = Len(b.order) - 1
      BY <1>4, <1>9, <3>1, ForgetKeeps
    <3> QED
      BY <2>2, <3>1, <3>2
  <2>4. \A i \in 1 .. Len(g) - L : i <= h \/ i + Capacity <= Len(g)
    BY <1>1, <1>2, <1>4, <1>11, SizesAssumption
  <2> QED
    BY <1>1, <2>3, <2>4, RemembersDef DEF g
<1>12. CASE ~ (L + 1 > Capacity)
  <2>1. r = b
    BY <1>2, <1>6, <1>10, <1>12, SizesAssumption, SameCardinality DEF Arb!Dedup!EnforceCapacity
  <2>2. L + 1 <= Capacity /\ Len(g) - (L + 1) = Len(f) - L
    BY <1>2, <1>4, <1>12, SizesAssumption
  <2>3. ASSUME NEW i \in 1 .. Len(g) - (L + 1) PROVE i <= h \/ i + Capacity <= Len(g)
    <3>1. i \in 1 .. Len(f) - L /\ i \in Nat
      BY <1>2, <2>2
    <3>2. i <= h \/ i + Capacity <= Len(f)
      BY <1>1, <3>1
    <3>3. i + Capacity <= Len(f) => i + Capacity <= Len(g)
      BY <1>2, <1>4, <3>1, SizesAssumption
    <3> QED
      BY <3>2, <3>3
  <2> QED
    BY <1>3, <1>5, <1>9, <2>1, <2>2, <2>3, RemembersDef DEF g
<1> QED
  BY <1>11, <1>12

\* Dedup::insert_at: what it says of a key, and what the deduper holds then.
LEMMA Inserted ==
  ASSUME NEW d, NEW f \in Seq(Nat), NEW h \in Nat, h <= Len(f), Remembers(d, f, h), NEW e \in Nat,
         NEW r, r = Arb!Dedup!Insert(d, e, Len(f) + 1, h)
  PROVE  /\ r.fresh \in BOOLEAN
         /\ r.fresh => /\ Remembers(r.dedup, Append(f, e), h)
                       /\ \A i \in 1 .. Len(f) : f[i] = e => i <= h \/ i + Capacity <= Len(f)
         /\ ~ r.fresh => Remembers(r.dedup, f, h) /\ e \in Covered(f)
<1> DEFINE p == Arb!Dedup!Prune(d, h)
           gone == Len(f) - Len(p.order)
<1>1. Remembers(p, f, h)
  BY PruneKeeps
<1>2. Suffix(p, f) /\ \A i \in 1 .. gone : i <= h \/ i + Capacity <= Len(f)
  BY <1>1, RemembersDef
<1>3. Len(p.order) \in Nat /\ Len(p.order) <= Len(f) /\ p.set = Arb!Dedup!Keys(p.order) /\ Len(f) \in Nat
  BY <1>2, LenProperties DEF Suffix
<1>4. \A k \in 1 .. Len(p.order) : p.order[k].key = f[gone + k]
  BY <1>2 DEF Suffix
<1>4a. /\ gone \in Nat
       /\ \A k \in 1 .. Len(p.order) : gone + k \in 1 .. Len(f)
       /\ \A i \in 1 .. Len(f) : i \in 1 .. gone \/ (i - gone \in 1 .. Len(p.order) /\ gone + (i - gone) = i)
  <2> DEFINE L == Len(p.order)
  <2>1. L \in Nat /\ L <= Len(f) /\ Len(f) \in Nat /\ gone = Len(f) - L
    BY <1>3
  <2> HIDE DEF L, gone
  <2>2. /\ gone \in Nat
        /\ \A k \in 1 .. L : gone + k \in 1 .. Len(f)
        /\ \A i \in 1 .. Len(f) : i \in 1 .. gone \/ (i - gone \in 1 .. L /\ gone + (i - gone) = i)
    BY <2>1
  <2> QED
    BY <2>2 DEF L
<1> HIDE DEF gone
<1>5. CASE e \in p.set
  <2>1. r = [dedup |-> p, fresh |-> FALSE]
    BY <1>5 DEF Arb!Dedup!Insert
  <2>2. PICK k \in 1 .. Len(p.order) : p.order[k].key = e
    BY <1>3, <1>5, KeysDef
  <2> HIDE DEF p
  <2>3. gone + k \in 1 .. Len(f) /\ f[gone + k] = e
    BY <1>4, <1>4a, <2>2
  <2>4. e \in Covered(f)
    BY <2>3, CoveredDef
  <2>5. r.dedup = p /\ r.fresh = FALSE
    BY <2>1
  <2> QED
    BY <1>1, <2>4, <2>5
<1>6. CASE e \notin p.set
  <2> DEFINE q == Arb!Dedup!EnforceCapacity([set |-> p.set \cup {e},
                                             order |-> Append(p.order, [key |-> e, at |-> Len(f) + 1])])
  <2>1. r = [dedup |-> q, fresh |-> TRUE]
    BY <1>6 DEF Arb!Dedup!Insert
  <2> HIDE DEF p
  <2>2. Remembers(q, Append(f, e), h)
    BY <1>1, <1>6, InsertFresh
  <2>3. ASSUME NEW i \in 1 .. Len(f), f[i] = e PROVE i <= h \/ i + Capacity <= Len(f)
    <3>1. CASE i \in 1 .. gone
      BY <1>2, <3>1
    <3>2. CASE i \notin 1 .. gone
      <4>1. i - gone \in 1 .. Len(p.order) /\ gone + (i - gone) = i
        BY <1>4a, <3>2
      <4>2. p.order[i - gone].key = e
        BY <1>4, <2>3, <4>1
      <4> QED
        BY <1>3, <1>6, <4>1, <4>2, KeysDef
    <3> QED
      BY <3>1, <3>2
  <2> HIDE DEF q
  <2>4. r.dedup = q /\ r.fresh = TRUE
    BY <2>1
  <2> QED
    BY <2>2, <2>3, <2>4
<1> QED
  BY <1>5, <1>6

(***************************************************************************)
(* The events of a message, against the deduper.                           *)
(***************************************************************************)
\* What holds of the events sent downstream when m was missed, after each event.
Sane(s, m) ==
  /\ s.fwd \in Seq(Nat) /\ aged <= Len(s.fwd) /\ Remembers(s.dedup, s.fwd, aged)
  /\ Repeats(s.fwd, aged) /\ Closed(s.fwd, m) /\ LateMissed(s.fwd, m)

LEMMA ArbitrateStep ==
  ASSUME NEW s, NEW m, Sane(s, m), aged \in Nat, NEW e \in Nat \ {0},
         \A x \in 1 .. e - 1 : x \in m \cup Covered(s.fwd),
         NEW t, t = Arb!Arbitrate(s, e)
  PROVE  Sane(t, m) /\ Covered(t.fwd) = Covered(s.fwd) \cup {e}
<1> DEFINE f == s.fwd
           g == Append(f, e)
           r == Arb!Judge(s, e)
<1>1. /\ f \in Seq(Nat) /\ aged <= Len(f) /\ Remembers(s.dedup, f, aged)
      /\ Repeats(f, aged) /\ Closed(f, m) /\ LateMissed(f, m) /\ Len(f) \in Nat /\ e \in Nat
  BY LenProperties DEF Sane
<1>2. r = Arb!Dedup!Insert(s.dedup, e, Len(f) + 1, aged)
  BY DEF Arb!Judge
<1> HIDE DEF f, r
<1>3. /\ r.fresh \in BOOLEAN
      /\ r.fresh => /\ Remembers(r.dedup, g, aged)
                    /\ \A i \in 1 .. Len(f) : f[i] = e => i <= aged \/ i + Capacity <= Len(f)
      /\ ~ r.fresh => Remembers(r.dedup, f, aged) /\ e \in Covered(f)
  BY <1>1, <1>2, Inserted
<1>4. t.dedup = r.dedup /\ t.fwd = IF r.fresh THEN g ELSE f
  BY DEF Arb!Arbitrate, r, f
<1>5. CASE ~ r.fresh
  <2>1. t.fwd = f /\ Remembers(t.dedup, f, aged) /\ e \in Covered(f)
    BY <1>3, <1>4, <1>5
  <2> QED
    BY <1>1, <2>1 DEF Sane, f
<1>6. CASE r.fresh
  <2>1. t.fwd = g /\ Remembers(t.dedup, g, aged)
    BY <1>3, <1>4, <1>6
  <2>2. Covered(g) = Covered(f) \cup {e}
    BY <1>1, CoveredAppend
  <2>3. /\ g \in Seq(Nat) /\ Len(g) = Len(f) + 1 /\ \A k \in 1 .. Len(f) : g[k] = f[k]
        /\ g[Len(f) + 1] = e
    BY <1>1, AppendProperties
  <2> HIDE DEF g
  <2>4. Repeats(g, aged)
    <3> SUFFICES ASSUME NEW j \in 1 .. Len(g), NEW i \in 1 .. j - 1, g[i] = g[j]
                 PROVE  j - i > Capacity \/ i <= aged
      BY DEF Repeats
    <3>0. i \in 1 .. Len(f) /\ (j \in 1 .. Len(f) \/ j = Len(f) + 1)
      <4> DEFINE L == Len(f)
      <4>1. L \in Nat /\ j \in 1 .. L + 1
        BY <1>1, <2>3
      <4> HIDE DEF L
      <4>2. i \in 1 .. L /\ (j \in 1 .. L \/ j = L + 1)
        BY <4>1
      <4> QED
        BY <4>2 DEF L
    <3>1. i \in 1 .. Len(f) /\ g[i] = f[i] /\ (j \in 1 .. Len(f) \/ j = Len(f) + 1)
      BY <2>3, <3>0
    <3>2. CASE j \in 1 .. Len(f)
      BY <1>1, <2>3, <3>1, <3>2 DEF Repeats
    <3>3. CASE j = Len(f) + 1
      <4>1. i <= aged \/ i + Capacity <= Len(f)
        BY <1>3, <1>6, <2>3, <3>1, <3>3
      <4>2. i + Capacity <= Len(f) => j - i > Capacity
        BY <1>1, <3>1, <3>3, SizesAssumption
      <4> QED
        BY <4>1, <4>2
    <3> QED
      BY <3>1, <3>2, <3>3
  <2>5. Closed(g, m)
    <3> SUFFICES ASSUME NEW z \in Covered(g), NEW x \in 1 .. z PROVE x \in m \cup Covered(g)
      BY DEF Closed
    <3>1. CASE z \in Covered(f)
      BY <1>1, <2>2, <3>1 DEF Closed
    <3>2. CASE z = e
      <4>1. x = e \/ x \in 1 .. e - 1
        BY <1>1, <3>2
      <4> QED
        BY <2>2, <4>1 DEF f
    <3> QED
      BY <2>2, <3>1, <3>2
  <2>6. LateMissed(g, m)
    <3> SUFFICES ASSUME NEW j \in 1 .. Len(g), NEW i \in 1 .. j - 1, g[i] > g[j]
                 PROVE  (\E k \in 1 .. j - 1 : g[k] = g[j]) \/ g[j] \in m
      BY DEF LateMissed
    <3>1. i \in 1 .. Len(f) /\ g[i] = f[i] /\ (j \in 1 .. Len(f) \/ j = Len(f) + 1)
      BY <1>1, <2>3, SMTT(30)
    <3>2. CASE j \in 1 .. Len(f)
      <4>1. \A k \in 1 .. j - 1 : k \in 1 .. Len(f)
        BY <1>1, <3>2
      <4>2. (\E k \in 1 .. j - 1 : f[k] = f[j]) \/ f[j] \in m
        BY <1>1, <2>3, <3>1, <3>2 DEF LateMissed
      <4> QED
        BY <2>3, <3>2, <4>1, <4>2
    <3>3. CASE j = Len(f) + 1
      <4>1. f[i] \in Covered(f) /\ f[i] \in Nat /\ g[j] = e
        BY <1>1, <2>3, <3>1, <3>3, CoveredDef, ElementOfSeq
      <4>2. e \in 1 .. f[i]
        BY <2>3, <3>1, <4>1
      <4>3. e \in m \cup Covered(f)
        BY <1>1, <4>1, <4>2 DEF Closed
      <4>4. e \in Covered(f) => \E k \in 1 .. Len(f) : f[k] = e
        BY CoveredDef
      <4>5. \A k \in 1 .. Len(f) : k \in 1 .. j - 1
        BY <1>1, <3>3
      <4> QED
        BY <2>3, <4>1, <4>3, <4>4, <4>5
    <3> QED
      BY <3>1, <3>2, <3>3
  <2>7. aged <= Len(g)
    BY <1>1, <2>3
  <2> QED
    BY <2>1, <2>2, <2>3, <2>4, <2>5, <2>6, <2>7 DEF Sane, f
<1> QED
  BY <1>3, <1>5, <1>6

LEMMA ArbitratedCases ==
  ASSUME NEW es \in Seq(Nat), Len(es) \in 0 .. 2
  PROVE  /\ Len(es) = 0 => Arb!Arbitrated(es) = Arb!Undecided
         /\ Len(es) = 1 => Arb!Arbitrated(es) = Arb!Arbitrate(Arb!Undecided, es[1])
         /\ Len(es) = 2 =>
              Arb!Arbitrated(es) = Arb!Arbitrate(Arb!Arbitrate(Arb!Undecided, es[1]), es[2])
<1> DEFINE u == Arb!Undecided
           a == Arb!Arbitrate(u, es[1])
           b == Arb!Arbitrate(a, es[2])
           Is(g) == g = [n \in 0 .. Len(es) |-> IF n = 0 THEN u ELSE Arb!Arbitrate(g[n - 1], es[n])]
           after == CHOOSE g : Is(g)
           w == [n \in 0 .. Len(es) |-> IF n = 0 THEN u ELSE IF n = 1 THEN a ELSE b]
<1>0. \A n \in 0 .. Len(es) : n = 0 \/ n = 1 \/ n = 2
  <2> DEFINE L == Len(es)
  <2>1. L \in 0 .. 2
    OBVIOUS
  <2> HIDE DEF L
  <2>2. \A n \in 0 .. L : n = 0 \/ n = 1 \/ n = 2
    BY <2>1
  <2> QED
    BY <2>2 DEF L
<1>1. Arb!Arbitrated(es) = after[Len(es)]
  BY DEF Arb!Arbitrated
<1>2. \A n \in 0 .. Len(es) :
        (IF n = 0 THEN u ELSE IF n = 1 THEN a ELSE b) =
        IF n = 0 THEN u ELSE Arb!Arbitrate(w[n - 1], es[n])
  <2> SUFFICES ASSUME NEW n \in 0 .. Len(es), n # 0
               PROVE  (IF n = 1 THEN a ELSE b) = Arb!Arbitrate(w[n - 1], es[n])
    OBVIOUS
  <2>1. CASE n = 1
    <3>1. w[0] = u
      OBVIOUS
    <3> HIDE DEF w, u
    <3> QED
      BY <2>1, <3>1
  <2>2. CASE n = 2
    <3>1. w[1] = a
      BY <2>2
    <3> HIDE DEF w, a
    <3> QED
      BY <2>2, <3>1
  <2>3. n = 1 \/ n = 2
    BY <1>0
  <2> QED
    BY <2>1, <2>2, <2>3
<1>3. Is(w)
  BY <1>2
<1>4. Is(after)
  BY <1>3
<1> HIDE DEF after, u
<1>5. \A n \in 0 .. Len(es) : after[n] = IF n = 0 THEN u ELSE Arb!Arbitrate(after[n - 1], es[n])
  BY <1>4
<1>6. after[0] = u
  BY <1>5
<1>7. Len(es) >= 1 => after[1] = a
  BY <1>5, <1>6
<1>8. Len(es) = 2 => after[2] = b
  BY <1>5, <1>7
<1>9. Len(es) = 0 => Arb!Arbitrated(es) = Arb!Undecided
  BY <1>1, <1>6 DEF u
<1>10. Len(es) = 1 => Arb!Arbitrated(es) = a
  BY <1>1, <1>7
<1>11. Len(es) = 2 => Arb!Arbitrated(es) = b
  BY <1>1, <1>8
<1> QED
  BY <1>9, <1>10, <1>11 DEF u

\* The events of one message, in order, against the deduper: they all have gone
\* downstream afterwards, and nothing else.
LEMMA ArbitratedAll ==
  ASSUME NEW es \in Seq(Nat), Len(es) \in 0 .. 2, Increasing(es), NEW m, Sane(Arb!Undecided, m),
         aged \in Nat,
         \A e \in Covered(es) : e # 0 /\ \A x \in 1 .. e - 1 : x \in m \cup Covered(fwd) \cup Covered(es)
  PROVE  Sane(Arb!Arbitrated(es), m) /\ Covered(Arb!Arbitrated(es).fwd) = Covered(fwd) \cup Covered(es)
<1> DEFINE u == Arb!Undecided
           a == Arb!Arbitrate(u, es[1])
           b == Arb!Arbitrate(a, es[2])
<1>1. u.fwd = fwd
  BY DEF Arb!Undecided
<1> HIDE DEF u
<1>2. CASE Len(es) = 0
  <2>1. Covered(es) = {}
    BY <1>2, CoveredEmpty, EmptySeq
  <2> QED
    BY <1>1, <1>2, <2>1, ArbitratedCases DEF u
<1>3. ASSUME Len(es) \in {1, 2}
      PROVE  Sane(a, m) /\ Covered(a.fwd) = Covered(fwd) \cup {es[1]} /\ es[1] \in Covered(es) /\ es[1] \in Nat
  <2>1. 1 \in 1 .. Len(es)
    BY <1>3
  <2>2. es[1] \in Covered(es) /\ es[1] \in Nat
    BY <2>1, CoveredDef, ElementOfSeq
  <2>3. ASSUME NEW x \in 1 .. es[1] - 1 PROVE x \in m \cup Covered(u.fwd)
    <3>1. x \in Covered(es) => \E i \in 1 .. Len(es) : es[i] = x
      BY CoveredDef
    <3>2. \A i \in 1 .. Len(es) : i = 1 \/ es[1] < es[i]
      BY <2>1 DEF Increasing
    <3>3. x < es[1] /\ x \in Nat
      BY <2>2
    <3>4. x \notin Covered(es)
      BY <2>2, <3>1, <3>2, <3>3
    <3> QED
      BY <1>1, <2>2, <3>4
  <2>4. es[1] \in Nat \ {0}
    BY <2>2
  <2>5. Sane(a, m) /\ Covered(a.fwd) = Covered(u.fwd) \cup {es[1]}
    <3>1. Sane(u, m)
      BY DEF u
    <3> DEFINE e == es[1]
    <3>2. e \in Nat \ {0} /\ \A x \in 1 .. e - 1 : x \in m \cup Covered(u.fwd)
      BY <2>3, <2>4
    <3> HIDE DEF e
    <3>3. \A t : t = Arb!Arbitrate(u, e) => Sane(t, m) /\ Covered(t.fwd) = Covered(u.fwd) \cup {e}
      BY <3>1, <3>2, ArbitrateStep, ZenonT(30)
    <3> QED
      BY <3>3 DEF e
  <2> QED
    BY <1>1, <2>2, <2>5
<1>4. CASE Len(es) = 1
  <2>1. Covered(es) = {es[1]}
    BY <1>4, CoveredDef
  <2>2. Arb!Arbitrated(es) = a
    BY <1>4, ArbitratedCases DEF u
  <2> QED
    BY <1>3, <1>4, <2>1, <2>2
<1>5. CASE Len(es) = 2
  <2>0. 1 .. Len(es) = {1, 2}
    BY <1>5
  <2>1. Covered(es) = {es[1], es[2]} /\ es[2] \in Nat
    BY <2>0, CoveredDef, ElementOfSeq
  <2>2. Arb!Arbitrated(es) = b
    BY <1>5, ArbitratedCases DEF u
  <2>3. Sane(a, m) /\ Covered(a.fwd) = Covered(fwd) \cup {es[1]}
    BY <1>3, <1>5
  <2> HIDE DEF a
  <2>4. ASSUME NEW x \in 1 .. es[2] - 1 PROVE x \in m \cup Covered(a.fwd)
    <3>1. x # es[2]
      BY <2>1
    <3> QED
      BY <2>1, <2>3, <3>1
  <2>5. es[2] \in Nat \ {0}
    BY <2>1
  <2>6. Sane(b, m) /\ Covered(b.fwd) = Covered(a.fwd) \cup {es[2]}
    <3> DEFINE y == es[2]
    <3>1. Sane(a, m) /\ y \in Nat \ {0} /\ \A x \in 1 .. y - 1 : x \in m \cup Covered(a.fwd)
      BY <2>3, <2>4, <2>5
    <3> HIDE DEF y
    <3>2. Sane(Arb!Arbitrate(a, y), m) /\ Covered(Arb!Arbitrate(a, y).fwd) = Covered(a.fwd) \cup {y}
      BY <3>1, ArbitrateStep
    <3> QED
      BY <3>2 DEF y
  <2> HIDE DEF b
  <2> QED
    BY <2>1, <2>2, <2>3, <2>6
<1> QED
  BY <1>2, <1>4, <1>5

\* What a processor makes of a message in the channel.
LEMMA Processed ==
  ASSUME sub \in Handler!Subscription, NEW f \in Frame, f.kind \in ChannelKinds,
         FrameSound(sub, spoilt, f), NEW p, NEW u, u = Arb!process_unified_message(sub, p, f), u.ok
  PROVE  /\ u.ev \in Seq(Nat) /\ Len(u.ev) \in 0 .. 2 /\ Increasing(u.ev)
         /\ f.kind # "data" => u.ev = << >>
         /\ f.kind = "data" => /\ f.bad # "text" /\ Covered(u.ev) \subseteq Covered(f.ev)
                               /\ Covered(f.ev) \subseteq Covered(u.ev) \cup spoilt
<1>1. /\ sub.venue \in {"binance", "okx", "deribit"} /\ sub.stream \in {"L2", "Trade"}
      /\ f.kind \in {"data"} \cup (IF sub.venue = "okx" THEN {"ack", "error"} ELSE {})
  BY DEF Handler!Subscription, Handler!Venue, ChannelKinds
<1>2. Increasing(<< >>) /\ << >> \in Seq(Nat) /\ Len(<< >>) = 0 /\ 0 \in 0 .. 2
  BY DEF Increasing
<1>3. f.kind = "data" =>
        /\ f.ev \in Seq(Nat) /\ Len(f.ev) \in 1 .. 2 /\ Increasing(f.ev) /\ Covered(f.ev) # {}
        /\ Handler!Spoilt(sub, f.ev, f.bad) \subseteq spoilt
        /\ Batch(sub.venue, f.ev)
  BY BatchFacts DEF FrameSound
<1>4. f.kind = "data" => Len(f.ev) \in 0 .. 2
  <2>1. 1 .. 2 \subseteq 0 .. 2
    OBVIOUS
  <2> QED
    BY <1>3, <2>1
<1>5. CASE f.kind # "data" /\ u.ev = << >>
  BY <1>2, <1>5
<1>6. CASE f.kind = "data" /\ f.bad = "none" /\ u.ev = f.ev
  BY <1>3, <1>4, <1>6
<1>7. CASE /\ sub.venue = "okx" /\ sub.stream = "Trade" /\ f.kind = "data" /\ f.bad = "side"
           /\ u.ev = SubSeq(f.ev, 1, Len(f.ev) - 1)
  <2>1. u.ev = Prefix(f.ev, 1)
    BY <1>7 DEF Prefix
  <2>2. /\ Prefix(f.ev, 1) \in Seq(Nat) /\ Increasing(Prefix(f.ev, 1))
        /\ Covered(Prefix(f.ev, 1)) \subseteq Covered(f.ev)
        /\ Covered(f.ev) \subseteq Covered(Prefix(f.ev, 1)) \cup {f.ev[Len(f.ev)]}
        /\ Len(Prefix(f.ev, 1)) = Len(f.ev) - 1
    BY <1>3, <1>7, PrefixFacts
  <2>3. Len(u.ev) \in 0 .. 2
    <3>1. \A k \in 1 .. 2 : k - 1 \in 0 .. 2
      OBVIOUS
    <3> QED
      BY <1>3, <1>7, <2>1, <2>2, <3>1
  <2>4. f.ev[Len(f.ev)] \in spoilt
    BY <1>3, <1>7 DEF Handler!Spoilt
  <2> QED
    BY <1>7, <2>1, <2>2, <2>3, <2>4
<1>8. CASE sub.venue = "okx" /\ sub.stream = "Trade"
  <2>1. u = Arb!Okx!ProcessTradeMessage(p, f)
    BY <1>8 DEF Arb!process_unified_message, Arb!process_trade_message
  <2>2. \/ f.kind # "data" /\ u.ev = << >>
        \/ f.kind = "data" /\ f.bad = "none" /\ u.ev = f.ev
        \/ f.kind = "data" /\ f.bad = "side" /\ u.ev = SubSeq(f.ev, 1, Len(f.ev) - 1)
    BY <2>1 DEF Arb!Okx!ProcessTradeMessage, Arb!Okx!Updates, Arb!Okx!Failure
  <2> QED
    BY <1>5, <1>6, <1>7, <1>8, <2>2
<1>9. CASE sub.venue = "okx" /\ sub.stream = "L2"
  <2>1. u = Arb!Okx!ProcessMessage(p, f, sub.chained)
    BY <1>9 DEF Arb!process_unified_message, Arb!process_message
  <2>2. (f.kind # "data" /\ u.ev = << >>) \/ (f.kind = "data" /\ f.bad = "none" /\ u.ev = f.ev)
    BY <1>1, <1>9, <2>1 DEF Arb!Okx!ProcessMessage, Arb!Okx!Updates, Arb!Okx!Failure
  <2> QED
    BY <1>5, <1>6, <2>2
<1>10. CASE sub.venue \in {"binance", "deribit"}
  <2>1. f.kind = "data"
    BY <1>1, <1>10
  <2>2. f.bad = "none" /\ u.ev = f.ev
    BY <1>1, <1>10, <2>1
    DEF Arb!process_unified_message, Arb!process_message, Arb!process_trade_message,
        Arb!Binance!ProcessMessage, Arb!Binance!ProcessTradeMessage, Arb!Deribit!ProcessMessage,
        Arb!Binance!Updates, Arb!Binance!Failure, Arb!Deribit!Updates, Arb!Deribit!Failure
  <2> QED
    BY <1>6, <2>1, <2>2
<1> QED
  BY <1>1, <1>8, <1>9, <1>10

(***************************************************************************)
(* Sockets and the channel.                                                *)
(***************************************************************************)
\* A frame with the newest events is put in a socket.
LEMMA InOrderAppend ==
  ASSUME NEW b, NEW x, NEW q \in Seq(Frame), NEW last \in Nat, NEW f \in Frame, NEW z \in Nat,
         InOrder(b, x, q, last), FrameSound(b, x, f), last <= z,
         f.kind = "data" => Covered(f.ev) \subseteq last + 1 .. z
  PROVE  InOrder(b, x, Append(q, f), z)
<1> DEFINE r == Append(q, f)
<1>1. /\ Len(r) = Len(q) + 1 /\ Len(q) \in Nat
      /\ \A i \in 1 .. Len(q) : r[i] = q[i]
      /\ r[Len(q) + 1] = f
  BY AppendProperties
<1> HIDE DEF r
<1> SUFFICES ASSUME NEW i \in 1 .. Len(r)
             PROVE  /\ FrameSound(b, x, r[i])
                    /\ r[i].kind = "data" => Covered(r[i].ev) \subseteq 1 .. z
                    /\ \A j \in 1 .. i - 1 : r[i].kind = "data" /\ r[j].kind = "data" =>
                         Below(Covered(r[j].ev), Covered(r[i].ev))
  BY DEF InOrder, r
<1>2. \A e \in 1 .. last : e \in 1 .. z
  OBVIOUS
<1>3. CASE i \in 1 .. Len(q)
  <2>1. r[i] = q[i] /\ \A j \in 1 .. i - 1 : r[j] = q[j]
    BY <1>1, <1>3
  <2>2. /\ FrameSound(b, x, q[i])
        /\ q[i].kind = "data" => Covered(q[i].ev) \subseteq 1 .. last
        /\ \A j \in 1 .. i - 1 : q[i].kind = "data" /\ q[j].kind = "data" =>
             Below(Covered(q[j].ev), Covered(q[i].ev))
    BY <1>3 DEF InOrder
  <2> QED
    BY <1>2, <2>1, <2>2
<1>4. CASE i = Len(q) + 1
  <2>1. r[i] = f /\ \A j \in 1 .. i - 1 : j \in 1 .. Len(q) /\ r[j] = q[j]
    BY <1>1, <1>4
  <2>2. ASSUME f.kind = "data" PROVE Covered(f.ev) \subseteq 1 .. z
    BY <2>2
  <2>3. ASSUME NEW j \in 1 .. i - 1, f.kind = "data", r[j].kind = "data"
        PROVE  Below(Covered(r[j].ev), Covered(f.ev))
    <3>1. Covered(q[j].ev) \subseteq 1 .. last
      BY <2>1, <2>3 DEF InOrder
    <3> QED
      BY <2>1, <2>3, <3>1 DEF Below
  <2> QED
    BY <2>1, <2>2, <2>3
<1> QED
  BY <1>1, <1>3, <1>4

\* Frames without events are put in a socket.
LEMMA InOrderConcat ==
  ASSUME NEW b, NEW x, NEW q \in Seq(Frame), NEW last, InOrder(b, x, q, last),
         NEW r \in Seq(Frame), \A i \in 1 .. Len(r) : r[i].kind # "data"
  PROVE  /\ q \o r \in Seq(Frame) /\ InOrder(b, x, q \o r, last) /\ Carried(q \o r) = Carried(q)
<1> DEFINE s == q \o r
<1>1. /\ s \in Seq(Frame) /\ Len(s) = Len(q) + Len(r) /\ Len(q) \in Nat /\ Len(r) \in Nat
      /\ \A i \in 1 .. Len(s) : s[i] = IF i <= Len(q) THEN q[i] ELSE r[i - Len(q)]
  BY ConcatProperties
<1> HIDE DEF s
<1>2. \A i \in 1 .. Len(q) : i \in 1 .. Len(s) /\ s[i] = q[i]
  BY <1>1
<1>3. \A i \in 1 .. Len(s) : s[i].kind = "data" => i \in 1 .. Len(q)
  <2> SUFFICES ASSUME NEW i \in 1 .. Len(s), ~ (i <= Len(q)) PROVE s[i].kind # "data"
    BY <1>1
  <2>1. i - Len(q) \in 1 .. Len(r)
    BY <1>1
  <2> QED
    BY <1>1, <2>1
<1>4. InOrder(b, x, s, last)
  <2> SUFFICES ASSUME NEW i \in 1 .. Len(s), s[i].kind = "data"
               PROVE  /\ FrameSound(b, x, s[i])
                      /\ Covered(s[i].ev) \subseteq 1 .. last
                      /\ \A j \in 1 .. i - 1 : s[j].kind = "data" =>
                           Below(Covered(s[j].ev), Covered(s[i].ev))
    BY DEF InOrder, FrameSound
  <2>1. i \in 1 .. Len(q) /\ \A j \in 1 .. i - 1 : j \in 1 .. Len(q)
    BY <1>1, <1>3
  <2> QED
    BY <1>2, <2>1 DEF InOrder
<1>5. Carried(s) = Carried(q)
  <2>1. ASSUME NEW e \in Carried(s) PROVE e \in Carried(q)
    <3>1. PICK i \in 1 .. Len(s) : s[i].kind = "data" /\ e \in Covered(s[i].ev)
      BY <2>1, CarriedDef
    <3> QED
      BY <1>2, <1>3, <2>1, <3>1, CarriedDef
  <2>2. ASSUME NEW e \in Carried(q) PROVE e \in Carried(s)
    <3>1. PICK i \in 1 .. Len(q) : q[i].kind = "data" /\ e \in Covered(q[i].ev)
      BY <2>2, CarriedDef
    <3> QED
      BY <1>2, <2>2, <3>1, CarriedDef
  <2> QED
    BY <2>1, <2>2
<1> QED
  BY <1>1, <1>4, <1>5 DEF s

\* The first frame is read; its events come before what stays.
LEMMA InOrderTail ==
  ASSUME NEW b, NEW x, NEW q \in Seq(Frame), q # << >>, NEW last, InOrder(b, x, q, last)
  PROVE  /\ InOrder(b, x, Tail(q), last) /\ FrameSound(b, x, Head(q))
         /\ Head(q).kind = "data" => /\ Covered(Head(q).ev) \subseteq 1 .. last
                                     /\ Below(Covered(Head(q).ev), Carried(Tail(q)))
<1> DEFINE t == Tail(q)
<1>1. /\ Head(q) = q[1] /\ Len(t) = Len(q) - 1 /\ Len(q) \in Nat /\ Len(q) > 0
      /\ \A i \in 1 .. Len(t) : t[i] = q[i + 1]
  BY HeadTailProperties, EmptySeq
<1> HIDE DEF t
<1>2. \A i \in 1 .. Len(t) : i + 1 \in 1 .. Len(q) /\ t[i] = q[i + 1] /\ 1 \in 1 .. (i + 1) - 1
  BY <1>1
<1>3. 1 \in 1 .. Len(q)
  BY <1>1
<1>4. InOrder(b, x, t, last)
  <2> SUFFICES ASSUME NEW i \in 1 .. Len(t)
               PROVE  /\ FrameSound(b, x, t[i])
                      /\ t[i].kind = "data" => Covered(t[i].ev) \subseteq 1 .. last
                      /\ \A j \in 1 .. i - 1 : t[i].kind = "data" /\ t[j].kind = "data" =>
                           Below(Covered(t[j].ev), Covered(t[i].ev))
    BY DEF InOrder
  <2>1. \A j \in 1 .. i - 1 : j \in 1 .. Len(t) /\ j + 1 \in 1 .. (i + 1) - 1
    BY <1>1
  <2> QED
    BY <1>2, <2>1 DEF InOrder
<1>5. ASSUME Head(q).kind = "data", NEW a \in Covered(Head(q).ev), NEW e \in Carried(t) PROVE a < e
  <2>1. PICK i \in 1 .. Len(t) : t[i].kind = "data" /\ e \in Covered(t[i].ev)
    BY <1>5, CarriedDef
  <2>2. Below(Covered(q[1].ev), Covered(q[i + 1].ev))
    BY <1>1, <1>2, <1>5, <2>1 DEF InOrder
  <2> QED
    BY <1>1, <1>2, <1>5, <2>1, <2>2 DEF Below
<1>6. FrameSound(b, x, Head(q)) /\ (Head(q).kind = "data" => Covered(Head(q).ev) \subseteq 1 .. last)
  BY <1>1, <1>3 DEF InOrder
<1> QED
  BY <1>4, <1>5, <1>6 DEF Below, t

LEMMA QueuedDef ==
  ASSUME NEW q, NEW n, NEW e
  PROVE  e \in Queued(q, n) <=>
           e \in Nat /\ \E k \in 1 .. n : q[k].frame.kind = "data" /\ e \in Covered(q[k].frame.ev)
  BY DEF Queued

\* The first message of the channel is taken.
LEMMA QueuedTail ==
  ASSUME NEW q \in Seq(Message), q # << >>
  PROVE  /\ Len(Tail(q)) \in Nat /\ Len(Tail(q)) + 1 = Len(q) /\ Head(q) = q[1] /\ Head(q) \in Message
         /\ Tail(q) \in Seq(Message) /\ \A k \in 1 .. Len(Tail(q)) : Tail(q)[k] = q[k + 1]
         /\ \A n \in Nat, e \in Nat : n <= Len(Tail(q)) /\ e \in Queued(q, n + 1) =>
              \/ Head(q).frame.kind = "data" /\ e \in Covered(Head(q).frame.ev)
              \/ e \in Queued(Tail(q), n)
<1> DEFINE t == Tail(q)
<1>1. /\ Head(q) = q[1] /\ Len(t) = Len(q) - 1 /\ Len(q) \in Nat /\ Len(q) > 0 /\ Head(q) \in Message
      /\ t \in Seq(Message) /\ \A i \in 1 .. Len(t) : t[i] = q[i + 1]
  BY HeadTailProperties, EmptySeq
<1> HIDE DEF t
<1>2. Len(t) \in Nat /\ Len(t) + 1 = Len(q)
  BY <1>1
<1>3. ASSUME NEW n \in Nat, NEW e \in Nat, n <= Len(t), e \in Queued(q, n + 1)
      PROVE  (Head(q).frame.kind = "data" /\ e \in Covered(Head(q).frame.ev)) \/ e \in Queued(t, n)
  <2>1. PICK k \in 1 .. n + 1 : q[k].frame.kind = "data" /\ e \in Covered(q[k].frame.ev)
    BY <1>3, QueuedDef
  <2>2. CASE k # 1
    <3>1. k - 1 \in 1 .. n /\ k - 1 \in 1 .. Len(t) /\ (k - 1) + 1 = k
      BY <1>2, <1>3, <2>2
    <3>2. t[k - 1] = q[k]
      BY <1>1, <3>1
    <3> QED
      BY <2>1, <3>1, <3>2, QueuedDef
  <2> QED
    BY <1>1, <2>1, <2>2
<1> QED
  BY <1>1, <1>2, <1>3 DEF t

\* A message is put in the channel.
LEMMA QueuedAppend ==
  ASSUME NEW q \in Seq(Message), NEW x \in Message
  PROVE  /\ Append(q, x) \in Seq(Message) /\ Len(Append(q, x)) = Len(q) + 1 /\ Len(q) \in Nat
         /\ \A k \in 1 .. Len(q) : Append(q, x)[k] = q[k]
         /\ Append(q, x)[Len(q) + 1] = x
         /\ \A n \in 0 .. Len(q) : Queued(q, n) \subseteq Queued(Append(q, x), n)
         /\ Queued(q, Len(q)) \subseteq Queued(Append(q, x), Len(q) + 1)
         /\ x.frame.kind = "data" => \A e \in Covered(x.frame.ev) : e \in Nat => e \in Queued(Append(q, x), Len(q) + 1)
<1> DEFINE r == Append(q, x)
<1>1. /\ r \in Seq(Message) /\ Len(r) = Len(q) + 1 /\ Len(q) \in Nat
      /\ \A k \in 1 .. Len(q) : r[k] = q[k]
      /\ r[Len(q) + 1] = x
  BY AppendProperties
<1> HIDE DEF r
<1>2. ASSUME NEW n \in 0 .. Len(q), NEW m \in Nat, n <= m, NEW e \in Queued(q, n) PROVE e \in Queued(r, m)
  <2>1. PICK k \in 1 .. n : q[k].frame.kind = "data" /\ e \in Covered(q[k].frame.ev)
    BY <1>2, QueuedDef
  <2>2. k \in 1 .. Len(q) /\ k \in 1 .. m
    BY <1>1, <1>2
  <2> QED
    BY <1>1, <1>2, <2>1, <2>2, QueuedDef
<1>3. \A n \in 0 .. Len(q) : Queued(q, n) \subseteq Queued(r, n)
  <2> SUFFICES ASSUME NEW n \in 0 .. Len(q), NEW e \in Queued(q, n) PROVE e \in Queued(r, n)
    OBVIOUS
  <2>1. n \in Nat /\ n <= n
    BY <1>1
  <2> QED
    BY <1>2, <2>1
<1>4. Queued(q, Len(q)) \subseteq Queued(r, Len(q) + 1)
  <2>1. Len(q) \in 0 .. Len(q) /\ Len(q) + 1 \in Nat /\ Len(q) <= Len(q) + 1
    BY <1>1
  <2> QED
    BY <1>2, <2>1
<1>5. x.frame.kind = "data" => \A e \in Covered(x.frame.ev) : e \in Nat => e \in Queued(r, Len(q) + 1)
  <2>1. Len(q) + 1 \in 1 .. Len(q) + 1
    BY <1>1
  <2> QED
    BY <1>1, <2>1, QueuedDef
<1> QED
  BY <1>1, <1>3, <1>4, <1>5 DEF r

(***************************************************************************)
(* Steps that leave what went downstream alone.                            *)
(***************************************************************************)
LEMMA SameSets == ASSUME sub' = sub PROVE Frame' = Frame /\ Task' = Task /\ Message' = Message /\ Connector' = Connector
<1>1. Frame' = Frame
  BY DEF Frame, Kinds
<1>2. Connector' = Connector
  BY DEF Connector, BinanceRec, OkxRec, DeribitRec
<1> QED
  BY <1>1, <1>2 DEF Task, Message

\* A task that takes no step stays sound while the exchange goes on.
LEMMA SoundKept ==
  ASSUME NEW c, TaskSound(task[c]), task'[c] = task[c], sub' = sub, market \in Nat, market' \in Nat,
         market <= market', spoilt \subseteq spoilt', missed \subseteq missed'
  PROVE  TaskSound(task[c])'
<1>1. Task' = Task
  BY SameSets
<1>2. InOrder(sub, spoilt, task[c].sock, task[c].sent)'
  BY DEF TaskSound, InOrder, FrameSound
<1>3. ConnSound(task[c])'
  BY DEF TaskSound, ConnSound
<1>4. task[c].sent \in Nat
  BY DEF TaskSound, Task
<1> QED
  BY <1>1, <1>2, <1>3, <1>4 DEF TaskSound

LEMMA ClosedKept ==
  ASSUME NEW c, TaskClosed(task[c]), task'[c] = task[c], sub' = sub, missed \subseteq missed',
         Passed \subseteq Passed',
         \A e \in Nat : e \in Queued(raw, Len(raw)) => e \in Passed' \cup Queued(raw', Len(raw'))
  PROVE  TaskClosed(task[c])'
<1>1. \A e : e \in Queued(raw, Len(raw)) => e \in Passed' \cup Queued(raw', Len(raw'))
  BY QueuedDef
<1> QED
  BY <1>1 DEF TaskClosed, Delivers

\* What a step must show that sends nothing downstream.
LEMMA QuietStep ==
  ASSUME ArbInv, UNCHANGED <<plan, sub, fwd, dedup, aged>>, market' \in Nat, market <= market',
         spoilt \subseteq spoilt', missed \subseteq missed', (plan.arb => spoilt \subseteq missed)',
         (group \in {"ramp", "run", "failed", "cancelled", "aborted"})', Receiving' => Receiving,
         (raw \in Seq(Message))', ChannelSound', Receiving' => ChannelClosed',
         \A e \in Nat : e \in Queued(raw, Len(raw)) => e \in Queued(raw', Len(raw')),
         (task = [c \in Conn |-> task[c]])',
         \A c \in Conn : task'[c] = task[c] \/ (TaskSound(task[c])' /\ (Receiving' => TaskClosed(task[c])')),
         (~ plan.arb => raw = << >> /\ fwd = << >> /\ group = "ramp" /\ \A c \in Conn : task[c].pc = "none")'
  PROVE  ArbInv'
<1> USE DEF ArbInv
<1>1. Conn' = Conn
  BY DEF Conn, Arb!Conn
<1>2. market \in Nat
  BY DEF ArbTypes
<1>3. ArbTypes'
  BY <1>1 DEF ArbTypes
<1>4. ASSUME NEW c \in Conn PROVE TaskSound(task[c])'
  BY <1>2, SoundKept
<1>5. Passed \subseteq Passed'
  BY DEF Passed
<1>6. ASSUME NEW c \in Conn, Receiving' PROVE TaskClosed(task[c])'
  BY <1>5, <1>6, ClosedKept
<1>7. Remembers(dedup, fwd, aged)' /\ Repeats(fwd, aged)'
  BY DEF Remembers, Repeats
<1>8. Closed(fwd, missed)' /\ LateMissed(fwd, missed)'
  BY DEF Closed, LateMissed
<1> QED
  BY <1>1, <1>3, <1>4, <1>6, <1>7, <1>8

\* The channel stays what it is.
LEMMA SameChannel ==
  ASSUME ArbInv, UNCHANGED <<raw, sub, fwd>>, spoilt \subseteq spoilt', missed \subseteq missed',
         Receiving' => Receiving
  PROVE  /\ (raw \in Seq(Message))' /\ ChannelSound' /\ (Receiving' => ChannelClosed')
         /\ \A e \in Nat : e \in Queued(raw, Len(raw)) => e \in Queued(raw', Len(raw'))
<1> USE DEF ArbInv
<1>1. (raw \in Seq(Message))'
  BY SameSets DEF ArbTypes
<1>2. ChannelSound'
  BY DEF ChannelSound, FrameSound, ChannelKinds
<1>3. Receiving' => ChannelClosed'
  BY DEF ChannelClosed, Passed, Queued
<1> QED
  BY <1>1, <1>2, <1>3

\* A step of one connection: its task or its socket changes.
LEMMA OneTaskStep ==
  ASSUME ArbInv, plan.arb, UNCHANGED <<plan, sub, fwd, dedup, aged, raw>>, market' \in Nat,
         market <= market', spoilt \subseteq spoilt', missed \subseteq missed', spoilt' \subseteq missed',
         group' = group \/ (group = "ramp" /\ group' = "run"),
         NEW c, NEW n, task' = [task EXCEPT ![c] = n],
         c \in Conn => TaskSound(task[c])' /\ (Receiving' => TaskClosed(task[c])')
  PROVE  ArbInv'
<1> USE DEF ArbInv
<1>1. Receiving' => Receiving
  BY DEF Receiving, Arb!Receiving
<1>2. task = [d \in Conn |-> task[d]]
  BY DEF ArbTypes
<1>3. Conn' = Conn
  BY DEF Conn, Arb!Conn
<1>4. (task = [d \in Conn |-> task[d]])' /\ \A d \in Conn : d # c => task'[d] = task[d]
  <2> HIDE DEF ArbInv
  <2>1. task' = [d \in Conn |-> IF d = c THEN n ELSE task[d]]
    BY <1>2
  <2> QED
    BY <1>3, <2>1
<1>5. (group \in {"ramp", "run", "failed", "cancelled", "aborted"})'
  BY DEF ArbTypes
<1>6. /\ (raw \in Seq(Message))' /\ ChannelSound' /\ (Receiving' => ChannelClosed')
      /\ \A e \in Nat : e \in Queued(raw, Len(raw)) => e \in Queued(raw', Len(raw'))
  BY <1>1, SameChannel
<1>7. \A d \in Conn : task'[d] = task[d] \/ (TaskSound(task[d])' /\ (Receiving' => TaskClosed(task[d])'))
  BY <1>4
<1> HIDE DEF ArbInv
<1> QED
  BY <1>1, <1>4, <1>5, <1>6, <1>7, QuietStep

\* A step that moves no event.
LEMMA CalmStep ==
  ASSUME ArbInv, UNCHANGED <<plan, sub, fwd, dedup, aged, raw, task>>, market' \in Nat, market <= market',
         spoilt \subseteq spoilt', missed \subseteq missed', plan.arb => spoilt' \subseteq missed',
         group' = group \/ (plan.arb /\ group' = "aborted")
  PROVE  ArbInv'
<1> USE DEF ArbInv
<1>1. Receiving' => Receiving
  BY DEF Receiving, Arb!Receiving
<1>2. /\ (raw \in Seq(Message))' /\ ChannelSound' /\ (Receiving' => ChannelClosed')
      /\ \A e \in Nat : e \in Queued(raw, Len(raw)) => e \in Queued(raw', Len(raw'))
  BY <1>1, SameChannel
<1>3. Conn' = Conn
  BY DEF Conn, Arb!Conn
<1>4. /\ (task = [d \in Conn |-> task[d]])' /\ (plan.arb => spoilt \subseteq missed)'
      /\ (group \in {"ramp", "run", "failed", "cancelled", "aborted"})'
  BY <1>3 DEF ArbTypes
<1>5. (~ plan.arb => raw = << >> /\ fwd = << >> /\ group = "ramp" /\ \A d \in Conn : task[d].pc = "none")'
  BY <1>3 DEF ArbTypes
<1>6. \A d \in Conn : task'[d] = task[d] \/ (TaskSound(task[d])' /\ (Receiving' => TaskClosed(task[d])'))
  OBVIOUS
<1> HIDE DEF ArbInv
<1> QED
  BY <1>1, <1>2, <1>4, <1>5, <1>6, QuietStep

(***************************************************************************)
(* The exchange.                                                           *)
(***************************************************************************)
LEMMA ArbHappenStep == ASSUME ArbInv, plan' = plan, Arb!Happen PROVE ArbInv'
<1>1. /\ UNCHANGED <<plan, sub, fwd, dedup, aged, raw, task, group, spoilt, missed>>
      /\ market' = market + 1
  BY DEF Arb!Happen, Arb!groupVars
<1>2. market \in Nat /\ (plan.arb => spoilt \subseteq missed)
  BY DEF ArbInv, ArbTypes
<1>3. market' \in Nat /\ market <= market'
  BY <1>1, <1>2
<1> QED
  BY <1>1, <1>2, <1>3, CalmStep

\* Time passes: more of what the deduper remembers is too old.
LEMMA WaitStep == ASSUME ArbInv, plan' = plan, Arb!Wait PROVE ArbInv'
<1> USE DEF ArbInv
<1>1. /\ UNCHANGED <<plan, sub, fwd, dedup, raw, task, group, spoilt, missed, market>>
      /\ aged' \in aged + 1 .. Len(fwd)
  BY DEF Arb!Wait, Arb!groupVars
<1>2. fwd \in Seq(Nat) /\ Len(fwd) \in Nat /\ aged \in 0 .. Len(fwd)
  BY DEF ArbTypes
<1>3. aged' \in 0 .. Len(fwd) /\ aged' \in Nat /\ aged <= aged' /\ aged \in Nat
  BY <1>1, <1>2
<1>4. Conn' = Conn /\ (Receiving' <=> Receiving)
  BY <1>1 DEF Conn, Arb!Conn, Receiving, Arb!Receiving
<1>5. ArbTypes'
  BY <1>1, <1>3, <1>4, SameSets DEF ArbTypes
<1>6. ChannelSound'
  BY <1>1 DEF ChannelSound, FrameSound, ChannelKinds
<1>7. ASSUME NEW c \in Conn PROVE TaskSound(task[c])' /\ (Receiving' => TaskClosed(task[c])')
  <2>1. market \in Nat /\ market <= market
    BY DEF ArbTypes
  <2>2. TaskSound(task[c])'
    BY <1>1, <2>1, SoundKept
  <2>3. TaskClosed(task[c]) => TaskClosed(task[c])'
    BY <1>1 DEF TaskClosed, Delivers, Passed, Queued
  <2> QED
    BY <1>4, <2>2, <2>3
<1>8. Receiving' => ChannelClosed'
  BY <1>1, <1>4 DEF ChannelClosed, Passed, Queued
<1>9. Remembers(dedup, fwd, aged)'
  <2> DEFINE gone == Len(fwd) - Len(dedup.order)
             later == aged'
  <2>1. /\ Suffix(dedup, fwd) /\ Len(dedup.order) <= Capacity
        /\ \A i \in 1 .. gone : i <= aged \/ i + Capacity <= Len(fwd)
    BY RemembersDef
  <2>2. later \in Nat /\ aged \in Nat /\ aged <= later /\ gone \in Int
    BY <1>2, <1>3, <2>1, LenProperties DEF Suffix
  <2> HIDE DEF gone, later
  <2>3. \A i \in 1 .. gone : i <= later \/ i + Capacity <= Len(fwd)
    BY <2>1, <2>2
  <2>4. Remembers(dedup, fwd, later)
    BY <2>1, <2>3, RemembersDef DEF gone
  <2> QED
    BY <1>1, <2>4 DEF Remembers, later
<1>10. Repeats(fwd, aged)'
  <2> DEFINE later == aged'
  <2>1. later \in Nat /\ aged \in Nat /\ aged <= later
    BY <1>3
  <2> HIDE DEF later
  <2>2. \A i \in Nat : i <= aged => i <= later
    BY <2>1
  <2>3. \A j \in 1 .. Len(fwd) : \A i \in 1 .. j - 1 : i \in Nat
    BY <1>2
  <2>4. Repeats(fwd, later)
    BY <2>2, <2>3 DEF Repeats
  <2> QED
    BY <1>1, <2>4 DEF Repeats, later
<1>11. Closed(fwd, missed)' /\ LateMissed(fwd, missed)'
  BY <1>1 DEF Closed, LateMissed
<1> QED
  BY <1>4, <1>5, <1>6, <1>7, <1>8, <1>9, <1>10, <1>11

\* The server of one connection sends its next events.
LEMMA ArbSendFrameStep ==
  ASSUME ArbInv, plan.arb, plan' = plan, NEW c \in Conn, NEW es \in Handler!Batches(sub.venue, task[c].sent),
         NEW bad \in Handler!Defect, Arb!SendFrame(c, es, bad)
  PROVE  ArbInv'
<1> USE DEF ArbInv
<1> DEFINE t == task[c]
           z == es[Len(es)]
           left == (t.sent + 1 .. z) \ Covered(es)
           lost == Handler!Spoilt(sub, es, bad)
           f == Handler!Data(es, bad)
           n == [t EXCEPT !.sock = Append(@, f), !.sent = z]
<1>1. /\ UNCHANGED <<plan, sub, fwd, dedup, aged, raw, group, market>>
      /\ t.open /\ z <= market
      /\ missed' = missed \cup left \cup lost /\ spoilt' = spoilt \cup lost
      /\ task' = [task EXCEPT ![c].sock = Append(@, f), ![c].sent = z]
  BY DEF Arb!SendFrame, Arb!CanSend, Arb!groupVars, Covered, Handler!Covered, Arb!Covered, Arb!Data,
         Handler!Data, Arb!Spoilt, Handler!Spoilt
<1>2. task = [d \in Conn |-> task[d]] /\ TaskSound(t) /\ market \in Nat /\ spoilt \subseteq missed
      /\ sub \in Handler!Subscription
  BY DEF ArbTypes
<1>3. task' = [task EXCEPT ![c] = n]
  BY <1>1
<1>4. task'[c] = n
  BY <1>2, <1>3
<1>5. /\ t \in Task /\ t.sock \in Seq(Frame) /\ t.sent \in Nat /\ InOrder(sub, spoilt, t.sock, t.sent)
      /\ ConnSound(t) /\ t.pc \notin {"none", "connect", "done"}
  BY <1>1, <1>2 DEF TaskSound, Task
<1>6. /\ Batch(sub.venue, es) /\ z \in Nat /\ z > t.sent /\ Covered(es) \subseteq t.sent + 1 .. z
  BY <1>5, BatchIsNew
<1>7. f \in Frame /\ f.kind = "data" /\ f.ev = es /\ f.bad = bad
  BY <1>6, DataFrame DEF Batch
<1> HIDE DEF f
<1>8. /\ Append(t.sock, f) \in Seq(Frame) /\ Carried(Append(t.sock, f)) = Carried(t.sock) \cup Covered(es)
  BY <1>5, <1>7, CarriedAppend
<1>9. n \in Task /\ n.sock = Append(t.sock, f) /\ n.sent = z /\ n.pc = t.pc /\ n.conn = t.conn /\ n.open = t.open
  BY <1>5, <1>6, <1>8 DEF Task
<1> HIDE DEF n
<1>10. spoilt \subseteq spoilt' /\ missed \subseteq missed' /\ spoilt' \subseteq missed'
  BY <1>1, <1>2
<1>11. InOrder(sub, spoilt', Append(t.sock, f), z)
  <2>1. InOrder(sub, spoilt', t.sock, t.sent)
    BY <1>5, <1>10 DEF InOrder, FrameSound
  <2>2. FrameSound(sub, spoilt', f)
    BY <1>1, <1>6, <1>7 DEF FrameSound
  <2>3. t.sent <= z
    BY <1>5, <1>6
  <2>4. f.kind = "data" => Covered(f.ev) \subseteq t.sent + 1 .. z
    BY <1>6, <1>7
  <2> DEFINE q == t.sock
             s == t.sent
             y == z
  <2>5. /\ q \in Seq(Frame) /\ s \in Nat /\ y \in Nat /\ InOrder(sub, spoilt', q, s) /\ s <= y
        /\ f.kind = "data" => Covered(f.ev) \subseteq s + 1 .. y
    BY <1>5, <1>6, <2>1, <2>3, <2>4
  <2> HIDE DEF q, s, y
  <2>6. InOrder(sub, spoilt', Append(q, f), y)
    BY <1>7, <2>2, <2>5, InOrderAppend
  <2> QED
    BY <2>6 DEF q, y
<1>12. ConnSound(task[c])'
  BY <1>1, <1>4, <1>5, <1>9, <1>10 DEF ConnSound
<1>13. TaskSound(task[c])'
  <2>1. InOrder(sub, spoilt, task[c].sock, task[c].sent)'
    BY <1>1, <1>4, <1>9, <1>11, ZenonT(30) DEF InOrder, FrameSound
  <2> QED
    BY <1>1, <1>4, <1>5, <1>9, <1>12, <2>1, SameSets DEF TaskSound
<1>14. Receiving' => TaskClosed(task[c])'
  <2> SUFFICES ASSUME Receiving', Delivers(task[c])', NEW e \in 1 .. z
               PROVE  e \in (Passed \cup Queued(raw, Len(raw)))' \cup Carried(n.sock)
    BY <1>4, <1>9 DEF TaskClosed
  <2>1. Receiving /\ Delivers(t)
    BY <1>1, <1>4, <1>9 DEF Receiving, Arb!Receiving, Delivers
  <2>2. TaskClosed(t)
    BY <2>1
  <2>3. CASE e \in 1 .. t.sent
    <3>1. e \in Passed \cup Queued(raw, Len(raw)) \cup Carried(t.sock)
      BY <2>1, <2>2, <2>3 DEF TaskClosed
    <3>2. Passed \subseteq Passed' /\ Queued(raw, Len(raw))' = Queued(raw, Len(raw))
      BY <1>1 DEF Passed, Queued
    <3> QED
      BY <1>8, <1>9, <3>1, <3>2
  <2>4. CASE e \notin 1 .. t.sent
    <3>1. e \in t.sent + 1 .. z
      BY <1>5, <1>6, <2>4
    <3>2. e \in left \/ e \in Covered(es)
      BY <3>1
    <3>3. left \subseteq Passed'
      BY <1>1 DEF Passed
    <3> QED
      BY <1>8, <1>9, <3>2, <3>3
  <2> QED
    BY <2>3, <2>4
<1>15. market' \in Nat /\ market <= market'
  BY <1>1, <1>2
<1> HIDE DEF ArbInv
<1> QED
  BY <1>1, <1>3, <1>10, <1>13, <1>14, <1>15, OneTaskStep

\* A server sends frames without events, or ends a stream.
LEMMA ArbSendControlStep ==
  ASSUME ArbInv, plan.arb, plan' = plan, NEW c \in Conn, NEW k \in Handler!ControlFrames(sub.venue),
         Arb!SendControl(c, k)
  PROVE  ArbInv'
<1> USE DEF ArbInv
<1> DEFINE t == task[c]
           q == Handler!Frames(k)
           n == [t EXCEPT !.sock = @ \o q, !.open = k \notin Handler!Ending]
<1>1. /\ UNCHANGED <<plan, sub, fwd, dedup, aged, raw, group, market, missed, spoilt>>
      /\ t.open /\ task' = [task EXCEPT ![c].sock = @ \o q, ![c].open = k \notin Handler!Ending]
  BY DEF Arb!SendControl, Arb!CanSend, Arb!groupVars, Arb!Frames, Handler!Frames, Arb!Control, Handler!Control,
         Arb!Ending, Handler!Ending
<1>2. task = [d \in Conn |-> task[d]] /\ TaskSound(t) /\ market \in Nat /\ spoilt \subseteq missed
  BY <1>1 DEF ArbTypes
<1>3. task' = [task EXCEPT ![c] = n] /\ task'[c] = n
  BY <1>1, <1>2
<1>4. /\ t \in Task /\ t.sock \in Seq(Frame) /\ t.sent \in Nat /\ InOrder(sub, spoilt, t.sock, t.sent)
      /\ ConnSound(t) /\ t.pc \notin {"none", "connect", "done"}
  BY <1>1, <1>2 DEF TaskSound, Task
<1>5. q \in Seq(Frame) /\ \A i \in 1 .. Len(q) : q[i].kind # "data"
  <2>1. k # "data" /\ k \in Kinds /\ "eof" \in Kinds /\ k # "data"
    BY DEF Kinds, Handler!ControlFrames
  <2>2. \A x \in Kinds : Handler!Control(x) \in Frame /\ Handler!Control(x).kind = x
    BY DEF Handler!Control, Frame, Handler!Defect
  <2>3. q = <<Handler!Control("close"), Handler!Control("eof")>> \/ q = <<Handler!Control(k)>>
    BY DEF Handler!Frames
  <2>4. CASE k = "close" /\ q = <<Handler!Control("close"), Handler!Control("eof")>>
    <3> HIDE DEF q
    <3>1. q \in Seq(Frame) /\ Len(q) = 2 /\ q[1].kind = "close" /\ q[2].kind = "eof"
      BY <2>1, <2>2, <2>4
    <3>2. \A i \in 1 .. 2 : i = 1 \/ i = 2
      OBVIOUS
    <3> QED
      BY <3>1, <3>2
  <2>5. CASE q = <<Handler!Control(k)>>
    BY <2>1, <2>2, <2>5
  <2> QED
    BY <2>3, <2>4, <2>5 DEF Handler!Frames
<1> HIDE DEF q
<1>6. /\ t.sock \o q \in Seq(Frame) /\ InOrder(sub, spoilt, t.sock \o q, t.sent)
      /\ Carried(t.sock \o q) = Carried(t.sock)
  <2> DEFINE p == t.sock
             s == t.sent
  <2>1. p \in Seq(Frame) /\ InOrder(sub, spoilt, p, s)
    BY <1>4
  <2> HIDE DEF p, s
  <2>2. /\ p \o q \in Seq(Frame) /\ InOrder(sub, spoilt, p \o q, s) /\ Carried(p \o q) = Carried(p)
    BY <1>5, <2>1, InOrderConcat
  <2> QED
    BY <2>2 DEF p, s
<1>7. n \in Task /\ n.sock = t.sock \o q /\ n.sent = t.sent /\ n.pc = t.pc /\ n.conn = t.conn
  BY <1>4, <1>6 DEF Task
<1> HIDE DEF n
<1>8. TaskSound(task[c])'
  <2>1. ConnSound(task[c])'
    BY <1>1, <1>3, <1>4, <1>7 DEF ConnSound
  <2>2. InOrder(sub, spoilt, task[c].sock, task[c].sent)'
    BY <1>1, <1>3, <1>6, <1>7 DEF InOrder, FrameSound
  <2> QED
    BY <1>1, <1>2, <1>3, <1>4, <1>7, <2>1, <2>2, SameSets DEF TaskSound
<1>9. Receiving' => TaskClosed(task[c])'
  <2>1. Receiving' => Receiving
    BY <1>1 DEF Receiving, Arb!Receiving
  <2>2. TaskClosed(t) => TaskClosed(task[c])'
    BY <1>1, <1>3, <1>6, <1>7 DEF TaskClosed, Delivers, Passed, Queued
  <2> QED
    BY <2>1, <2>2
<1>10. market' \in Nat /\ market <= market' /\ spoilt \subseteq spoilt' /\ missed \subseteq missed' /\ spoilt' \subseteq missed'
  BY <1>1, <1>2
<1> HIDE DEF ArbInv
<1> QED
  BY <1>1, <1>3, <1>8, <1>9, <1>10, OneTaskStep

LEMMA ArbExchangeStep == ASSUME ArbInv, plan.arb, plan' = plan, Arb!Exchange PROVE ArbInv'
<1>1. CASE Arb!Happen \/ Arb!Wait
  BY <1>1, ArbHappenStep, WaitStep
<1>2. ASSUME NEW c \in Arb!Conn, NEW es, NEW bad \in Arb!Defects(sub), es \in Arb!Batches(Arb!v, task[c].sent),
             Arb!SendFrame(c, es, bad)
      PROVE  ArbInv'
  <2>0. bad \in Handler!Defect
    BY <1>2, DefectsKnown DEF Arb!Defects, Handler!Defects, ArbInv, ArbTypes
  <2>1. es \in Handler!Batches(sub.venue, task[c].sent)
    BY <1>2 DEF Arb!Batches, Handler!Batches, Arb!v
  <2> QED
    BY <1>2, <2>0, <2>1, ArbSendFrameStep DEF Conn
<1>3. ASSUME NEW c \in Arb!Conn, NEW k \in Arb!ControlFrames(Arb!v), Arb!SendControl(c, k) PROVE ArbInv'
  <2>1. k \in Handler!ControlFrames(sub.venue)
    BY <1>3 DEF Arb!ControlFrames, Handler!ControlFrames, Arb!v
  <2> QED
    BY <1>3, <2>1, ArbSendControlStep DEF Conn
<1> QED
  BY <1>1, <1>2, <1>3 DEF Arb!Exchange

(***************************************************************************)
(* The tasks.                                                              *)
(***************************************************************************)
\* A task that has ended, and one that starts.
LEMMA EndedTask ==
  ASSUME sub' = sub, NEW c, NEW x \in Task, x.sent <= market', task'[c] = Arb!Done(x),
         sub.venue = "binance" /\ x.conn.sync = "Synchronizing" =>
           x.conn.buffer = << >> /\ \A e \in Nat \ {0} : 2 * e <= x.conn.last => e \in missed'
  PROVE  TaskSound(task[c])' /\ TaskClosed(task[c])'
<1> DEFINE n == Arb!Done(x)
<1>1. /\ n \in Task /\ n.pc = "done" /\ n.sock = << >> /\ n.open = FALSE /\ n.sent = x.sent /\ n.conn = x.conn
      /\ Len(n.sock) = 0
  <2>1. n = [x EXCEPT !.pc = "done", !.sock = << >>, !.open = FALSE]
    BY DEF Arb!Done
  <2>2. << >> \in Seq(Frame) /\ Len(<< >>) = 0
    BY EmptySeq
  <2> HIDE DEF n
  <2>3. n \in Task
    BY <2>1, <2>2 DEF Task
  <2>4. n.pc = "done" /\ n.sock = << >> /\ n.open = FALSE /\ n.sent = x.sent /\ n.conn = x.conn
    BY <2>1 DEF Task
  <2> QED
    BY <2>2, <2>3, <2>4
<1>2. task'[c] = n
  OBVIOUS
<1> HIDE DEF n
<1>3. ConnSound(task[c])'
  BY <1>1, <1>2 DEF ConnSound
<1>4. InOrder(sub, spoilt, task[c].sock, task[c].sent)'
  BY <1>1, <1>2 DEF InOrder
<1> QED
  BY <1>1, <1>2, <1>3, <1>4, SameSets DEF TaskSound, TaskClosed, Delivers

LEMMA FreshConn ==
  ASSUME sub \in Handler!Subscription
  PROVE  /\ Arb!create_connector(sub.venue) = Handler!create_connector(sub.venue)
         /\ Arb!create_connector(sub.venue) \in Connector
         /\ sub.venue = "binance" => Arb!create_connector(sub.venue) = Arb!Binance!New
         /\ sub.venue = "okx" => Arb!create_connector(sub.venue) = Arb!Okx!New
         /\ sub.venue = "deribit" => Arb!create_connector(sub.venue) = Arb!Deribit!New
<1>1. sub.venue \in {"binance", "okx", "deribit"}
  BY DEF Handler!Subscription, Handler!Venue
<1>2. CASE sub.venue = "binance"
  BY <1>2 DEF Arb!create_connector, Handler!create_connector, Arb!Binance!New, Handler!Binance!New, Connector,
              BinanceRec, Handler!Binance!SyncState
<1>3. CASE sub.venue = "okx"
  BY <1>3 DEF Arb!create_connector, Handler!create_connector, Arb!Okx!New, Handler!Okx!New, Connector, OkxRec
<1>4. CASE sub.venue = "deribit"
  BY <1>4 DEF Arb!create_connector, Handler!create_connector, Arb!Deribit!New, Handler!Deribit!New, Connector,
              DeribitRec
<1> QED
  BY <1>1, <1>2, <1>3, <1>4

LEMMA StartedTask ==
  ASSUME sub' = sub, sub \in Handler!Subscription, market' \in Nat, NEW c, NEW p \in {"none", "connect"},
         task'[c] = [pc |-> p, conn |-> Arb!create_connector(sub.venue), sock |-> << >>, open |-> FALSE, sent |-> 0]
  PROVE  TaskSound(task[c])' /\ TaskClosed(task[c])'
<1> DEFINE n == [pc |-> p, conn |-> Arb!create_connector(sub.venue), sock |-> << >>, open |-> FALSE, sent |-> 0]
<1>1. /\ n \in Task /\ n.pc = p /\ n.sock = << >> /\ n.open = FALSE /\ n.sent = 0
      /\ n.conn = Arb!create_connector(sub.venue) /\ Len(n.sock) = 0
  BY FreshConn DEF Task
<1>2. task'[c] = n
  OBVIOUS
<1> HIDE DEF n
<1>3. sub.venue = "binance" => n.conn.sync # "Synchronizing"
  BY <1>1, FreshConn DEF Arb!Binance!New
<1>4. ConnSound(task[c])'
  <2>1. n.conn = Handler!create_connector(sub'.venue)
    BY <1>1, FreshConn
  <2> QED
    BY <1>1, <1>2, <1>3, <2>1 DEF ConnSound
<1>5. InOrder(sub, spoilt, task[c].sock, task[c].sent)'
  BY <1>1, <1>2 DEF InOrder
<1> QED
  BY <1>1, <1>2, <1>4, <1>5, SameSets DEF TaskSound, TaskClosed, Delivers

\* A connection is opened and subscribed to; what happened before, it misses.
LEMMA TaskSubscribeStep ==
  ASSUME ArbInv, plan.arb, plan' = plan, NEW c \in Conn, Arb!TaskSubscribe(c) PROVE ArbInv'
<1> USE DEF ArbInv
<1> DEFINE t == task[c]
           s == Arb!Subscribed(t.conn)
           n == [t EXCEPT !.pc = Arb!AfterSubscribe, !.conn = s, !.open = TRUE, !.sent = market]
<1>1. /\ UNCHANGED <<plan, sub, fwd, dedup, aged, raw, group, market, spoilt>>
      /\ missed' = missed \cup 1 .. market /\ t.pc = "connect"
      /\ task' = [task EXCEPT ![c].pc = Arb!AfterSubscribe, ![c].conn = Arb!Subscribed(@),
                              ![c].open = TRUE, ![c].sent = market]
  BY DEF Arb!TaskSubscribe, Arb!taskOnly, Arb!groupVars
<1>2. /\ task = [d \in Conn |-> task[d]] /\ TaskSound(t) /\ market \in Nat /\ spoilt \subseteq missed
      /\ sub \in Handler!Subscription
  BY <1>1 DEF ArbTypes
<1>3. /\ t \in Task /\ t.sock = << >> /\ t.sent = 0 /\ t.conn = Arb!create_connector(sub.venue) /\ t.sent <= market
  BY <1>1, <1>2, FreshConn DEF TaskSound, ConnSound, Task
<1>4. market' \in Nat /\ market <= market' /\ spoilt \subseteq spoilt' /\ missed \subseteq missed' /\ spoilt' \subseteq missed'
  BY <1>1, <1>2
<1>5. task' = [task EXCEPT ![c] = n] /\ task'[c] = n
  BY <1>1, <1>2
<1>6. sub.venue \in {"binance", "okx", "deribit"} /\ sub.stream \in {"L2", "Trade"}
  BY <1>2 DEF Handler!Subscription, Handler!Venue
<1>7. Arb!AfterSubscribe = IF sub.venue = "binance" /\ sub.stream = "L2" THEN "snapshot" ELSE "read"
  BY DEF Arb!AfterSubscribe, Arb!v
<1>8. /\ s \in Connector
      /\ sub.venue = "binance" /\ sub.stream = "L2" => s.sync = "BufferingUpdates" /\ s.buffer = << >>
      /\ sub.venue = "binance" /\ sub.stream = "Trade" => s.sync = "TradeStream"
      /\ sub.venue = "deribit" => s.active
  <2>1. CASE sub.venue = "binance" /\ sub.stream = "L2"
    <3>1. s = Arb!Binance!SubscribeL2(Arb!Binance!Connect(Arb!Binance!New))
      BY <1>2, <1>3, <2>1, FreshConn DEF Arb!Subscribed, Arb!v
    <3>2. s = [status |-> "Connected", sync |-> "BufferingUpdates", last |-> 0, buffer |-> << >>]
      BY <3>1 DEF Arb!Binance!SubscribeL2, Arb!Binance!Connect, Arb!Binance!New
    <3> HIDE DEF s
    <3> QED
      BY <2>1, <3>2 DEF Connector, BinanceRec, Handler!Binance!SyncState
  <2>2. CASE sub.venue = "binance" /\ sub.stream = "Trade"
    <3>1. s = Arb!Binance!SubscribeTrades(Arb!Binance!Connect(Arb!Binance!New))
      BY <1>2, <1>3, <2>2, FreshConn DEF Arb!Subscribed, Arb!v
    <3>2. s = [status |-> "Connected", sync |-> "TradeStream", last |-> 0, buffer |-> << >>]
      BY <3>1 DEF Arb!Binance!SubscribeTrades, Arb!Binance!Connect, Arb!Binance!New
    <3> HIDE DEF s
    <3> QED
      BY <2>2, <3>2 DEF Connector, BinanceRec, Handler!Binance!SyncState
  <2>3. CASE sub.venue = "okx"
    <3>1. s = Arb!Okx!Subscribe(Arb!Okx!Connect(Arb!Okx!New))
      BY <1>2, <1>3, <2>3, FreshConn DEF Arb!Subscribed, Arb!v
    <3>2. s = [status |-> "Subscribed"]
      BY <3>1 DEF Arb!Okx!Subscribe, Arb!Okx!Connect, Arb!Okx!New
    <3> HIDE DEF s
    <3> QED
      BY <2>3, <3>2 DEF Connector, OkxRec
  <2>4. CASE sub.venue = "deribit"
    <3>1. s = Arb!Deribit!Subscribed(Arb!Deribit!Connect(Arb!Deribit!New))
      BY <1>2, <1>3, <2>4, FreshConn DEF Arb!Subscribed, Arb!v
    <3>2. s = [status |-> "Connected", active |-> TRUE, next_id |-> 1, pending |-> {}, waiting |-> 0]
      BY <3>1 DEF Arb!Deribit!Subscribed, Arb!Deribit!Connect, Arb!Deribit!New
    <3> HIDE DEF s
    <3> QED
      BY <2>4, <3>2 DEF Connector, DeribitRec
  <2> QED
    BY <1>6, <2>1, <2>2, <2>3, <2>4
<1> HIDE DEF s
<1>9. n.pc = Arb!AfterSubscribe /\ n.conn = s /\ n.open = TRUE /\ n.sent = market /\ n.sock = << >>
  BY <1>3 DEF Task
<1>10. n \in Task
  BY <1>2, <1>3, <1>7, <1>8 DEF Task
<1> HIDE DEF n
<1>11. ConnSound(task[c])'
  BY <1>1, <1>5, <1>6, <1>7, <1>8, <1>9 DEF ConnSound
<1>12. InOrder(sub, spoilt, task[c].sock, task[c].sent)'
  <2>1. Len(n.sock) = 0
    BY <1>9
  <2> QED
    BY <1>5, <2>1 DEF InOrder
<1>13. TaskSound(task[c])'
  BY <1>1, <1>2, <1>5, <1>7, <1>9, <1>10, <1>11, <1>12, SameSets DEF TaskSound
<1>14. TaskClosed(task[c])'
  BY <1>1, <1>5, <1>9 DEF TaskClosed, Passed
<1> HIDE DEF ArbInv
<1> QED
  BY <1>1, <1>4, <1>5, <1>13, <1>14, OneTaskStep

\* The snapshot of a connection comes: it has buffered nothing, and replays
\* nothing.
LEMMA TaskSnapshotStep ==
  ASSUME ArbInv, plan.arb, plan' = plan, NEW c \in Conn, NEW x \in 0 .. market, Arb!TaskSnapshot(c, 2 * x)
  PROVE  ArbInv' /\ raw' = raw
<1> USE DEF ArbInv
<1> DEFINE t == task[c]
           r == Arb!take_l2_replay_messages(Arb!v, Arb!prepare_l2_sync(Arb!v, t.conn, 2 * x))
           s == [t.conn EXCEPT !.sync = "Synchronizing", !.last = 2 * x]
           n == [t EXCEPT !.pc = "read", !.conn = s]
<1>1. /\ UNCHANGED <<plan, sub, fwd, dedup, aged, group, market, spoilt>>
      /\ missed' = missed \cup {e \in 1 .. market : 2 * e <= 2 * x} /\ t.pc = "snapshot"
      /\ raw' = raw \o [i \in 1 .. Len(r.msgs) |-> [from |-> c, frame |-> Arb!Data(<<r.msgs[i]>>, "none")]]
      /\ task' = [task EXCEPT ![c].pc = "read", ![c].conn = r.conn]
  BY DEF Arb!TaskSnapshot, Arb!taskOnly, Arb!groupVars, Arb!FinalId
<1>2. /\ task = [d \in Conn |-> task[d]] /\ TaskSound(t) /\ market \in Nat /\ spoilt \subseteq missed
      /\ sub \in Handler!Subscription /\ raw \in Seq(Message)
  BY <1>1 DEF ArbTypes
<1>3. /\ sub.venue = "binance" /\ sub.stream = "L2" /\ t.conn.buffer = << >> /\ t \in Task /\ t.conn \in BinanceRec
      /\ InOrder(sub, spoilt, t.sock, t.sent) /\ t.sent <= market /\ t.sent \in Nat
  BY <1>1, <1>2 DEF TaskSound, ConnSound, Task, Connector
<1>4. s \in BinanceRec /\ s.sync = "Synchronizing" /\ s.last = 2 * x /\ s.buffer = << >>
  <2>1. 2 * x \in Nat
    BY <1>2
  <2> QED
    BY <1>3, <2>1 DEF BinanceRec, Handler!Binance!SyncState
<1>5. r.msgs = << >> /\ r.conn = s
  <2>1. r = Arb!Binance!TakeReplay(s)
    BY <1>3 DEF Arb!take_l2_replay_messages, Arb!prepare_l2_sync, Arb!v, Arb!Binance!PrepareL2Sync
  <2> HIDE DEF s, r
  <2>2. Arb!Binance!NothingNewer(s)
    BY <1>4 DEF Arb!Binance!NothingNewer
  <2>3. [s EXCEPT !.buffer = << >>] = s
    BY <1>4 DEF BinanceRec
  <2>4. Arb!Binance!ProcessBuffered(s) = [conn |-> s, valid |-> << >>, gap |-> FALSE]
    BY <2>2, <2>3 DEF Arb!Binance!ProcessBuffered
  <2>5. r = [conn |-> s, msgs |-> << >>]
    BY <1>4, <2>1, <2>3, <2>4 DEF Arb!Binance!TakeReplay
  <2> QED
    BY <2>5
<1> HIDE DEF r
<1>6. raw' = raw
  <2> DEFINE m == [i \in 1 .. Len(r.msgs) |-> [from |-> c, frame |-> Arb!Data(<<r.msgs[i]>>, "none")]]
  <2>1. Len(r.msgs) = 0 /\ 1 .. 0 = {}
    BY <1>5
  <2>2. m = << >>
    BY <2>1
  <2> HIDE DEF m
  <2>3. raw \o << >> = raw
    BY <1>2, ConcatEmptySeq
  <2> QED
    BY <1>1, <2>2, <2>3 DEF m
<1>7. task' = [task EXCEPT ![c] = n] /\ task'[c] = n
  BY <1>1, <1>2, <1>5
<1> HIDE DEF s
<1>8. /\ n.pc = "read" /\ n.conn = s /\ n.sock = t.sock /\ n.sent = t.sent /\ n.open = t.open
  BY <1>3 DEF Task
<1>9. n \in Task
  BY <1>3, <1>4 DEF Task, Connector
<1> HIDE DEF n
<1>10. \A e \in Nat \ {0} : 2 * e <= 2 * x => e \in missed'
  <2> SUFFICES ASSUME NEW e \in Nat \ {0}, 2 * e <= 2 * x PROVE e \in 1 .. market
    BY <1>1
  <2> QED
    BY <1>2
<1>11. ConnSound(task[c])'
  BY <1>1, <1>3, <1>4, <1>7, <1>8, <1>10 DEF ConnSound
<1>12. TaskSound(task[c])'
  <2>1. InOrder(sub, spoilt, task[c].sock, task[c].sent)'
    BY <1>1, <1>3, <1>7, <1>8, ZenonT(30) DEF InOrder, FrameSound
  <2> QED
    BY <1>1, <1>3, <1>7, <1>8, <1>9, <1>11, <2>1, SameSets DEF TaskSound
<1>13. Receiving' => TaskClosed(task[c])'
  <2>1. Receiving' => Receiving
    BY <1>1 DEF Receiving, Arb!Receiving
  <2>2. Delivers(t)
    BY <1>1 DEF Delivers
  <2>3. TaskClosed(t) => TaskClosed(task[c])'
    BY <1>1, <1>6, <1>7, <1>8, <2>2 DEF TaskClosed, Passed, Queued
  <2> QED
    BY <2>1, <2>3
<1>14. market' \in Nat /\ market <= market' /\ spoilt \subseteq spoilt' /\ missed \subseteq missed' /\ spoilt' \subseteq missed'
  BY <1>1, <1>2
<1> HIDE DEF ArbInv
<1> QED
  BY <1>1, <1>6, <1>7, <1>12, <1>13, <1>14, OneTaskStep

\* A snapshot fails, or the token ends a task.
LEMMA TaskLeavesStep ==
  ASSUME ArbInv, plan.arb, plan' = plan, NEW c \in Conn,
         Arb!TaskConnectFails(c) \/ Arb!TaskSnapshotFails(c) \/ Arb!TaskCancelled(c)
  PROVE  ArbInv'
<1> USE DEF ArbInv
<1> DEFINE t == task[c]
           n == [t EXCEPT !.pc = "read"]
<1>1. /\ UNCHANGED <<plan, sub, fwd, dedup, aged, group, market, spoilt, missed, raw>>
      /\ \/ t.pc = "snapshot" /\ task' = [task EXCEPT ![c].pc = "read"]
         \/ task' = [task EXCEPT ![c] = Arb!Done(t)]
  BY DEF Arb!TaskConnectFails, Arb!TaskSnapshotFails, Arb!TaskCancelled, Arb!taskOnly, Arb!groupVars
<1>2. /\ task = [d \in Conn |-> task[d]] /\ TaskSound(t) /\ market \in Nat /\ spoilt \subseteq missed
      /\ t \in Task /\ ConnSound(t) /\ t.sent <= market /\ InOrder(sub, spoilt, t.sock, t.sent)
  BY <1>1 DEF ArbTypes, TaskSound
<1>3. market' \in Nat /\ market <= market' /\ spoilt \subseteq spoilt' /\ missed \subseteq missed' /\ spoilt' \subseteq missed'
  BY <1>1, <1>2
<1>4. CASE task' = [task EXCEPT ![c] = Arb!Done(t)]
  <2>1. task'[c] = Arb!Done(t) /\ t.sent <= market'
    BY <1>1, <1>2, <1>4
  <2>2. TaskSound(task[c])' /\ TaskClosed(task[c])'
    BY <1>1, <1>2, <2>1, EndedTask DEF ConnSound
  <2> HIDE DEF ArbInv
  <2> QED
    BY <1>1, <1>3, <1>4, <2>2, OneTaskStep
<1>5. CASE t.pc = "snapshot" /\ task' = [task EXCEPT ![c].pc = "read"]
  <2>1. task' = [task EXCEPT ![c] = n] /\ task'[c] = n
    BY <1>2, <1>5
  <2>2. n \in Task /\ n.pc = "read" /\ n.conn = t.conn /\ n.sock = t.sock /\ n.sent = t.sent
    BY <1>2 DEF Task
  <2> HIDE DEF n
  <2>3. ConnSound(task[c])'
    BY <1>1, <1>2, <1>5, <2>1, <2>2 DEF ConnSound
  <2>4. InOrder(sub, spoilt, task[c].sock, task[c].sent)'
    BY <1>1, <1>2, <2>1, <2>2 DEF InOrder, FrameSound
  <2>5. TaskSound(task[c])'
    BY <1>1, <1>2, <2>1, <2>2, <2>3, <2>4, SameSets DEF TaskSound
  <2>6. TaskClosed(task[c])'
    <3>1. sub.venue = "binance" /\ t.conn.sync = "BufferingUpdates"
      BY <1>2, <1>5 DEF ConnSound
    <3> QED
      BY <1>1, <2>1, <2>2, <3>1 DEF TaskClosed, Delivers
  <2> HIDE DEF ArbInv
  <2> QED
    BY <1>1, <1>3, <2>1, <2>5, <2>6, OneTaskStep
<1> QED
  BY <1>1, <1>4, <1>5

\* What next_message of a connector makes of a frame that a task reads.
NextOf(c, f, r) ==
  /\ r.conn \in Connector /\ r.ret \in {"message", "again", "none", "error"}
  /\ r.ret = "message" => f.kind \in ChannelKinds
  /\ r.ret = "again" => sub.venue = "binance"
  /\ sub.venue = "binance" =>
       /\ r.conn.sync = "Synchronizing" => r.conn.buffer = c.buffer /\ r.conn.last = c.last /\ c.sync = "Synchronizing"
       /\ r.ret \in {"message", "again"} =>
            /\ r.conn.sync \in (IF c.sync = "TradeStream" THEN {"TradeStream"}
                                ELSE {"BufferingUpdates", "Synchronizing", "Synchronized"})
            /\ r.conn.sync = "BufferingUpdates" <=> c.sync = "BufferingUpdates"
       /\ r.ret = "message" => c.sync # "BufferingUpdates" \/ (f.kind = "data" /\ f.bad = "text")
       /\ r.ret = "again" /\ f.kind = "data" =>
            c.sync = "BufferingUpdates" \/ (c.sync = "Synchronizing" /\ 2 * f.ev[1] <= c.last)
  /\ sub.venue = "deribit" /\ c.active => r.conn.active

LEMMA TrimmedKeeps ==
  ASSUME NEW b \in Seq(Nat) PROVE Arb!Binance!Trimmed(b) \in Seq(Nat)
<1>1. CASE Len(b) > MAX_BUFFERED_UPDATES
  <2> DEFINE m == Len(b) - MAX_BUFFERED_UPDATES + 1
  <2>1. m \in Nat /\ 1 <= m /\ Len(b) \in Nat
    BY <1>1, LenProperties, SizesAssumption
  <2>2. \A i \in m .. Len(b) : b[i] \in Nat
    <3> SUFFICES ASSUME NEW i \in m .. Len(b) PROVE b[i] \in Nat
      OBVIOUS
    <3>1. i \in 1 .. Len(b)
      BY <2>1
    <3> QED
      BY <3>1, ElementOfSeq
  <2>3. Arb!Binance!Trimmed(b) = SubSeq(b, m, Len(b))
    BY <1>1 DEF Arb!Binance!Trimmed
  <2> HIDE DEF m
  <2> QED
    BY <2>1, <2>2, <2>3, SubSeqProperties
<1>2. CASE ~ (Len(b) > MAX_BUFFERED_UPDATES)
  BY <1>2 DEF Arb!Binance!Trimmed
<1> QED
  BY <1>1, <1>2

LEMMA BinanceNext ==
  ASSUME sub \in Handler!Subscription, sub.venue = "binance", NEW c \in BinanceRec,
         c.sync \in {"BufferingUpdates", "Synchronizing", "Synchronized", "TradeStream"},
         NEW f \in Frame, f.kind = "data" => f.ev[1] \in Nat, NEW r, r = Arb!Binance!NextMessage(c, f)
  PROVE  NextOf(c, f, r)
<1>1. f.kind \in {"data", "ping", "close", "eof", "fault"}
  BY DEF Frame, Kinds, Handler!ControlFrames
<1>2. c.status \in {"Disconnected", "Connected", "Failed"} /\ c.last \in Nat /\ c.buffer \in Seq(Nat)
  BY DEF BinanceRec
<1>3. CASE f.kind = "data" /\ f.bad # "text" /\ c.sync = "BufferingUpdates"
  <2> DEFINE d == [c EXCEPT !.buffer = Arb!Binance!Trimmed(Append(@, f.ev[1]))]
  <2>1. r = Arb!Again(d)
    BY <1>3 DEF Arb!Binance!NextMessage, Arb!Binance!DepthUpdate, Arb!Binance!Again, Arb!Again
  <2>2. Append(c.buffer, f.ev[1]) \in Seq(Nat)
    BY <1>2, <1>3, AppendProperties
  <2>3. d \in BinanceRec /\ d.sync = c.sync
    BY <2>2, TrimmedKeeps DEF BinanceRec
  <2> HIDE DEF d
  <2>4. r.conn = d /\ r.ret = "again"
    BY <2>1 DEF Arb!Again
  <2> QED
    BY <1>3, <2>3, <2>4 DEF NextOf, Connector
<1>4. CASE f.kind = "data" /\ f.bad # "text" /\ c.sync \in {"Synchronizing", "Synchronized"}
  <2> DEFINE d == [c EXCEPT !.sync = "Synchronized", !.last = 2 * f.ev[1]]
  <2>1. \/ r = Arb!Again(c) /\ c.sync = "Synchronizing" /\ 2 * f.ev[1] <= c.last
        \/ r = Arb!Hand(d)
        \/ r = Arb!Error(c)
    BY <1>4 DEF Arb!Binance!NextMessage, Arb!Binance!DepthUpdate, Arb!Binance!Again, Arb!Again, Arb!Binance!Old,
                Arb!Binance!FinalId, Arb!Binance!Hand, Arb!Hand, Arb!Binance!Error, Arb!Error
  <2>2. d \in BinanceRec /\ d.sync = "Synchronized"
    <3>1. 2 * f.ev[1] \in Nat
      BY <1>4
    <3> QED
      BY <3>1 DEF BinanceRec, Handler!Binance!SyncState
  <2> HIDE DEF d
  <2>3. CASE r = Arb!Again(c) /\ c.sync = "Synchronizing" /\ 2 * f.ev[1] <= c.last
    BY <1>4, <2>3 DEF NextOf, Connector, Arb!Again
  <2>4. CASE r = Arb!Hand(d)
    BY <1>4, <2>2, <2>4 DEF NextOf, Connector, Arb!Hand, ChannelKinds
  <2>5. CASE r = Arb!Error(c)
    BY <1>4, <2>5 DEF NextOf, Connector, Arb!Error
  <2> QED
    BY <2>1, <2>3, <2>4, <2>5
<1>5. CASE f.kind = "data" /\ (f.bad = "text" \/ c.sync = "TradeStream")
  <2>1. r = Arb!Hand(c)
    BY <1>5 DEF Arb!Binance!NextMessage, Arb!Binance!Hand, Arb!Hand
  <2> QED
    BY <1>5, <2>1 DEF NextOf, Connector, Arb!Hand, ChannelKinds
<1>6. CASE f.kind = "ping"
  <2>1. r = Arb!Again(c)
    BY <1>6 DEF Arb!Binance!NextMessage, Arb!Binance!NotText, Arb!Binance!Again, Arb!Again
  <2> QED
    BY <1>6, <2>1 DEF NextOf, Connector, Arb!Again
<1>7. CASE f.kind \in {"close", "eof", "fault"}
  <2> DEFINE d == IF f.kind = "close" THEN [c EXCEPT !.status = "Disconnected", !.sync = "Disconnected"]
                  ELSE IF f.kind = "eof" THEN [c EXCEPT !.status = "Disconnected"]
                  ELSE [c EXCEPT !.status = "Failed"]
  <2>1. r = Arb!None_(d) \/ r = Arb!Error(d)
    BY <1>7 DEF Arb!Binance!NextMessage, Arb!Binance!None_, Arb!None_, Arb!Binance!Error, Arb!Error
  <2>2. /\ d \in BinanceRec /\ d.sync \in {c.sync, "Disconnected"} /\ d.buffer = c.buffer /\ d.last = c.last
    BY DEF BinanceRec, Handler!Binance!SyncState
  <2> HIDE DEF d
  <2>3. r.conn = d /\ r.ret \in {"none", "error"}
    BY <2>1 DEF Arb!None_, Arb!Error
  <2> QED
    BY <1>7, <2>2, <2>3 DEF NextOf, Connector
<1> QED
  BY <1>1, <1>3, <1>4, <1>5, <1>6, <1>7

LEMMA OkxNext ==
  ASSUME sub \in Handler!Subscription, sub.venue = "okx", NEW c \in OkxRec, NEW f \in Frame,
         NEW r, r = Arb!Okx!NextMessage(c, f)
  PROVE  NextOf(c, f, r)
<1>1. f.kind \in {"data", "ack", "error", "ping", "close", "eof", "fault"}
  BY DEF Frame, Kinds, Handler!ControlFrames
<1> DEFINE d == IF f.kind \in {"close", "eof"} THEN [c EXCEPT !.status = "Disconnected"]
                ELSE IF f.kind = "fault" THEN [c EXCEPT !.status = "Error"] ELSE c
<1>2. d \in OkxRec
  BY DEF OkxRec
<1>3. \/ r = Arb!None_(d) \/ r = Arb!Error(d)
      \/ r = Arb!Hand(d) /\ f.kind \in {"data", "ack", "error"}
  BY <1>1 DEF Arb!Okx!NextMessage, Arb!Okx!None_, Arb!None_, Arb!Okx!Error, Arb!Error, Arb!Okx!Hand, Arb!Hand
<1> HIDE DEF d
<1>4. r.conn = d /\ (r.ret \in {"none", "error"} \/ (r.ret = "message" /\ f.kind \in {"data", "ack", "error"}))
  BY <1>3 DEF Arb!None_, Arb!Error, Arb!Hand
<1> QED
  BY <1>2, <1>4 DEF NextOf, Connector, ChannelKinds

LEMMA DeribitNext ==
  ASSUME sub \in Handler!Subscription, sub.venue = "deribit", NEW c \in DeribitRec, NEW f \in Frame,
         NEW r, r = Arb!Deribit!NextMessage(c, f)
  PROVE  NextOf(c, f, r)
<1>1. f.kind \in {"data", "ack", "error", "heartbeat", "ping", "close", "eof", "fault"}
  BY DEF Frame, Kinds, Handler!ControlFrames
<1> DEFINE d == IF f.kind = "close" THEN [c EXCEPT !.status = "Disconnected"]
                ELSE IF f.kind \in {"ack", "error"} THEN [c EXCEPT !.pending = @ \ {f.ev[1]}] ELSE c
<1>2. d \in DeribitRec /\ (c.active => d.active)
  <2>1. CASE f.kind = "close"
    BY <2>1 DEF DeribitRec
  <2>2. CASE f.kind \in {"ack", "error"}
    <3>1. c.pending \ {f.ev[1]} \in SUBSET Nat
      BY DEF DeribitRec
    <3> QED
      BY <2>2, <3>1 DEF DeribitRec
  <2> QED
    BY <2>1, <2>2
<1>3. \/ r = Arb!None_(d) \/ r = Arb!Error(d)
      \/ r = Arb!Hand(d) /\ f.kind = "data"
  BY <1>1 DEF Arb!Deribit!NextMessage, Arb!Deribit!ProcessFrame, Arb!Deribit!None_, Arb!None_, Arb!Deribit!Error,
              Arb!Error, Arb!Deribit!Hand, Arb!Hand
<1> HIDE DEF d
<1>4. r.conn = d /\ (r.ret \in {"none", "error"} \/ (r.ret = "message" /\ f.kind = "data"))
  BY <1>3 DEF Arb!None_, Arb!Error, Arb!Hand
<1> QED
  BY <1>2, <1>4 DEF NextOf, Connector, ChannelKinds

\* A task reads one frame: it puts it in the channel, reads on, or ends.
LEMMA TaskReadStep ==
  ASSUME ArbInv, plan.arb, plan' = plan, NEW c \in Conn, Arb!TaskRead(c) PROVE ArbInv'
<1> USE DEF ArbInv
<1> DEFINE t == task[c]
           f == Head(t.sock)
           r == Arb!next_message(sub.venue, t.conn, f)
           on == [t EXCEPT !.conn = r.conn, !.sock = Tail(@)]
           handed == r.ret = "message" /\ Receiving
           goes == handed \/ r.ret = "again"
           x == [from |-> c, frame |-> f]
<1>1. /\ UNCHANGED <<plan, sub, fwd, dedup, aged, group, market, spoilt, missed>>
      /\ t.pc = "read" /\ t.sock # << >>
      /\ task' = [task EXCEPT ![c] = IF goes THEN on ELSE Arb!Done(on)]
      /\ raw' = IF handed THEN Append(raw, x) ELSE raw
  BY DEF Arb!TaskRead, Arb!ReadsSocket, Arb!taskOnly, Arb!groupVars, Arb!v, Receiving
<1>2. /\ task = [d \in Conn |-> task[d]] /\ TaskSound(t) /\ market \in Nat /\ spoilt \subseteq missed
      /\ t \in Task /\ ConnSound(t) /\ t.sent <= market /\ t.sent \in Nat /\ InOrder(sub, spoilt, t.sock, t.sent)
      /\ t.sock \in Seq(Frame) /\ t.conn \in Connector /\ sub \in Handler!Subscription /\ raw \in Seq(Message)
  BY <1>1 DEF ArbTypes, TaskSound, Task
<1>3. /\ f \in Frame /\ Tail(t.sock) \in Seq(Frame)
      /\ f.kind # "data" => Carried(t.sock) = Carried(Tail(t.sock))
      /\ f.kind = "data" => Carried(t.sock) = Covered(f.ev) \cup Carried(Tail(t.sock))
  BY <1>1, <1>2, CarriedTail
<1>4. /\ InOrder(sub, spoilt, Tail(t.sock), t.sent) /\ FrameSound(sub, spoilt, f)
      /\ f.kind = "data" => /\ Covered(f.ev) \subseteq 1 .. t.sent
                            /\ Below(Covered(f.ev), Carried(Tail(t.sock)))
  <2> DEFINE q == t.sock
             s == t.sent
  <2>1. q \in Seq(Frame) /\ q # << >> /\ InOrder(sub, spoilt, q, s)
    BY <1>1, <1>2
  <2> HIDE DEF q, s
  <2>2. /\ InOrder(sub, spoilt, Tail(q), s) /\ FrameSound(sub, spoilt, Head(q))
        /\ Head(q).kind = "data" => /\ Covered(Head(q).ev) \subseteq 1 .. s
                                    /\ Below(Covered(Head(q).ev), Carried(Tail(q)))
    BY <2>1, InOrderTail
  <2> QED
    BY <2>2 DEF q, s
<1>5. f.kind = "data" => f.ev[1] \in Nat /\ f.ev[1] \in Covered(f.ev) /\ f.ev[1] # 0
  <2> SUFFICES ASSUME f.kind = "data"
               PROVE  f.ev[1] \in Nat /\ f.ev[1] \in Covered(f.ev) /\ f.ev[1] # 0
    OBVIOUS
  <2>1. Batch(sub.venue, f.ev)
    BY <1>4 DEF FrameSound
  <2>2. f.ev[1] \in Nat /\ f.ev[1] \in Covered(f.ev)
    BY <2>1, BatchFacts
  <2> QED
    BY <1>4, <2>2
<1>6. NextOf(t.conn, f, r)
  <2>1. sub.venue \in {"binance", "okx", "deribit"}
    BY <1>2 DEF Handler!Subscription, Handler!Venue
  <2> HIDE DEF f
  <2>2. CASE sub.venue = "binance"
    <3>1. t.conn \in BinanceRec
      BY <1>2, <2>2 DEF Connector
    <3>2. t.conn.sync \in {"BufferingUpdates", "Synchronizing", "Synchronized", "TradeStream"}
      BY <1>1, <1>2, <2>2 DEF ConnSound
    <3>3. r = Arb!Binance!NextMessage(t.conn, f)
      BY <2>2 DEF Arb!next_message
    <3> HIDE DEF t, r
    <3> QED
      BY <1>2, <1>3, <1>5, <2>2, <3>1, <3>2, <3>3, BinanceNext
  <2>3. CASE sub.venue = "okx"
    <3>1. t.conn \in OkxRec /\ r = Arb!Okx!NextMessage(t.conn, f)
      BY <1>2, <2>3 DEF Connector, Arb!next_message
    <3> HIDE DEF t, r
    <3> QED
      BY <1>2, <1>3, <2>3, <3>1, OkxNext
  <2>4. CASE sub.venue = "deribit"
    <3>1. t.conn \in DeribitRec /\ r = Arb!Deribit!NextMessage(t.conn, f)
      BY <1>2, <2>4 DEF Connector, Arb!next_message
    <3> HIDE DEF t, r
    <3> QED
      BY <1>2, <1>3, <2>4, <3>1, DeribitNext
  <2> QED
    BY <2>1, <2>2, <2>3, <2>4
<1> HIDE DEF r
<1>7. /\ on \in Task /\ on.pc = "read" /\ on.conn = r.conn /\ on.sock = Tail(t.sock) /\ on.sent = t.sent
  <2>1. r.conn \in Connector
    BY <1>6 DEF NextOf
  <2> QED
    BY <1>1, <1>2, <1>3, <2>1 DEF Task
<1> HIDE DEF on
<1>8. task'[c] = IF goes THEN on ELSE Arb!Done(on)
  BY <1>1, <1>2
<1>9. market' \in Nat /\ market <= market' /\ spoilt \subseteq spoilt' /\ missed \subseteq missed' /\ spoilt' \subseteq missed'
  BY <1>1, <1>2
<1>10. sub.venue = "binance" /\ r.conn.sync = "Synchronizing" =>
         r.conn.buffer = << >> /\ \A e \in Nat \ {0} : 2 * e <= r.conn.last => e \in missed'
  BY <1>1, <1>2, <1>6 DEF NextOf, ConnSound
<1>11. goes => TaskSound(task[c])'
  <2> SUFFICES ASSUME goes PROVE TaskSound(task[c])'
    OBVIOUS
  <2>1. task'[c] = on
    BY <1>8
  <2>2. sub.venue = "binance" => r.conn.sync \in (IF sub.stream = "Trade" THEN {"TradeStream"}
                        ELSE {"BufferingUpdates", "Synchronizing", "Synchronized"})
    BY <1>1, <1>2, <1>6 DEF NextOf, ConnSound
  <2>3. sub.venue = "deribit" => r.conn.active
    BY <1>1, <1>2, <1>6 DEF NextOf, ConnSound
  <2>4. ConnSound(task[c])'
    BY <1>1, <1>7, <1>10, <2>1, <2>2, <2>3 DEF ConnSound
  <2>5. InOrder(sub, spoilt, task[c].sock, task[c].sent)'
    BY <1>1, <1>4, <1>7, <2>1, ZenonT(30) DEF InOrder, FrameSound
  <2> QED
    BY <1>1, <1>2, <1>7, <2>1, <2>4, <2>5, SameSets DEF TaskSound
<1>12. CASE handed
  <2>1. task'[c] = on /\ raw' = Append(raw, x) /\ Receiving /\ r.ret = "message"
    BY <1>1, <1>8, <1>12
  <2>2. x \in Message /\ x.frame = f
    BY <1>3 DEF Message
  <2> HIDE DEF x
  <2>3. /\ raw' \in Seq(Message) /\ Len(raw') = Len(raw) + 1 /\ Len(raw) \in Nat
        /\ \A k \in 1 .. Len(raw) : raw'[k] = raw[k]
        /\ raw'[Len(raw) + 1] = x
        /\ \A n \in 0 .. Len(raw) : Queued(raw, n) \subseteq Queued(raw', n)
        /\ Queued(raw, Len(raw)) \subseteq Queued(raw', Len(raw) + 1)
        /\ f.kind = "data" => \A e \in Covered(f.ev) : e \in Nat => e \in Queued(raw', Len(raw) + 1)
    BY <1>2, <2>1, <2>2, QueuedAppend
  <2>4. f.kind \in ChannelKinds
        /\ (sub.venue = "binance" => t.conn.sync # "BufferingUpdates" \/ (f.kind = "data" /\ f.bad = "text"))
    BY <1>6, <2>1 DEF NextOf
  <2>5. Delivers(t) \/ (f.kind = "data" /\ f.bad = "text")
    BY <1>1, <2>4 DEF Delivers
  <2>6. Delivers(t) => \A e \in 1 .. t.sent :
          \/ e \in Passed \/ e \in Queued(raw', Len(raw) + 1) \/ e \in Carried(Tail(t.sock))
    <3> SUFFICES ASSUME Delivers(t), NEW e \in 1 .. t.sent
                 PROVE  e \in Passed \/ e \in Queued(raw', Len(raw) + 1) \/ e \in Carried(Tail(t.sock))
      OBVIOUS
    <3>1. e \in Passed \cup Queued(raw, Len(raw)) \cup Carried(t.sock) /\ e \in Nat
      BY <2>1 DEF TaskClosed
    <3> QED
      BY <1>3, <2>3, <3>1
  <2>7. ChannelSound'
    <3> SUFFICES ASSUME NEW k \in 1 .. Len(raw')
                 PROVE  /\ raw'[k].frame.kind \in ChannelKinds /\ FrameSound(sub, spoilt, raw'[k].frame)
                        /\ raw'[k].frame.kind = "data" => 0 \notin Covered(raw'[k].frame.ev)
      BY <1>1 DEF ChannelSound, ChannelKinds, FrameSound
    <3>1. k \in 1 .. Len(raw) \/ k = Len(raw) + 1
      BY <2>3
    <3>2. f.kind = "data" => 0 \notin Covered(f.ev)
      BY <1>4
    <3> QED
      BY <1>4, <2>2, <2>3, <2>4, <3>1, <3>2 DEF ChannelSound
  <2>8. ChannelClosed'
    <3> SUFFICES ASSUME NEW k \in 1 .. Len(raw'), raw'[k].frame.kind = "data", raw'[k].frame.bad # "text",
                        NEW z \in Covered(raw'[k].frame.ev), NEW e \in 1 .. z
                 PROVE  e \in Passed \cup Queued(raw', k)
      BY <1>1 DEF ChannelClosed, Passed
    <3>1. CASE k \in 1 .. Len(raw)
      <4>1. e \in Passed \cup Queued(raw, k)
        BY <2>1, <2>3, <3>1 DEF ChannelClosed
      <4>2. k \in 0 .. Len(raw)
        BY <3>1
      <4> QED
        BY <2>3, <4>1, <4>2
    <3>2. CASE k = Len(raw) + 1
      <4>1. f.kind = "data" /\ f.bad # "text" /\ z \in Covered(f.ev)
        BY <2>2, <2>3, <3>2
      <4>2. z \in 1 .. t.sent
        BY <1>4, <4>1
      <4>3. e \in 1 .. t.sent
        BY <1>2, <4>2
      <4>4. e \notin Carried(Tail(t.sock))
        <5>1. e \in Carried(Tail(t.sock)) => z < e
          BY <1>4, <4>1 DEF Below
        <5> QED
          BY <4>2, <4>3, <5>1
      <4> QED
        BY <2>5, <2>6, <3>2, <4>1, <4>3, <4>4
    <3> QED
      BY <2>3, <3>1, <3>2
  <2>9. TaskClosed(task[c])'
    <3> SUFFICES ASSUME Delivers(task[c])' PROVE TaskClosed(task[c])'
      BY DEF TaskClosed
    <3>1. Delivers(t)
      BY <1>1, <1>6, <1>7, <2>1 DEF Delivers, NextOf
    <3>2. \A e \in 1 .. t.sent : e \in Passed' \/ e \in Queued(raw', Len(raw')) \/ e \in Carried(on.sock)
      BY <1>1, <1>7, <2>3, <2>6, <3>1 DEF Passed
    <3> QED
      BY <1>7, <2>1, <3>2 DEF TaskClosed
  <2>10. Conn' = Conn /\ (Receiving' => Receiving)
    BY <1>1 DEF Conn, Arb!Conn, Receiving, Arb!Receiving
  <2>11. task' = [task EXCEPT ![c] = on]
    BY <1>1, <1>12
  <2>12. (task = [d \in Conn |-> task[d]])' /\ \A d \in Conn : d # c => task'[d] = task[d]
    <3> HIDE DEF ArbInv
    <3>1. task' = [d \in Conn |-> IF d = c THEN on ELSE task[d]]
      BY <1>2, <2>11
    <3> QED
      BY <2>10, <3>1
  <2>13. \A d \in Conn : task'[d] = task[d] \/ (TaskSound(task[d])' /\ (Receiving' => TaskClosed(task[d])'))
    BY <1>11, <1>12, <2>9, <2>12
  <2>14. (raw \in Seq(Message))' /\ (plan.arb => spoilt \subseteq missed)'
         /\ (group \in {"ramp", "run", "failed", "cancelled", "aborted"})'
    BY <1>1, <1>9, <2>3, SameSets DEF ArbTypes
  <2>15. \A e \in Nat : e \in Queued(raw, Len(raw)) => e \in Queued(raw', Len(raw'))
    BY <2>3
  <2> HIDE DEF ArbInv
  <2> QED
    BY <1>1, <1>9, <2>7, <2>8, <2>10, <2>12, <2>13, <2>14, <2>15, QuietStep
<1>13. CASE ~ handed /\ goes
  <2>1. task'[c] = on /\ raw' = raw /\ r.ret = "again" /\ task' = [task EXCEPT ![c] = on]
    BY <1>1, <1>8, <1>13
  <2>2. Receiving' => TaskClosed(task[c])'
    <3> SUFFICES ASSUME Receiving', Delivers(task[c])', NEW e \in 1 .. t.sent
                 PROVE  e \in (Passed \cup Queued(raw, Len(raw)))' \cup Carried(Tail(t.sock))
      BY <1>7, <2>1 DEF TaskClosed
    <3>1. sub.venue = "binance" /\ r.conn.sync # "BufferingUpdates" /\ Receiving
      BY <1>1, <1>6, <1>7, <2>1 DEF Delivers, NextOf, Receiving, Arb!Receiving
    <3>2. t.conn.sync # "BufferingUpdates" /\ Delivers(t)
      BY <1>1, <1>6, <2>1, <3>1 DEF NextOf, Delivers
    <3>3. e \in Passed \cup Queued(raw, Len(raw)) \cup Carried(t.sock)
      BY <3>1, <3>2 DEF TaskClosed
    <3>4. ASSUME f.kind = "data", e \in Covered(f.ev) PROVE e \in missed
      <4>1. 2 * f.ev[1] <= t.conn.last /\ t.conn.sync = "Synchronizing"
        BY <1>6, <2>1, <3>1, <3>2, <3>4 DEF NextOf
      <4>2. f.ev[1] \in missed
        BY <1>2, <1>5, <3>1, <3>4, <4>1 DEF ConnSound
      <4>3. e = f.ev[1]
        <5>1. Batch("binance", f.ev)
          BY <1>4, <3>1, <3>4 DEF FrameSound
        <5>2. PICK i \in 1 .. Len(f.ev) : f.ev[i] = e
          BY <3>4, CoveredDef
        <5>3. Len(f.ev) = 1
          BY <5>1 DEF Batch
        <5> QED
          BY <5>2, <5>3
      <4> QED
        BY <4>2, <4>3
    <3> QED
      BY <1>1, <1>3, <2>1, <3>3, <3>4 DEF Passed, Queued
  <2> HIDE DEF ArbInv
  <2> QED
    BY <1>1, <1>9, <1>11, <1>13, <2>1, <2>2, OneTaskStep
<1>14. CASE ~ goes
  <2>1. task'[c] = Arb!Done(on) /\ raw' = raw /\ task' = [task EXCEPT ![c] = Arb!Done(on)]
    BY <1>1, <1>8, <1>14
  <2>2. TaskSound(task[c])' /\ TaskClosed(task[c])'
    BY <1>1, <1>2, <1>7, <1>10, <2>1, EndedTask
  <2> HIDE DEF ArbInv
  <2> QED
    BY <1>1, <1>9, <2>1, <2>2, OneTaskStep
<1> QED
  BY <1>12, <1>13, <1>14

LEMMA ArbTasksStep == ASSUME ArbInv, plan.arb, plan' = plan, Arb!Tasks PROVE ArbInv'
<1>1. PICK c \in Conn : \/ Arb!TaskSubscribe(c) \/ Arb!TaskConnectFails(c) \/ Arb!TaskRead(c)
                        \/ Arb!TaskSnapshotFails(c) \/ Arb!TaskCancelled(c)
                        \/ \E e \in 0 .. market : Arb!TaskSnapshot(c, Arb!FinalId(e))
  BY DEF Arb!Tasks, Conn
<1>2. ASSUME NEW e \in 0 .. market, Arb!TaskSnapshot(c, Arb!FinalId(e)) PROVE ArbInv'
  <2>1. Arb!TaskSnapshot(c, 2 * e)
    BY <1>2 DEF Arb!FinalId
  <2> QED
    BY <2>1, TaskSnapshotStep
<1> QED
  BY <1>1, <1>2, TaskSubscribeStep, TaskLeavesStep, TaskReadStep

(***************************************************************************)
(* The group.                                                              *)
(***************************************************************************)
\* A task is started, at first or in the place of the one that won least.
LEMMA SpawnRotateStep ==
  ASSUME ArbInv, plan.arb, plan' = plan, Arb!Spawn \/ Arb!Rotate PROVE ArbInv'
<1>1. PICK c : /\ task' = [task EXCEPT ![c] = Arb!NewTask]
               /\ group' = group \/ (group = "ramp" /\ group' = "run")
               /\ UNCHANGED <<sub, fwd, dedup, aged, raw, market, spoilt, missed>>
  BY DEF Arb!Spawn, Arb!Rotate, Arb!Restarted, Arb!groupOnly
<1>2. /\ market \in Nat /\ spoilt \subseteq missed /\ sub \in Handler!Subscription
      /\ task = [d \in Conn |-> task[d]]
  BY DEF ArbInv, ArbTypes
<1>3. market' \in Nat /\ market <= market' /\ spoilt \subseteq spoilt' /\ missed \subseteq missed' /\ spoilt' \subseteq missed'
  BY <1>1, <1>2
<1>4. ASSUME c \in Conn PROVE TaskSound(task[c])' /\ TaskClosed(task[c])'
  <2>1. task'[c] = Arb!NewTask
    BY <1>1, <1>2, <1>4
  <2>2. Arb!NewTask = [pc |-> "connect", conn |-> Arb!create_connector(sub.venue), sock |-> << >>, open |-> FALSE,
                       sent |-> 0]
    BY DEF Arb!NewTask, Arb!v
  <2> QED
    BY <1>1, <1>2, <1>3, <2>1, <2>2, StartedTask
<1> QED
  BY <1>1, <1>3, <1>4, OneTaskStep

\* The token is cancelled: every task ends.
LEMMA GroupStopStep == ASSUME ArbInv, plan.arb, plan' = plan, Arb!Stop PROVE ArbInv'
<1> USE DEF ArbInv
<1>1. /\ UNCHANGED <<sub, fwd, dedup, aged, raw, market, spoilt, missed>>
      /\ group' = "cancelled" /\ task' = [c \in Conn |-> Arb!Done(task[c])]
  BY DEF Arb!Stop, Arb!groupOnly, Conn
<1>2. market \in Nat /\ spoilt \subseteq missed
  BY DEF ArbTypes
<1>3. market' \in Nat /\ market <= market' /\ spoilt \subseteq spoilt' /\ missed \subseteq missed' /\ (plan.arb => spoilt \subseteq missed)'
  BY <1>1, <1>2
<1>4. Conn' = Conn /\ ~ Receiving'
  BY <1>1 DEF Conn, Arb!Conn, Receiving, Arb!Receiving
<1>5. ASSUME NEW c \in Conn PROVE TaskSound(task[c])' /\ TaskClosed(task[c])'
  <2>1. task[c] \in Task /\ task[c].sent <= market /\ ConnSound(task[c])
    BY DEF TaskSound
  <2>2. task'[c] = Arb!Done(task[c]) /\ task[c].sent <= market'
    BY <1>1, <2>1
  <2> QED
    BY <1>1, <2>1, <2>2, EndedTask DEF ConnSound
<1>6. /\ (raw \in Seq(Message))' /\ ChannelSound'
      /\ \A e \in Nat : e \in Queued(raw, Len(raw)) => e \in Queued(raw', Len(raw'))
  BY <1>1, <1>3, <1>4, SameChannel
<1>7. (task = [d \in Conn |-> task[d]])'
  <2> HIDE DEF ArbInv
  <2> QED
    BY <1>1, <1>4
<1>8. (group \in {"ramp", "run", "failed", "cancelled", "aborted"})'
  BY <1>1
<1>9. UNCHANGED <<plan, sub, fwd, dedup, aged>>
  BY <1>1
<1> HIDE DEF ArbInv
<1> QED
  BY <1>3, <1>4, <1>5, <1>6, <1>7, <1>8, <1>9, QuietStep

\* The group takes a message: it fails, or all its events have been sent.
LEMMA Received ==
  ASSUME ArbInv, plan.arb, Arb!Receive
  PROVE  /\ UNCHANGED <<sub, market, spoilt, missed, aged, task>>
         /\ group = "run" /\ raw # << >> /\ raw' = Tail(raw)
         /\ \/ group' = "failed" /\ fwd' = fwd /\ dedup' = dedup
            \/ /\ group' = group /\ fwd' \in Seq(Nat) /\ aged <= Len(fwd')
               /\ Remembers(dedup', fwd', aged) /\ Repeats(fwd', aged)
               /\ Closed(fwd', missed) /\ LateMissed(fwd', missed)
               /\ Covered(fwd) \subseteq Covered(fwd')
               /\ Head(raw).frame.kind = "data" => Covered(Head(raw).frame.ev) \subseteq Covered(fwd') \cup spoilt
<1> USE DEF ArbInv
<1> DEFINE f == Head(raw).frame
           u == Arb!process_unified_message(sub, proc, f)
           s == Arb!Arbitrated(u.ev)
<1>1. /\ UNCHANGED <<sub, market, spoilt, missed, aged, task>>
      /\ group = "run" /\ raw # << >> /\ raw' = Tail(raw)
      /\ IF ~ u.ok \/ (dropped /\ s.fwd # fwd) THEN group' = "failed" /\ fwd' = fwd /\ dedup' = dedup
         ELSE dedup' = s.dedup /\ fwd' = s.fwd /\ group' = group
  BY DEF Arb!Receive, Arb!groupOnly
<1>2. /\ raw \in Seq(Message) /\ sub \in Handler!Subscription /\ spoilt \subseteq missed /\ fwd \in Seq(Nat)
      /\ aged \in 0 .. Len(fwd)
  BY DEF ArbTypes
<1>3. Head(raw) = raw[1] /\ Head(raw) \in Message /\ 1 \in 1 .. Len(raw)
  <2>1. Head(raw) = raw[1] /\ Head(raw) \in Message /\ Len(Tail(raw)) \in Nat /\ Len(Tail(raw)) + 1 = Len(raw)
    BY <1>1, <1>2, QueuedTail
  <2> QED
    BY <2>1
<1>4. /\ f \in Frame /\ f.kind \in ChannelKinds /\ FrameSound(sub, spoilt, f)
      /\ f.kind = "data" => 0 \notin Covered(f.ev)
  BY <1>3 DEF ChannelSound, Message
<1>5. Receiving /\ ChannelClosed
  BY <1>1 DEF Receiving, Arb!Receiving
<1> HIDE DEF f
<1>6. u.ok => /\ u.ev \in Seq(Nat) /\ Len(u.ev) \in 0 .. 2 /\ Increasing(u.ev)
              /\ f.kind # "data" => u.ev = << >>
              /\ f.kind = "data" => /\ f.bad # "text" /\ Covered(u.ev) \subseteq Covered(f.ev)
                                    /\ Covered(f.ev) \subseteq Covered(u.ev) \cup spoilt
  BY <1>2, <1>4, Processed
<1> HIDE DEF u
<1>7. CASE ~ u.ok \/ (dropped /\ s.fwd # fwd)
  BY <1>1, <1>7
<1>8. CASE ~ (~ u.ok \/ (dropped /\ s.fwd # fwd))
  <2>1. dedup' = s.dedup /\ fwd' = s.fwd /\ group' = group /\ u.ok
    BY <1>1, <1>8
  <2>2. u.ev \in Seq(Nat) /\ Len(u.ev) \in 0 .. 2 /\ Increasing(u.ev)
    BY <1>6, <2>1
  <2>3. Sane(Arb!Undecided, missed) /\ aged \in Nat
    <3>1. aged <= Len(fwd) /\ aged \in Nat
      BY <1>2
    <3> QED
      BY <1>2, <3>1 DEF Sane, Arb!Undecided
  <2>4. ASSUME NEW e \in Covered(u.ev)
        PROVE  e # 0 /\ \A x \in 1 .. e - 1 : x \in missed \cup Covered(fwd) \cup Covered(u.ev)
    <3>1. f.kind = "data" /\ f.bad # "text" /\ e \in Covered(f.ev)
      BY <1>6, <2>1, <2>4, CoveredEmpty
    <3>2. e # 0
      BY <1>4, <3>1
    <3>3. PICK i \in 1 .. Len(u.ev) : u.ev[i] = e
      BY <2>4, CoveredDef
    <3>4. e \in Nat
      BY <2>2, <3>3, ElementOfSeq
    <3>5. ASSUME NEW x \in 1 .. e - 1 PROVE x \in missed \cup Covered(fwd) \cup Covered(u.ev)
      <4>1. x \in 1 .. e
        BY <3>4
      <4>2. x \in Passed \cup Queued(raw, 1)
        BY <1>3, <1>5, <3>1, <4>1 DEF ChannelClosed, f
      <4>3. x \in Queued(raw, 1) => x \in Covered(f.ev)
        <5>1. \A k \in 1 .. 1 : k = 1
          OBVIOUS
        <5> QED
          BY <1>3, <5>1, QueuedDef DEF f
      <4> QED
        BY <1>2, <1>6, <2>1, <3>1, <4>2, <4>3 DEF Passed
    <3> QED
      BY <3>2, <3>5
  <2>5. Sane(s, missed) /\ Covered(s.fwd) = Covered(fwd) \cup Covered(u.ev)
    <3> DEFINE es == u.ev
    <3>1. /\ es \in Seq(Nat) /\ Len(es) \in 0 .. 2 /\ Increasing(es)
          /\ \A e \in Covered(es) : e # 0 /\ \A x \in 1 .. e - 1 : x \in missed \cup Covered(fwd) \cup Covered(es)
      BY <2>2, <2>4
    <3> HIDE DEF es
    <3>2. Sane(Arb!Arbitrated(es), missed) /\ Covered(Arb!Arbitrated(es).fwd) = Covered(fwd) \cup Covered(es)
      BY <2>3, <3>1, ArbitratedAll
    <3> QED
      BY <3>2 DEF es
  <2> HIDE DEF s
  <2>6. f.kind = "data" => Covered(f.ev) \subseteq Covered(s.fwd) \cup spoilt
    BY <1>6, <2>1, <2>5
  <2> QED
    BY <1>1, <2>1, <2>5, <2>6 DEF Sane, f
<1> QED
  BY <1>7, <1>8

LEMMA ReceiveStep == ASSUME ArbInv, plan.arb, plan' = plan, Arb!Receive PROVE ArbInv'
<1> USE DEF ArbInv
<1>1. /\ UNCHANGED <<sub, market, spoilt, missed, aged, task>>
      /\ group = "run" /\ raw # << >> /\ raw' = Tail(raw)
  BY Received
<1>2. /\ raw \in Seq(Message) /\ market \in Nat /\ market <= market /\ Conn' = Conn /\ fwd \in Seq(Nat)
      /\ aged \in 0 .. Len(fwd) /\ Receiving
  BY <1>1 DEF ArbTypes, Conn, Arb!Conn, Receiving, Arb!Receiving
<1>3. /\ Len(raw') \in Nat /\ Len(raw') + 1 = Len(raw) /\ raw' \in Seq(Message)
      /\ \A k \in 1 .. Len(raw') : raw'[k] = raw[k + 1]
      /\ \A n \in Nat, e \in Nat : n <= Len(raw') /\ e \in Queued(raw, n + 1) =>
           \/ Head(raw).frame.kind = "data" /\ e \in Covered(Head(raw).frame.ev)
           \/ e \in Queued(raw', n)
  BY <1>1, <1>2, QueuedTail
<1>4. \A k \in 1 .. Len(raw') : k + 1 \in 1 .. Len(raw)
  BY <1>3
<1>5. ChannelSound'
  BY <1>1, <1>3, <1>4 DEF ChannelSound, FrameSound, ChannelKinds
<1>6. ASSUME NEW c \in Conn PROVE TaskSound(task[c])'
  BY <1>1, <1>2, SoundKept
<1>7. /\ fwd' \in Seq(Nat) /\ aged' \in 0 .. Len(fwd') /\ group' \in {"failed", "run"}
      /\ Remembers(dedup, fwd, aged)' /\ Repeats(fwd, aged)' /\ Closed(fwd, missed)' /\ LateMissed(fwd, missed)'
  <2>1. CASE group' = "failed" /\ fwd' = fwd /\ dedup' = dedup
    BY <1>1, <1>2, <2>1 DEF Remembers, Repeats, Closed, LateMissed
  <2>2. CASE /\ group' = group /\ fwd' \in Seq(Nat) /\ aged <= Len(fwd')
             /\ Remembers(dedup', fwd', aged) /\ Repeats(fwd', aged)
             /\ Closed(fwd', missed) /\ LateMissed(fwd', missed)
    <3>1. aged' \in 0 .. Len(fwd')
      BY <1>1, <1>2, <2>2, LenProperties
    <3> QED
      BY <1>1, <2>2, <3>1 DEF Remembers, Repeats, Closed, LateMissed
  <2> QED
    BY <2>1, <2>2, Received
<1>8. ArbTypes'
  <2>1. (raw \in Seq(Message))'
    BY <1>1, <1>3, SameSets
  <2> QED
    BY <1>1, <1>2, <1>7, <2>1 DEF ArbTypes
<1>9. ASSUME Receiving' PROVE ChannelClosed' /\ \A c \in Conn : TaskClosed(task[c])'
  <2>1. /\ Covered(fwd) \subseteq Covered(fwd')
        /\ Head(raw).frame.kind = "data" => Covered(Head(raw).frame.ev) \subseteq Covered(fwd') \cup spoilt
    <3>1. group' # "failed"
      BY <1>9 DEF Receiving, Arb!Receiving
    <3> QED
      BY <3>1, Received
  <2>2. Passed \subseteq Passed' /\ (Head(raw).frame.kind = "data" => Covered(Head(raw).frame.ev) \subseteq Passed')
    BY <1>1, <2>1 DEF Passed, ArbTypes
  <2>3. ChannelClosed'
    <3> SUFFICES ASSUME NEW k \in 1 .. Len(raw'), raw'[k].frame.kind = "data", raw'[k].frame.bad # "text",
                        NEW z \in Covered(raw'[k].frame.ev), NEW e \in 1 .. z
                 PROVE  e \in Passed' \cup Queued(raw', k)
      BY DEF ChannelClosed
    <3>1. e \in Passed \cup Queued(raw, k + 1)
      BY <1>2, <1>3, <1>4 DEF ChannelClosed
    <3>2. k \in Nat /\ k <= Len(raw') /\ e \in Nat
      BY <1>3
    <3> QED
      BY <1>3, <2>2, <3>1, <3>2
  <2>4. \A e \in Nat : e \in Queued(raw, Len(raw)) => e \in Passed' \cup Queued(raw', Len(raw'))
    <3>1. Len(raw') <= Len(raw')
      BY <1>3
    <3> QED
      BY <1>3, <2>2, <3>1
  <2>5. ASSUME NEW c \in Conn PROVE TaskClosed(task[c])'
    BY <1>1, <1>2, <2>2, <2>4, ClosedKept
  <2> QED
    BY <2>3, <2>5
<1> QED
  BY <1>2, <1>5, <1>6, <1>7, <1>8, <1>9

(***************************************************************************)
(* The manager, and all steps together.                                    *)
(***************************************************************************)
LEMMA ArbNext == ASSUME ArbInv, [Next]_vars PROVE ArbInv'
<1>1. market \in Nat /\ market <= market /\ (plan.arb => spoilt \subseteq missed)
  BY DEF ArbInv, ArbTypes
<1>2. CASE RunArb
  <2>1. plan.arb /\ plan' = plan
    BY <1>2 DEF RunArb, ArbStop, ArbRotate, ByArb, managerVars
  <2>2. Arb!Exchange \/ Arb!Tasks \/ Arb!Spawn \/ Arb!Rotate \/ Arb!Receive \/ Arb!Stop
    BY <1>2 DEF RunArb, ArbStop, ArbRotate
  <2> QED
    BY <2>1, <2>2, ArbExchangeStep, ArbTasksStep, SpawnRotateStep, ReceiveStep, GroupStopStep
<1>3. CASE RunHandler
  <2>1. ~ plan.arb /\ UNCHANGED <<arbVars, managerVars>>
    BY <1>3 DEF RunHandler, HandlerLoop, ByHandler
  <2>2. UNCHANGED <<plan, fwd, dedup, aged, raw, task, group, missed>>
    BY <2>1 DEF arbVars, managerVars
  <2>3. Handler!Exchange \/ Handler!Fail \/ Handler!Task \/ Handler!Loop
    BY <1>3 DEF RunHandler, HandlerLoop
  <2>4. sub' = sub /\ (market' = market \/ market' = market + 1) /\ spoilt \subseteq spoilt'
    <3>1. CASE Handler!Exchange
      BY <3>1 DEF Handler!Exchange, Handler!Happen, Handler!SendFrame, Handler!SendControl, Handler!AnswerRpc,
                  Handler!taskVars
    <3>2. CASE Handler!Fail
      BY <3>2 DEF Handler!Fail, Handler!quietVars
    <3>3. CASE Handler!Task
      BY <3>3 DEF Handler!Task, Handler!ConnectStep, Handler!Validate, Handler!Subscribe, Handler!AwaitFrame,
                  Handler!AwaitTimeout, Handler!FetchSnapshot, Handler!quietVars, Handler!serverVars
    <3>4. CASE Handler!Loop
      BY <3>4 DEF Handler!Loop, Handler!ReadFrame, Handler!SendUpdate, Handler!Stop, Handler!serverVars
    <3> QED
      BY <2>3, <3>1, <3>2, <3>3, <3>4
  <2>5. market' \in Nat /\ market <= market'
    BY <1>1, <2>4
  <2> QED
    BY <2>1, <2>2, <2>4, <2>5, CalmStep
<1>4. CASE Spawn \/ Adapt \/ AdapterEnds \/ WaitForAny \/ UNCHANGED vars
  <2>1. UNCHANGED <<plan, sub, fwd, dedup, aged, raw, task, group, missed, market, spoilt>>
    BY <1>4 DEF Spawn, Adapt, AdapterEnds, WaitForAny, vars, arbVars, sharedVars, managerVars
  <2> QED
    BY <1>1, <2>1, CalmStep
<1>5. CASE ReceiverGone
  <2>1. UNCHANGED <<plan, fwd, dedup, aged, raw, task, group, missed>>
    BY <1>5 DEF ReceiverGone, arbVars
  <2>2. UNCHANGED <<sub, market, spoilt>>
    BY <1>5 DEF ReceiverGone, Arb!DropReceiver, Arb!groupVars, Handler!DropReceiver, Handler!taskVars
  <2> QED
    BY <1>1, <2>1, <2>2, CalmStep
<1>6. CASE Shutdown
  <2>1. UNCHANGED <<plan, sub, fwd, dedup, aged, raw, task, missed, market, spoilt>>
    BY <1>6 DEF Shutdown, notAborted, sharedVars
  <2>2. group' = group \/ (plan.arb /\ group' = "aborted")
    BY <1>6 DEF Shutdown, Aborted, Abort
  <2> QED
    BY <1>1, <2>1, <2>2, CalmStep
<1> QED
  BY <1>2, <1>3, <1>4, <1>5, <1>6 DEF Next

LEMMA ArbInit == ASSUME Init PROVE ArbInv
<1>1. /\ sub \in Handler!Subscription /\ group = "ramp"
      /\ task = [c \in Conn |-> [Arb!NoTask EXCEPT !.conn = Arb!create_connector(sub.venue)]]
      /\ raw = << >> /\ dedup = Arb!Dedup!New /\ fwd = << >> /\ aged = 0
      /\ market = 0 /\ spoilt = {} /\ missed = {}
  BY PlansAssumption DEF Init, Arb!Init, Conn
<1> DEFINE n == [pc |-> "none", conn |-> Arb!create_connector(sub.venue), sock |-> << >>, open |-> FALSE, sent |-> 0]
<1>2. task = [c \in Conn |-> n]
  <2> DEFINE a == Arb!create_connector(sub.venue)
             q == << >>
             none == [pc |-> "none", conn |-> a, sock |-> q, open |-> FALSE, sent |-> 0]
  <2>1. Arb!NewTask = [pc |-> "connect", conn |-> a, sock |-> q, open |-> FALSE, sent |-> 0]
    BY DEF Arb!NewTask, Arb!v
  <2>2. task = [c \in Conn |-> [Arb!NoTask EXCEPT !.conn = a]]
    BY <1>1
  <2> HIDE DEF a, q
  <2> DEFINE R == [pc : {"none", "connect"}, conn : {a}, sock : {q}, open : {FALSE}, sent : {0}]
             fresh == Arb!NewTask
  <2>3. none \in R /\ fresh \in R
    BY <2>1
  <2>4. none.pc = "none"
    OBVIOUS
  <2> HIDE DEF none, fresh
  <2>5. [fresh EXCEPT !.pc = "none"] = none
    BY <2>3, <2>4
  <2>6. [none EXCEPT !.conn = a] = none
    BY <2>3
  <2>7. [Arb!NoTask EXCEPT !.conn = a] = none
    BY <2>5, <2>6 DEF Arb!NoTask, fresh
  <2> QED
    BY <2>2, <2>7 DEF a, q, none, n
<1>3. /\ n \in Task /\ n.pc = "none" /\ n.sock = << >> /\ n.open = FALSE /\ n.sent = 0
      /\ n.conn = Arb!create_connector(sub.venue) /\ Len(n.sock) = 0
  BY <1>1, FreshConn DEF Task
<1> HIDE DEF n
<1>4. ASSUME NEW c \in Conn PROVE TaskSound(task[c]) /\ TaskClosed(task[c]) /\ task[c].pc = "none"
  <2>1. task[c] = n
    BY <1>2
  <2>2. sub.venue = "binance" => n.conn.sync # "Synchronizing"
    BY <1>1, <1>3, FreshConn DEF Arb!Binance!New
  <2>3. ConnSound(task[c])
    BY <1>1, <1>3, <2>1, <2>2, FreshConn DEF ConnSound
  <2>4. InOrder(sub, spoilt, task[c].sock, task[c].sent)
    BY <1>3, <2>1 DEF InOrder
  <2> QED
    BY <1>1, <1>3, <2>1, <2>3, <2>4 DEF TaskSound, TaskClosed, Delivers
<1>5. Len(fwd) = 0 /\ Len(raw) = 0 /\ raw \in Seq(Message) /\ fwd \in Seq(Nat) /\ aged \in 0 .. Len(fwd)
  BY <1>1
<1>6. task = [c \in Conn |-> task[c]]
  BY <1>2
<1>7. ArbTypes
  BY <1>1, <1>4, <1>5, <1>6 DEF ArbTypes
<1>8. ChannelSound /\ ChannelClosed
  BY <1>1, <1>5 DEF ChannelSound, ChannelClosed
<1>9. Remembers(dedup, fwd, aged)
  <2>1. dedup.order = << >> /\ dedup.set = {} /\ Len(dedup.order) = 0 /\ 0 <= Capacity
    BY <1>1, SizesAssumption DEF Arb!Dedup!New
  <2>2. Arb!Dedup!Keys(dedup.order) = {}
    BY <2>1, KeysDef
  <2>3. dedup.order \in Seq(Entry)
    BY <2>1
  <2> QED
    BY <1>5, <2>1, <2>2, <2>3 DEF Remembers, Entry
<1>10. Repeats(fwd, aged) /\ LateMissed(fwd, missed)
  BY <1>5 DEF Repeats, LateMissed
<1>11. Closed(fwd, missed)
  BY <1>1, CoveredEmpty DEF Closed
<1> QED
  BY <1>4, <1>7, <1>8, <1>9, <1>10, <1>11 DEF ArbInv

LEMMA ArbInvariant == Spec => []ArbInv
<1>1. Init => ArbInv
  BY ArbInit
<1>2. ArbInv /\ [Next]_vars => ArbInv'
  BY ArbNext
<1> QED
  BY <1>1, <1>2, PTL DEF Spec

(***************************************************************************)
(* The theorems.                                                           *)
(***************************************************************************)
\* Whatever is inserted, expires or is evicted, in any order, Deduper's set and
\* queue hold the same keys, once each and oldest first, within the capacity.
THEOREM DeduperStaysSound == Spec => []DeduperSound
<1>1. ASSUME ArbInv PROVE DeduperSound
  <2>1. Suffix(dedup, fwd) /\ Len(dedup.order) <= Capacity
    BY <1>1, RemembersDef DEF ArbInv
  <2>2. Cardinality(dedup.set) = Len(dedup.order)
    BY <2>1, KeysCounted DEF Suffix
  <2>3. Arb!Cardinality(dedup.set) = Cardinality(dedup.set)
    BY DEF Arb!Cardinality, Cardinality
  <2>4. ASSUME NEW i \in 1 .. Len(dedup.order) - 1 PROVE dedup.order[i].at < dedup.order[i + 1].at
    <3>1. /\ i \in 1 .. Len(dedup.order) /\ i + 1 \in 1 .. Len(dedup.order)
          /\ Len(fwd) - Len(dedup.order) \in Int
      BY <1>1, <2>1, LenProperties, SMTT(30) DEF Suffix, ArbInv, ArbTypes
    <3>2. /\ dedup.order[i].at = (Len(fwd) - Len(dedup.order)) + i
          /\ dedup.order[i + 1].at = (Len(fwd) - Len(dedup.order)) + (i + 1)
      BY <2>1, <3>1 DEF Suffix
    <3>3. \A g \in Int : g + i < g + (i + 1)
      OBVIOUS
    <3> QED
      BY <3>1, <3>2, <3>3
  <2> QED
    BY <2>1, <2>2, <2>3, <2>4 DEF DeduperSound, Arb!DeduperSound, Suffix
<1> QED
  BY <1>1, ArbInvariant, PTL

\* An event goes downstream a second time only when the deduper has forgotten
\* it, after as many other insertions as it holds or after the TTL, however
\* many connections deliver it and however often they are rotated.
THEOREM SentOnceWhileRemembered == Spec => []OnceWhileRemembered
<1>1. ArbInv => OnceWhileRemembered
  BY DEF ArbInv, Repeats, OnceWhileRemembered, Arb!OnceWhileRemembered
<1> QED
  BY <1>1, ArbInvariant, PTL

\* Merging does not reorder: what goes out after a later event has gone out
\* before, or is one that some connection was not given.
THEOREM LateIsMissed == Spec => []LateOnlyIfMissed
<1>1. ASSUME ArbInv PROVE LateOnlyIfMissed
  <2> SUFFICES ASSUME NEW j \in 1 .. Len(fwd), NEW i \in 1 .. j - 1, fwd[i] > fwd[j]
               PROVE  fwd[j] \in Arb!Before(j) \cup missed
    BY DEF LateOnlyIfMissed, Arb!LateOnlyIfMissed
  <2> QED
    BY <1>1 DEF ArbInv, LateMissed, Arb!Before
<1> QED
  BY <1>1, ArbInvariant, PTL

\* No task has buffered a diff when its snapshot comes, so that
\* take_l2_replay_messages, which drops what it should replay, drops nothing.
THEOREM NothingIsReplayed == Spec => []NothingToReplay
<1>1. ASSUME ArbInv PROVE NothingToReplay
  <2> SUFFICES ASSUME sub.venue = "binance", NEW c \in Conn,
                      task[c].pc = "snapshot" \/ task[c].conn.sync = "Synchronizing"
               PROVE  task[c].conn.buffer = << >>
    BY DEF NothingToReplay, Arb!NothingToReplay, Arb!v, Conn
  <2>1. ConnSound(task[c])
    BY <1>1 DEF ArbInv, TaskSound
  <2> QED
    BY <2>1 DEF ConnSound
<1> QED
  BY <1>1, ArbInvariant, PTL

\* Only the group takes a message from the channel.
LEMMA OnlyReceive ==
  ASSUME ArbInv, [Next]_vars, raw # << >>, raw' = Tail(raw) PROVE plan.arb /\ Arb!Receive
<1>1. raw \in Seq(Message) /\ (~ plan.arb => raw = << >>)
  BY DEF ArbInv, ArbTypes
<1>2. Len(raw') < Len(raw) /\ raw' # raw
  <2>1. Len(Tail(raw)) \in Nat /\ Len(Tail(raw)) + 1 = Len(raw)
    BY <1>1, QueuedTail
  <2>2. \A m \in Nat : m < m + 1 /\ m # m + 1
    OBVIOUS
  <2>3. Len(raw') < Len(raw) /\ Len(raw') # Len(raw)
    BY <2>1, <2>2
  <2> QED
    BY <2>3
<1>3. RunArb
  <2>1. ~ RunHandler
    BY <1>1 DEF RunHandler, HandlerLoop, ByHandler
  <2>2. ~ (Spawn \/ Adapt \/ AdapterEnds \/ WaitForAny \/ ReceiverGone \/ Shutdown \/ UNCHANGED vars)
    BY <1>2 DEF Spawn, Adapt, AdapterEnds, WaitForAny, ReceiverGone, Shutdown, notAborted, vars, arbVars
  <2> QED
    BY <2>1, <2>2 DEF Next
<1>4. plan.arb /\ plan' = plan /\ (Arb!Exchange \/ Arb!Tasks \/ Arb!Spawn \/ Arb!Rotate \/ Arb!Receive \/ Arb!Stop)
  BY <1>3 DEF RunArb, ArbStop, ArbRotate, ByArb, managerVars
<1>5. ~ Arb!Exchange
  <2>1. Arb!Exchange => raw' = raw
    BY ArbExchangeKeeps
  <2> QED
    BY <1>2, <2>1
<1>6. ~ (Arb!Spawn \/ Arb!Rotate \/ Arb!Stop)
  BY <1>2 DEF Arb!Spawn, Arb!Rotate, Arb!Stop
<1>7. ASSUME Arb!Tasks PROVE FALSE
  <2>1. PICK c \in Conn : \/ Arb!TaskSubscribe(c) \/ Arb!TaskConnectFails(c) \/ Arb!TaskRead(c)
                          \/ Arb!TaskSnapshotFails(c) \/ Arb!TaskCancelled(c)
                          \/ \E e \in 0 .. market : Arb!TaskSnapshot(c, Arb!FinalId(e))
    BY <1>7 DEF Arb!Tasks, Conn
  <2>2. CASE Arb!TaskSubscribe(c) \/ Arb!TaskConnectFails(c) \/ Arb!TaskSnapshotFails(c) \/ Arb!TaskCancelled(c)
    BY <1>2, <2>2 DEF Arb!TaskSubscribe, Arb!TaskConnectFails, Arb!TaskSnapshotFails, Arb!TaskCancelled
  <2>3. CASE Arb!TaskRead(c)
    <3>1. PICK x : raw' = Append(raw, x) \/ raw' = raw
      BY <2>3 DEF Arb!TaskRead
    <3>2. Len(Append(raw, x)) = Len(raw) + 1 /\ Len(raw) \in Nat
      BY <1>1
    <3>3. ~ (Len(raw) + 1 < Len(raw))
      BY <3>2
    <3> QED
      BY <1>2, <3>1, <3>2, <3>3
  <2>4. ASSUME NEW e \in 0 .. market, Arb!TaskSnapshot(c, Arb!FinalId(e)) PROVE FALSE
    <3>1. Arb!TaskSnapshot(c, 2 * e)
      BY <2>4 DEF Arb!FinalId
    <3> QED
      BY <1>2, <1>4, <3>1, TaskSnapshotStep
  <2> QED
    BY <2>1, <2>2, <2>3, <2>4
<1> QED
  BY <1>4, <1>5, <1>6, <1>7

\* The group never swallows the first copy of an event: once it has taken a
\* message and goes on, every event of it that converts has been sent, by this
\* copy or by another.
THEOREM FirstCopyAlwaysPasses == Spec => FirstCopyPasses
<1>1. ASSUME ArbInv, [Next]_vars
      PROVE  [Arb!Taken => Arb!Covered(Head(raw).frame.ev) \ spoilt \subseteq Arb!Covered(fwd')]_(Arb!vars)
  <2> SUFFICES ASSUME Arb!Taken
               PROVE  Arb!Covered(Head(raw).frame.ev) \ spoilt \subseteq Arb!Covered(fwd')
    OBVIOUS
  <2>1. raw # << >> /\ raw' = Tail(raw) /\ group' = "run" /\ Head(raw).frame.kind = "data"
    BY DEF Arb!Taken
  <2>2. plan.arb /\ Arb!Receive
    BY <1>1, <2>1, OnlyReceive
  <2>3. Covered(Head(raw).frame.ev) \subseteq Covered(fwd') \cup spoilt
    BY <1>1, <2>1, <2>2, Received
  <2>4. \A es : Arb!Covered(es) = Covered(es)
    BY DEF Arb!Covered, Covered, Handler!Covered
  <2> QED
    BY <2>3, <2>4
<1> QED
  BY <1>1, ArbInvariant, PTL DEF Spec, FirstCopyPasses, Arb!FirstCopyPasses

(***************************************************************************)
(* The book of an adapter. The events a subscription produces have         *)
(* happened, so that each has a quote; and what has been produced stays.   *)
(***************************************************************************)
Extends(g, f) == Len(f) <= Len(g) /\ \A i \in 1 .. Len(f) : g[i] = f[i]

LEMMA AppendExtends ==
  ASSUME NEW f \in Seq(Nat), NEW e \in Nat
  PROVE  Append(f, e) \in Seq(Nat) /\ Extends(Append(f, e), f) /\ Extends(f, f)
<1> DEFINE g == Append(f, e)
<1>1. g \in Seq(Nat) /\ Len(g) = Len(f) + 1 /\ Len(f) \in Nat /\ \A i \in 1 .. Len(f) : g[i] = f[i]
  BY AppendProperties
<1> HIDE DEF g
<1>2. Len(f) <= Len(g)
  BY <1>1
<1> QED
  BY <1>1, <1>2 DEF Extends, g

LEMMA ArbitrateExtends ==
  ASSUME NEW s, NEW e \in Nat, s.fwd \in Seq(Nat)
  PROVE  LET t == Arb!Arbitrate(s, e)
         IN t.fwd \in Seq(Nat) /\ Extends(t.fwd, s.fwd) /\ Covered(t.fwd) \subseteq Covered(s.fwd) \cup {e}
<1> DEFINE t == Arb!Arbitrate(s, e)
           f == s.fwd
           g == Append(f, e)
           r == Arb!Judge(s, e)
<1>1. t.fwd = IF r.fresh THEN g ELSE f
  BY DEF Arb!Arbitrate
<1> HIDE DEF r
<1>2. g \in Seq(Nat) /\ Extends(g, f) /\ Extends(f, f) /\ Covered(g) = Covered(f) \cup {e}
  BY AppendExtends, CoveredAppend
<1> HIDE DEF g
<1> QED
  BY <1>1, <1>2

LEMMA ExtendsOn ==
  ASSUME NEW f \in Seq(Nat), NEW g \in Seq(Nat), NEW h \in Seq(Nat), Extends(g, f), Extends(h, g)
  PROVE  Extends(h, f)
<1>1. Len(f) \in Nat /\ Len(g) \in Nat /\ Len(h) \in Nat
  OBVIOUS
<1> QED
  BY <1>1 DEF Extends

LEMMA ArbitratedExtends ==
  ASSUME NEW es \in Seq(Nat), Len(es) \in 0 .. 2, fwd \in Seq(Nat), NEW s, s = Arb!Arbitrated(es)
  PROVE  s.fwd \in Seq(Nat) /\ Extends(s.fwd, fwd) /\ Covered(s.fwd) \subseteq Covered(fwd) \cup Covered(es)
<1> DEFINE u == Arb!Undecided
           a == Arb!Arbitrate(u, es[1])
           b == Arb!Arbitrate(a, es[2])
<1>1. u.fwd = fwd
  BY DEF Arb!Undecided
<1> HIDE DEF u
<1>2. Len(es) = 0 \/ Len(es) = 1 \/ Len(es) = 2
  <2> DEFINE n == Len(es)
  <2>1. n \in 0 .. 2
    OBVIOUS
  <2> HIDE DEF n
  <2>2. n = 0 \/ n = 1 \/ n = 2
    BY <2>1
  <2> QED
    BY <2>2 DEF n
<1>3. CASE Len(es) = 0
  <2>1. s = u
    BY <1>3, ArbitratedCases DEF u
  <2>2. Extends(fwd, fwd)
    BY AppendExtends
  <2> QED
    BY <1>1, <2>1, <2>2
<1>4. ASSUME 1 \in 1 .. Len(es)
      PROVE  /\ es[1] \in Nat /\ es[1] \in Covered(es) /\ a.fwd \in Seq(Nat) /\ Extends(a.fwd, fwd)
             /\ Covered(a.fwd) \subseteq Covered(fwd) \cup Covered(es)
  <2>1. es[1] \in Nat /\ es[1] \in Covered(es)
    BY <1>4, CoveredDef
  <2>2. /\ a.fwd \in Seq(Nat) /\ Extends(a.fwd, u.fwd)
        /\ Covered(a.fwd) \subseteq Covered(u.fwd) \cup {es[1]}
    <3>1. u.fwd \in Seq(Nat)
      BY <1>1
    <3> QED
      BY <2>1, <3>1, ArbitrateExtends, Zenon
  <2> QED
    BY <1>1, <2>1, <2>2
<1> HIDE DEF a
<1>5. CASE Len(es) = 1
  <2>1. s = a
    BY <1>5, ArbitratedCases DEF u, a
  <2> QED
    BY <1>4, <1>5, <2>1
<1>6. CASE Len(es) = 2
  <2>1. s = b
    BY <1>6, ArbitratedCases DEF u, a
  <2>2. es[2] \in Nat /\ es[2] \in Covered(es) /\ 1 \in 1 .. Len(es)
    <3>1. 1 \in 1 .. 2 /\ 2 \in 1 .. 2
      OBVIOUS
    <3>2. 1 \in 1 .. Len(es) /\ 2 \in 1 .. Len(es)
      BY <1>6, <3>1, Zenon
    <3> QED
      BY <3>2, CoveredDef, ElementOfSeq
  <2>3. b.fwd \in Seq(Nat) /\ Extends(b.fwd, a.fwd) /\ Covered(b.fwd) \subseteq Covered(a.fwd) \cup {es[2]}
    <3>1. a.fwd \in Seq(Nat)
      BY <1>4, <2>2
    <3> QED
      BY <2>2, <3>1, ArbitrateExtends, ZenonT(30)
  <2> HIDE DEF b
  <2> QED
    BY <1>4, <2>1, <2>2, <2>3, ExtendsOn
<1> QED
  BY <1>2, <1>3, <1>5, <1>6

\* What the group sends is a continuation of what it has sent, and of events of
\* the message it takes.
LEMMA ReceivedGrows ==
  ASSUME ArbInv, plan.arb, Arb!Receive
  PROVE  /\ Extends(fwd', fwd)
         /\ Covered(fwd') \subseteq
              Covered(fwd) \cup {e \in Covered(Head(raw).frame.ev) : Head(raw).frame.kind = "data"}
<1> DEFINE f == Head(raw).frame
           u == Arb!process_unified_message(sub, proc, f)
           s == Arb!Arbitrated(u.ev)
<1>1. /\ raw # << >>
      /\ IF ~ u.ok \/ (dropped /\ s.fwd # fwd) THEN fwd' = fwd ELSE fwd' = s.fwd
  BY DEF Arb!Receive
<1>2. raw \in Seq(Message) /\ sub \in Handler!Subscription /\ fwd \in Seq(Nat)
  BY DEF ArbInv, ArbTypes
<1>3. Head(raw) = raw[1] /\ Head(raw) \in Message /\ 1 \in 1 .. Len(raw)
  <2>1. Head(raw) = raw[1] /\ Head(raw) \in Message /\ Len(Tail(raw)) \in Nat /\ Len(Tail(raw)) + 1 = Len(raw)
    BY <1>1, <1>2, QueuedTail
  <2> QED
    BY <2>1
<1>4. f \in Frame /\ f.kind \in ChannelKinds /\ FrameSound(sub, spoilt, f)
  BY <1>3 DEF ArbInv, ChannelSound, Message
<1> HIDE DEF f
<1>5. u.ok => /\ u.ev \in Seq(Nat) /\ Len(u.ev) \in 0 .. 2
              /\ f.kind # "data" => u.ev = << >>
              /\ f.kind = "data" => Covered(u.ev) \subseteq Covered(f.ev)
  BY <1>2, <1>4, Processed
<1>6. Extends(fwd, fwd)
  BY <1>2, AppendExtends
<1> HIDE DEF u
<1>7. CASE fwd' = fwd
  BY <1>6, <1>7
<1>8. CASE u.ok /\ fwd' = s.fwd
  <2>1. Extends(s.fwd, fwd) /\ Covered(s.fwd) \subseteq Covered(fwd) \cup Covered(u.ev)
    <3> DEFINE es == u.ev
    <3>1. es \in Seq(Nat) /\ Len(es) \in 0 .. 2
      BY <1>5, <1>8
    <3> HIDE DEF es
    <3>2. /\ Extends(Arb!Arbitrated(es).fwd, fwd)
          /\ Covered(Arb!Arbitrated(es).fwd) \subseteq Covered(fwd) \cup Covered(es)
      BY <1>2, <3>1, ArbitratedExtends
    <3> QED
      BY <3>2 DEF es
  <2> HIDE DEF s
  <2>2. Covered(u.ev) \subseteq {e \in Covered(f.ev) : f.kind = "data"}
    BY <1>5, <1>8, CoveredEmpty
  <2> QED
    BY <1>8, <2>1, <2>2 DEF f
<1> QED
  BY <1>1, <1>7, <1>8

\* Every event under way has happened.
Happened(f, q, n) ==
  /\ Covered(f) \subseteq 1 .. n
  /\ \A k \in 1 .. Len(q) : q[k].frame.kind = "data" => Covered(q[k].frame.ev) \subseteq 1 .. n
EventsInv ==
  market <= (IF plan.arb THEN ArbEvents ELSE HandlerEvents) /\ Happened(fwd, raw, market)

LEMMA ArbEventsStep ==
  ASSUME ArbInv, EventsInv, RunArb PROVE EventsInv' /\ Extends(fwd', fwd)
<1>1. /\ plan.arb /\ plan' = plan /\ market <= ArbEvents /\ Happened(fwd, raw, market)
      /\ raw \in Seq(Message) /\ fwd \in Seq(Nat) /\ market \in Nat /\ ArbEvents \in Nat
      /\ \A c \in Conn : TaskSound(task[c])
  BY BoundsAssumption DEF RunArb, ArbStop, ArbRotate, ByArb, managerVars, EventsInv, ArbInv, ArbTypes
<1>2. Extends(fwd, fwd)
  BY <1>1, AppendExtends
<1>3. Arb!Exchange \/ Arb!Tasks \/ Arb!Spawn \/ Arb!Rotate \/ Arb!Receive \/ Arb!Stop
  BY DEF RunArb, ArbStop, ArbRotate
<1>4. CASE market' = market /\ UNCHANGED <<fwd, raw>>
  BY <1>1, <1>2, <1>4 DEF EventsInv
<1>5. CASE market' = market + 1 /\ market < ArbEvents /\ UNCHANGED <<fwd, raw>>
  <2>1. market' <= ArbEvents /\ 1 .. market \subseteq 1 .. market'
    BY <1>1, <1>5
  <2>2. Happened(fwd, raw, market')
    BY <1>1, <2>1 DEF Happened
  <2> QED
    BY <1>1, <1>2, <1>5, <2>1, <2>2 DEF EventsInv
<1>6. CASE Arb!Exchange
  <2>1. CASE Arb!Happen
    BY <1>5, <2>1 DEF Arb!Happen, Arb!groupVars
  <2>2. CASE ~ Arb!Happen
    <3>1. market' = market /\ fwd' = fwd /\ raw' = raw
      BY <1>6, <2>2, ArbExchangeKeeps
    <3> QED
      BY <1>4, <3>1
  <2> QED
    BY <2>1, <2>2
<1>7. CASE Arb!Spawn \/ Arb!Rotate \/ Arb!Stop
  BY <1>4, <1>7 DEF Arb!Spawn, Arb!Rotate, Arb!Stop, Arb!groupOnly
<1>8. CASE Arb!Tasks
  <2>1. PICK c \in Conn : \/ Arb!TaskSubscribe(c) \/ Arb!TaskConnectFails(c) \/ Arb!TaskRead(c)
                          \/ Arb!TaskSnapshotFails(c) \/ Arb!TaskCancelled(c)
                          \/ \E e \in 0 .. market : Arb!TaskSnapshot(c, Arb!FinalId(e))
    BY <1>8 DEF Arb!Tasks, Conn
  <2>2. market' = market /\ fwd' = fwd
    BY <2>1 DEF Arb!TaskSubscribe, Arb!TaskConnectFails, Arb!TaskSnapshot, Arb!TaskSnapshotFails, Arb!TaskRead,
                Arb!TaskCancelled, Arb!taskOnly, Arb!groupVars
  <2>3. CASE Arb!TaskSubscribe(c) \/ Arb!TaskConnectFails(c) \/ Arb!TaskSnapshotFails(c) \/ Arb!TaskCancelled(c)
    BY <1>4, <2>2, <2>3 DEF Arb!TaskSubscribe, Arb!TaskConnectFails, Arb!TaskSnapshotFails, Arb!TaskCancelled
  <2>4. ASSUME NEW e \in 0 .. market, Arb!TaskSnapshot(c, Arb!FinalId(e))
        PROVE  EventsInv' /\ Extends(fwd', fwd)
    <3>1. Arb!TaskSnapshot(c, 2 * e)
      BY <2>4 DEF Arb!FinalId
    <3>2. raw' = raw
      BY <1>1, <3>1, TaskSnapshotStep
    <3> QED
      BY <1>4, <2>2, <3>2
  <2>5. CASE Arb!TaskRead(c)
    <3> DEFINE t == task[c]
               f == Head(t.sock)
               x == [from |-> c, frame |-> f]
    <3>1. raw' = Append(raw, x) \/ raw' = raw
      BY <2>5 DEF Arb!TaskRead
    <3>2. t.sock # << >> /\ t.sock \in Seq(Frame) /\ InOrder(sub, spoilt, t.sock, t.sent)
          /\ t.sent \in Nat /\ t.sent <= market
      BY <1>1, <2>5 DEF Arb!TaskRead, Arb!ReadsSocket, TaskSound, Task
    <3>3. f = t.sock[1] /\ f \in Frame /\ 1 \in 1 .. Len(t.sock)
      <4> DEFINE q == t.sock
      <4>1. q \in Seq(Frame) /\ q # << >>
        BY <3>2
      <4> HIDE DEF q
      <4>2. Head(q) = q[1] /\ Head(q) \in Frame /\ Len(q) \in Nat /\ Len(q) > 0
        BY <4>1, HeadTailProperties, EmptySeq
      <4>3. 1 \in 1 .. Len(q)
        BY <4>2
      <4> QED
        BY <4>2, <4>3 DEF q
    <3>4. f.kind = "data" => Covered(f.ev) \subseteq 1 .. market
      <4>1. f.kind = "data" => Covered(f.ev) \subseteq 1 .. t.sent
        BY <3>2, <3>3 DEF InOrder
      <4>2. 1 .. t.sent \subseteq 1 .. market
        BY <1>1, <3>2
      <4> QED
        BY <4>1, <4>2
    <3>5. x \in Message /\ x.frame = f
      BY <2>1, <3>3 DEF Message
    <3> HIDE DEF f, x
    <3>6. CASE raw' = Append(raw, x)
      <4>1. Len(raw') = Len(raw) + 1 /\ Len(raw) \in Nat /\ raw'[Len(raw) + 1] = x
            /\ \A k \in 1 .. Len(raw) : raw'[k] = raw[k]
        BY <1>1, <3>5, <3>6, QueuedAppend
      <4>2. \A k \in 1 .. Len(raw') : k \in 1 .. Len(raw) \/ k = Len(raw) + 1
        BY <4>1
      <4>3. Happened(fwd, raw', market)
        BY <1>1, <3>4, <3>5, <4>1, <4>2 DEF Happened
      <4> QED
        BY <1>1, <1>2, <2>2, <4>3 DEF EventsInv
    <3> QED
      BY <1>4, <2>2, <3>1, <3>6
  <2> QED
    BY <2>1, <2>3, <2>4, <2>5
<1>9. CASE Arb!Receive
  <2>1. market' = market /\ raw # << >> /\ raw' = Tail(raw)
    BY <1>9 DEF Arb!Receive, Arb!groupOnly
  <2>2. /\ Len(raw') \in Nat /\ Len(raw') + 1 = Len(raw) /\ Head(raw) = raw[1]
        /\ \A k \in 1 .. Len(raw') : raw'[k] = raw[k + 1]
    BY <1>1, <2>1, QueuedTail
  <2>3. 1 \in 1 .. Len(raw) /\ \A k \in 1 .. Len(raw') : k + 1 \in 1 .. Len(raw)
    BY <2>2
  <2>4. Happened(fwd', raw', market) /\ Extends(fwd', fwd)
    BY <1>1, <1>9, <2>2, <2>3, ReceivedGrows DEF Happened
  <2> QED
    BY <1>1, <2>1, <2>4 DEF EventsInv
<1> QED
  BY <1>3, <1>6, <1>7, <1>8, <1>9

LEMMA EventsStep ==
  ASSUME HandlerInv, ArbInv, EventsInv, [Next]_vars
  PROVE  EventsInv' /\ plan' = plan /\ sub' = sub /\ Extends(Produced', Produced)
<1>1. /\ fwd \in Seq(Nat) /\ out \in Seq(Nat) /\ todo \in Seq(Nat) /\ market \in Nat
      /\ HandlerEvents \in Nat
  BY BoundsAssumption DEF HandlerInv, HandlerTypes, ArbInv, ArbTypes
<1>2. Extends(fwd, fwd) /\ Extends(out, out)
  BY <1>1, AppendExtends
<1>3. CASE RunArb
  <2>1. plan' = plan /\ out' = out /\ plan.arb
    BY <1>3 DEF RunArb, ArbStop, ArbRotate, ByArb, managerVars, handlerVars
  <2>2. sub' = sub
    <3>1. Arb!Exchange => sub' = sub
      BY ArbExchangeKeeps
    <3>2. Arb!Tasks => sub' = sub
      BY DEF Arb!Tasks, Arb!TaskSubscribe, Arb!TaskConnectFails, Arb!TaskSnapshot, Arb!TaskSnapshotFails, Arb!TaskRead,
             Arb!TaskCancelled, Arb!taskOnly, Arb!groupVars
    <3>3. Arb!Spawn \/ Arb!Rotate \/ Arb!Receive \/ Arb!Stop => sub' = sub
      BY DEF Arb!Spawn, Arb!Rotate, Arb!Receive, Arb!Stop, Arb!groupOnly
    <3> QED
      BY <1>3, <3>1, <3>2, <3>3 DEF RunArb, ArbStop, ArbRotate
  <2>3. EventsInv' /\ Extends(fwd', fwd)
    BY <1>3, ArbEventsStep
  <2> QED
    BY <2>1, <2>2, <2>3 DEF Produced
<1>4. CASE RunHandler
  <2>1. ~ plan.arb /\ plan' = plan /\ fwd' = fwd /\ raw' = raw
        /\ (Handler!Exchange \/ Handler!Fail \/ Handler!Task \/ Handler!Loop)
    BY <1>4 DEF RunHandler, HandlerLoop, ByHandler, managerVars, arbVars
  <2>2. /\ sub' = sub /\ (market' = market \/ (market' = market + 1 /\ market < HandlerEvents))
        /\ out' = out \/ (out' = Append(out, Head(todo)) /\ todo # << >>)
    <3>1. CASE Handler!Exchange
      BY <3>1 DEF Handler!Exchange, Handler!Happen, Handler!SendFrame, Handler!SendControl, Handler!AnswerRpc,
                  Handler!taskVars
    <3>2. CASE Handler!Fail
      BY <3>2 DEF Handler!Fail, Handler!quietVars
    <3>3. CASE Handler!Task
      BY <3>3 DEF Handler!Task, Handler!ConnectStep, Handler!Validate, Handler!Subscribe, Handler!AwaitFrame,
                  Handler!AwaitTimeout, Handler!FetchSnapshot, Handler!quietVars, Handler!serverVars
    <3>4. CASE Handler!Loop
      BY <3>4 DEF Handler!Loop, Handler!ReadFrame, Handler!SendUpdate, Handler!Stop, Handler!serverVars
    <3> QED
      BY <2>1, <3>1, <3>2, <3>3, <3>4
  <2>3. Extends(out', out)
    <3>1. todo # << >> => Head(todo) \in Nat
      BY <1>1, HeadTailProperties, EmptySeq
    <3>2. todo # << >> => Extends(Append(out, Head(todo)), out)
      BY <1>1, <3>1, AppendExtends
    <3> QED
      BY <1>2, <2>2, <3>2
  <2>4. market' <= HandlerEvents /\ 1 .. market \subseteq 1 .. market'
    BY <1>1, <2>1, <2>2 DEF EventsInv
  <2>5. Happened(fwd, raw, market')
    BY <2>4 DEF Happened, EventsInv
  <2> QED
    BY <2>1, <2>2, <2>3, <2>4, <2>5 DEF EventsInv, Produced
<1>5. CASE Spawn \/ Adapt \/ AdapterEnds \/ WaitForAny \/ UNCHANGED vars
  <2>1. UNCHANGED <<plan, sub, fwd, raw, market, out>>
    BY <1>5 DEF Spawn, Adapt, AdapterEnds, WaitForAny, vars, arbVars, sharedVars, managerVars, handlerVars
  <2> QED
    BY <1>2, <2>1 DEF EventsInv, Produced
<1>6. CASE ReceiverGone
  <2>1. UNCHANGED <<plan, fwd, raw, out>>
    BY <1>6 DEF ReceiverGone, arbVars, handlerVars
  <2>2. UNCHANGED <<sub, market>>
    BY <1>6 DEF ReceiverGone, Arb!DropReceiver, Arb!groupVars, Handler!DropReceiver, Handler!taskVars
  <2> QED
    BY <1>2, <2>1, <2>2 DEF EventsInv, Produced
<1>7. CASE Shutdown
  <2>1. UNCHANGED <<plan, sub, fwd, raw, market, out>>
    BY <1>7 DEF Shutdown, notAborted, sharedVars
  <2> QED
    BY <1>2, <2>1 DEF EventsInv, Produced
<1> QED
  BY <1>3, <1>4, <1>5, <1>6, <1>7 DEF Next

(***************************************************************************)
(* A side of the book after the first n of the events P: which of them     *)
(* were applied, which of these are about one level, and that the last of  *)
(* these says what the level is.                                           *)
(***************************************************************************)
Applied(P, n) == {i \in 1 .. n : \A j \in 1 .. i : P[j] <= P[i]}
Level(P, n, side, price) ==
  {i \in Applied(P, n) : Quote[P[i]].side = side /\ Quote[P[i]].price = price}
Newest(i, T) == i \in T /\ \A j \in T : j <= i
Says(levels, price, qty) ==
  (price \in DOMAIN levels <=> qty > 0) /\ (price \in DOMAIN levels => levels[price] = qty)
SideExact(levels, P, n, side) ==
  \A price :
    /\ Level(P, n, side, price) = {} => price \notin DOMAIN levels
    /\ Level(P, n, side, price) # {} =>
         \E i : Newest(i, Level(P, n, side, price)) /\ Says(levels, price, Quote[P[i]].qty)

\* What one more event does to the levels of a side.
LEMMA SideGrows ==
  ASSUME NEW P \in Seq(Nat), NEW n \in Nat, n < Len(P), NEW levels, NEW side, SideExact(levels, P, n, side),
         NEW q \in [side : {"Buy", "Sell"}, price : Nat, qty : Nat], Quote[P[n + 1]] = q,
         NEW u, u.price = q.price, u.qty = q.qty
  PROVE  /\ ~ (\A j \in 1 .. n : P[j] <= P[n + 1]) => SideExact(levels, P, n + 1, side)
         /\ q.side # side => SideExact(levels, P, n + 1, side)
         /\ (\A j \in 1 .. n : P[j] <= P[n + 1]) /\ q.side = side =>
              SideExact(Book!SetLevel(levels, u), P, n + 1, side)
<1> DEFINE all == \A j \in 1 .. n : P[j] <= P[n + 1]
<1>1. \A i \in 1 .. n + 1 : i \in 1 .. n \/ i = n + 1
  OBVIOUS
<1>2. /\ \A i \in 1 .. n : i \in 1 .. n + 1 /\ i # n + 1 /\ i <= n + 1
      /\ n + 1 \in 1 .. n + 1 /\ n + 1 <= n + 1
  OBVIOUS
<1>3. P[n + 1] <= P[n + 1]
  <2>1. n + 1 \in 1 .. Len(P)
    OBVIOUS
  <2>2. P[n + 1] \in Nat
    BY <2>1, ElementOfSeq
  <2> QED
    BY <2>2
<1>4. n + 1 \in Applied(P, n + 1) <=> all
  BY <1>1, <1>2, <1>3 DEF Applied
<1>5. \A i : i \in Applied(P, n + 1) <=> i \in Applied(P, n) \/ (i = n + 1 /\ all)
  BY <1>1, <1>2, <1>4 DEF Applied
<1> HIDE DEF all
<1>6. \A price : Level(P, n + 1, side, price) =
        Level(P, n, side, price) \cup {i \in {n + 1} : all /\ q.side = side /\ q.price = price}
  BY <1>5 DEF Level
<1>7. ASSUME ~ all \/ q.side # side PROVE SideExact(levels, P, n + 1, side)
  <2>1. \A price : Level(P, n + 1, side, price) = Level(P, n, side, price)
    BY <1>6, <1>7
  <2> QED
    BY <2>1 DEF SideExact
<1>8. ASSUME all, q.side = side PROVE SideExact(Book!SetLevel(levels, u), P, n + 1, side)
  <2> DEFINE after == Book!SetLevel(levels, u)
  <2>1. /\ q.qty \in Nat /\ (q.price \in DOMAIN after <=> q.qty # 0)
        /\ q.price \in DOMAIN after => after[q.price] = q.qty
        /\ \A price : price # q.price =>
             (price \in DOMAIN after <=> price \in DOMAIN levels) /\ (price \in DOMAIN levels => after[price] = levels[price])
    <3>1. CASE q.qty = 0
      <4>1. after = [price \in DOMAIN levels \ {q.price} |-> levels[price]]
        BY <3>1 DEF Book!SetLevel, Book!Restrict
      <4> HIDE DEF after
      <4> QED
        BY <3>1, <4>1
    <3>2. CASE q.qty # 0
      <4>1. after = [price \in DOMAIN levels \cup {q.price} |-> IF price = q.price THEN q.qty ELSE levels[price]]
        BY <3>2 DEF Book!SetLevel
      <4> HIDE DEF after
      <4> QED
        BY <3>2, <4>1
    <3> QED
      BY <3>1, <3>2
  <2> HIDE DEF after
  <2>2. ASSUME NEW price
        PROVE  /\ Level(P, n + 1, side, price) = {} => price \notin DOMAIN after
               /\ Level(P, n + 1, side, price) # {} =>
                    \E i : Newest(i, Level(P, n + 1, side, price)) /\ Says(after, price, Quote[P[i]].qty)
    <3>1. CASE price = q.price
      <4>1. Level(P, n + 1, side, price) = Level(P, n, side, price) \cup {n + 1}
        BY <1>6, <1>8, <3>1
      <4>2. Newest(n + 1, Level(P, n + 1, side, price))
        BY <1>2, <4>1 DEF Newest, Level, Applied
      <4>3. Says(after, price, q.qty)
        BY <2>1, <3>1 DEF Says
      <4> QED
        BY <4>1, <4>2, <4>3
    <3>2. CASE price # q.price
      <4>1. Level(P, n + 1, side, price) = Level(P, n, side, price)
        BY <1>6, <3>2
      <4>2. \A qty : Says(levels, price, qty) => Says(after, price, qty)
        BY <2>1, <3>2 DEF Says
      <4>3. price \notin DOMAIN levels => price \notin DOMAIN after
        BY <2>1, <3>2
      <4> QED
        BY <4>1, <4>2, <4>3 DEF SideExact
    <3> QED
      BY <3>1, <3>2
  <2> QED
    BY <2>2 DEF SideExact, after
<1> QED
  BY <1>7, <1>8 DEF all

LEMMA SideKept ==
  ASSUME NEW P, NEW Q, NEW n \in Nat, n <= Len(P), Len(P) \in Nat, Extends(Q, P), NEW levels, NEW side,
         SideExact(levels, P, n, side)
  PROVE  SideExact(levels, Q, n, side)
<1>1. \A i \in 1 .. n : i \in 1 .. Len(P) /\ \A j \in 1 .. i : j \in 1 .. n
  OBVIOUS
<1>2. \A i \in 1 .. n : Q[i] = P[i]
  BY <1>1 DEF Extends
<1>3. Applied(Q, n) = Applied(P, n)
  BY <1>1, <1>2 DEF Applied
<1>4. \A price : Level(Q, n, side, price) = Level(P, n, side, price)
  BY <1>2, <1>3 DEF Level, Applied
<1>5. \A price, i : i \in Level(P, n, side, price) => Q[i] = P[i]
  BY <1>2 DEF Level, Applied
<1> QED
  BY <1>4, <1>5 DEF SideExact, Newest

\* The id of the book is that of the newest event applied.
LastIs(last, P, n) ==
  /\ n = 0 => last = 0
  /\ n > 0 => \E i \in 1 .. n : last = 2 * P[i]
  /\ \A i \in 1 .. n : 2 * P[i] <= last
BookInv ==
  /\ taken \in Nat /\ taken <= Len(Produced)
  /\ book = [bids |-> book.bids, asks |-> book.asks, last |-> book.last, market |-> book.market]
  /\ book.market \in {Book!NoMarket, sub.venue} /\ LastIs(book.last, Produced, taken)
  /\ SideExact(book.bids, Produced, taken, "Buy") /\ SideExact(book.asks, Produced, taken, "Sell")

LEMMA LastGrows ==
  ASSUME NEW P \in Seq(Nat), NEW n \in Nat, n < Len(P), NEW last, LastIs(last, P, n)
  PROVE  /\ 2 * P[n + 1] < last => LastIs(last, P, n + 1)
         /\ ~ (2 * P[n + 1] < last) => LastIs(2 * P[n + 1], P, n + 1)
         /\ 2 * P[n + 1] < last <=> ~ \A j \in 1 .. n : P[j] <= P[n + 1]
<1>1. \A i \in 1 .. n + 1 : i \in 1 .. n \/ i = n + 1
  OBVIOUS
<1>2. (\A i \in 1 .. n : i \in 1 .. n + 1) /\ n + 1 \in 1 .. n + 1 /\ n + 1 > 0 /\ n + 1 # 0
  OBVIOUS
<1>3. \A i \in 1 .. n + 1 : P[i] \in Nat
  <2>1. \A i \in 1 .. n + 1 : i \in 1 .. Len(P)
    OBVIOUS
  <2> QED
    BY <2>1, ElementOfSeq
<1>4. last \in Nat
  <2>1. CASE n = 0
    BY <2>1 DEF LastIs
  <2>2. CASE n > 0
    BY <1>2, <1>3, <2>2 DEF LastIs
  <2> QED
    BY <2>1, <2>2
<1>5. CASE 2 * P[n + 1] < last
  <2>1. n > 0
    BY <1>2, <1>3, <1>5 DEF LastIs
  <2>2. PICK k \in 1 .. n : last = 2 * P[k]
    BY <2>1 DEF LastIs
  <2>3. ~ (P[k] <= P[n + 1])
    BY <1>2, <1>3, <1>5, <2>2, SMTT(30)
  <2>4. LastIs(last, P, n + 1)
    <3>1. k \in 1 .. n + 1
      BY <1>2
    <3>2. \A i \in 1 .. n : 2 * P[i] <= last
      BY DEF LastIs
    <3>3. 2 * P[n + 1] <= last
      BY <1>2, <1>3, <1>4, <1>5
    <3>4. \A i \in 1 .. n + 1 : 2 * P[i] <= last
      BY <1>1, <3>2, <3>3, Zenon
    <3> QED
      BY <1>2, <2>2, <3>1, <3>4 DEF LastIs
  <2> QED
    BY <1>5, <2>3, <2>4
<1>6. CASE ~ (2 * P[n + 1] < last)
  <2>1. \A j \in 1 .. n : 2 * P[j] <= 2 * P[n + 1]
    <3>1. \A j \in 1 .. n : 2 * P[j] <= last
      BY DEF LastIs
    <3>2. last <= 2 * P[n + 1]
      BY <1>2, <1>3, <1>4, <1>6
    <3>3. \A j \in 1 .. n : P[j] \in Nat
      BY <1>2, <1>3
    <3> QED
      BY <1>2, <1>3, <1>4, <3>1, <3>2, <3>3, SMTT(30)
  <2>2. \A j \in 1 .. n : P[j] <= P[n + 1]
    BY <1>2, <1>3, <2>1, SMTT(30)
  <2>3. 2 * P[n + 1] <= 2 * P[n + 1]
    BY <1>2, <1>3
  <2>4. LastIs(2 * P[n + 1], P, n + 1)
    BY <1>1, <1>2, <2>1, <2>3 DEF LastIs
  <2> QED
    BY <1>6, <2>2, <2>4
<1> QED
  BY <1>5, <1>6

\* Each event produced has a quote.
LEMMA Quoted ==
  ASSUME HandlerInv, ArbInv, EventsInv, NEW i \in 1 .. Len(Produced)
  PROVE  Quote[Produced[i]] \in [side : {"Buy", "Sell"}, price : Nat, qty : Nat]
<1>1. market \in Nat /\ HandlerEvents \in Nat /\ ArbEvents \in Nat /\ sent \in Nat /\ start \in Nat /\ sent <= market
  BY BoundsAssumption DEF HandlerInv, HandlerTypes
<1>2. CASE plan.arb
  <2>1. fwd[i] \in 1 .. market /\ Produced[i] = fwd[i]
    BY <1>2, CoveredDef DEF EventsInv, Happened, Produced
  <2>2. 1 .. market \subseteq 1 .. ArbEvents
    BY <1>1, <1>2 DEF EventsInv
  <2> QED
    BY <2>1, <2>2, QuotesAssumption
<1>3. CASE ~ plan.arb
  <2>1. out[i] \in start .. sent /\ start # 0 /\ Produced[i] = out[i]
    BY <1>3, CoveredDef DEF HandlerInv, HandedOrdered, Handed, Produced
  <2>2. start .. sent \subseteq 1 .. HandlerEvents
    BY <1>1, <1>3, <2>1 DEF EventsInv
  <2> QED
    BY <2>1, <2>2, QuotesAssumption
<1> QED
  BY <1>2, <1>3

\* The adapter applies an update.
LEMMA AdaptStep ==
  ASSUME HandlerInv, ArbInv, EventsInv, BookInv, Adapt PROVE BookInv'
<1> DEFINE P == Produced
           n == taken
           e == P[n + 1]
           u == Update(e)
           m == [book EXCEPT !.market = u.market]
<1>1. n < Len(P) /\ book' = Book!Apply(book, u) /\ taken' = n + 1 /\ UNCHANGED <<plan, sub, fwd, out>>
  BY DEF Adapt, arbVars, handlerVars, sharedVars
<1>2. P' = P
  BY <1>1 DEF Produced
<1>3. P \in Seq(Nat) /\ n \in Nat /\ n + 1 \in 1 .. Len(P) /\ Len(P) \in Nat
  <2>1. P \in Seq(Nat)
    BY DEF Produced, HandlerInv, HandlerTypes, ArbInv, ArbTypes
  <2>2. Len(P) \in Nat /\ n \in Nat
    BY <2>1 DEF BookInv
  <2> QED
    BY <1>1, <2>1, <2>2
<1>4. PICK q \in [side : {"Buy", "Sell"}, price : Nat, qty : Nat] : Quote[e] = q
  BY <1>3, Quoted
<1>5. u.id = 2 * e /\ u.market = sub.venue /\ u.side = q.side /\ u.price = q.price /\ u.qty = q.qty
  BY <1>4 DEF Update, Handler!FinalId
<1>6. /\ SideExact(book.bids, P, n, "Buy") /\ SideExact(book.asks, P, n, "Sell") /\ LastIs(book.last, P, n)
      /\ book = [bids |-> book.bids, asks |-> book.asks, last |-> book.last, market |-> book.market]
      /\ book.market \in {Book!NoMarket, sub.venue}
  BY DEF BookInv
<1> HIDE DEF P, n, u
<1>7. /\ 2 * e < book.last => LastIs(book.last, P, n + 1)
      /\ ~ (2 * e < book.last) => LastIs(2 * e, P, n + 1)
      /\ 2 * e < book.last <=> ~ \A j \in 1 .. n : P[j] <= P[n + 1]
  BY <1>1, <1>3, <1>6, LastGrows
<1>8. /\ 2 * e < book.last => SideExact(book.bids, P, n + 1, "Buy") /\ SideExact(book.asks, P, n + 1, "Sell")
      /\ q.side # "Buy" => SideExact(book.bids, P, n + 1, "Buy")
      /\ q.side # "Sell" => SideExact(book.asks, P, n + 1, "Sell")
      /\ ~ (2 * e < book.last) /\ q.side = "Buy" => SideExact(Book!SetLevel(book.bids, u), P, n + 1, "Buy")
      /\ ~ (2 * e < book.last) /\ q.side = "Sell" => SideExact(Book!SetLevel(book.asks, u), P, n + 1, "Sell")
  <2>1. Quote[P[n + 1]] = q
    BY <1>4
  <2>2. /\ ~ (\A j \in 1 .. n : P[j] <= P[n + 1]) => SideExact(book.bids, P, n + 1, "Buy")
        /\ q.side # "Buy" => SideExact(book.bids, P, n + 1, "Buy")
        /\ (\A j \in 1 .. n : P[j] <= P[n + 1]) /\ q.side = "Buy" =>
             SideExact(Book!SetLevel(book.bids, u), P, n + 1, "Buy")
    BY <1>1, <1>3, <1>5, <1>6, <2>1, SideGrows
  <2>3. /\ ~ (\A j \in 1 .. n : P[j] <= P[n + 1]) => SideExact(book.asks, P, n + 1, "Sell")
        /\ q.side # "Sell" => SideExact(book.asks, P, n + 1, "Sell")
        /\ (\A j \in 1 .. n : P[j] <= P[n + 1]) /\ q.side = "Sell" =>
             SideExact(Book!SetLevel(book.asks, u), P, n + 1, "Sell")
    BY <1>1, <1>3, <1>5, <1>6, <2>1, SideGrows
  <2> QED
    BY <1>7, <2>2, <2>3
<1> HIDE DEF e
<1>9. PICK bids, asks, last, at : book = [bids |-> bids, asks |-> asks, last |-> last, market |-> at]
  BY <1>6
<1>10. book.bids = bids /\ book.asks = asks /\ book.last = last /\ book.market = at
  BY <1>9
<1>11. m = [bids |-> bids, asks |-> asks, last |-> last, market |-> sub.venue]
  BY <1>5, <1>9
<1>12. CASE 2 * e < book.last
  <2>1. book' = (IF book.market = Book!NoMarket THEN m ELSE book)
    BY <1>1, <1>5, <1>6, <1>12 DEF Book!Apply, Book!Outdated
  <2>2. book' = [bids |-> bids, asks |-> asks, last |-> last, market |-> sub.venue]
    BY <1>6, <1>9, <1>10, <1>11, <2>1
  <2>3. book'.bids = bids /\ book'.asks = asks /\ book'.last = last /\ book'.market = sub.venue
    BY <2>2
  <2> QED
    BY <1>1, <1>2, <1>3, <1>7, <1>8, <1>10, <1>12, <2>2, <2>3 DEF BookInv, P, n
<1>13. CASE ~ (2 * e < book.last)
  <2>1. book' = IF u.side = "Buy" THEN [m EXCEPT !.bids = Book!SetLevel(@, u), !.last = u.id]
                ELSE [m EXCEPT !.asks = Book!SetLevel(@, u), !.last = u.id]
    BY <1>1, <1>5, <1>6, <1>13 DEF Book!Apply, Book!Outdated
  <2>2. CASE q.side = "Buy"
    <3>1. book' = [bids |-> Book!SetLevel(bids, u), asks |-> asks, last |-> 2 * e, market |-> sub.venue]
      BY <1>5, <1>11, <2>1, <2>2
    <3>2. /\ book'.bids = Book!SetLevel(bids, u) /\ book'.asks = asks /\ book'.last = 2 * e
          /\ book'.market = sub.venue
      BY <3>1
    <3> QED
      BY <1>1, <1>2, <1>3, <1>7, <1>8, <1>10, <1>13, <2>2, <3>1, <3>2 DEF BookInv, P, n
  <2>3. CASE q.side = "Sell"
    <3>1. book' = [bids |-> bids, asks |-> Book!SetLevel(asks, u), last |-> 2 * e, market |-> sub.venue]
      BY <1>5, <1>11, <2>1, <2>3
    <3>2. /\ book'.bids = bids /\ book'.asks = Book!SetLevel(asks, u) /\ book'.last = 2 * e
          /\ book'.market = sub.venue
      BY <3>1
    <3> QED
      BY <1>1, <1>2, <1>3, <1>7, <1>8, <1>10, <1>13, <2>3, <3>1, <3>2 DEF BookInv, P, n
  <2> QED
    BY <2>2, <2>3
<1> QED
  BY <1>12, <1>13

LEMMA BookStep ==
  ASSUME HandlerInv, ArbInv, EventsInv, BookInv, [Next]_vars PROVE BookInv'
<1>1. CASE Adapt
  BY <1>1, AdaptStep
<1>2. CASE ~ Adapt
  <2>1. sub' = sub /\ Extends(Produced', Produced)
    BY EventsStep
  <2>2. taken' = taken /\ book' = book
    BY <1>2 DEF Next, Spawn, RunHandler, HandlerLoop, ByHandler, RunArb, ArbStop, ArbRotate, ByArb, ReceiverGone,
                AdapterEnds, WaitForAny, Shutdown, notAborted, vars, managerVars
  <2> DEFINE P == Produced
             Q == Produced'
  <2>3. P \in Seq(Nat)
    BY DEF Produced, HandlerInv, HandlerTypes, ArbInv, ArbTypes
  <2>4. Q \in Seq(Nat)
    BY HandlerNext, ArbNext DEF Produced, HandlerInv, HandlerTypes, ArbInv, ArbTypes
  <2> HIDE DEF P, Q
  <2>5. /\ Len(P) \in Nat /\ Len(Q) \in Nat /\ taken \in Nat /\ taken <= Len(P) /\ taken <= Len(Q)
        /\ Extends(Q, P) /\ \A i \in 1 .. taken : Q[i] = P[i]
    <3>1. Len(P) \in Nat /\ Len(Q) \in Nat /\ taken \in Nat /\ taken <= Len(P) /\ Extends(Q, P)
      BY <2>1, <2>3, <2>4 DEF BookInv, P, Q
    <3>2. \A i \in 1 .. taken : i \in 1 .. Len(P)
      BY <3>1
    <3> QED
      BY <3>1, <3>2 DEF Extends
  <2>6. SideExact(book.bids, Q, taken, "Buy") /\ SideExact(book.asks, Q, taken, "Sell")
    BY <2>5, SideKept DEF BookInv, P
  <2>7. LastIs(book.last, Q, taken)
    BY <2>5 DEF BookInv, LastIs, P
  <2> QED
    BY <2>1, <2>2, <2>5, <2>6, <2>7 DEF BookInv, Q
<1> QED
  BY <1>1, <1>2

LEMMA BookInit == ASSUME Init PROVE EventsInv /\ BookInv
<1>1. market = 0 /\ fwd = << >> /\ raw = << >> /\ out = << >> /\ taken = 0 /\ book = Book!New
  BY DEF Init, Handler!Init, Arb!Init
<1>2. HandlerEvents \in Nat /\ ArbEvents \in Nat
  BY BoundsAssumption
<1>3. Produced = << >> /\ Len(Produced) = 0 /\ Len(raw) = 0 /\ Covered(fwd) = {}
  BY <1>1, CoveredEmpty DEF Produced
<1>4. EventsInv
  BY <1>1, <1>2, <1>3 DEF EventsInv, Happened
<1>5. book = [bids |-> << >>, asks |-> << >>, last |-> 0, market |-> Book!NoMarket]
  BY <1>1 DEF Book!New
<1>6. book.bids = << >> /\ book.asks = << >> /\ book.last = 0 /\ book.market = Book!NoMarket
  BY <1>5
<1>7. \A side, price : Level(Produced, 0, side, price) = {}
  BY DEF Level, Applied
<1>8. \A side : SideExact(<< >>, Produced, 0, side)
  BY <1>7 DEF SideExact
<1>9. LastIs(0, Produced, 0)
  BY DEF LastIs
<1> QED
  BY <1>1, <1>3, <1>4, <1>5, <1>6, <1>8, <1>9 DEF BookInv

LEMMA BookInvariant == Spec => [](EventsInv /\ BookInv)
<1>1. Init => EventsInv /\ BookInv
  BY BookInit
<1>2. HandlerInv /\ ArbInv /\ EventsInv /\ BookInv /\ [Next]_vars => EventsInv' /\ BookInv'
  BY EventsStep, BookStep
<1> QED
  BY <1>1, <1>2, HandlerInvariant, ArbInvariant, PTL DEF Spec

\* The book of an adapter is, level by level, the last update of that level
\* among those that were not older than one before them: for any quotes, and
\* whatever order a group lets updates through in.
THEOREM BookStaysExact == Spec => []BookExact
<1>1. BookInv => BookExact
  <2> SUFFICES ASSUME BookInv PROVE BookExact
    OBVIOUS
  <2>1. \A side, price : Touches(side, price) = Level(Produced, taken, side, price)
    BY DEF Touches, Accepted, Level, Applied
  <2>2. ASSUME NEW levels, NEW side, SideExact(levels, Produced, taken, side) PROVE Exact(levels, side)
    <3> SUFFICES ASSUME NEW e \in DOMAIN Quote
                 PROVE  LET price == Quote[e].price
                            touches == Touches(side, price)
                            last == CHOOSE i \in touches : \A j \in touches : j <= i
                            qty == Quote[Produced[last]].qty
                        IN /\ price \in DOMAIN levels <=> touches # {} /\ qty > 0
                           /\ price \in DOMAIN levels => levels[price] = qty
      BY DEF Exact
    <3> DEFINE price == Quote[e].price
               T == Touches(side, price)
               last == CHOOSE i \in T : \A j \in T : j <= i
    <3>1. /\ T = {} => price \notin DOMAIN levels
          /\ T # {} => \E i : Newest(i, T) /\ Says(levels, price, Quote[Produced[i]].qty)
      BY <2>1, <2>2 DEF SideExact
    <3>2. T \subseteq Nat
      BY DEF Touches, Accepted
    <3> HIDE DEF T, price
    <3>3. ASSUME NEW i, Newest(i, T) PROVE last = i
      <4>1. i \in T /\ \A j \in T : j <= i
        BY <3>3 DEF Newest
      <4>2. last \in T /\ \A j \in T : j <= last
        BY <4>1
      <4> HIDE DEF last
      <4>3. last \in Nat /\ i \in Nat /\ last <= i /\ i <= last
        BY <3>2, <4>1, <4>2
      <4> QED
        BY <4>3
    <3> HIDE DEF last
    <3>4. /\ price \in DOMAIN levels <=> T # {} /\ Quote[Produced[last]].qty > 0
          /\ price \in DOMAIN levels => levels[price] = Quote[Produced[last]].qty
      BY <3>1, <3>3 DEF Says
    <3> QED
      BY <3>4 DEF T, price, last
  <2> QED
    BY <2>2 DEF BookInv, BookExact
<1> QED
  BY <1>1, BookInvariant, PTL

(***************************************************************************)
(* How often the connections were first since a rotation, all together. A  *)
(* fold takes the connections one by one, so it is the value, at all of    *)
(* them, of a function on sets of connections.                             *)
(***************************************************************************)
Wins == [Conn -> Nat]
Total(f) == Arb!FoldFunction(+, 0, f)
Picked(s) == CHOOSE x \in s : TRUE
Sums(it, f, S) ==
  \A s \in S : it[s] = IF s = {} THEN 0 ELSE f[Picked(s)] + it[s \ {Picked(s)}]

\* The same, but with w more for c, or for the sets c is in.
More(g, f, c, w) == \A d \in Conn : g[d] = f[d] + (IF d = c THEN w ELSE 0)
MoreSums(jt, it, c, w) == \A s \in SUBSET Conn : jt[s] = it[s] + (IF c \in s THEN w ELSE 0)

\* A set of natural numbers has a least one.
LEMMA Least ==
  ASSUME NEW S \in SUBSET Nat, S # {}
  PROVE  \E n \in S : \A m \in S : n <= m
<1>1. PICK n \in S : \A m \in S : ~ (<<m, n>> \in OpToRel(<, Nat))
  BY NatLessThanWellFounded, WFMin
<1>2. \A m \in S : ~ (m < n)
  BY <1>1 DEF OpToRel
<1> QED
  BY <1>2

\* A set of connections, with and without the one that is taken first.
LEMMA Counting ==
  ASSUME NEW s \in SUBSET Conn
  PROVE  /\ Cardinality(s) \in 0 .. MaxConn
         /\ s # {} => /\ Picked(s) \in s /\ s \ {Picked(s)} \in SUBSET Conn
                      /\ Cardinality(s \ {Picked(s)}) = Cardinality(s) - 1 /\ Cardinality(s) > 0
<1>1. IsFiniteSet(Conn) /\ Cardinality(Conn) = MaxConn
  <2>1. MaxConn - 1 \in Int /\ MaxConn \in Nat \ {0}
    BY BoundsAssumption
  <2>2. IsFiniteSet(0 .. MaxConn - 1) /\ Cardinality(0 .. MaxConn - 1) =
          IF 0 > MaxConn - 1 THEN 0 ELSE (MaxConn - 1) - 0 + 1
    BY <2>1, FS_Interval
  <2> QED
    BY <2>1, <2>2 DEF Conn, Arb!Conn
<1>2. IsFiniteSet(s) /\ Cardinality(s) <= MaxConn
  BY <1>1, FS_Subset
<1>3. Cardinality(s) \in Nat /\ MaxConn \in Nat
  BY <1>2, FS_CardinalityType, BoundsAssumption
<1>4. ASSUME s # {} PROVE Picked(s) \in s
  BY <1>4 DEF Picked
<1>5. ASSUME s # {} PROVE Cardinality(s \ {Picked(s)}) = Cardinality(s) - 1
  BY <1>2, <1>4, <1>5, FS_RemoveElement
<1>6. s # {} => Cardinality(s) # 0
  BY <1>2, FS_EmptySet
<1> QED
  BY <1>2, <1>3, <1>4, <1>5, <1>6

\* If one connection has w wins more, each set it is in has.
LEMMA SumsRelate ==
  ASSUME NEW f \in Wins, NEW it \in [SUBSET Conn -> Nat], Sums(it, f, SUBSET Conn),
         NEW g, NEW jt, Sums(jt, g, SUBSET Conn), NEW c \in Conn, NEW w \in Nat,
         More(g, f, c, w)
  PROVE  MoreSums(jt, it, c, w)
<1> DEFINE Good(s) == jt[s] = it[s] + (IF c \in s THEN w ELSE 0)
           Sizes == {n \in Nat : \E s \in SUBSET Conn : Cardinality(s) = n /\ ~ Good(s)}
<1> HIDE DEF Good
<1> SUFFICES ASSUME NEW q \in SUBSET Conn, ~ Good(q) PROVE FALSE
  BY DEF Good, MoreSums
<1>1. Cardinality(q) \in Nat
  <2>1. Cardinality(q) \in 0 .. MaxConn
    BY Counting, Zenon
  <2> QED
    BY <2>1, BoundsAssumption
<1>2. PICK n \in Sizes : \A m \in Sizes : n <= m
  <2>1. Sizes \in SUBSET Nat
    OBVIOUS
  <2>2. Sizes # {}
    BY <1>1, Zenon
  <2> HIDE DEF Sizes
  <2> QED
    BY <2>1, <2>2, Least, Zenon
<1>3. PICK s \in SUBSET Conn : ~ Good(s) /\ Cardinality(s) = n
  BY <1>2, Zenon
<1>4. \A t \in SUBSET Conn : Cardinality(t) \in Nat /\ ~ Good(t) => n <= Cardinality(t)
  BY <1>2, Zenon
<1>5. s # {}
  <2> SUFFICES ASSUME s = {} PROVE Good(s)
    BY <1>3
  <2>1. it[s] = 0 /\ jt[s] = 0 /\ c \notin s
    BY DEF Sums
  <2> QED
    BY <2>1 DEF Good
<1> DEFINE p == Picked(s)
           t == s \ {p}
<1>6. /\ p \in s /\ t \in SUBSET Conn /\ Cardinality(t) = Cardinality(s) - 1
      /\ Cardinality(s) > 0
  BY <1>5, Counting, Zenon
<1>7. it[s] = f[p] + it[t] /\ jt[s] = g[p] + jt[t]
  BY <1>5 DEF Sums
<1>8. p \notin t /\ (c \in s <=> c = p \/ c \in t)
  BY <1>6
<1> HIDE DEF p, t, Good
<1>9. Good(t)
  <2>1. n \in Nat
    BY <1>2
  <2>2. Cardinality(t) \in Nat /\ ~ (n <= Cardinality(t))
    BY <2>1, <1>3, <1>6
  <2> QED
    BY <2>2, <1>4, <1>6, Zenon
<1>10. f[p] \in Nat /\ it[t] \in Nat /\ it[s] \in Nat /\ g[p] = f[p] + (IF p = c THEN w ELSE 0)
  BY <1>6 DEF Wins, More
<1>11. Good(s)
  BY <1>7, <1>8, <1>9, <1>10 DEF Good
<1> QED
  BY <1>3, <1>11

\* Every set of connections has a sum: by induction on how many they are.
LEMMA SumsExist ==
  ASSUME NEW f \in Wins PROVE \E it \in [SUBSET Conn -> Nat] : Sums(it, f, SUBSET Conn)
<1> DEFINE D(n) == {s \in SUBSET Conn : Cardinality(s) <= n}
           Q(n) == \E it \in [D(n) -> Nat] : Sums(it, f, D(n))
<1>0. ASSUME NEW s \in SUBSET Conn
      PROVE  /\ Cardinality(s) \in Nat /\ Cardinality(s) <= MaxConn
             /\ Cardinality(s) <= 0 => s = {}
             /\ s # {} => /\ Picked(s) \in Conn /\ s \ {Picked(s)} \in SUBSET Conn
                          /\ Cardinality(s \ {Picked(s)}) = Cardinality(s) - 1
  <2>1. Cardinality(s) \in 0 .. MaxConn
    BY Counting, Zenon
  <2>2. s # {} => /\ Picked(s) \in s /\ s \ {Picked(s)} \in SUBSET Conn
                  /\ Cardinality(s \ {Picked(s)}) = Cardinality(s) - 1 /\ Cardinality(s) > 0
    BY Counting, Zenon
  <2> QED
    BY <2>1, <2>2, BoundsAssumption
<1>1. Q(0)
  <2> DEFINE it == [s \in D(0) |-> 0]
  <2>1. \A s \in D(0) : s = {}
    BY <1>0
  <2>2. Sums(it, f, D(0))
    BY <2>1 DEF Sums
  <2>3. it \in [D(0) -> Nat]
    OBVIOUS
  <2> QED
    BY <2>2, <2>3
<1>2. ASSUME NEW n \in Nat \ {0}, Q(n - 1) PROVE Q(n)
  <2>1. PICK it \in [D(n - 1) -> Nat] : Sums(it, f, D(n - 1))
    BY <1>2
  <2> DEFINE jt == [s \in D(n) |-> IF s = {} THEN 0 ELSE f[Picked(s)] + it[s \ {Picked(s)}]]
  <2>2. ASSUME NEW s \in D(n), s # {}
        PROVE  Picked(s) \in Conn /\ s \ {Picked(s)} \in D(n - 1)
    <3>1. Cardinality(s) \in Nat /\ s \ {Picked(s)} \in SUBSET Conn
          /\ Cardinality(s \ {Picked(s)}) = Cardinality(s) - 1 /\ Picked(s) \in Conn
      BY <1>0, <2>2
    <3> HIDE DEF Picked
    <3> QED
      BY <3>1, <2>2
  <2>3. D(n - 1) \subseteq D(n)
    <3> SUFFICES ASSUME NEW s \in D(n - 1) PROVE Cardinality(s) <= n
      OBVIOUS
    <3>1. Cardinality(s) \in Nat /\ Cardinality(s) <= n - 1
      BY <1>0
    <3> QED
      BY <3>1
  <2>4. jt \in [D(n) -> Nat]
    BY <2>2 DEF Wins
  <2>5. \A s \in D(n - 1) : jt[s] = it[s]
    BY <2>1, <2>3 DEF Sums
  <2>6. Sums(jt, f, D(n))
    <3> SUFFICES ASSUME NEW s \in D(n), s # {} PROVE jt[s] = f[Picked(s)] + jt[s \ {Picked(s)}]
      BY DEF Sums
    <3>1. jt[s] = f[Picked(s)] + it[s \ {Picked(s)}]
      OBVIOUS
    <3> QED
      BY <2>2, <2>5, <3>1, Zenon
  <2> QED
    BY <2>4, <2>6
<1> HIDE DEF Q
<1>3. Q(MaxConn)
  <2> DEFINE S == {n \in Nat : ~ Q(n)}
  <2> SUFFICES ASSUME S # {} PROVE FALSE
    BY BoundsAssumption
  <2>1. PICK n \in S : \A m \in S : n <= m
    BY Least
  <2>2. n \in Nat \ {0}
    BY <1>1, <2>1
  <2>3. n - 1 \in Nat /\ ~ (n <= n - 1)
    BY <2>2
  <2>4. Q(n - 1)
    BY <2>1, <2>3
  <2> QED
    BY <1>2, <2>1, <2>2, <2>4
<1>4. D(MaxConn) = SUBSET Conn
  BY <1>0
<1> HIDE DEF D
<1> QED
  BY <1>3, <1>4 DEF Q

\* The fold is such a function's value at all connections.
LEMMA TotalDefined ==
  ASSUME NEW f \in Wins
  PROVE  \E it \in [SUBSET Conn -> Nat] : Sums(it, f, SUBSET Conn) /\ Total(f) = it[Conn]
<1> DEFINE Is(it) ==
             it = [s \in SUBSET DOMAIN f |-> IF s = {} THEN 0 ELSE f[Picked(s)] + it[s \ {Picked(s)}]]
           jt == CHOOSE it : Is(it)
<1>1. Total(f) = jt[DOMAIN f]
  BY DEF Total, Arb!FoldFunction, Arb!FoldFunctionOnSet, Arb!MapThenFoldSet, Picked
<1>2. DOMAIN f = Conn
  BY DEF Wins
<1>3. PICK it \in [SUBSET Conn -> Nat] : Sums(it, f, SUBSET Conn)
  BY SumsExist
<1>4. Is(it)
  BY <1>2, <1>3 DEF Sums
<1>5. Is(jt)
  BY <1>4
<1> HIDE DEF jt
<1>6. Sums(jt, f, SUBSET Conn)
  BY <1>2, <1>5 DEF Sums
<1>7. More(f, f, 0, 0)
  BY DEF Wins, More
<1>8. 0 \in Conn
  BY BoundsAssumption DEF Conn, Arb!Conn
<1>9. MoreSums(jt, it, 0, 0)
  BY <1>3, <1>6, <1>7, <1>8, SumsRelate
<1>10. jt[Conn] = it[Conn]
  BY <1>9 DEF MoreSums
<1> QED
  BY <1>1, <1>2, <1>3, <1>10

\* Where one connection has w wins more, there are w more in total.
LEMMA TotalFacts ==
  ASSUME NEW f \in Wins
  PROVE  /\ Total(f) \in Nat /\ ((\A d \in Conn : f[d] = 0) => Total(f) = 0)
         /\ \A c \in Conn, w \in Nat :
              /\ [f EXCEPT ![c] = @ + w] \in Wins
              /\ Total([f EXCEPT ![c] = @ + w]) = Total(f) + w
<1>1. PICK it \in [SUBSET Conn -> Nat] : Sums(it, f, SUBSET Conn) /\ Total(f) = it[Conn]
  BY TotalDefined
<1>2. ASSUME \A d \in Conn : f[d] = 0 PROVE Total(f) = 0
  <2> DEFINE zero == [s \in SUBSET Conn |-> 0]
  <2>1. zero \in [SUBSET Conn -> Nat] /\ Sums(zero, f, SUBSET Conn)
    BY <1>2, Counting DEF Sums
  <2>2. 0 \in Conn
    BY BoundsAssumption DEF Conn, Arb!Conn
  <2>3. More(f, f, 0, 0)
    BY DEF Wins, More
  <2>4. zero[Conn] = 0
    OBVIOUS
  <2> HIDE DEF zero
  <2>5. MoreSums(it, zero, 0, 0)
    BY <1>1, <2>1, <2>2, <2>3, SumsRelate
  <2> QED
    BY <1>1, <2>4, <2>5 DEF MoreSums
<1>3. ASSUME NEW c \in Conn, NEW w \in Nat
      PROVE  [f EXCEPT ![c] = @ + w] \in Wins /\ Total([f EXCEPT ![c] = @ + w]) = Total(f) + w
  <2> DEFINE g == [f EXCEPT ![c] = @ + w]
  <2>1. g \in Wins /\ More(g, f, c, w)
    BY DEF Wins, More
  <2> HIDE DEF g
  <2>2. PICK jt \in [SUBSET Conn -> Nat] : Sums(jt, g, SUBSET Conn) /\ Total(g) = jt[Conn]
    BY <2>1, TotalDefined
  <2>3. MoreSums(jt, it, c, w)
    BY <1>1, <2>1, <2>2, SumsRelate
  <2> QED
    BY <1>1, <2>1, <2>2, <2>3 DEF g, MoreSums
<1> QED
  BY <1>1, <1>2, <1>3

(***************************************************************************)
(* The types of both runners and the manager. What the connections have    *)
(* won since the last rotation has all gone downstream.                    *)
(***************************************************************************)
WinsInv == wins_window \in Wins /\ Total(wins_window) <= Len(fwd)

LEMMA ArbitrateWins ==
  ASSUME NEW s, NEW e \in Nat, s.fwd \in Seq(Nat), s.wins \in Nat
  PROVE  LET t == Arb!Arbitrate(s, e)
         IN t.fwd \in Seq(Nat) /\ t.wins \in Nat /\ Len(t.fwd) + s.wins = Len(s.fwd) + t.wins
<1> DEFINE t == Arb!Arbitrate(s, e)
           f == s.fwd
           n == s.wins
           g == Append(f, e)
           r == Arb!Judge(s, e)
<1>1. t.fwd = IF r.fresh THEN g ELSE f
  BY DEF Arb!Arbitrate
<1>2. t.wins = IF r.fresh THEN n + 1 ELSE n
  BY DEF Arb!Arbitrate
<1> HIDE DEF r, t
<1>3. f \in Seq(Nat) /\ g \in Seq(Nat) /\ Len(g) = Len(f) + 1 /\ Len(f) \in Nat /\ n \in Nat
  BY AppendProperties, LenProperties
<1> HIDE DEF f, g, n
<1>4. CASE r.fresh
  <2>1. t.fwd = g /\ t.wins = n + 1
    BY <1>1, <1>2, <1>4
  <2>2. t.fwd \in Seq(Nat) /\ t.wins \in Nat /\ Len(t.fwd) + n = Len(f) + t.wins
    <3> DEFINE i == Len(f)
               j == Len(g)
    <3>1. i \in Nat /\ j = i + 1 /\ n \in Nat
      BY <1>3
    <3> HIDE DEF i, j
    <3>2. j + n = i + (n + 1) /\ n + 1 \in Nat
      BY <3>1
    <3> QED
      BY <1>3, <2>1, <3>2 DEF i, j
  <2> QED
    BY <2>2, Zenon DEF t, f, n
<1>5. CASE ~ r.fresh
  <2>1. t.fwd = f /\ t.wins = n
    BY <1>1, <1>2, <1>5
  <2>2. t.fwd \in Seq(Nat) /\ t.wins \in Nat /\ Len(t.fwd) + n = Len(f) + t.wins
    BY <1>3, <2>1
  <2> QED
    BY <2>2, Zenon DEF t, f, n
<1> QED
  BY <1>4, <1>5

LEMMA ArbitratedWins ==
  ASSUME NEW es \in Seq(Nat), Len(es) \in 0 .. 2, fwd \in Seq(Nat)
  PROVE  LET s == Arb!Arbitrated(es)
         IN s.wins \in Nat /\ s.fwd \in Seq(Nat) /\ Len(s.fwd) = Len(fwd) + s.wins
<1> DEFINE u == Arb!Undecided
           a == Arb!Arbitrate(u, es[1])
           b == Arb!Arbitrate(a, es[2])
           s == Arb!Arbitrated(es)
<1>1. u.fwd = fwd /\ u.wins = 0 /\ Len(fwd) \in Nat
  BY DEF Arb!Undecided
<1> HIDE DEF u
<1>2. Len(es) = 0 \/ Len(es) = 1 \/ Len(es) = 2
  <2> DEFINE n == Len(es)
  <2>1. n \in 0 .. 2
    OBVIOUS
  <2> HIDE DEF n
  <2>2. n = 0 \/ n = 1 \/ n = 2
    BY <2>1
  <2> QED
    BY <2>2 DEF n
<1>3. CASE Len(es) = 0
  <2>1. s = u
    BY <1>3, ArbitratedCases DEF u
  <2> QED
    BY <1>1, <2>1
<1>4. ASSUME 1 \in 1 .. Len(es)
      PROVE  a.fwd \in Seq(Nat) /\ a.wins \in Nat /\ Len(a.fwd) = Len(fwd) + a.wins
  <2>1. es[1] \in Nat
    BY <1>4
  <2>2. u.fwd \in Seq(Nat) /\ u.wins \in Nat
    BY <1>1
  <2>3. a.fwd \in Seq(Nat) /\ a.wins \in Nat /\ Len(a.fwd) + u.wins = Len(u.fwd) + a.wins
    BY <2>1, <2>2, ArbitrateWins, Zenon
  <2> HIDE DEF a
  <2>4. Len(a.fwd) \in Nat
    BY <2>3
  <2> QED
    BY <1>1, <2>3, <2>4
<1> HIDE DEF a
<1>5. CASE Len(es) = 1
  <2>1. s = a
    BY <1>5, ArbitratedCases DEF u, a
  <2> QED
    BY <1>4, <1>5, <2>1
<1>6. CASE Len(es) = 2
  <2>1. s = b
    BY <1>6, ArbitratedCases DEF u, a
  <2>2. es[2] \in Nat /\ 1 \in 1 .. Len(es)
    <3>1. 1 \in 1 .. 2 /\ 2 \in 1 .. 2
      OBVIOUS
    <3>2. 1 \in 1 .. Len(es) /\ 2 \in 1 .. Len(es)
      BY <1>6, <3>1, Zenon
    <3> QED
      BY <3>2, ElementOfSeq
  <2>3. a.fwd \in Seq(Nat) /\ a.wins \in Nat /\ Len(a.fwd) = Len(fwd) + a.wins
    BY <1>4, <2>2
  <2>4. b.fwd \in Seq(Nat) /\ b.wins \in Nat /\ Len(b.fwd) + a.wins = Len(a.fwd) + b.wins
    BY <2>2, <2>3, ArbitrateWins, Zenon
  <2> HIDE DEF b, s
  <2>5. Len(a.fwd) \in Nat /\ Len(b.fwd) \in Nat
    BY <2>3, <2>4
  <2>6. Len(b.fwd) = Len(fwd) + b.wins
    <3> DEFINE i == Len(a.fwd)
               j == Len(b.fwd)
               k == Len(fwd)
               x == a.wins
               y == b.wins
    <3>1. i \in Nat /\ j \in Nat /\ k \in Nat /\ x \in Nat /\ y \in Nat
      BY <1>1, <2>3, <2>4, <2>5
    <3>2. i = k + x /\ j + x = i + y
      BY <2>3, <2>4, Zenon
    <3> HIDE DEF i, j, k, x, y
    <3>3. j = k + y
      BY <3>1, <3>2
    <3> QED
      BY <3>3 DEF j, k, y
  <2>7. s.wins \in Nat /\ s.fwd \in Seq(Nat) /\ Len(s.fwd) = Len(fwd) + s.wins
    BY <2>1, <2>4, <2>6, Zenon
  <2> QED
    BY <2>7, Zenon DEF s
<1> QED
  BY <1>2, <1>3, <1>5, <1>6

\* The connection a message came from is credited with its events that were new.
LEMMA WinsReceived ==
  ASSUME ArbInv, WinsInv, plan.arb, Arb!Receive PROVE WinsInv'
<1> DEFINE m == Head(raw)
           f == m.frame
           u == Arb!process_unified_message(sub, proc, f)
           s == Arb!Arbitrated(u.ev)
<1>1. /\ raw # << >>
      /\ IF ~ u.ok \/ (dropped /\ s.fwd # fwd) THEN UNCHANGED <<fwd, wins_window>>
         ELSE fwd' = s.fwd /\ wins_window' = [wins_window EXCEPT ![m.from] = @ + s.wins]
  BY DEF Arb!Receive
<1>2. raw \in Seq(Message) /\ sub \in Handler!Subscription /\ fwd \in Seq(Nat)
  BY DEF ArbInv, ArbTypes
<1>3. m = raw[1] /\ m \in Message /\ 1 \in 1 .. Len(raw)
  <2>1. Head(raw) = raw[1] /\ Head(raw) \in Message /\ Len(Tail(raw)) \in Nat /\ Len(Tail(raw)) + 1 = Len(raw)
    BY <1>1, <1>2, QueuedTail
  <2> QED
    BY <2>1
<1>4. f \in Frame /\ f.kind \in ChannelKinds /\ FrameSound(sub, spoilt, f) /\ m.from \in Conn
  BY <1>3 DEF ArbInv, ChannelSound, Message
<1> HIDE DEF f, m
<1>5. u.ok => u.ev \in Seq(Nat) /\ Len(u.ev) \in 0 .. 2
  BY <1>2, <1>4, Processed
<1> HIDE DEF u
<1>6. CASE UNCHANGED <<fwd, wins_window>>
  BY <1>6 DEF WinsInv, Wins, Conn, Arb!Conn
<1>7. CASE u.ok /\ fwd' = s.fwd /\ wins_window' = [wins_window EXCEPT ![m.from] = @ + s.wins]
  <2> DEFINE es == u.ev
             c == m.from
             w == s.wins
  <2>1. es \in Seq(Nat) /\ Len(es) \in 0 .. 2
    BY <1>5, <1>7
  <2> HIDE DEF es
  <2>2. LET r == Arb!Arbitrated(es)
        IN r.wins \in Nat /\ r.fwd \in Seq(Nat) /\ Len(r.fwd) = Len(fwd) + r.wins
    BY <1>2, <2>1, ArbitratedWins
  <2>3. w \in Nat /\ fwd' \in Seq(Nat) /\ Len(fwd') = Len(fwd) + w
    BY <1>7, <2>2 DEF es
  <2>4. wins_window' = [wins_window EXCEPT ![c] = @ + w] /\ c \in Conn
    BY <1>4, <1>7
  <2> HIDE DEF c, w, s
  <2>5. wins_window \in Wins /\ Total(wins_window) <= Len(fwd) /\ Len(fwd) \in Nat
    BY <1>2 DEF WinsInv
  <2>6. /\ [wins_window EXCEPT ![c] = @ + w] \in Wins /\ Total(wins_window) \in Nat
        /\ Total([wins_window EXCEPT ![c] = @ + w]) = Total(wins_window) + w
    BY <2>3, <2>4, <2>5, TotalFacts
  <2> DEFINE x == wins_window'
  <2>7. x \in Wins /\ Total(x) = Total(wins_window) + w
    BY <2>4, <2>6
  <2>8. Total(x) <= Len(fwd')
    BY <2>3, <2>5, <2>6, <2>7
  <2> QED
    BY <2>7, <2>8 DEF WinsInv, Wins, Conn, Arb!Conn
<1> QED
  BY <1>1, <1>6, <1>7

\* A rotation starts the count again; only an event sent downstream adds to it.
LEMMA WinsStep == ASSUME ArbInv, WinsInv, [Next]_vars PROVE WinsInv'
<1>1. CASE UNCHANGED <<fwd, wins_window>>
  BY <1>1 DEF WinsInv, Wins, Conn, Arb!Conn
<1>2. CASE RunArb
  <2>1. plan.arb
    BY <1>2 DEF RunArb, ArbStop, ArbRotate, ByArb
  <2>2. CASE Arb!Receive
    BY <2>1, <2>2, WinsReceived
  <2>3. CASE Arb!Rotate
    <3> DEFINE zero == [c \in Conn |-> 0]
    <3>1. wins_window' = zero /\ fwd' = fwd
      BY <2>3 DEF Arb!Rotate, Conn
    <3>2. zero \in Wins /\ \A c \in Conn : zero[c] = 0
      BY DEF Wins
    <3> HIDE DEF zero
    <3>3. Total(zero) = 0
      BY <3>2, TotalFacts
    <3>4. Len(fwd) \in Nat
      BY DEF ArbInv, ArbTypes
    <3>5. Total(zero) <= Len(fwd)
      BY <3>3, <3>4
    <3> QED
      BY <3>1, <3>2, <3>5 DEF WinsInv, Wins, Conn, Arb!Conn
  <2>4. CASE Arb!Exchange
    <3>1. CASE Arb!Happen
      BY <1>1, <3>1 DEF Arb!Happen, Arb!groupVars
    <3>2. CASE ~ Arb!Happen
      <4>1. UNCHANGED <<fwd, wins_window>>
        BY <2>4, ArbExchangeKeeps
      <4> QED
        BY <1>1, <4>1
    <3> QED
      BY <3>1, <3>2
  <2>5. CASE Arb!Tasks
    BY <1>1, <2>5 DEF Arb!Tasks, Arb!TaskSubscribe, Arb!TaskConnectFails, Arb!TaskSnapshot, Arb!TaskSnapshotFails, Arb!TaskRead,
                      Arb!TaskCancelled, Arb!taskOnly, Arb!groupVars
  <2>6. CASE Arb!Spawn \/ Arb!Stop
    BY <1>1, <2>6 DEF Arb!Spawn, Arb!Stop
  <2> QED
    BY <1>2, <2>2, <2>3, <2>4, <2>5, <2>6 DEF RunArb, ArbStop, ArbRotate
<1>3. CASE ~ RunArb
  BY <1>1, <1>3 DEF Next, Spawn, RunHandler, HandlerLoop, ByHandler, ReceiverGone, Adapt, AdapterEnds,
                    WaitForAny, Shutdown, notAborted, vars, arbVars
<1> QED
  BY <1>2, <1>3

(***************************************************************************)
(* Limits of the handler's connector and processor that hold after the     *)
(* loop, too.                                                              *)
(***************************************************************************)
HandlerLimits ==
  ~ plan.arb =>
    /\ wire \in {"down", "up"} /\ proc \in 0 .. 2 * HandlerEvents
    /\ sub.venue = "binance" => conn.sync # "Resynchronizing"
    /\ sub.venue = "deribit" => pc = "failed" \/ conn.pending \subseteq {conn.waiting}

\* Where a step takes the task in run() says most of it.
LEMMA LiveLimits ==
  ASSUME HandlerInv', pc' \in Live
  PROVE  /\ sub'.venue = "binance" => conn'.sync # "Resynchronizing"
         /\ sub'.venue = "deribit" /\ pc' \notin {"snapshot", "loop"} => conn'.pending \subseteq {conn'.waiting}
<1>1. sub'.stream \in {"L2", "Trade"} /\ (pc' \in Asking => sub'.venue = "deribit")
  BY DEF HandlerInv, HandlerTypes, Handler!Subscription, Phased, Asking
<1>2. CASE sub'.venue = "binance"
  <2>1. pc' \in {"connect", "validate", "subscribe", "snapshot", "loop"}
    BY <1>1, <1>2 DEF Live, Asking
  <2>2. BinanceConn'
    BY DEF HandlerInv
  <2> QED
    BY <1>1, <1>2, <2>1, <2>2 DEF BinanceConn, Handler!Binance!New
<1>3. CASE sub'.venue = "deribit"
  <2>1. pc' \in {"connect", "auth", "heartbeat", "asked", "validate", "subscribe", "snapshot", "loop"}
    BY DEF Live
  <2>2. DeribitConn'
    BY DEF HandlerInv
  <2> QED
    BY <1>3, <2>1, <2>2 DEF DeribitConn, Request, Handler!Deribit!New
<1> QED
  BY <1>2, <1>3

\* The connector after a frame.
LEMMA ReadLimits ==
  ASSUME HandlerInv, HandlerLimits, ~ plan.arb, Handler!ReadFrame
  PROVE  /\ sub.venue = "binance" => conn'.sync # "Resynchronizing"
         /\ sub.venue = "deribit" => conn'.pending \subseteq {conn'.waiting}
<1> DEFINE h == Head(sock)
<1>1. /\ pc = "loop" /\ sock # << >> /\ sock \in Seq(Frame)
      /\ conn' = Handler!next_message(sub.venue, conn, h).conn
  BY DEF Handler!ReadFrame, Handler!Reading, Handler!v, HandlerInv, HandlerTypes
<1>2. h \in Frame
  BY <1>1, CarriedTail
<1> HIDE DEF h
<1>3. CASE sub.venue = "binance"
  <2>1. conn \in BinanceRec /\ conn.sync # "Resynchronizing" /\ conn' = Handler!Binance!NextMessage(conn, h).conn
    BY <1>1, <1>3 DEF HandlerInv, ConnTypes, HandlerLimits, Handler!next_message
  <2>2. \A c \in BinanceRec : \A x :
          /\ [c EXCEPT !.status = x].sync = c.sync
          /\ [c EXCEPT !.status = x, !.sync = "Disconnected"].sync = "Disconnected"
          /\ [c EXCEPT !.buffer = x].sync = c.sync
          /\ [c EXCEPT !.sync = "Synchronized", !.last = x].sync = "Synchronized"
    BY DEF BinanceRec
  <2>3. conn'.sync \in {conn.sync, "Disconnected", "Synchronized"}
    BY <2>1, <2>2 DEF Handler!Binance!NextMessage, Handler!Binance!DepthUpdate, Handler!Binance!Again,
       Handler!Binance!Hand, Handler!Binance!Error, Handler!Binance!None_, Handler!Binance!NotText
  <2> QED
    BY <1>3, <2>1, <2>3
<1>4. CASE sub.venue = "deribit"
  <2>1. conn \in DeribitRec /\ conn' = Handler!Deribit!NextMessage(conn, h).conn
        /\ conn.pending \subseteq {conn.waiting}
    BY <1>1, <1>4 DEF HandlerInv, ConnTypes, HandlerLimits, Handler!next_message
  <2>2. \A c \in DeribitRec : \A x :
          /\ [c EXCEPT !.status = x].pending = c.pending /\ [c EXCEPT !.status = x].waiting = c.waiting
          /\ [c EXCEPT !.pending = c.pending \ {x}].pending = c.pending \ {x}
          /\ [c EXCEPT !.pending = c.pending \ {x}].waiting = c.waiting
    BY DEF DeribitRec
  <2>3. \/ conn' = conn \/ conn' = [conn EXCEPT !.status = "Disconnected"]
        \/ conn' = [conn EXCEPT !.pending = conn.pending \ {h.ev[1]}]
    BY <2>1 DEF Handler!Deribit!NextMessage, Handler!Deribit!ProcessFrame, Handler!Deribit!Hand,
       Handler!Deribit!Error, Handler!Deribit!None_
  <2>4. conn'.pending \subseteq conn.pending /\ conn'.waiting = conn.waiting
    <3> DEFINE x == h.ev[1]
    <3> HIDE DEF x
    <3>1. \/ conn' = conn \/ conn' = [conn EXCEPT !.status = "Disconnected"]
          \/ conn' = [conn EXCEPT !.pending = conn.pending \ {x}]
      BY <2>3 DEF x
    <3> DEFINE a == [conn EXCEPT !.status = "Disconnected"]
               b == [conn EXCEPT !.pending = conn.pending \ {x}]
    <3>2. a.pending = conn.pending /\ a.waiting = conn.waiting
      BY <2>1, <2>2, Zenon
    <3>3. b.pending = conn.pending \ {x} /\ b.waiting = conn.waiting
      BY <2>1, <2>2, Zenon
    <3> HIDE DEF a, b
    <3>4. CASE conn' = a
      BY <3>2, <3>4
    <3>5. CASE conn' = b
      BY <3>3, <3>5
    <3> QED
      BY <3>1, <3>4, <3>5 DEF a, b
  <2> QED
    BY <1>4, <2>1, <2>4
<1> QED
  BY <1>3, <1>4

\* Where OKX's chain may stand after the events of a message it came to.
LEMMA FollowingFacts ==
  ASSUME NEW venue, NEW f, Batch(venue, f.ev), NEW p
  PROVE  Handler!Okx!Following(p, Handler!Okx!Reached(f)) \in {p, 2 * f.ev[1], 2 * f.ev[Len(f.ev)]}
<1> DEFINE es == Handler!Okx!Reached(f)
<1>1. f.ev \in Seq(Nat) /\ Len(f.ev) \in 1 .. 2 /\ f.ev # << >>
  BY BatchFacts
<1>2. Handler!Okx!Following(p, es) = IF es = << >> THEN p ELSE 2 * es[Len(es)]
  BY DEF Handler!Okx!Following, Handler!Okx!FinalId
<1>3. /\ f.bad # "time" => es = f.ev
      /\ f.bad = "time" => es = Prefix(f.ev, 1)
  BY DEF Handler!Okx!Reached, Prefix
<1> HIDE DEF es
<1>4. CASE f.bad # "time"
  BY <1>2, <1>3, <1>4 DEF es
<1>5. CASE f.bad = "time"
  <2>1. /\ es \in Seq(Nat) /\ Len(es) = Len(f.ev) - 1
        /\ \A i \in 1 .. Len(es) : es[i] = f.ev[i]
    BY <1>1, <1>3, <1>5, PrefixFacts
  <2>2. Len(es) = 0 \/ Len(es) = 1
    <3>1. \A k \in 1 .. 2 : k - 1 = 0 \/ k - 1 = 1
      OBVIOUS
    <3> QED
      BY <1>1, <2>1, <3>1
  <2>3. Len(es) = 0 => es = << >>
    BY <2>1, EmptySeq
  <2>4. Len(es) = 1 => es[Len(es)] = f.ev[1]
    <3>1. 1 \in 1 .. 1
      OBVIOUS
    <3> QED
      BY <2>1, <3>1
  <2> QED
    BY <1>2, <2>2, <2>3, <2>4 DEF es
<1> QED
  BY <1>4, <1>5

\* What OKX's processor makes of the last id.
LEMMA ReadProc ==
  ASSUME HandlerInv, EventsInv, ~ plan.arb, Handler!ReadFrame, proc \in 0 .. 2 * HandlerEvents
  PROVE  proc' \in 0 .. 2 * HandlerEvents
<1> DEFINE h == Head(sock)
           u == Handler!process_unified_message(sub, proc, h)
<1>1. /\ pc = "loop" /\ sock # << >> /\ sock \in Seq(Frame) /\ (proc' = proc \/ proc' = u.proc)
      /\ sub.stream \in {"L2", "Trade"} /\ sub.venue \in {"binance", "okx", "deribit"}
      /\ sub.chained \in BOOLEAN
  BY DEF Handler!ReadFrame, Handler!Reading, Handler!v, Handler!End, HandlerInv, HandlerTypes,
         Handler!Subscription, Handler!Venue
<1>2. h \in Frame
  BY <1>1, CarriedTail
<1>3. h.kind = "data" => Batch(sub.venue, h.ev) /\ Covered(h.ev) \subseteq start .. sent /\ start # 0
  BY <1>1, FirstFrame DEF HandlerInv
<1>4. start \in Nat /\ sent \in Nat /\ sent <= market /\ market <= HandlerEvents /\ HandlerEvents \in Nat
      /\ market \in Nat
  BY BoundsAssumption DEF HandlerInv, HandlerTypes, EventsInv
<1> HIDE DEF h
<1>5. CASE sub.venue # "okx" \/ sub.stream = "Trade" \/ h.kind # "data"
  <2>1. u.proc = proc \/ (sub.venue = "okx" /\ sub.stream = "L2" /\ h.kind \notin {"data", "ack", "error"})
    BY <1>1, <1>5
    DEF Handler!process_unified_message, Handler!process_message, Handler!process_trade_message,
        Handler!Okx!ProcessMessage, Handler!Okx!ProcessTradeMessage, Handler!Okx!Updates, Handler!Okx!Failure,
        Handler!Binance!ProcessMessage, Handler!Binance!ProcessTradeMessage, Handler!Binance!Updates,
        Handler!Binance!Failure, Handler!Deribit!ProcessMessage, Handler!Deribit!Updates, Handler!Deribit!Failure
  <2>2. CASE sub.venue = "okx" /\ h.kind \notin {"data", "ack", "error"}
    <3>1. h.kind \in {"ping", "close", "eof", "fault"}
      BY <1>2, <2>2 DEF Frame, Kinds, Handler!ControlFrames
    <3>2. Handler!next_message(sub.venue, conn, h).ret # "message"
      BY <2>2, <3>1 DEF Handler!next_message, Handler!Okx!NextMessage, Handler!Okx!None_, Handler!Okx!Error
    <3>3. proc' = proc
      BY <3>2 DEF Handler!ReadFrame, Handler!v, h
    <3> QED
      BY <3>3
  <2> QED
    BY <1>1, <2>1, <2>2
<1>6. CASE sub.venue = "okx" /\ sub.stream = "L2" /\ h.kind = "data"
  <2> DEFINE a == h.ev[1]
             q == h.ev[Len(h.ev)]
  <2>1. a \in Nat /\ q \in Nat /\ a \in start .. sent /\ q \in start .. sent
    BY <1>3, <1>6, BatchFacts
  <2>2. u = Handler!Okx!ProcessMessage(proc, h, sub.chained)
    BY <1>6 DEF Handler!process_unified_message, Handler!process_message
  <2>3. a # 0 /\ a <= q
    <3>1. a <= q
      BY <1>3, <1>6, BatchFacts
    <3> QED
      BY <1>3, <1>4, <1>6, <2>1, <3>1
  <2>4. u.proc \in {proc, 2 * a, 2 * q}
    <3>1. CASE sub.chained = TRUE
      <4>1. proc \in Nat
        OBVIOUS
      <4>2. u = Handler!Okx!ProcessMessage(proc, h, TRUE)
        BY <2>2, <3>1
      <4> HIDE DEF u
      <4>3. ChainOutcome(proc, h, a, q, u)
        BY <1>3, <1>6, <2>1, <2>3, <4>1, <4>2, OkxChain
      <4>4. Len(h.ev) = 1 \/ Len(h.ev) = 2
        BY <1>3, <1>6, BatchFacts
      <4>5. Len(h.ev) = 1 => q = a
        BY <4>4
      <4>6. a \in Nat /\ q \in Nat
        BY <2>1
      <4> HIDE DEF a, q
      <4>7. CASE Stops(h) \/ (proc # 0 /\ 2 * a - 2 # proc)
        BY <4>3, <4>7 DEF ChainOutcome
      <4>8. CASE ~ Stops(h) /\ (proc = 0 \/ 2 * a - 2 = proc)
        <5>1. h.bad # "text" /\ (h.bad = "time" => Len(h.ev) = 2)
          BY <4>4, <4>8 DEF Stops
        <5>2. CASE Len(h.ev) = 2 /\ (q # a + 1 \/ h.bad = "time")
          BY <4>3, <4>8, <5>2 DEF ChainOutcome
        <5>3. CASE ~ (Len(h.ev) = 2 /\ (q # a + 1 \/ h.bad = "time"))
          <6>1. u.proc = 2 * q
            BY <4>3, <4>4, <4>8, <5>1, <5>3 DEF ChainOutcome
          <6> QED
            BY <6>1
        <5> QED
          BY <5>2, <5>3
      <4> QED
        BY <4>7, <4>8
    <3>2. CASE sub.chained = FALSE
      <4>1. u.proc \in {proc, 2 * q, Handler!Okx!Following(proc, Handler!Okx!Reached(h))}
        BY <1>6, <2>2, <3>2 DEF Handler!Okx!ProcessMessage, Handler!Okx!Failure, Handler!Okx!Updates,
           Handler!Okx!FinalId, Handler!Okx!LastEvent
      <4>2. Handler!Okx!Following(proc, Handler!Okx!Reached(h)) \in {proc, 2 * a, 2 * q}
        BY <1>3, <1>6, FollowingFacts
      <4> QED
        BY <4>1, <4>2
    <3> QED
      BY <1>1, <3>1, <3>2
  <2> HIDE DEF a, q, u
  <2>5. 2 * a \in 0 .. 2 * HandlerEvents /\ 2 * q \in 0 .. 2 * HandlerEvents
    BY <1>4, <2>1
  <2> QED
    BY <1>1, <2>4, <2>5
<1> QED
  BY <1>1, <1>5, <1>6

\* The answer to Deribit's request for the subscription leaves none pending.
LEMMA AwaitLimits ==
  ASSUME HandlerInv, ~ plan.arb, Handler!AwaitFrame, sub.venue = "deribit", pc' \in {"snapshot", "loop"}
  PROVE  conn'.pending \subseteq {conn'.waiting}
<1> DEFINE f == Head(sock)
           r == Handler!Deribit!AwaitFrame(conn, f)
<1>1. /\ pc \in Asking /\ sock # << >> /\ sock \in Seq(Frame) /\ conn \in DeribitRec
      /\ conn.pending = {conn.waiting}
  BY DEF Handler!AwaitFrame, Asking, HandlerInv, HandlerTypes, ConnTypes, DeribitConn, Request
<1>2. r.ret \notin {"error", "again"} /\ Handler!Answered(r.conn)
  BY <1>1 DEF Handler!AwaitFrame, Handler!End, Asking
<1>3. f \in Frame /\ f = sock[1] /\ 1 \in 1 .. Len(sock)
  <2> DEFINE q == sock
  <2>1. q \in Seq(Frame) /\ q # << >>
    BY <1>1
  <2> HIDE DEF q
  <2>2. Head(q) = q[1] /\ Head(q) \in Frame /\ Len(q) \in Nat /\ Len(q) > 0
    BY <2>1, HeadTailProperties, EmptySeq
  <2>3. 1 \in 1 .. Len(q)
    BY <2>2
  <2> QED
    BY <2>2, <2>3 DEF q
<1>4. f.kind \in {"ack", "error"} => f.ev = <<conn.waiting>>
  BY <1>1, <1>3 DEF HandlerInv, DeribitConn, IsAnswer, Live, Asking
<1> HIDE DEF f
<1>5. r.conn \in DeribitRec /\ r.conn.waiting = 0 /\ r.conn.pending = {}
  BY <1>1, <1>2, <1>3, <1>4, AwaitConn
<1> HIDE DEF r
<1>6. conn' = r.conn \/ conn' = Handler!Deribit!Subscribed(r.conn)
  BY <1>2 DEF Handler!Answered
<1>7. conn' = r.conn \/ conn' = [r.conn EXCEPT !.active = TRUE]
  BY <1>6 DEF Handler!Deribit!Subscribed
<1>8. \A c \in DeribitRec : [c EXCEPT !.active = TRUE].pending = c.pending
  BY DEF DeribitRec
<1> QED
  BY <1>5, <1>7, <1>8

LEMMA HandlerLimitsStep ==
  ASSUME HandlerInv, ArbInv, EventsInv, HandlerLimits, [Next]_vars PROVE HandlerLimits'
<1>1. HandlerInv' /\ sub' = sub /\ plan' = plan
  BY HandlerNext, EventsStep
<1> SUFFICES ASSUME ~ plan.arb PROVE HandlerLimits'
  BY <1>1 DEF HandlerLimits
<1>2. /\ wire \in {"down", "up"} /\ proc \in 0 .. 2 * HandlerEvents
      /\ sub.venue = "binance" => conn.sync # "Resynchronizing"
      /\ sub.venue = "deribit" => pc = "failed" \/ conn.pending \subseteq {conn.waiting}
  BY DEF HandlerLimits
<1>3. CASE UNCHANGED <<conn, wire, proc>> /\ (pc = "failed" => pc' = "failed")
  BY <1>1, <1>2, <1>3 DEF HandlerLimits
<1>4. ASSUME pc' \in Live, wire' \in {"down", "up"}, proc' = proc,
             sub.venue = "deribit" => pc' \notin {"snapshot", "loop"} \/ conn'.pending \subseteq {conn'.waiting}
      PROVE  HandlerLimits'
  <2>1. /\ sub'.venue = "binance" => conn'.sync # "Resynchronizing"
        /\ sub'.venue = "deribit" /\ pc' \notin {"snapshot", "loop"} => conn'.pending \subseteq {conn'.waiting}
    BY <1>1, <1>4, LiveLimits
  <2> QED
    BY <1>1, <1>2, <1>4, <2>1 DEF HandlerLimits
<1>5. CASE RunHandler
  <2>1. CASE Handler!Exchange
    <3>1. UNCHANGED <<conn, wire, proc, pc>>
      <4>1. CASE Handler!Happen
        BY <4>1 DEF Handler!Happen, Handler!taskVars
      <4>2. CASE ~ Handler!Happen
        BY <2>1, <4>2 DEF Handler!Exchange, Handler!SendFrame, Handler!SendControl, Handler!AnswerRpc,
                          Handler!taskVars
      <4> QED
        BY <4>1, <4>2
    <3> QED
      BY <1>3, <3>1
  <2>2. CASE Handler!Fail \/ Handler!SendUpdate \/ Handler!Stop
    BY <1>3, <2>2 DEF Handler!Fail, Handler!SendUpdate, Handler!Stop, Handler!quietVars, Handler!serverVars
  <2>3. CASE Handler!ConnectStep \/ Handler!Validate \/ Handler!Subscribe
    <3>1. /\ wire' \in {wire, "up"} /\ proc' = proc
          /\ pc' \in {"validate", "auth", "subscribe", "asked", "snapshot", "loop"}
          /\ sub.venue = "deribit" => pc' \notin {"snapshot", "loop"}
      BY <2>3 DEF Handler!ConnectStep, Handler!Validate, Handler!Subscribe, Handler!quietVars,
                  Handler!AfterSubscribe, Handler!v
    <3> QED
      BY <1>2, <1>4, <3>1 DEF Live
  <2>4. CASE Handler!AwaitFrame
    <3>1. /\ UNCHANGED <<wire, proc>> /\ sub.venue = "deribit" /\ pc \in Asking
          /\ pc' \in {"failed", "heartbeat", "validate", "snapshot", "loop", pc}
      BY <2>4 DEF Handler!AwaitFrame, Handler!Answered, Handler!End, Handler!AfterSubscribe, Handler!quietVars,
                  HandlerInv, Phased, Asking
    <3>2. CASE pc' = "failed"
      BY <1>1, <1>2, <3>1, <3>2 DEF HandlerLimits
    <3>3. CASE pc' # "failed"
      <4>1. pc' \in Live
        BY <3>1, <3>3 DEF Live, Asking
      <4>2. pc' \in {"snapshot", "loop"} => conn'.pending \subseteq {conn'.waiting}
        BY <2>4, <3>1, AwaitLimits
      <4> QED
        BY <1>2, <1>4, <3>1, <4>1, <4>2
    <3> QED
      BY <3>2, <3>3
  <2>5. CASE Handler!AwaitTimeout
    <3>1. UNCHANGED <<wire, proc>> /\ sub.venue = "deribit" /\ pc' = "failed"
      BY <2>5 DEF Handler!AwaitTimeout, Handler!End, Handler!quietVars, HandlerInv, Phased
    <3> QED
      BY <1>1, <1>2, <3>1 DEF HandlerLimits
  <2>6. ASSUME NEW id, Handler!FetchSnapshot(id) PROVE HandlerLimits'
    <3>1. pc = "snapshot" /\ pc' = "loop" /\ UNCHANGED <<wire, proc>>
      BY <2>6 DEF Handler!FetchSnapshot, Handler!serverVars
    <3>2. sub.venue = "deribit" => conn' = conn
      BY <2>6 DEF Handler!FetchSnapshot, Handler!v, Handler!take_l2_replay_messages, Handler!prepare_l2_sync
    <3> QED
      BY <1>2, <1>4, <3>1, <3>2 DEF Live
  <2>7. CASE Handler!ReadFrame
    <3>1. wire' = wire
      BY <2>7 DEF Handler!ReadFrame, Handler!serverVars
    <3>2. proc' \in 0 .. 2 * HandlerEvents
      BY <1>2, <2>7, ReadProc
    <3>3. /\ sub.venue = "binance" => conn'.sync # "Resynchronizing"
          /\ sub.venue = "deribit" => conn'.pending \subseteq {conn'.waiting}
      BY <2>7, ReadLimits
    <3> QED
      BY <1>1, <1>2, <3>1, <3>2, <3>3 DEF HandlerLimits
  <2> QED
    BY <1>5, <2>1, <2>2, <2>3, <2>4, <2>5, <2>6, <2>7
    DEF RunHandler, HandlerLoop, Handler!Loop, Handler!Task
<1>6. CASE RunArb
  BY <1>6 DEF RunArb, ArbStop, ArbRotate, ByArb
<1>7. CASE Spawn \/ Adapt \/ AdapterEnds \/ WaitForAny \/ UNCHANGED vars
  BY <1>3, <1>7 DEF Spawn, Adapt, AdapterEnds, WaitForAny, vars, handlerVars, sharedVars
<1>8. CASE ReceiverGone
  <2>1. UNCHANGED <<conn, wire, pc>>
    BY <1>8 DEF ReceiverGone, handlerVars
  <2>2. UNCHANGED proc
    BY <1>8 DEF ReceiverGone, Arb!DropReceiver, Arb!groupVars, Handler!DropReceiver, Handler!taskVars
  <2> QED
    BY <1>3, <2>1, <2>2
<1>9. CASE Shutdown
  BY <1>3, <1>9 DEF Shutdown, Aborted, Abort, HandleDone, Producing, notAborted, sharedVars
<1> QED
  BY <1>5, <1>6, <1>7, <1>8, <1>9 DEF Next

(***************************************************************************)
(* The manager.                                                            *)
(***************************************************************************)
ManagerTypes ==
  /\ mgr \in {"start", "running", "completed", "shutdown", "failed"}
  /\ adapter \in {"run", "ended", "aborted"} /\ (plan.obs \/ (adapter = "run" /\ taken = 0))

LEMMA ManagerTypesStep == ASSUME ManagerTypes, [Next]_vars PROVE ManagerTypes'
<1> USE DEF ManagerTypes
<1>1. CASE RunHandler \/ RunArb \/ UNCHANGED vars
  <2>1. UNCHANGED <<plan, mgr, adapter, taken>>
    BY <1>1 DEF RunHandler, HandlerLoop, ByHandler, RunArb, ArbStop, ArbRotate, ByArb, vars, managerVars
  <2> QED
    BY <2>1
<1>2. CASE ReceiverGone \/ Spawn \/ WaitForAny
  <2>1. UNCHANGED <<plan, adapter, taken>> /\ mgr' \in {mgr, "running", "failed", "completed"}
    BY <1>2 DEF ReceiverGone, Spawn, WaitForAny
  <2> QED
    BY <2>1
<1>3. CASE Adapt \/ AdapterEnds
  <2>1. plan.obs /\ UNCHANGED <<plan, mgr>> /\ adapter' \in {adapter, "ended"}
    BY <1>3 DEF Adapt, AdapterEnds
  <2> QED
    BY <2>1
<1>4. CASE Shutdown
  <2>1. UNCHANGED <<plan, taken>> /\ mgr' = "shutdown" /\ (adapter' = adapter \/ (plan.obs /\ adapter' = "aborted"))
    BY <1>4 DEF Shutdown, Aborted, Abort, notAborted
  <2> QED
    BY <2>1
<1> QED
  BY <1>1, <1>2, <1>3, <1>4 DEF Next

TypesInv == WinsInv /\ HandlerLimits /\ ManagerTypes

LEMMA TypesInit == ASSUME Init PROVE TypesInv
<1>1. /\ wins_window = [c \in Conn |-> 0] /\ fwd = << >> /\ mgr = "start" /\ adapter = "run" /\ taken = 0
      /\ wire = "down" /\ proc = 0 /\ pc = "connect" /\ HandlerEvents \in Nat
  BY BoundsAssumption DEF Init, Handler!Init, Arb!Init, Conn, Handler!create_processor, Handler!Okx!NewProcessor
<1>2. WinsInv
  <2> DEFINE zero == [c \in Conn |-> 0]
  <2>1. zero \in Wins /\ \A c \in Conn : zero[c] = 0
    BY DEF Wins
  <2> HIDE DEF zero
  <2>2. Total(zero) = 0
    BY <2>1, TotalFacts
  <2>3. Len(fwd) = 0
    BY <1>1
  <2>4. Total(zero) <= Len(fwd)
    BY <2>2, <2>3
  <2>5. wins_window = zero
    BY <1>1 DEF zero
  <2> QED
    BY <2>1, <2>4, <2>5 DEF WinsInv
<1>3. 0 \in 0 .. 2 * HandlerEvents
  BY <1>1
<1>4. /\ sub.venue = "binance" => conn.sync # "Resynchronizing"
      /\ sub.venue = "deribit" => conn.pending \subseteq {conn.waiting}
  BY <1>1, HandlerInit DEF HandlerInv, BinanceConn, DeribitConn, Handler!Binance!New, Handler!Deribit!New
<1> QED
  BY <1>1, <1>2, <1>3, <1>4 DEF TypesInv, HandlerLimits, ManagerTypes

\* What the module says of the types and ranges, the wins since a rotation
\* included, for every plan and any bounds.
LEMMA TypesImplied ==
  ASSUME HandlerInv, ArbInv, EventsInv, BookInv, TypesInv PROVE TypeOK
<1>1. /\ taken \in Nat /\ taken <= Len(Produced) /\ out \in Seq(Nat) /\ fwd \in Seq(Nat)
      /\ market <= (IF plan.arb THEN ArbEvents ELSE HandlerEvents) /\ market \in Nat
      /\ HandlerEvents \in Nat /\ ArbEvents \in Nat
  BY BoundsAssumption DEF BookInv, HandlerInv, HandlerTypes, ArbInv, ArbTypes, EventsInv
<1>2. Len(Produced) \in Nat
  BY <1>1 DEF Produced
<1>3. taken \in 0 .. Len(Produced)
  BY <1>1, <1>2
<1>4. sub \in {p.sub : p \in Plans}
  BY DEF HandlerInv, PlanKept
<1>5. ASSUME plan.arb PROVE Arb!TypeOK
  <2>1. wins_window \in Wins /\ Total(wins_window) <= Len(fwd)
    BY DEF TypesInv, WinsInv
  <2>2. Arb!FoldFunction(+, 0, wins_window) <= Len(fwd)
    BY <2>1 DEF Total
  <2>3. \A c \in Conn : task[c].pc \in {"none", "connect", "snapshot", "read", "done"} /\ wins_window[c] \in Nat
    BY <2>1 DEF ArbInv, TaskSound, Task, Wins
  <2>4. \A i \in 1 .. Len(fwd) : fwd[i] \in 1 .. ArbEvents
    <3> SUFFICES ASSUME NEW i \in 1 .. Len(fwd) PROVE fwd[i] \in 1 .. ArbEvents
      OBVIOUS
    <3>1. fwd[i] \in Covered(fwd)
      BY CoveredDef
    <3>2. fwd[i] \in 1 .. market
      BY <3>1 DEF EventsInv, Happened
    <3> QED
      BY <1>1, <1>5, <3>2
  <2>5. group \in {"ramp", "run", "failed", "cancelled", "aborted"} /\ aged \in 0 .. Len(fwd)
    BY DEF ArbInv, ArbTypes
  <2> QED
    BY <1>4, <2>2, <2>3, <2>4, <2>5 DEF Arb!TypeOK, Conn
<1>6. ASSUME ~ plan.arb PROVE Handler!TypeOK
  <2>1. /\ proc \in 0 .. Handler!FinalId(HandlerEvents) /\ wire \in {"down", "up"}
        /\ sub.venue = "binance" => conn.sync # "Resynchronizing"
        /\ sub.venue = "deribit" => conn.pending \subseteq {conn.waiting} \/ pc = "failed"
    BY <1>6 DEF TypesInv, HandlerLimits, Handler!FinalId
  <2>2. sub.venue = "binance" => conn.sync \in Handler!Binance!SyncState \ {"Resynchronizing"}
    BY <2>1 DEF HandlerInv, ConnTypes, BinanceRec
  <2>3. pc \in {"connect", "auth", "heartbeat", "validate", "subscribe", "asked", "snapshot",
                "loop", "ended", "failed", "cancelled", "aborted"}
    BY DEF HandlerInv, HandlerTypes, Live
  <2>4. \A i \in 1 .. Len(out) : out[i] \in 1 .. HandlerEvents
    <3> SUFFICES ASSUME NEW i \in 1 .. Len(out) PROVE out[i] \in 1 .. HandlerEvents
      OBVIOUS
    <3>1. out[i] \in Handed
      BY CoveredDef DEF Handed
    <3>2. out[i] \in start .. sent /\ start # 0 /\ start \in Nat /\ sent \in Nat /\ sent <= market
      BY <3>1 DEF HandlerInv, HandlerTypes, HandedOrdered
    <3>3. market <= HandlerEvents
      BY <1>1, <1>6
    <3> QED
      BY <1>1, <3>2, <3>3
  <2>5. Handler!Covered(todo) \cap Handler!Covered(out) = {}
    <3> SUFFICES ASSUME NEW e \in Covered(todo), e \in Covered(out) PROVE FALSE
      BY DEF Covered
    <3>1. e < e
      BY DEF HandlerInv, HandedOrdered, Below
    <3>2. e \in Nat
      <4>1. PICK i \in 1 .. Len(out) : out[i] = e
        BY CoveredDef
      <4> QED
        BY <1>1, <4>1
    <3> QED
      BY <3>1, <3>2
  <2> QED
    BY <1>4, <2>1, <2>2, <2>3, <2>4, <2>5 DEF Handler!TypeOK, Handler!v
<1> QED
  BY <1>3, <1>5, <1>6 DEF TypeOK, TypesInv, ManagerTypes

\* The types and ranges of the runner that runs and of the manager: no
\* connection is credited with more first copies than have gone downstream, the
\* last id of OKX's chain is that of an event that happened, Binance's connector
\* is never left to resynchronize, and at most the request waited for is pending
\* with Deribit.
THEOREM ManagerTypesHold == Spec => []TypeOK
<1>1. Init => TypesInv
  BY TypesInit
<1>2. HandlerInv /\ ArbInv /\ EventsInv /\ TypesInv /\ [Next]_vars => TypesInv'
  BY WinsStep, HandlerLimitsStep, ManagerTypesStep DEF TypesInv
<1>3. HandlerInv /\ ArbInv /\ EventsInv /\ BookInv /\ TypesInv => TypeOK
  BY TypesImplied
<1> QED
  BY <1>1, <1>2, <1>3, HandlerInvariant, ArbInvariant, BookInvariant, PTL DEF Spec
=============================================================================
