----------------------------- MODULE SinkProofs -----------------------------
(***************************************************************************)
(* Proofs about the rows of the two sinks, for every set of streams, every *)
(* batch size and every bound of the model.                                *)
(***************************************************************************)
EXTENDS StandaloneProofs, FiniteSetTheorems

(***************************************************************************)
(* The QuestDB sink. A row waits in one place at most, a buffer, the batch *)
(* or the kernel, and once in it; while it waits it has arrived no more    *)
(* often than its writes have failed. Outside a send nothing is in the     *)
(* batch, and a flush leaves nothing in the buffers it is done with, so    *)
(* that nothing is forgotten with them; a sink that has ended holds        *)
(* nothing.                                                                *)
(***************************************************************************)
Injective(seq) == \A i, j \in DOMAIN seq : seq[i] = seq[j] => i = j

IlpTypes ==
  /\ ilpStage \in {"select", "flush", "send", "done", "failed", "stopped"}
  /\ ilpCause \in {"full", "tick", "closed"}
  /\ ilpRows \in Nat /\ ilpRows <= MaxRows /\ ilpTodo \subseteq DOMAIN buffers
  /\ DOMAIN buffers \subseteq Streams \ ObsStreams /\ buffers \in [DOMAIN buffers -> Seq(Nat)]
  /\ batch \in Seq(Nat) /\ wire \in Seq(Nat)
  /\ table \in [1 .. MaxRows -> Nat] /\ failedWrites \in [1 .. MaxRows -> Nat]

Apart ==
  /\ Injective(batch) /\ Injective(wire) /\ \A s \in DOMAIN buffers : Injective(buffers[s])
  /\ \A r \in Nat : ~ (QuestDb!Occurs(batch, r) /\ QuestDb!Occurs(wire, r))
  /\ \A r \in Nat, s \in DOMAIN buffers : QuestDb!Occurs(buffers[s], r) =>
       /\ ~ QuestDb!Occurs(batch, r) /\ ~ QuestDb!Occurs(wire, r)
       /\ \A u \in DOMAIN buffers : QuestDb!Occurs(buffers[u], r) => u = s

Settled ==
  /\ ilpStage \in {"select", "flush"} => batch = << >>
  /\ ilpStage = "flush" \/ (ilpStage = "send" /\ ilpCause # "full") =>
       \A s \in DOMAIN buffers \ ilpTodo : buffers[s] = << >>
  /\ ilpStage \in {"done", "failed", "stopped"} => \A r \in Nat : ~ QuestDb!Held(r)

Arrivals ==
  /\ \A r \in Nat : QuestDb!Waiting(r) => r \in 1 .. ilpRows
  /\ \A r \in 1 .. MaxRows :
       /\ table[r] <= 1 + failedWrites[r]
       /\ QuestDb!Waiting(r) => table[r] <= failedWrites[r]
       /\ r > ilpRows => table[r] = 0

IlpInv == IlpTypes /\ Apart /\ Settled /\ Arrivals /\ RowsExplained

(***************************************************************************)
(* What the operations on a line of rows do to the rows that occur in it.  *)
(***************************************************************************)
LEMMA EmptyLine ==
  /\ << >> \in Seq(Nat) /\ Injective(<< >>)
  /\ \A r \in Nat : ~ QuestDb!Occurs(<< >>, r)
  BY DEF Injective, QuestDb!Occurs

\* A row is put at the end.
LEMMA LongerLine ==
  ASSUME NEW q \in Seq(Nat), NEW x \in Nat
  PROVE  /\ Append(q, x) \in Seq(Nat) /\ Append(q, x) # << >>
         /\ \A r \in Nat : QuestDb!Occurs(Append(q, x), r) <=> QuestDb!Occurs(q, r) \/ r = x
         /\ Injective(q) /\ ~ QuestDb!Occurs(q, x) => Injective(Append(q, x))
<1> DEFINE t == Append(q, x)
<1>1. /\ t \in Seq(Nat) /\ t # << >> /\ DOMAIN q = 1 .. Len(q) /\ Len(q) \in Nat
      /\ DOMAIN t = 1 .. Len(q) + 1 /\ t[Len(q) + 1] = x /\ \A i \in 1 .. Len(q) : t[i] = q[i]
  OBVIOUS
<1> HIDE DEF t
<1>2. \A r \in Nat : QuestDb!Occurs(t, r) <=> QuestDb!Occurs(q, r) \/ r = x
  <2>1. \A i \in DOMAIN t : i \in DOMAIN q \/ i = Len(q) + 1
    BY <1>1
  <2>2. \A r \in Nat : QuestDb!Occurs(t, r) => QuestDb!Occurs(q, r) \/ r = x
    BY <1>1, <2>1 DEF QuestDb!Occurs
  <2>3. DOMAIN q \subseteq DOMAIN t /\ Len(q) + 1 \in DOMAIN t
    BY <1>1
  <2>4. \A r \in Nat : QuestDb!Occurs(q, r) \/ r = x => QuestDb!Occurs(t, r)
    BY <1>1, <2>3 DEF QuestDb!Occurs
  <2> QED
    BY <2>2, <2>4
<1>3. Injective(q) /\ ~ QuestDb!Occurs(q, x) => Injective(t)
  BY <1>1, SMTT(30) DEF QuestDb!Occurs, Injective
<1> QED
  BY <1>1, <1>2, <1>3 DEF t

\* Two lines are joined.
LEMMA JoinedLines ==
  ASSUME NEW p \in Seq(Nat), NEW q \in Seq(Nat)
  PROVE  /\ p \o q \in Seq(Nat)
         /\ \A r \in Nat : QuestDb!Occurs(p \o q, r) <=> QuestDb!Occurs(p, r) \/ QuestDb!Occurs(q, r)
         /\ Injective(p) /\ Injective(q)
              /\ (\A r \in Nat : ~ (QuestDb!Occurs(p, r) /\ QuestDb!Occurs(q, r))) => Injective(p \o q)
<1> DEFINE t == p \o q
<1>1. /\ t \in Seq(Nat) /\ Len(p) \in Nat /\ Len(q) \in Nat /\ Len(t) = Len(p) + Len(q)
      /\ DOMAIN p = 1 .. Len(p) /\ DOMAIN q = 1 .. Len(q) /\ DOMAIN t = 1 .. Len(t)
      /\ \A i \in 1 .. Len(p) : t[i] = p[i] /\ p[i] \in Nat
      /\ \A i \in 1 .. Len(q) : t[i + Len(p)] = q[i] /\ q[i] \in Nat
  BY ConcatProperties
<1> HIDE DEF t
<1>2. \A i \in DOMAIN t :
        \/ i \in 1 .. Len(p) /\ t[i] = p[i]
        \/ i - Len(p) \in 1 .. Len(q) /\ t[i] = q[i - Len(p)]
  <2> SUFFICES ASSUME NEW i \in DOMAIN t, i \notin 1 .. Len(p)
               PROVE  i - Len(p) \in 1 .. Len(q) /\ t[i] = q[i - Len(p)]
    BY <1>1
  <2>1. i - Len(p) \in 1 .. Len(q) /\ (i - Len(p)) + Len(p) = i
    BY <1>1
  <2> QED
    BY <1>1, <2>1
<1>3. \A r \in Nat : QuestDb!Occurs(t, r) <=> QuestDb!Occurs(p, r) \/ QuestDb!Occurs(q, r)
  <2>1. ASSUME NEW r \in Nat, QuestDb!Occurs(t, r) PROVE QuestDb!Occurs(p, r) \/ QuestDb!Occurs(q, r)
    BY <1>1, <1>2, <2>1 DEF QuestDb!Occurs
  <2>2. ASSUME NEW r \in Nat, QuestDb!Occurs(p, r) PROVE QuestDb!Occurs(t, r)
    BY <1>1, <2>2 DEF QuestDb!Occurs
  <2>3. ASSUME NEW r \in Nat, QuestDb!Occurs(q, r) PROVE QuestDb!Occurs(t, r)
    <3>1. PICK i \in 1 .. Len(q) : q[i] = r
      BY <1>1, <2>3 DEF QuestDb!Occurs
    <3>2. i + Len(p) \in DOMAIN t /\ t[i + Len(p)] = r
      BY <1>1, <3>1
    <3> QED
      BY <3>2 DEF QuestDb!Occurs
  <2> QED
    BY <2>1, <2>2, <2>3
<1>4. ASSUME Injective(p), Injective(q), \A r \in Nat : ~ (QuestDb!Occurs(p, r) /\ QuestDb!Occurs(q, r))
      PROVE  Injective(t)
  <2> SUFFICES ASSUME NEW i \in DOMAIN t, NEW j \in DOMAIN t, t[i] = t[j] PROVE i = j
    BY DEF Injective
  <2>1. \A a \in 1 .. Len(p), b \in 1 .. Len(q) : p[a] # q[b]
    BY <1>1, <1>4 DEF QuestDb!Occurs
  <2>2. CASE i \in 1 .. Len(p) /\ t[i] = p[i]
    <3>1. j \in 1 .. Len(p) /\ t[j] = p[j]
      BY <1>2, <2>1, <2>2
    <3> QED
      BY <1>1, <1>4, <2>2, <3>1 DEF Injective
  <2>3. CASE i - Len(p) \in 1 .. Len(q) /\ t[i] = q[i - Len(p)]
    <3>1. j - Len(p) \in 1 .. Len(q) /\ t[j] = q[j - Len(p)]
      BY <1>2, <2>1, <2>3
    <3>2. i - Len(p) = j - Len(p)
      BY <1>1, <1>4, <2>3, <3>1 DEF Injective
    <3> QED
      BY <1>1, <3>2
  <2> QED
    BY <1>2, <2>2, <2>3
<1> QED
  BY <1>1, <1>3, <1>4 DEF t

\* Some rows at the front are taken.
LEMMA FrontOfLine ==
  ASSUME NEW q \in Seq(Nat), NEW n \in 0 .. Len(q)
  PROVE  /\ \A r \in Nat : QuestDb!Occurs(SubSeq(q, 1, n), r) => QuestDb!Occurs(q, r)
         /\ \A i \in 1 .. n : QuestDb!Occurs(SubSeq(q, 1, n), q[i])
         /\ SubSeq(q, 1, n) \in Seq(Nat)
         /\ Injective(q) => Injective(SubSeq(q, 1, n))
<1> DEFINE t == SubSeq(q, 1, n)
<1>1. /\ DOMAIN q = 1 .. Len(q) /\ Len(q) \in Nat /\ DOMAIN t = 1 .. n
      /\ \A i \in 1 .. n : t[i] = q[i]
      /\ t \in Seq(Nat)
  OBVIOUS
<1> HIDE DEF t
<1>2. \A r \in Nat : QuestDb!Occurs(t, r) => QuestDb!Occurs(q, r)
  BY <1>1 DEF QuestDb!Occurs
<1>3. \A i \in 1 .. n : QuestDb!Occurs(t, q[i])
  BY <1>1 DEF QuestDb!Occurs
<1>4. ASSUME Injective(q) PROVE Injective(t)
  BY <1>1, <1>4 DEF Injective
<1> QED
  BY <1>1, <1>2, <1>3, <1>4 DEF t

\* The first row is taken.
LEMMA RestOfLine ==
  ASSUME NEW q \in Seq(Nat), q # << >>
  PROVE  /\ Head(q) \in Nat /\ Tail(q) \in Seq(Nat) /\ QuestDb!Occurs(q, Head(q))
         /\ \A r \in Nat : QuestDb!Occurs(<<Head(q)>>, r) <=> r = Head(q)
         /\ \A r \in Nat : QuestDb!Occurs(q, r) <=> r = Head(q) \/ QuestDb!Occurs(Tail(q), r)
         /\ Injective(q) => Injective(Tail(q)) /\ ~ QuestDb!Occurs(Tail(q), Head(q))
<1> DEFINE t == Tail(q)
           h == Head(q)
           one == <<h>>
<1>1. /\ t \in Seq(Nat) /\ h \in Nat /\ Len(q) \in Nat \ {0} /\ DOMAIN q = 1 .. Len(q)
      /\ DOMAIN t = 1 .. Len(q) - 1 /\ h = q[1] /\ DOMAIN one = 1 .. 1 /\ one[1] = h
      /\ \A i \in 1 .. Len(q) - 1 : t[i] = q[i + 1]
  OBVIOUS
<1> HIDE DEF t, h, one
<1>2. \A i \in 2 .. Len(q) : i - 1 \in DOMAIN t /\ t[i - 1] = q[i]
  <2> SUFFICES ASSUME NEW i \in 2 .. Len(q) PROVE i - 1 \in DOMAIN t /\ t[i - 1] = q[i]
    OBVIOUS
  <2>1. i - 1 \in 1 .. Len(q) - 1 /\ (i - 1) + 1 = i
    BY <1>1
  <2> QED
    BY <1>1, <2>1
<1>3. QuestDb!Occurs(q, h) /\ \A r \in Nat : QuestDb!Occurs(one, r) <=> r = h
  BY <1>1 DEF QuestDb!Occurs
<1>4. \A r \in Nat : QuestDb!Occurs(q, r) <=> r = h \/ QuestDb!Occurs(t, r)
  <2>1. ASSUME NEW r \in Nat, QuestDb!Occurs(q, r), r # h PROVE QuestDb!Occurs(t, r)
    <3>1. PICK i \in 1 .. Len(q) : q[i] = r
      BY <1>1, <2>1 DEF QuestDb!Occurs
    <3>2. i \in 2 .. Len(q)
      BY <1>1, <2>1, <3>1
    <3> QED
      BY <1>2, <3>1, <3>2 DEF QuestDb!Occurs
  <2>2. ASSUME NEW r \in Nat, QuestDb!Occurs(t, r) PROVE QuestDb!Occurs(q, r)
    <3>1. PICK i \in 1 .. Len(q) - 1 : t[i] = r
      BY <1>1, <2>2 DEF QuestDb!Occurs
    <3>2. i + 1 \in DOMAIN q /\ q[i + 1] = r
      BY <1>1, <3>1
    <3> QED
      BY <3>2 DEF QuestDb!Occurs
  <2> QED
    BY <1>3, <2>1, <2>2
<1>5. ASSUME Injective(q) PROVE Injective(t) /\ ~ QuestDb!Occurs(t, h)
  <2>1. \A i \in 1 .. Len(q) - 1 : i + 1 \in DOMAIN q /\ i + 1 # 1 /\ t[i] = q[i + 1]
    BY <1>1
  <2>2. ~ QuestDb!Occurs(t, h)
    <3>1. 1 \in DOMAIN q /\ q[1] = h
      BY <1>1
    <3>2. SUFFICES ASSUME NEW i \in 1 .. Len(q) - 1, t[i] = h PROVE FALSE
      BY <1>1 DEF QuestDb!Occurs
    <3>3. i + 1 \in DOMAIN q /\ q[i + 1] = q[1] /\ i + 1 # 1
      BY <2>1, <3>1, <3>2
    <3> QED
      BY <1>5, <3>1, <3>3 DEF Injective
  <2>3. Injective(t)
    <3> SUFFICES ASSUME NEW i \in 1 .. Len(q) - 1, NEW j \in 1 .. Len(q) - 1, t[i] = t[j] PROVE i = j
      BY <1>1 DEF Injective
    <3>1. i + 1 = j + 1
      BY <1>5, <2>1 DEF Injective
    <3> QED
      BY <1>1, <3>1
  <2> QED
    BY <2>2, <2>3
<1> QED
  BY <1>1, <1>3, <1>4, <1>5 DEF t, h, one
\* Initially there are no rows.
LEMMA IlpInit == Init => IlpInv
<1> SUFFICES ASSUME Init PROVE IlpInv
  OBVIOUS
<1> USE SinksAssumption DEF Init, QuestDb!Init
<1>1. IlpTypes
  BY DEF IlpTypes
<1>2. Apart /\ Settled
  BY EmptyLine DEF Apart, Settled
<1>3. \A r \in Nat : ~ QuestDb!Waiting(r)
  BY EmptyLine DEF QuestDb!Waiting, QuestDb!Held
<1>4. Arrivals /\ RowsExplained
  BY <1>3 DEF Arrivals, RowsExplained, QuestDb!RowsExplained
<1> QED
  BY <1>1, <1>2, <1>4 DEF IlpInv

\* A row is received: it waits in its buffer, or in the batch that is full.
LEMMA ReceiveStep ==
  ASSUME IlpInv, NEW s \in Streams \ ObsStreams, QuestDb!write_stream_data(s)
  PROVE  IlpInv'
<1> USE DEF IlpInv
<1> DEFINE new == ilpRows + 1
           old == IF s \in DOMAIN buffers THEN buffers[s] ELSE << >>
           line == Append(old, new)
<1>1. /\ ilpStage = "select" /\ ilpRows < MaxRows /\ ilpRows' = new
      /\ ilpStage' \in {"select", "send"}
      /\ UNCHANGED <<ilpTodo, wire, table, failedWrites, lost, abandoned>>
      /\ \/ /\ buffers' = QuestDb!Put(s, << >>) /\ batch' = line /\ ilpStage' = "send" /\ ilpCause' = "full"
         \/ buffers' = QuestDb!Put(s, line) /\ UNCHANGED <<ilpStage, batch, ilpCause>>
  BY DEF QuestDb!write_stream_data, QuestDb!netVars
<1>2. new \in Nat /\ new \in 1 .. MaxRows /\ MaxRows \in Nat /\ ilpRows \in Nat
  <2>1. ilpRows \in Nat /\ MaxRows \in Nat
    BY SinksAssumption DEF IlpTypes
  <2>2. ilpRows < MaxRows
    BY <1>1
  <2> QED
    BY <2>1, <2>2
<1>3. /\ old \in Seq(Nat) /\ Injective(old)
      /\ \A r \in Nat : QuestDb!Occurs(old, r) => s \in DOMAIN buffers /\ QuestDb!Occurs(buffers[s], r)
  BY EmptyLine DEF IlpTypes, Apart
<1>4. ~ QuestDb!Waiting(new)
  BY <1>2 DEF Arrivals
<1>5. ~ QuestDb!Occurs(old, new)
  BY <1>2, <1>3, <1>4 DEF QuestDb!Waiting, QuestDb!Held
<1>6. /\ line \in Seq(Nat) /\ Injective(line)
      /\ \A r \in Nat : QuestDb!Occurs(line, r) <=> QuestDb!Occurs(old, r) \/ r = new
  BY <1>2, <1>3, <1>5, LongerLine
<1>7. batch = << >> /\ \A r \in Nat : ~ QuestDb!Occurs(batch, r)
  BY <1>1, EmptyLine DEF Settled
<1>8. /\ DOMAIN buffers' = DOMAIN buffers \cup {s}
      /\ \A u \in DOMAIN buffers : u # s => buffers'[u] = buffers[u]
      /\ \/ buffers'[s] = << >> /\ batch' = line
         \/ buffers'[s] = line /\ batch' = batch
  BY <1>1 DEF QuestDb!Put
<1> DEFINE there == buffers'[s]
<1>9. /\ there \in Seq(Nat) /\ Injective(there) /\ batch' \in Seq(Nat) /\ Injective(batch')
      /\ \A r \in Nat : QuestDb!Occurs(there, r) \/ QuestDb!Occurs(batch', r)
                          <=> QuestDb!Occurs(old, r) \/ r = new
      /\ \A r \in Nat : ~ (QuestDb!Occurs(there, r) /\ QuestDb!Occurs(batch', r))
  <2> HIDE DEF line, old, new
  <2>1. CASE buffers'[s] = << >> /\ batch' = line
    BY <1>6, <2>1, EmptyLine
  <2>2. CASE buffers'[s] = line /\ batch' = batch
    BY <1>6, <1>7, <2>2, EmptyLine
  <2> QED
    BY <1>8, <2>1, <2>2
<1>10. there = buffers'[s]
  OBVIOUS
<1> HIDE DEF line, there
<1>11. \A r \in Nat : QuestDb!Occurs(old, r) => ~ QuestDb!Occurs(wire, r)
  BY <1>3 DEF Apart
<1>12. \A r \in Nat, u \in DOMAIN buffers : QuestDb!Occurs(old, r) /\ QuestDb!Occurs(buffers[u], r) => u = s
  BY <1>3 DEF Apart
<1>13. ~ QuestDb!Occurs(wire, new) /\ \A u \in DOMAIN buffers : ~ QuestDb!Occurs(buffers[u], new)
  BY <1>4 DEF QuestDb!Waiting, QuestDb!Held
<1> HIDE DEF old
<1>14. \A r \in Nat : QuestDb!Waiting(r)' <=> QuestDb!Waiting(r) \/ r = new
  <2>1. \A r \in Nat : s \in DOMAIN buffers /\ QuestDb!Occurs(buffers[s], r) => QuestDb!Occurs(old, r)
    BY DEF old
  <2> QED
    BY <1>1, <1>3, <1>7, <1>8, <1>9, <1>10, <2>1 DEF QuestDb!Waiting, QuestDb!Held
<1>15. IlpTypes'
  <2>1. \A u \in DOMAIN buffers' : buffers'[u] \in Seq(Nat)
    BY <1>8, <1>9, <1>10 DEF IlpTypes
  <2>2. buffers' \in [DOMAIN buffers' -> Seq(Nat)]
    <3>1. buffers' = [u \in DOMAIN buffers' |-> buffers'[u]]
      BY <1>1 DEF QuestDb!Put
    <3> QED
      BY <2>1, <3>1
  <2>3. ilpRows' \in Nat /\ ilpRows' <= MaxRows
    BY <1>1, <1>2
  <2>4. /\ ilpStage' \in {"select", "flush", "send", "done", "failed", "stopped"}
        /\ ilpCause' \in {"full", "tick", "closed"}
    BY <1>1 DEF IlpTypes
  <2>5. ilpTodo' \subseteq DOMAIN buffers' /\ DOMAIN buffers' \subseteq Streams \ ObsStreams
    BY <1>1, <1>8 DEF IlpTypes
  <2> QED
    BY <1>1, <1>9, <2>2, <2>3, <2>4, <2>5 DEF IlpTypes
<1>16. Apart'
  <2>1. Injective(batch)' /\ Injective(wire)' /\ \A u \in DOMAIN buffers' : Injective(buffers'[u])
    BY <1>1, <1>8, <1>9, <1>10 DEF Apart
  <2>2. \A r \in Nat : ~ (QuestDb!Occurs(batch', r) /\ QuestDb!Occurs(wire', r))
    BY <1>1, <1>9, <1>11, <1>13
  <2>3. ASSUME NEW r \in Nat, NEW u \in DOMAIN buffers', QuestDb!Occurs(buffers'[u], r)
        PROVE  /\ ~ QuestDb!Occurs(batch', r) /\ ~ QuestDb!Occurs(wire', r)
               /\ \A v \in DOMAIN buffers' : QuestDb!Occurs(buffers'[v], r) => v = u
    <3>1. CASE u = s
      <4>1. QuestDb!Occurs(old, r) \/ r = new
        BY <1>9, <1>10, <2>3, <3>1
      <4>2. \A v \in DOMAIN buffers' : v # s => ~ QuestDb!Occurs(buffers'[v], r)
        BY <1>8, <1>12, <1>13, <4>1
      <4> QED
        BY <1>1, <1>9, <1>10, <1>11, <1>13, <2>3, <3>1, <4>1, <4>2
    <3>2. CASE u # s
      <4>1. u \in DOMAIN buffers /\ QuestDb!Occurs(buffers[u], r)
        BY <1>8, <2>3, <3>2
      <4>2. ~ QuestDb!Occurs(old, r) /\ r # new /\ ~ QuestDb!Occurs(wire, r)
        BY <1>12, <1>13, <3>2, <4>1 DEF Apart
      <4>3. ~ QuestDb!Occurs(buffers'[s], r) /\ ~ QuestDb!Occurs(batch', r)
        BY <1>9, <1>10, <4>2
      <4>4. \A v \in DOMAIN buffers : QuestDb!Occurs(buffers[v], r) => v = u
        BY <4>1 DEF Apart
      <4> QED
        BY <1>1, <1>8, <4>2, <4>3, <4>4
    <3> QED
      BY <3>1, <3>2
  <2> QED
    BY <2>1, <2>2, <2>3 DEF Apart
<1>17. Settled'
  BY <1>1, <1>7 DEF Settled
<1>18. Arrivals'
  <2>1. \A r \in Nat : QuestDb!Waiting(r)' => r \in 1 .. new
    BY <1>2, <1>14 DEF Arrivals
  <2>2. table[new] = 0 /\ failedWrites[new] \in Nat
    BY <1>2 DEF Arrivals, IlpTypes
  <2>3. ASSUME NEW r \in 1 .. MaxRows
        PROVE  /\ table[r] <= 1 + failedWrites[r]
               /\ QuestDb!Waiting(r)' => table[r] <= failedWrites[r]
               /\ r > new => table[r] = 0
    BY <1>2, <1>14, <2>2 DEF Arrivals
  <2> QED
    BY <1>1, <2>1, <2>3 DEF Arrivals
<1>19. RowsExplained'
  <2>1. \A r \in 1 .. new : table[r] = 0 /\ ~ QuestDb!Waiting(r)' => r \in 1 .. ilpRows /\ ~ QuestDb!Waiting(r)
    BY <1>2, <1>14
  <2>2. \A r \in 1 .. new : table[r] <= 1 + failedWrites[r]
    BY <1>2 DEF Arrivals
  <2>3. abandoned = {}
    BY <1>1 DEF RowsExplained, QuestDb!RowsExplained
  <2> QED
    BY <1>1, <2>1, <2>2, <2>3 DEF RowsExplained, QuestDb!RowsExplained
<1> QED
  BY <1>15, <1>16, <1>17, <1>18, <1>19
\* Nothing waits that did not, and nothing that waited is gone: the lines have
\* changed their places at most.
LEMMA Rearranged ==
  ASSUME IlpInv, IlpTypes', Apart', Settled', UNCHANGED <<ilpRows, table, failedWrites>>,
         lost \subseteq lost', abandoned \subseteq abandoned',
         abandoned' # {} => ilpStage' \in {"failed", "stopped"},
         \A r \in Nat : QuestDb!Waiting(r)' => QuestDb!Waiting(r),
         \A r \in Nat : QuestDb!Waiting(r) => QuestDb!Waiting(r)' \/ r \in lost' \/ r \in abandoned'
  PROVE  IlpInv'
<1>1. Arrivals'
  BY DEF IlpInv, Arrivals
<1>2. \A r \in 1 .. ilpRows : r \in Nat
  BY DEF IlpInv, IlpTypes
<1>3. \A r \in Nat : QuestDb!Held(r)' => ilpStage' \in {"select", "flush", "send"}
  BY DEF IlpTypes, Settled
<1>4. RowsExplained'
  BY <1>2, <1>3 DEF IlpInv, RowsExplained, QuestDb!RowsExplained
<1> QED
  BY <1>1, <1>4 DEF IlpInv

\* A sink that runs has abandoned nothing.
LEMMA NothingAbandoned ==
  ASSUME IlpInv, ilpStage \in {"select", "flush", "send"}
  PROVE  abandoned = {}
BY DEF IlpInv, RowsExplained, QuestDb!RowsExplained

\* The sink ends: what it held and has not passed on is abandoned.
LEMMA Ended ==
  ASSUME IlpInv, NEW how, how \in {"failed", "stopped"}, NEW passed, QuestDb!End(how, passed)
  PROVE  /\ ilpStage' = how /\ ilpTodo' = {} /\ buffers' = << >> /\ batch' = << >>
         /\ \A r \in Nat : ~ QuestDb!Held(r)'
         /\ \A r \in Nat : QuestDb!Held(r) => QuestDb!Occurs(passed, r) \/ r \in abandoned'
         /\ abandoned \subseteq abandoned'
         /\ Settled' /\ Injective(batch)'
         /\ DOMAIN buffers' = {} /\ buffers' \in [DOMAIN buffers' -> Seq(Nat)] /\ batch' \in Seq(Nat)
<1>1. /\ ilpStage' = how /\ ilpTodo' = {} /\ buffers' = << >> /\ batch' = << >>
      /\ abandoned' = abandoned \cup {r \in 1 .. ilpRows : QuestDb!Held(r) /\ ~ QuestDb!Occurs(passed, r)}
  BY DEF QuestDb!End
<1>2. DOMAIN buffers' = {}
  BY <1>1
<1>3. \A r \in Nat : ~ QuestDb!Held(r)'
  BY <1>1, <1>2, EmptyLine DEF QuestDb!Held
<1>4. \A r \in Nat : QuestDb!Held(r) => r \in 1 .. ilpRows
  BY DEF IlpInv, Arrivals, QuestDb!Waiting
<1>5. \A r \in Nat : QuestDb!Held(r) => QuestDb!Occurs(passed, r) \/ r \in abandoned'
  BY <1>1, <1>4
<1>6. Settled'
  BY <1>1, <1>3 DEF Settled
<1>7. buffers' \in [DOMAIN buffers' -> Seq(Nat)]
  BY <1>1, <1>2
<1> QED
  BY <1>1, <1>2, <1>3, <1>5, <1>6, <1>7, EmptyLine

\* What is left of it is well formed.
LEMMA EndedWell ==
  ASSUME IlpInv, NEW how, how \in {"failed", "stopped"}, NEW passed, QuestDb!End(how, passed),
         wire' \in Seq(Nat), Injective(wire'), UNCHANGED <<ilpCause, ilpRows, table, failedWrites>>
  PROVE  IlpTypes' /\ Apart'
<1>1. /\ ilpStage' = how /\ ilpTodo' = {} /\ batch' = << >> /\ DOMAIN buffers' = {}
      /\ buffers' \in [DOMAIN buffers' -> Seq(Nat)] /\ Injective(batch')
  BY Ended
<1>2. IlpTypes'
  BY <1>1, EmptyLine DEF IlpInv, IlpTypes
<1>3. Apart'
  BY <1>1, EmptyLine DEF Apart
<1> QED
  BY <1>2, <1>3

\* A flush begins, and ends when every buffer is empty.
LEMMA FlushSteps ==
  ASSUME IlpInv, QuestDb!flush_all("tick") \/ QuestDb!flush_all("closed") \/ QuestDb!Flushed
  PROVE  IlpInv'
<1> USE DEF IlpInv
<1>1. CASE QuestDb!flush_all("tick") \/ QuestDb!flush_all("closed")
  <2>1. /\ ilpStage = "select" /\ ilpStage' = "flush" /\ ilpTodo' = DOMAIN buffers
        /\ ilpCause' \in {"tick", "closed"}
        /\ UNCHANGED <<buffers, batch, wire, table, failedWrites, lost, abandoned, ilpRows>>
    BY <1>1 DEF QuestDb!flush_all, QuestDb!netVars
  <2>2. IlpTypes' /\ Apart' /\ Settled'
    BY <2>1 DEF IlpTypes, Apart, Settled
  <2>3. \A r \in Nat : QuestDb!Waiting(r)' <=> QuestDb!Waiting(r)
    BY <2>1 DEF QuestDb!Waiting, QuestDb!Held
  <2> QED
    BY <2>1, <2>2, <2>3, NothingAbandoned, Rearranged
<1>2. CASE QuestDb!Flushed
  <2>1. /\ ilpStage = "flush" /\ ilpTodo = {} /\ ilpStage' \in {"done", "select"} /\ ilpTodo' = {}
        /\ UNCHANGED <<ilpCause, batch, wire, table, failedWrites, lost, abandoned, ilpRows>>
        /\ \/ buffers' = buffers
           \/ \E kept \in SUBSET DOMAIN buffers : buffers' = QuestDb!Restrict(buffers, kept)
    BY <1>2 DEF QuestDb!Flushed, QuestDb!netVars
  <2>2. /\ DOMAIN buffers' \subseteq DOMAIN buffers
        /\ \A s \in DOMAIN buffers' : buffers'[s] = buffers[s]
        /\ buffers' \in [DOMAIN buffers' -> Seq(Nat)]
    <3>1. CASE buffers' = buffers
      BY <3>1 DEF IlpTypes
    <3>2. CASE \E kept \in SUBSET DOMAIN buffers : buffers' = QuestDb!Restrict(buffers, kept)
      BY <3>2 DEF IlpTypes, QuestDb!Restrict
    <3> QED
      BY <2>1, <3>1, <3>2
  <2>3. \A s \in DOMAIN buffers : buffers[s] = << >>
    BY <2>1 DEF Settled
  <2>4. \A r \in Nat : QuestDb!Waiting(r)' <=> QuestDb!Waiting(r)
    BY <2>1, <2>2, <2>3, EmptyLine DEF QuestDb!Waiting, QuestDb!Held
  <2>5. batch' = << >> /\ \A s \in DOMAIN buffers' : buffers'[s] = << >>
    BY <2>1, <2>2, <2>3 DEF Settled
  <2>6. \A r \in Nat : ~ QuestDb!Held(r)'
    BY <2>5, EmptyLine DEF QuestDb!Held
  <2>7. IlpTypes' /\ Settled'
    BY <2>1, <2>2, <2>5, <2>6 DEF IlpTypes, Settled
  <2>8. Apart'
    BY <2>1, <2>2, <2>3, EmptyLine DEF Apart
  <2> QED
    BY <2>1, <2>4, <2>7, <2>8, NothingAbandoned, Rearranged
<1> QED
  BY <1>1, <1>2

\* The buffer of a stream becomes the batch, if there is anything in it.
LEMMA FlushStreamStep ==
  ASSUME IlpInv, NEW s \in Streams \ ObsStreams, QuestDb!FlushStream(s)
  PROVE  IlpInv'
<1> USE DEF IlpInv
<1>1. /\ ilpStage = "flush" /\ s \in ilpTodo /\ ilpTodo' = ilpTodo \ {s}
      /\ buffers' = [buffers EXCEPT ![s] = << >>]
      /\ UNCHANGED <<ilpCause, wire, table, failedWrites, lost, abandoned, ilpRows>>
      /\ IF buffers[s] = << >> THEN UNCHANGED <<ilpStage, batch>>
         ELSE ilpStage' = "send" /\ batch' = buffers[s]
  BY DEF QuestDb!FlushStream, QuestDb!serialize_and_clear, QuestDb!netVars
<1>2. /\ s \in DOMAIN buffers /\ DOMAIN buffers' = DOMAIN buffers /\ buffers'[s] = << >>
      /\ \A u \in DOMAIN buffers : u # s => buffers'[u] = buffers[u]
      /\ buffers' \in [DOMAIN buffers' -> Seq(Nat)]
  BY <1>1, EmptyLine DEF IlpTypes
<1>3. batch = << >>
  BY <1>1 DEF Settled
<1>4. batch' = buffers[s] /\ batch' \in Seq(Nat) /\ Injective(batch')
  BY <1>1, <1>2, <1>3 DEF IlpTypes, Apart
<1>5. \A r \in Nat : QuestDb!Waiting(r)' <=> QuestDb!Waiting(r)
  BY <1>1, <1>2, <1>3, <1>4, EmptyLine DEF QuestDb!Waiting, QuestDb!Held
<1>6. IlpTypes'
  <2>1. ilpTodo' \subseteq DOMAIN buffers'
    BY <1>1, <1>2 DEF IlpTypes
  <2> QED
    BY <1>1, <1>2, <1>4, <2>1 DEF IlpTypes
<1>7. Apart'
  <2>1. Injective(batch)' /\ Injective(wire)' /\ \A u \in DOMAIN buffers' : Injective(buffers'[u])
    BY <1>1, <1>2, <1>4, EmptyLine DEF Apart
  <2>2. \A r \in Nat : ~ (QuestDb!Occurs(batch', r) /\ QuestDb!Occurs(wire', r))
    BY <1>1, <1>2, <1>4 DEF Apart
  <2>3. \A r \in Nat, u \in DOMAIN buffers' : QuestDb!Occurs(buffers'[u], r) =>
          u # s /\ QuestDb!Occurs(buffers[u], r)
    BY <1>2, EmptyLine
  <2>4. ASSUME NEW r \in Nat, NEW u \in DOMAIN buffers', QuestDb!Occurs(buffers'[u], r)
        PROVE  /\ ~ QuestDb!Occurs(batch', r) /\ ~ QuestDb!Occurs(wire', r)
               /\ \A v \in DOMAIN buffers' : QuestDb!Occurs(buffers'[v], r) => v = u
    <3>1. \A v \in DOMAIN buffers : QuestDb!Occurs(buffers[v], r) => v = u
      BY <1>2, <2>3, <2>4 DEF Apart
    <3>2. ~ QuestDb!Occurs(wire', r)
      BY <1>1, <1>2, <2>3, <2>4 DEF Apart
    <3> QED
      BY <1>2, <1>4, <2>3, <2>4, <3>1, <3>2
  <2> QED
    BY <2>1, <2>2, <2>4 DEF Apart
<1>8. Settled'
  BY <1>1, <1>2, <1>3 DEF Settled
<1> QED
  BY <1>1, <1>5, <1>6, <1>7, <1>8, NothingAbandoned, Rearranged

\* The sink ends and the kernel is left as it is.
LEMMA EndingStep ==
  ASSUME IlpInv, NEW how, how \in {"failed", "stopped"}, QuestDb!End(how, << >>),
         UNCHANGED <<ilpCause, wire, table, failedWrites, lost, ilpRows>>
  PROVE  IlpInv'
<1> USE DEF IlpInv
<1>1. IlpTypes' /\ Apart' /\ Settled'
  <2>1. wire' \in Seq(Nat) /\ Injective(wire')
    BY DEF IlpTypes, Apart
  <2> QED
    BY <2>1, Ended, EndedWell
<1>2. \A r \in Nat : QuestDb!Waiting(r)' => QuestDb!Waiting(r)
  BY Ended DEF QuestDb!Waiting
<1>3. \A r \in Nat : QuestDb!Waiting(r) => QuestDb!Waiting(r)' \/ r \in abandoned'
  BY Ended, EmptyLine DEF QuestDb!Waiting
<1> QED
  BY <1>1, <1>2, <1>3, Ended, Rearranged

\* A connection is made or refused, and the kernel takes the batch.
LEMMA SendSteps ==
  ASSUME IlpInv, QuestDb!ensure_connected \/ QuestDb!Write \/ QuestDb!WriteIntoVoid \/ QuestDb!Break
  PROVE  IlpInv'
<1> USE DEF IlpInv
<1>1. CASE QuestDb!ensure_connected
  <2>1. /\ ilpStage = "send"
        /\ UNCHANGED <<ilpCause, wire, table, failedWrites, lost, ilpRows>>
        /\ QuestDb!End("failed", << >>) \/ UNCHANGED <<ilpStage, ilpTodo, buffers, batch, abandoned>>
    BY <1>1 DEF QuestDb!ensure_connected, QuestDb!Continue
  <2>2. CASE QuestDb!End("failed", << >>)
    BY <2>1, <2>2, EndingStep
  <2>3. CASE UNCHANGED <<ilpStage, ilpTodo, buffers, batch, abandoned>>
    <3>1. \A r \in Nat : QuestDb!Waiting(r)' <=> QuestDb!Waiting(r)
      BY <2>1, <2>3 DEF QuestDb!Waiting, QuestDb!Held
    <3>2. IlpTypes' /\ Apart' /\ Settled'
      BY <2>1, <2>3 DEF IlpTypes, Apart, Settled
    <3> QED
      BY <2>1, <2>3, <3>1, <3>2, NothingAbandoned, Rearranged
  <2> QED
    BY <2>1, <2>2, <2>3
<1>2. CASE QuestDb!Write \/ QuestDb!WriteIntoVoid
  <2>1. /\ ilpStage = "send" /\ batch' = << >>
        /\ ilpStage' = IF ilpCause = "full" THEN "select" ELSE "flush"
        /\ UNCHANGED <<ilpCause, ilpTodo, buffers, table, failedWrites, abandoned, ilpRows>>
        /\ \/ wire' = wire \o batch /\ lost' = lost
           \/ wire' = wire /\ lost' = lost \cup {batch[i] : i \in DOMAIN batch}
    BY <1>2 DEF QuestDb!Write, QuestDb!WriteIntoVoid, QuestDb!Sent
  <2>2. /\ wire \o batch \in Seq(Nat) /\ Injective(wire \o batch)
        /\ \A r \in Nat : QuestDb!Occurs(wire \o batch, r) <=>
             QuestDb!Occurs(wire, r) \/ QuestDb!Occurs(batch, r)
    BY JoinedLines DEF IlpTypes, Apart
  <2>3. \A r \in Nat : QuestDb!Occurs(batch, r) => r \in {batch[i] : i \in DOMAIN batch}
    BY DEF QuestDb!Occurs
  <2>4. wire' \in Seq(Nat) /\ Injective(wire') /\ batch' \in Seq(Nat) /\ Injective(batch')
    BY <2>1, <2>2, EmptyLine DEF IlpTypes, Apart
  <2>5. \A r \in Nat :
          /\ ~ QuestDb!Occurs(batch', r)
          /\ QuestDb!Occurs(wire', r) => QuestDb!Occurs(wire, r) \/ QuestDb!Occurs(batch, r)
          /\ QuestDb!Occurs(wire, r) => QuestDb!Occurs(wire', r)
          /\ QuestDb!Occurs(batch, r) => QuestDb!Occurs(wire', r) \/ r \in lost'
    BY <2>1, <2>2, <2>3, EmptyLine
  <2>6. IlpTypes' /\ Settled'
    BY <2>1, <2>4 DEF IlpTypes, Settled
  <2>7. Apart'
    BY <2>1, <2>4, <2>5 DEF Apart
  <2>8. /\ \A r \in Nat : QuestDb!Waiting(r)' => QuestDb!Waiting(r)
        /\ \A r \in Nat : QuestDb!Waiting(r) => QuestDb!Waiting(r)' \/ r \in lost'
    BY <2>1, <2>5 DEF QuestDb!Waiting, QuestDb!Held
  <2> QED
    BY <2>1, <2>6, <2>7, <2>8, NothingAbandoned, Rearranged
<1>3. CASE QuestDb!Break
  <2>1. /\ wire' = << >> /\ lost' = lost \cup {wire[i] : i \in DOMAIN wire}
        /\ UNCHANGED <<ilpStage, ilpCause, ilpTodo, buffers, batch, table, failedWrites, abandoned, ilpRows>>
    BY <1>3 DEF QuestDb!Break, QuestDb!taskVars
  <2>2. \A r \in Nat : QuestDb!Occurs(wire, r) => r \in lost'
    BY <2>1 DEF QuestDb!Occurs
  <2>3. IlpTypes' /\ Settled' /\ Apart'
    <3>1. \A r \in Nat : QuestDb!Held(r)' <=> QuestDb!Held(r)
      BY <2>1 DEF QuestDb!Held
    <3> QED
      BY <2>1, <3>1, EmptyLine DEF IlpTypes, Settled, Apart
  <2>5. abandoned' # {} => ilpStage' \in {"failed", "stopped"}
    BY <2>1 DEF RowsExplained, QuestDb!RowsExplained
  <2>4. /\ \A r \in Nat : QuestDb!Waiting(r)' => QuestDb!Waiting(r)
        /\ \A r \in Nat : QuestDb!Waiting(r) => QuestDb!Waiting(r)' \/ r \in lost'
    BY <2>1, <2>2, EmptyLine DEF QuestDb!Waiting, QuestDb!Held
  <2> QED
    BY <2>1, <2>3, <2>4, <2>5, Rearranged
<1> QED
  BY <1>1, <1>2, <1>3

\* The sink is stopped, inside a write perhaps, of which the kernel has taken a
\* first part: those rows are in the kernel now, the others are abandoned.
LEMMA StopStep == ASSUME IlpInv, QuestDb!Stop PROVE IlpInv'
<1> USE DEF IlpInv
<1>1. PICK n \in 0 .. (IF ilpStage = "send" /\ link = "up" THEN Len(batch) ELSE 0) :
        wire' = wire \o SubSeq(batch, 1, n) /\ QuestDb!End("stopped", SubSeq(batch, 1, n))
  BY DEF QuestDb!Stop
<1>2. Len(batch) \in Nat /\ n \in 0 .. Len(batch)
  BY <1>1 DEF IlpTypes
<1> DEFINE front == SubSeq(batch, 1, n)
<1>3. /\ front \in Seq(Nat) /\ Injective(front)
      /\ \A r \in Nat : QuestDb!Occurs(front, r) => QuestDb!Occurs(batch, r)
  BY <1>2, FrontOfLine DEF IlpTypes, Apart
<1>4. /\ QuestDb!End("stopped", front) /\ wire' = wire \o front
      /\ UNCHANGED <<ilpCause, table, failedWrites, lost, ilpRows>>
  BY <1>1 DEF QuestDb!Stop
<1> HIDE DEF front
<1>5. /\ wire' \in Seq(Nat) /\ Injective(wire')
      /\ \A r \in Nat : QuestDb!Occurs(wire', r) <=> QuestDb!Occurs(wire, r) \/ QuestDb!Occurs(front, r)
  BY <1>3, <1>4, JoinedLines DEF IlpTypes, Apart
<1>6. IlpTypes' /\ Apart' /\ Settled'
  BY <1>4, <1>5, Ended, EndedWell
<1>7. \A r \in Nat : QuestDb!Waiting(r)' => QuestDb!Waiting(r)
  BY <1>3, <1>4, <1>5, Ended DEF QuestDb!Waiting, QuestDb!Held
<1>8. \A r \in Nat : QuestDb!Waiting(r) => QuestDb!Waiting(r)' \/ r \in abandoned'
  BY <1>4, <1>5, Ended DEF QuestDb!Waiting
<1> QED
  BY <1>4, <1>6, <1>7, <1>8, Ended, Rearranged

\* A write fails: what it had brought to the kernel is read up to some byte and
\* lost from there on, and the batch waits to be written again, or is abandoned
\* with all the buffers.
LEMMA WriteFailsStep == ASSUME IlpInv, QuestDb!WriteFails PROVE IlpInv'
<1> USE DEF IlpInv
<1> DEFINE sent == wire \o batch
<1>1. PICK n \in Nat :
        /\ n <= Len(wire) + Len(batch)
        /\ table' = QuestDb!Arrived(SubSeq(sent, 1, n))
        /\ lost' = lost \cup {wire[i] : i \in n + 1 .. Len(wire)}
  <2>1. Len(wire) \in Nat /\ Len(batch) \in Nat
    BY DEF IlpTypes
  <2> QED
    BY <2>1 DEF QuestDb!WriteFails
<1>2. /\ failedWrites' = [r \in 1 .. MaxRows |-> failedWrites[r] + QuestDb!Count(batch, r)]
      /\ wire' = << >> /\ ilpStage = "send"
      /\ UNCHANGED <<ilpCause, ilpRows>>
      /\ QuestDb!End("failed", << >>) \/ UNCHANGED <<ilpStage, ilpTodo, buffers, batch, abandoned>>
  BY DEF QuestDb!WriteFails, QuestDb!Continue
<1>E. /\ ilpStage' \in {"send", "failed"} /\ ilpTodo' \subseteq DOMAIN buffers'
      /\ DOMAIN buffers' \subseteq DOMAIN buffers /\ buffers' \in [DOMAIN buffers' -> Seq(Nat)]
      /\ batch' \in Seq(Nat) /\ abandoned \subseteq abandoned'
      /\ abandoned' # {} => ilpStage' = "failed"
      /\ \A r \in Nat : QuestDb!Held(r)' => QuestDb!Held(r)
      /\ \A r \in Nat : QuestDb!Held(r) => QuestDb!Held(r)' \/ r \in abandoned'
  <2>1. CASE QuestDb!End("failed", << >>)
    BY <2>1, Ended, EmptyLine
  <2>2. CASE UNCHANGED <<ilpStage, ilpTodo, buffers, batch, abandoned>>
    BY <1>2, <2>2, NothingAbandoned DEF IlpTypes, QuestDb!Held
  <2> QED
    BY <1>2, <2>1, <2>2
<1> DEFINE front == SubSeq(sent, 1, n)
<1>3. /\ sent \in Seq(Nat) /\ Len(sent) = Len(wire) + Len(batch) /\ n \in 0 .. Len(sent)
      /\ Len(wire) \in Nat /\ DOMAIN wire = 1 .. Len(wire) /\ \A i \in DOMAIN wire : sent[i] = wire[i]
  BY <1>1, ConcatProperties DEF IlpTypes
<1>4. \A r \in Nat : QuestDb!Occurs(sent, r) <=> QuestDb!Occurs(wire, r) \/ QuestDb!Occurs(batch, r)
  BY JoinedLines DEF IlpTypes
<1> HIDE DEF sent
<1>5. \A r \in Nat : QuestDb!Occurs(front, r) => QuestDb!Occurs(wire, r) \/ QuestDb!Occurs(batch, r)
  BY <1>3, <1>4, FrontOfLine
<1>6. \A i \in 1 .. n : QuestDb!Occurs(front, sent[i])
  BY <1>3, FrontOfLine
<1>7. table' = QuestDb!Arrived(front)
  BY <1>1
<1> HIDE DEF front
<1>8. \A r \in Nat : QuestDb!Occurs(wire, r) => r \in lost' \/ QuestDb!Occurs(front, r)
  <2> SUFFICES ASSUME NEW r \in Nat, NEW i \in 1 .. Len(wire), wire[i] = r
               PROVE  r \in lost' \/ QuestDb!Occurs(front, r)
    BY <1>3 DEF QuestDb!Occurs
  <2>1. CASE i <= n
    BY <1>3, <1>6, <2>1
  <2>2. CASE i > n
    <3>1. i \in n + 1 .. Len(wire)
      BY <1>3, <2>2
    <3> QED
      BY <1>1, <3>1
  <2> QED
    BY <1>1, <2>1, <2>2
<1>9. \A r \in 1 .. MaxRows : table'[r] = table[r] + QuestDb!Count(front, r)
  BY <1>7 DEF QuestDb!Arrived
<1>10. \A r \in 1 .. MaxRows : failedWrites'[r] = failedWrites[r] + QuestDb!Count(batch, r)
  BY <1>2
<1>11. IlpTypes'
  <2>1. \A r \in 1 .. MaxRows : QuestDb!Count(front, r) \in Nat /\ QuestDb!Count(batch, r) \in Nat
    BY DEF QuestDb!Count
  <2>2. \A r \in 1 .. MaxRows : table'[r] \in Nat /\ failedWrites'[r] \in Nat
    <3>1. \A r \in 1 .. MaxRows : table[r] \in Nat /\ failedWrites[r] \in Nat
      BY DEF IlpTypes
    <3> QED
      BY <1>9, <1>10, <2>1, <3>1
  <2>3. /\ table' = [r \in 1 .. MaxRows |-> table'[r]]
        /\ failedWrites' = [r \in 1 .. MaxRows |-> failedWrites'[r]]
    BY <1>2, <1>7 DEF QuestDb!Arrived
  <2>4. table' \in [1 .. MaxRows -> Nat] /\ failedWrites' \in [1 .. MaxRows -> Nat]
    BY <2>2, <2>3
  <2> QED
    BY <1>2, <1>E, <2>4, EmptyLine DEF IlpTypes
<1>12. Apart' /\ Settled'
  <2>1. CASE QuestDb!End("failed", << >>)
    BY <1>2, <2>1, Ended, EmptyLine DEF Apart
  <2>2. CASE UNCHANGED <<ilpStage, ilpTodo, buffers, batch, abandoned>>
    BY <1>2, <2>2, EmptyLine DEF Apart, Settled
  <2> QED
    BY <1>2, <2>1, <2>2
<1>13. \A r \in Nat : QuestDb!Waiting(r)' <=> QuestDb!Held(r)'
  BY <1>2, EmptyLine DEF QuestDb!Waiting
<1>14. \A r \in 1 .. MaxRows : r \in Nat /\ table[r] \in Nat /\ failedWrites[r] \in Nat
  BY DEF IlpTypes
<1>15. ASSUME NEW r \in 1 .. MaxRows
       PROVE  /\ table'[r] <= 1 + failedWrites'[r]
              /\ QuestDb!Waiting(r)' => table'[r] <= failedWrites'[r]
              /\ r > ilpRows => table'[r] = 0
              /\ table'[r] = 0 /\ ~ QuestDb!Waiting(r)' /\ r <= ilpRows => r \in lost' \cup abandoned'
  <2>1. table[r] \in Nat /\ failedWrites[r] \in Nat /\ r \in Nat /\ ilpRows \in Nat
    BY <1>14 DEF IlpTypes
  <2>2. CASE QuestDb!Occurs(batch, r)
    <3>1. failedWrites'[r] = failedWrites[r] + 1 /\ table'[r] <= table[r] + 1
      BY <1>9, <1>10, <2>1, <2>2 DEF QuestDb!Count
    <3>2. table[r] <= failedWrites[r] /\ r \in 1 .. ilpRows
      BY <2>1, <2>2 DEF QuestDb!Waiting, QuestDb!Held, Arrivals
    <3>3. QuestDb!Waiting(r)' \/ r \in abandoned'
      BY <1>13, <1>E, <2>1, <2>2 DEF QuestDb!Held
    <3>4. table'[r] \in Nat /\ r <= ilpRows /\ ~ (r > ilpRows)
      BY <1>11, <2>1, <3>2 DEF IlpTypes
    <3>5. table'[r] <= failedWrites'[r] /\ table'[r] <= 1 + failedWrites'[r]
      BY <2>1, <3>1, <3>2, <3>4
    <3> QED
      BY <3>3, <3>4, <3>5
  <2>3. CASE QuestDb!Occurs(wire, r) /\ ~ QuestDb!Occurs(batch, r)
    <3>1. failedWrites'[r] = failedWrites[r] /\ table'[r] <= table[r] + 1
          /\ (QuestDb!Occurs(front, r) => table'[r] # 0)
      BY <1>9, <1>10, <2>1, <2>3 DEF QuestDb!Count
    <3>2. table[r] <= failedWrites[r] /\ r \in 1 .. ilpRows
      BY <2>1, <2>3 DEF QuestDb!Waiting, QuestDb!Held, Arrivals
    <3>3. ~ QuestDb!Waiting(r)'
      BY <1>13, <1>E, <2>1, <2>3 DEF Apart, QuestDb!Held
    <3>4. r \in lost' \/ QuestDb!Occurs(front, r)
      BY <1>8, <2>1, <2>3
    <3>5. table'[r] \in Nat /\ r <= ilpRows /\ ~ (r > ilpRows)
      BY <1>11, <2>1, <3>2 DEF IlpTypes
    <3>6. table'[r] <= 1 + failedWrites'[r]
      BY <2>1, <3>1, <3>2, <3>5
    <3> QED
      BY <3>1, <3>3, <3>4, <3>5, <3>6
  <2>4. CASE ~ QuestDb!Occurs(wire, r) /\ ~ QuestDb!Occurs(batch, r)
    <3>1. failedWrites'[r] = failedWrites[r] /\ table'[r] = table[r]
      BY <1>5, <1>9, <1>10, <2>1, <2>4 DEF QuestDb!Count
    <3>2. /\ QuestDb!Waiting(r)' => QuestDb!Waiting(r)
          /\ QuestDb!Waiting(r) => QuestDb!Waiting(r)' \/ r \in abandoned'
      BY <1>13, <1>E, <2>1, <2>4 DEF QuestDb!Waiting
    <3>3. /\ table[r] <= 1 + failedWrites[r] /\ (QuestDb!Waiting(r) => table[r] <= failedWrites[r])
          /\ (r > ilpRows => table[r] = 0)
      BY DEF Arrivals
    <3>4. table[r] = 0 /\ ~ QuestDb!Waiting(r) /\ r <= ilpRows => r \in lost \cup abandoned
      BY <1>2, <2>1 DEF RowsExplained, QuestDb!RowsExplained
    <3> QED
      BY <1>1, <1>E, <3>1, <3>2, <3>3, <3>4
  <2> QED
    BY <2>2, <2>3, <2>4
<1>16. \A r \in Nat : QuestDb!Waiting(r)' => r \in 1 .. ilpRows
  BY <1>13, <1>E DEF Arrivals, QuestDb!Waiting
<1>17. Arrivals'
  BY <1>2, <1>15, <1>16 DEF Arrivals
<1>18. RowsExplained'
  <2>1. \A r \in 1 .. ilpRows : r \in 1 .. MaxRows /\ r <= ilpRows /\ r \in Nat
    BY SinksAssumption DEF IlpTypes
  <2>2. \A r \in Nat : QuestDb!Held(r)' => ilpStage' \in {"select", "flush", "send"}
    BY <1>E, <1>12 DEF Settled
  <2> QED
    BY <1>2, <1>E, <1>15, <2>1, <2>2 DEF RowsExplained, QuestDb!RowsExplained
<1> QED
  BY <1>11, <1>12, <1>17, <1>18

\* QuestDB reads a row: one that waits in the kernel, and from then on nowhere.
LEMMA ReadStep == ASSUME IlpInv, QuestDb!Read PROVE IlpInv'
<1> USE DEF IlpInv
<1> DEFINE h == Head(wire)
           one == <<h>>
<1>1. /\ wire # << >> /\ wire' = Tail(wire) /\ table' = QuestDb!Arrived(one)
      /\ UNCHANGED <<ilpStage, ilpCause, ilpTodo, buffers, batch, failedWrites, lost, abandoned, ilpRows>>
  BY DEF QuestDb!Read, QuestDb!taskVars
<1>2. /\ h \in Nat /\ wire' \in Seq(Nat) /\ QuestDb!Occurs(wire, h)
      /\ \A r \in Nat : QuestDb!Occurs(one, r) <=> r = h
      /\ \A r \in Nat : QuestDb!Occurs(wire, r) <=> r = h \/ QuestDb!Occurs(wire', r)
      /\ Injective(wire') /\ ~ QuestDb!Occurs(wire', h)
  BY <1>1, RestOfLine DEF IlpTypes, Apart
<1> HIDE DEF h, one
<1>3. \A r \in 1 .. MaxRows : table'[r] = table[r] + (IF r = h THEN 1 ELSE 0)
  BY <1>1, <1>2 DEF QuestDb!Arrived, QuestDb!Count
<1>4. \A r \in Nat : QuestDb!Waiting(r)' <=> QuestDb!Waiting(r) /\ r # h
  <2>1. ~ QuestDb!Occurs(batch, h) /\ \A s \in DOMAIN buffers : ~ QuestDb!Occurs(buffers[s], h)
    BY <1>2 DEF Apart
  <2> QED
    BY <1>1, <1>2, <2>1 DEF QuestDb!Waiting, QuestDb!Held
<1>5. QuestDb!Waiting(h)
  BY <1>2 DEF QuestDb!Waiting, QuestDb!Held
<1>6. h \in 1 .. ilpRows /\ h \in 1 .. MaxRows /\ ilpRows \in Nat /\ MaxRows \in Nat
  BY <1>2, <1>5, SinksAssumption DEF Arrivals, IlpTypes
<1>7. IlpTypes'
  <2>1. \A r \in 1 .. MaxRows : table[r] \in Nat
    BY DEF IlpTypes
  <2>2. \A r \in 1 .. MaxRows : table'[r] \in Nat
    BY <1>3, <2>1
  <2>3. table' = [r \in 1 .. MaxRows |-> table'[r]]
    BY <1>1 DEF QuestDb!Arrived
  <2>4. table' \in [1 .. MaxRows -> Nat]
    BY <2>2, <2>3
  <2> QED
    BY <1>1, <1>2, <2>4 DEF IlpTypes
<1>H. \A r \in Nat : QuestDb!Held(r)' <=> QuestDb!Held(r)
  BY <1>1 DEF QuestDb!Held
<1>8. Apart' /\ Settled'
  BY <1>1, <1>2, <1>H DEF Apart, Settled
<1>9. ASSUME NEW r \in 1 .. MaxRows
      PROVE  /\ table'[r] <= 1 + failedWrites[r]
             /\ QuestDb!Waiting(r)' => table'[r] <= failedWrites[r]
             /\ r > ilpRows => table'[r] = 0
             /\ table'[r] = 0 => table[r] = 0 /\ r # h
  <2>1. table[r] \in Nat /\ failedWrites[r] \in Nat /\ r \in Nat
    BY DEF IlpTypes
  <2>2. CASE r = h
    BY <1>3, <1>4, <1>5, <1>6, <2>1, <2>2 DEF Arrivals
  <2>3. CASE r # h
    BY <1>3, <1>4, <2>1, <2>3 DEF Arrivals
  <2> QED
    BY <2>2, <2>3
<1>10. \A r \in Nat : QuestDb!Waiting(r)' => r \in 1 .. ilpRows
  BY <1>4 DEF Arrivals
<1>11. Arrivals'
  BY <1>1, <1>9, <1>10 DEF Arrivals
<1>12. RowsExplained'
  <2>1. \A r \in 1 .. ilpRows : r \in 1 .. MaxRows /\ r \in Nat
    BY SinksAssumption DEF IlpTypes
  <2> QED
    BY <1>1, <1>4, <1>9, <1>H, <2>1 DEF RowsExplained, QuestDb!RowsExplained
<1> QED
  BY <1>7, <1>8, <1>11, <1>12

\* Every step of the sink keeps it; steps of other components change nothing here.
LEMMA IlpStep == IlpInv /\ [Next]_vars => IlpInv'
<1> SUFFICES ASSUME IlpInv, [Next]_vars PROVE IlpInv'
  OBVIOUS
<1>1. CASE UNCHANGED questDbVars
  <2>1. \A r \in Nat : QuestDb!Waiting(r)' <=> QuestDb!Waiting(r)
    BY <1>1 DEF questDbVars, QuestDb!Waiting, QuestDb!Held
  <2>2. \A r \in Nat : QuestDb!Held(r)' <=> QuestDb!Held(r)
    BY <1>1 DEF questDbVars, QuestDb!Held
  <2>3. IlpTypes' /\ Apart' /\ Settled'
    BY <1>1, <2>2 DEF questDbVars, IlpInv, IlpTypes, Apart, Settled
  <2>4. UNCHANGED abandoned /\ (abandoned' # {} => ilpStage' \in {"failed", "stopped"})
    BY <1>1 DEF questDbVars, IlpInv, RowsExplained, QuestDb!RowsExplained
  <2> QED
    BY <1>1, <2>1, <2>3, <2>4, Rearranged DEF questDbVars
<1>2. CASE RunQuestDb
  BY <1>2, ReceiveStep, FlushSteps, FlushStreamStep, SendSteps, WriteFailsStep, StopStep, ReadStep
  DEF RunQuestDb, QuestDb!Next
<1> QED
  BY <1>1, <1>2 DEF Next, vars, sinkVars, Only, RunParquet, RunApi, RunStream, RunHistory,
    RunBreaker, RunPosition

\* A row reaches QuestDB once, and once more at most for each write of it that
\* failed; it is missing only while the running sink or the kernel holds it, when
\* the kernel had it as its connection died, or when the sink held it at the moment
\* it failed or was stopped; a sink that ended otherwise has handed on every row.
\* For any streams, batch size and number of retries (questdb.rs, send_bytes and
\* its callers; runtime.rs:97, env.rs:89).
THEOREM IlpRowsExplained == Spec => []RowsExplained
<1>1. IlpInv => RowsExplained
  BY DEF IlpInv
<1> QED
  BY IlpInit, IlpStep, <1>1, PTL DEF Spec
(***************************************************************************)
(* The Parquet sink. Every row is in one buffer or one file. The rows of   *)
(* this process are in files whose numbers it has already used, so that a  *)
(* file it creates holds none of them even if it replaces one; a stage     *)
(* that drops writers finds their buffers empty; and no buffer grows       *)
(* beyond a batch, as a full one is flushed at once.                       *)
(***************************************************************************)
Once ==
  /\ first \in Nat /\ first <= rows /\ rows <= MaxRows
  /\ \A f \in DOMAIN files : files[f].rows \subseteq 1 .. rows
  /\ \A f, g \in DOMAIN files : \A r \in files[f].rows : r \in files[g].rows => f = g
  /\ \A s \in DOMAIN writers : writers[s].buffer \subseteq first + 1 .. rows
  /\ \A s, u \in DOMAIN writers : \A r \in writers[s].buffer : r \in writers[u].buffer => s = u
  /\ \A s \in DOMAIN writers, f \in DOMAIN files : \A r \in writers[s].buffer : r \notin files[f].rows
  /\ \A f \in DOMAIN files : \A r \in files[f].rows : r > first => f[2] <= counters[f[1]]

Emptied ==
  /\ stage = "flush" /\ cause # "full" => \A s \in DOMAIN writers \ todo : writers[s].buffer = {}
  /\ stage = "prune" => \A s \in todo : writers[s].buffer = {}
  /\ stage = "close" => \A s \in DOMAIN writers : writers[s].buffer = {}

Settling(f) == files[f].closed \/ f \in unclosed \/ \E s \in DOMAIN writers : writers[s].file = f
Placed ==
  stage \in {"select", "flush", "prune", "close", "done"} =>
    \A r \in first + 1 .. rows :
      \/ \E s \in DOMAIN writers : r \in writers[s].buffer
      \/ \E f \in DOMAIN files : r \in files[f].rows /\ Settling(f)

Short ==
  \A s \in DOMAIN writers :
    /\ IsFiniteSet(writers[s].buffer) /\ Cardinality(writers[s].buffer) <= BATCH_SIZE
    /\ Cardinality(writers[s].buffer) < BATCH_SIZE \/ (stage = "flush" /\ s \in todo)

RowsInv == ParquetInv /\ Once /\ Emptied /\ Placed /\ Short

\* Initially there are no rows.
LEMMA RowsInit == Init => RowsInv
  BY ParquetInit, SinksAssumption
  DEF Init, Parquet!Init, RowsInv, ParquetInv, ParquetTypes, Once, Emptied, Placed, Short

\* The writers go, or stay as they are, and no row comes.
LEMMA FewerRows ==
  ASSUME RowsInv, ParquetInv', UNCHANGED <<files, counters, rows, first>>,
         writers' \in {<< >>, writers}, Emptied', Placed', Short'
  PROVE  RowsInv'
<1>1. Once'
  <2>1. CASE writers' = << >>
    BY <2>1 DEF RowsInv, Once
  <2>2. CASE writers' = writers
    BY <2>2 DEF RowsInv, Once
  <2> QED
    BY <2>1, <2>2
<1> QED
  BY <1>1 DEF RowsInv

\* A process starts, a stage begins or ends, and the process stops.
LEMMA StageSteps ==
  ASSUME RowsInv, ParquetInv',
         \/ Parquet!Start \/ Parquet!Stop \/ Parquet!Flushed_all \/ Parquet!Finished
         \/ Parquet!flush_all("tick") \/ Parquet!flush_all("closed")
  PROVE  RowsInv'
<1> USE DEF Parquet!diskVars, Parquet!boundVars
<1>1. CASE Parquet!Start
  <2>1. /\ stage' = "select" /\ writers' = << >> /\ UNCHANGED <<files, rows>> /\ first' = rows
    BY <1>1 DEF Parquet!Start
  <2>2. rows \in Nat /\ \A f \in DOMAIN files : files[f].rows \subseteq 1 .. rows
    BY DEF RowsInv, ParquetInv, ParquetTypes, Once
  <2>3. \A r \in 1 .. rows : ~ (r > rows)
    BY <2>2
  <2>4. rows + 1 .. rows = {}
    BY <2>2
  <2>5. Once'
    BY <2>1, <2>2, <2>3 DEF RowsInv, Once
  <2>6. Emptied' /\ Placed' /\ Short'
    BY <2>1, <2>4 DEF Emptied, Placed, Short
  <2> QED
    BY <2>5, <2>6 DEF RowsInv
<1>2. CASE Parquet!Stop
  <2>1. stage' = "down" /\ writers' = << >> /\ UNCHANGED <<files, counters, rows, first>>
    BY <1>2 DEF Parquet!Stop
  <2>2. Emptied' /\ Placed' /\ Short'
    BY <2>1 DEF Emptied, Placed, Short
  <2> QED
    BY <2>1, <2>2, FewerRows
<1>3. CASE Parquet!Flushed_all
  <2>1. /\ stage = "flush" /\ todo = {}
        /\ UNCHANGED <<cause, writers, files, unclosed, counters, rows, first>>
    BY <1>3 DEF Parquet!Flushed_all
  <2>2. \/ cause = "full" /\ stage' = "select"
        \/ cause = "tick" /\ stage' = "prune" /\ todo' \subseteq DOMAIN writers
        \/ cause = "closed" /\ stage' = "close" /\ todo' = DOMAIN writers
    <3>1. CASE cause = "full"
      BY <1>3, <3>1 DEF Parquet!Flushed_all
    <3>2. CASE cause = "tick"
      BY <1>3, <3>2 DEF Parquet!Flushed_all
    <3>3. CASE cause = "closed"
      BY <1>3, <3>3 DEF Parquet!Flushed_all
    <3> QED
      BY <3>1, <3>2, <3>3 DEF RowsInv, ParquetInv, ParquetTypes
  <2>3. Emptied'
    BY <2>1, <2>2 DEF RowsInv, Emptied
  <2>4. Placed'
    BY <2>1, <2>2 DEF RowsInv, Placed, Settling
  <2>5. Short'
    BY <2>1, <2>2 DEF RowsInv, Short
  <2> QED
    BY <2>1, <2>3, <2>4, <2>5, FewerRows
<1>4. CASE Parquet!Finished
  <2>1. /\ stage \in {"prune", "close"} /\ stage' \in {"select", "done"}
        /\ UNCHANGED <<cause, writers, files, unclosed, counters, rows, first>>
    BY <1>4 DEF Parquet!Finished
  <2>2. Emptied'
    BY <2>1 DEF Emptied
  <2>3. Placed'
    BY <2>1 DEF RowsInv, Placed, Settling
  <2>4. Short'
    BY <2>1 DEF RowsInv, Short
  <2> QED
    BY <2>1, <2>2, <2>3, <2>4, FewerRows
<1>5. CASE Parquet!flush_all("tick") \/ Parquet!flush_all("closed")
  <2>1. /\ stage = "select" /\ stage' = "flush" /\ todo' = Parquet!Unflushed(writers)
        /\ UNCHANGED <<writers, files, unclosed, counters, rows, first>>
    BY <1>5 DEF Parquet!flush_all
  <2>2. Emptied'
    BY <2>1 DEF Emptied, Parquet!Unflushed
  <2>3. Placed'
    BY <2>1 DEF RowsInv, Placed, Settling
  <2>4. Short'
    BY <2>1 DEF RowsInv, Short
  <2> QED
    BY <2>1, <2>2, <2>3, <2>4, FewerRows
<1> QED
  BY <1>1, <1>2, <1>3, <1>4, <1>5

\* A row is received: no buffer and no file has it yet.
LEMMA ReceiveRowStep ==
  ASSUME RowsInv, ParquetInv', NEW s \in Streams, Parquet!write_stream_data(s)
  PROVE  RowsInv'
<1> USE DEF RowsInv
<1> DEFINE old == IF s \in DOMAIN writers THEN writers[s].buffer ELSE {}
           fresh == rows + 1 .. rows'
<1>1. /\ stage = "select" /\ rows < MaxRows /\ rows' \in {rows, rows + 1}
      /\ UNCHANGED <<counters, files, unclosed, first>>
  BY DEF Parquet!write_stream_data, Parquet!diskVars
<1>2. PICK w : /\ w = [Parquet!Get(s) EXCEPT !.buffer = Parquet!Get(s).buffer \cup fresh]
               /\ writers' = Parquet!Put(s, w)
               /\ stage' = IF Parquet!Cardinality(w.buffer) >= BATCH_SIZE THEN "flush" ELSE "select"
               /\ cause' = IF Parquet!Cardinality(w.buffer) >= BATCH_SIZE THEN "full" ELSE cause
               /\ todo' = IF Parquet!Cardinality(w.buffer) >= BATCH_SIZE THEN {s} ELSE {}
  BY DEF Parquet!write_stream_data
<1>3. rows \in Nat /\ rows' \in Nat /\ first \in Nat /\ first <= rows /\ MaxRows \in Nat /\ rows <= MaxRows
  BY <1>1, SinksAssumption DEF ParquetInv, ParquetTypes, Once
<1>4. \/ fresh = {} /\ rows' = rows
      \/ fresh = {rows + 1} /\ rows' = rows + 1
  <2>1. CASE rows' = rows
    <3>1. \A r \in fresh : FALSE
      BY <1>3, <2>1
    <3> HIDE DEF fresh
    <3> QED
      BY <2>1, <3>1
  <2>2. CASE rows' = rows + 1
    BY <1>3, <2>2
  <2> QED
    BY <1>1, <2>1, <2>2
<1> HIDE DEF fresh
<1>5. /\ Parquet!Get(s) \in Writer /\ Parquet!Get(s).buffer = old /\ old \subseteq Nat
      /\ s \in DOMAIN writers => Parquet!Get(s).file = writers[s].file
  BY DEF ParquetInv, ParquetTypes, Parquet!Get, Writer
<1>6. w.buffer = old \cup fresh /\ w.file = Parquet!Get(s).file
  <2>1. Parquet!Get(s).buffer \cup fresh \in SUBSET Nat
    BY <1>3, <1>4, <1>5
  <2> QED
    BY <1>2, <1>5, <2>1 DEF Writer
<1>7. /\ DOMAIN writers' = DOMAIN writers \cup {s}
      /\ writers'[s].buffer = old \cup fresh /\ (s \in DOMAIN writers => writers'[s].file = writers[s].file)
      /\ \A u \in DOMAIN writers : u # s => writers'[u] = writers[u]
  BY <1>2, <1>5, <1>6 DEF Parquet!Put
<1>8. old \subseteq first + 1 .. rows /\ \A u \in DOMAIN writers : u # s => old \cap writers[u].buffer = {}
  BY DEF Once
<1>9. \A r \in fresh : r \in first + 1 .. rows' /\ r \notin 1 .. rows /\ r \notin first + 1 .. rows
  BY <1>3, <1>4
<1>10. /\ 1 .. rows \subseteq 1 .. rows' /\ first + 1 .. rows \subseteq first + 1 .. rows'
       /\ first + 1 .. rows' = (first + 1 .. rows) \cup fresh
  BY <1>3, <1>4
<1>11. Once'
  <2>1. first' \in Nat /\ first' <= rows' /\ rows' <= MaxRows
    BY <1>1, <1>3
  <2>2. \A f \in DOMAIN files : files[f].rows \subseteq 1 .. rows' /\ \A r \in fresh : r \notin files[f].rows
    BY <1>9, <1>10 DEF Once
  <2>3. \A u \in DOMAIN writers' : writers'[u].buffer \subseteq first + 1 .. rows'
    BY <1>7, <1>8, <1>10 DEF Once
  <2>4. \A u \in DOMAIN writers : \A r \in fresh : r \notin writers[u].buffer
    BY <1>9 DEF Once
  <2>5. \A u, v \in DOMAIN writers' : \A r \in writers'[u].buffer : r \in writers'[v].buffer => u = v
    BY <1>7, <1>8, <2>4 DEF Once
  <2>6. \A r \in old : \A f \in DOMAIN files : r \notin files[f].rows
    BY DEF Once
  <2>7. \A u \in DOMAIN writers', f \in DOMAIN files : \A r \in writers'[u].buffer : r \notin files[f].rows
    BY <1>7, <2>2, <2>6 DEF Once
  <2> QED
    BY <1>1, <2>1, <2>2, <2>3, <2>5, <2>7 DEF Once
<1>12. Emptied'
  BY <1>2 DEF Emptied
<1>13. Placed'
  <2>1. ASSUME NEW f \in DOMAIN files, Settling(f) PROVE Settling(f)'
    BY <1>1, <1>7, <2>1 DEF Settling
  <2>2. \A r \in first + 1 .. rows :
          \/ \E u \in DOMAIN writers : r \in writers[u].buffer
          \/ \E f \in DOMAIN files : r \in files[f].rows /\ Settling(f)
    BY <1>1 DEF Placed
  <2>3. \A u \in DOMAIN writers : writers[u].buffer \subseteq writers'[u].buffer
    BY <1>7
  <2>4. \A r \in first' + 1 .. rows' :
          \/ \E u \in DOMAIN writers' : r \in writers'[u].buffer
          \/ \E f \in DOMAIN files' : r \in files'[f].rows /\ Settling(f)'
    BY <1>1, <1>7, <1>10, <2>1, <2>2, <2>3
  <2> QED
    BY <2>4 DEF Placed
<1>14. Short'
  <2>1. IsFiniteSet(old) /\ Cardinality(old) \in Nat /\ Cardinality(old) < BATCH_SIZE
    <3>1. CASE s \in DOMAIN writers
      BY <1>1, <3>1, FS_CardinalityType DEF Short
    <3>2. CASE s \notin DOMAIN writers
      BY <3>2, FS_EmptySet, SinksAssumption
    <3> QED
      BY <3>1, <3>2
  <2>2. /\ IsFiniteSet(old \cup fresh) /\ Cardinality(old \cup fresh) \in Nat
        /\ Cardinality(old \cup fresh) <= BATCH_SIZE
    <3>1. CASE fresh = {}
      <4>1. old \cup fresh = old
        BY <3>1
      <4> QED
        BY <2>1, <4>1, SinksAssumption
    <3>2. CASE fresh = {rows + 1}
      <4>1. /\ IsFiniteSet(old \cup {rows + 1})
            /\ Cardinality(old \cup {rows + 1}) \in {Cardinality(old), Cardinality(old) + 1}
        BY <2>1, FS_AddElement
      <4>2. \A k \in Nat : k < BATCH_SIZE => k + 1 <= BATCH_SIZE /\ k <= BATCH_SIZE
        BY SinksAssumption
      <4> QED
        BY <2>1, <3>2, <4>1, <4>2
    <3> QED
      BY <1>4, <3>1, <3>2
  <2>3. Parquet!Cardinality(w.buffer) = Cardinality(old \cup fresh)
    BY <1>6 DEF Parquet!Cardinality, Cardinality
  <2>4. Cardinality(old \cup fresh) < BATCH_SIZE \/ (stage' = "flush" /\ s \in todo')
    BY <1>2, <2>2, <2>3, SinksAssumption
  <2>5. \A u \in DOMAIN writers : Cardinality(writers[u].buffer) < BATCH_SIZE
    BY <1>1 DEF Short
  <2> HIDE DEF old
  <2> QED
    BY <1>7, <2>2, <2>4, <2>5 DEF Short
<1> QED
  BY <1>11, <1>12, <1>13, <1>14
\* No file is called nothing.
LEMMA RealName == \A x \in FileNames : x # Parquet!NoFile
<1> SUFFICES ASSUME NEW k \in Parquet!Keys, NEW n \in Nat PROVE <<k, n>> # << >>
  BY DEF FileNames, Parquet!NoFile
<1> QED
  OBVIOUS

\* A file is created. What it replaces, if anything, holds no row of this
\* process, whose files have numbers that are counted.
LEMMA CreateRowStep ==
  ASSUME RowsInv, ParquetInv', NEW s \in Streams, Parquet!ensure_writer_initialized(s)
  PROVE  RowsInv'
<1> USE DEF RowsInv
<1> DEFINE n == counters[Key[s]] + 1
           f == <<Key[s], n>>
           created == [x \in DOMAIN files \cup {f} |->
                         IF x = f THEN [rows |-> {}, closed |-> FALSE] ELSE files[x]]
<1>1. /\ stage = "flush" /\ s \in todo /\ writers[s].file = Parquet!NoFile
      /\ counters' = [counters EXCEPT ![Key[s]] = n] /\ UNCHANGED <<cause, todo, unclosed, rows, first>>
      /\ \/ files' = created /\ writers' = [writers EXCEPT ![s].file = f] /\ stage' = stage
         \/ files' \in {files, created} /\ stage' = "failed" /\ writers' = << >>
  BY DEF Parquet!ensure_writer_initialized
<1>2. Key[s] \in Parquet!Keys /\ counters[Key[s]] \in Nat /\ n \in Nat /\ s \in DOMAIN writers
  BY <1>1 DEF ParquetInv, ParquetTypes, Parquet!Keys
<1>3. \A x \in DOMAIN files : x[1] \in Parquet!Keys /\ x[2] \in Nat
  BY DEF ParquetInv, ParquetTypes, FileNames
<1>4. \A k \in Parquet!Keys : counters[k] <= counters'[k] /\ counters[k] \in Nat /\ counters'[k] \in Nat
  BY <1>1, <1>2 DEF ParquetInv, ParquetTypes
<1>5. f[1] = Key[s] /\ f[2] = n
  OBVIOUS
<1>6. ASSUME f \in DOMAIN files, NEW r \in files[f].rows PROVE ~ (r > first)
  <2>1. r > first => f[2] <= counters[f[1]]
    BY <1>6 DEF Once
  <2> QED
    BY <1>2, <1>5, <2>1
<1>7. /\ DOMAIN created = DOMAIN files \cup {f} /\ created[f].rows = {}
      /\ \A x \in DOMAIN files : x # f => created[x] = files[x]
  OBVIOUS
<1> HIDE DEF n, f, created
<1>8. \A x \in DOMAIN files' :
        \/ x \in DOMAIN files /\ files'[x] = files[x]
        \/ x = f /\ files'[x].rows = {}
  BY <1>1, <1>7
<1>9. /\ DOMAIN writers' \subseteq DOMAIN writers
      /\ \A u \in DOMAIN writers' : writers'[u].buffer = writers[u].buffer
  <2>1. CASE writers' = << >>
    BY <2>1
  <2>2. CASE writers' = [writers EXCEPT ![s].file = f]
    <3>1. \A u \in DOMAIN writers : writers[u] \in Writer
      BY DEF ParquetInv, ParquetTypes
    <3> QED
      BY <2>2, <3>1 DEF Writer
  <2> QED
    BY <1>1, <2>1, <2>2
<1>10. Once'
  <2>1. \A x \in DOMAIN files' : files'[x].rows \subseteq 1 .. rows
    BY <1>8 DEF Once
  <2>2. \A x, y \in DOMAIN files' : \A r \in files'[x].rows : r \in files'[y].rows => x = y
    BY <1>8 DEF Once
  <2>3. \A u \in DOMAIN writers' : writers'[u].buffer \subseteq first + 1 .. rows
    BY <1>9 DEF Once
  <2>4. \A u, v \in DOMAIN writers' : \A r \in writers'[u].buffer : r \in writers'[v].buffer => u = v
    BY <1>9 DEF Once
  <2>5. \A u \in DOMAIN writers', x \in DOMAIN files' : \A r \in writers'[u].buffer : r \notin files'[x].rows
    BY <1>8, <1>9 DEF Once
  <2>6. ASSUME NEW x \in DOMAIN files', NEW r \in files'[x].rows, r > first PROVE x[2] <= counters'[x[1]]
    <3>1. x \in DOMAIN files /\ r \in files[x].rows
      BY <1>8, <2>6
    <3>2. x[2] <= counters[x[1]]
      BY <2>6, <3>1 DEF Once
    <3> QED
      BY <1>3, <1>4, <3>1, <3>2
  <2> QED
    BY <1>1, <2>1, <2>2, <2>3, <2>4, <2>5, <2>6 DEF Once
<1>11. CASE stage' = "failed" /\ writers' = << >>
  <2>1. Emptied' /\ Placed' /\ Short'
    BY <1>11 DEF Emptied, Placed, Short
  <2> QED
    BY <1>10, <2>1
<1>12. CASE files' = created /\ writers' = [writers EXCEPT ![s].file = f] /\ stage' = stage
  <2>1. DOMAIN writers' = DOMAIN writers
    BY <1>12
  <2>2. Emptied'
    BY <1>1, <1>9, <1>12, <2>1 DEF Emptied
  <2>3. Short'
    BY <1>1, <1>9, <1>12, <2>1 DEF Short
  <2>4. \A u \in DOMAIN writers : u # s => writers'[u] = writers[u]
    BY <1>12
  <2>5. Placed'
    <3> SUFFICES ASSUME NEW r \in first + 1 .. rows
                 PROVE  \/ \E u \in DOMAIN writers' : r \in writers'[u].buffer
                        \/ \E x \in DOMAIN files' : r \in files'[x].rows /\ Settling(x)'
      BY <1>1 DEF Placed
    <3>1. CASE \E u \in DOMAIN writers : r \in writers[u].buffer
      BY <1>9, <2>1, <3>1
    <3>2. CASE \E x \in DOMAIN files : r \in files[x].rows /\ Settling(x)
      <4>1. PICK x \in DOMAIN files : r \in files[x].rows /\ Settling(x)
        BY <3>2
      <4>2. r > first
        BY DEF Once
      <4>3. x # f
        BY <1>6, <4>1, <4>2
      <4>4. x \in DOMAIN files' /\ files'[x] = files[x]
        BY <1>7, <1>12, <4>3
      <4>5. x # Parquet!NoFile
        <5>1. x \in FileNames
          BY DEF ParquetInv, ParquetTypes
        <5> QED
          BY <5>1, RealName
      <4>6. Settling(x)'
        BY <1>1, <2>1, <2>4, <4>1, <4>4, <4>5 DEF Settling
      <4> QED
        BY <4>1, <4>4, <4>6
    <3> QED
      BY <1>1, <3>1, <3>2 DEF Placed
  <2> QED
    BY <1>10, <2>2, <2>3, <2>5
<1> QED
  BY <1>1, <1>11, <1>12

\* A buffer is written to the file of its stream, or the sink fails.
LEMMA WriteRowsStep ==
  ASSUME RowsInv, ParquetInv', NEW s \in Streams, Parquet!write_batch(s)
  PROVE  RowsInv'
<1> USE DEF RowsInv
<1> DEFINE f == writers[s].file
           written == files[f].rows \cup writers[s].buffer
<1>1. /\ stage = "flush" /\ s \in todo /\ f # Parquet!NoFile /\ s \in DOMAIN writers
      /\ UNCHANGED <<cause, counters, unclosed, rows, first>>
  BY DEF Parquet!write_batch, ParquetInv, ParquetTypes
<1>2. CASE stage' = "failed" /\ writers' = << >> /\ files' = files
  <2>1. Emptied' /\ Placed' /\ Short'
    BY <1>2 DEF Emptied, Placed, Short
  <2> QED
    BY <1>1, <1>2, <2>1, FewerRows
<1>3. CASE /\ files' = [files EXCEPT ![f].rows = written]
           /\ writers' = [writers EXCEPT ![s] = Parquet!Cleared(writers[s])]
           /\ todo' = todo \ {s} /\ stage' = stage
  <2>1. f \in DOMAIN files /\ f[1] = Key[s] /\ f[2] <= counters[Key[s]]
    BY <1>1 DEF ParquetInv, Owned
  <2>2. /\ DOMAIN files' = DOMAIN files
        /\ files'[f].rows = written /\ files'[f].closed = files[f].closed
        /\ \A x \in DOMAIN files : x # f => files'[x] = files[x]
    <3>1. files[f] \in [rows : SUBSET Nat, closed : BOOLEAN]
      BY <2>1 DEF ParquetInv, ParquetTypes
    <3> QED
      BY <1>3, <2>1, <3>1
  <2>3. /\ DOMAIN writers' = DOMAIN writers /\ writers'[s].buffer = {} /\ writers'[s].file = f
        /\ \A u \in DOMAIN writers : u # s => writers'[u] = writers[u]
    <3>1. writers[s] \in Writer
      BY <1>1 DEF ParquetInv, ParquetTypes
    <3> QED
      BY <1>1, <1>3, <3>1 DEF Parquet!Cleared, Writer
  <2>4. \A x \in DOMAIN files : \A r \in files'[x].rows : r \in files[x].rows \/ (x = f /\ r \in writers[s].buffer)
    BY <2>2
  <2> HIDE DEF f, written
  <2>5. Once'
    <3>1. \A x \in DOMAIN files : files'[x].rows \subseteq 1 .. rows
      <4>1. first + 1 .. rows \subseteq 1 .. rows
        BY DEF Once, ParquetInv, ParquetTypes
      <4> QED
        BY <1>1, <2>4, <4>1 DEF Once
    <3>2. \A x, y \in DOMAIN files : \A r \in files'[x].rows : r \in files'[y].rows => x = y
      BY <1>1, <2>4 DEF Once
    <3>3. \A u \in DOMAIN writers : writers'[u].buffer \subseteq writers[u].buffer
      BY <2>3
    <3>4. \A u \in DOMAIN writers : writers'[u].buffer \subseteq first + 1 .. rows
      BY <3>3 DEF Once
    <3>5. \A u, v \in DOMAIN writers : \A r \in writers'[u].buffer : r \in writers'[v].buffer => u = v
      BY <3>3 DEF Once
    <3>6. ASSUME NEW u \in DOMAIN writers, NEW x \in DOMAIN files, NEW r \in writers'[u].buffer
          PROVE  r \notin files'[x].rows
      <4>1. r \in writers[u].buffer /\ u # s
        BY <2>3, <3>3, <3>6
      <4>2. r \notin writers[s].buffer /\ r \notin files[x].rows
        BY <1>1, <4>1 DEF Once
      <4> QED
        BY <2>4, <4>2
    <3>7. \A x \in DOMAIN files : \A r \in files'[x].rows : r > first => x[2] <= counters[x[1]]
      BY <2>1, <2>4 DEF Once
    <3> QED
      BY <1>1, <2>2, <2>3, <3>1, <3>2, <3>4, <3>5, <3>6, <3>7 DEF Once
  <2>6. Emptied'
    BY <1>1, <1>3, <2>3 DEF Emptied
  <2>7. Short'
    <3>1. Cardinality({}) = 0 /\ IsFiniteSet({}) /\ 0 < BATCH_SIZE /\ 0 <= BATCH_SIZE
      BY FS_EmptySet, SinksAssumption
    <3> QED
      BY <1>1, <1>3, <2>3, <3>1 DEF Short
  <2>8. Placed'
    <3> SUFFICES ASSUME NEW r \in first + 1 .. rows
                 PROVE  \/ \E u \in DOMAIN writers' : r \in writers'[u].buffer
                        \/ \E x \in DOMAIN files' : r \in files'[x].rows /\ Settling(x)'
      BY <1>1 DEF Placed
    <3>1. \A u \in DOMAIN writers : writers'[u].file = writers[u].file
      BY <2>3 DEF f
    <3>2. ASSUME NEW x \in DOMAIN files, Settling(x) PROVE Settling(x)'
      BY <1>1, <2>2, <2>3, <3>1, <3>2 DEF Settling
    <3>3. \A x \in DOMAIN files : files[x].rows \subseteq files'[x].rows
      BY <2>2 DEF written
    <3>4. CASE r \in writers[s].buffer
      <4>1. PICK x \in DOMAIN files : x = f
        BY <2>1
      <4>2. r \in files'[x].rows
        BY <2>2, <3>4, <4>1 DEF written
      <4>3. s \in DOMAIN writers' /\ writers'[s].file = x
        BY <1>1, <2>3, <4>1
      <4>4. Settling(x)'
        BY <4>3 DEF Settling
      <4> QED
        BY <2>2, <4>2, <4>4
    <3>5. CASE \E u \in DOMAIN writers : u # s /\ r \in writers[u].buffer
      BY <2>3, <3>5
    <3>6. CASE \E x \in DOMAIN files : r \in files[x].rows /\ Settling(x)
      BY <2>2, <3>2, <3>3, <3>6
    <3> QED
      BY <1>1, <3>4, <3>5, <3>6 DEF Placed
  <2> QED
    BY <2>5, <2>6, <2>7, <2>8
<1> QED
  BY <1>1, <1>2, <1>3 DEF Parquet!write_batch

\* A file is closed and its writer forgotten; its buffer is empty.
LEMMA CloseRowsStep ==
  ASSUME RowsInv, ParquetInv', NEW s \in Streams,
         Parquet!prune_idle_writers(s) \/ Parquet!close(s)
  PROVE  RowsInv'
<1> USE DEF RowsInv
<1> DEFINE f == writers[s].file
<1>1. /\ stage \in {"prune", "close"} /\ s \in todo /\ todo' = todo \ {s}
      /\ UNCHANGED <<cause, counters, rows, first>> /\ unclosed \subseteq unclosed'
      /\ \/ /\ writers' = Parquet!Without(s) /\ stage' = stage
            /\ \/ files' = Parquet!Closed(f)
               \/ files' = files /\ f # Parquet!NoFile /\ f \in unclosed'
         \/ files' = files /\ stage' = "failed" /\ writers' = << >>
  BY DEF Parquet!prune_idle_writers, Parquet!close
<1>2. s \in DOMAIN writers /\ writers[s].buffer = {}
  BY <1>1 DEF ParquetInv, ParquetTypes, Emptied
<1>3. CASE files' = files /\ stage' = "failed" /\ writers' = << >>
  <2>1. Emptied' /\ Placed' /\ Short'
    BY <1>3 DEF Emptied, Placed, Short
  <2> QED
    BY <1>1, <1>3, <2>1, FewerRows
<1>4. CASE /\ writers' = Parquet!Without(s) /\ stage' = stage
           /\ \/ files' = Parquet!Closed(f)
              \/ files' = files /\ f # Parquet!NoFile /\ f \in unclosed'
  <2>1. /\ DOMAIN writers' = DOMAIN writers \ {s}
        /\ \A u \in DOMAIN writers' : writers'[u] = writers[u]
    BY <1>4 DEF Parquet!Without, Parquet!Restrict
  <2>2. f # Parquet!NoFile => f \in DOMAIN files
    BY <1>2 DEF ParquetInv, Owned
  <2>3. \A x \in DOMAIN files : files[x] \in [rows : SUBSET Nat, closed : BOOLEAN]
    BY DEF ParquetInv, ParquetTypes
  <2> HIDE DEF f
  <2>4. /\ DOMAIN files' = DOMAIN files
        /\ \A x \in DOMAIN files : files'[x].rows = files[x].rows /\ (files[x].closed => files'[x].closed)
        /\ f # Parquet!NoFile => files'[f].closed \/ f \in unclosed'
    <3>1. CASE files' = files
      <4>1. f = Parquet!NoFile \/ f \in unclosed' \/ files' = Parquet!Closed(f)
        BY <1>4
      <4>2. CASE f # Parquet!NoFile /\ files' = Parquet!Closed(f)
        <5>1. files' = [files EXCEPT ![f].closed = TRUE]
          BY <4>2 DEF Parquet!Closed
        <5>2. files'[f].closed
          BY <2>2, <2>3, <4>2, <5>1
        <5> QED
          BY <3>1, <5>2
      <4> QED
        BY <3>1, <4>1, <4>2
    <3>2. CASE files' = Parquet!Closed(f) /\ f # Parquet!NoFile
      <4>1. files' = [files EXCEPT ![f].closed = TRUE]
        BY <3>2 DEF Parquet!Closed
      <4>2. DOMAIN files' = DOMAIN files /\ files'[f].rows = files[f].rows /\ files'[f].closed
        BY <2>2, <2>3, <3>2, <4>1
      <4>3. \A x \in DOMAIN files : x # f => files'[x] = files[x]
        BY <4>1
      <4> QED
        BY <4>2, <4>3
    <3> QED
      BY <1>4, <3>1, <3>2 DEF Parquet!Closed
  <2>5. Once'
    BY <1>1, <2>1, <2>4 DEF Once
  <2>6. Emptied'
    <3>1. todo' \subseteq DOMAIN writers'
      BY <1>1, <1>4, <2>1 DEF ParquetInv, ParquetTypes
    <3> QED
      BY <1>1, <1>4, <2>1, <3>1 DEF Emptied
  <2>7. Short'
    BY <1>1, <2>1 DEF Short
  <2>8. ASSUME NEW x \in DOMAIN files, Settling(x) PROVE Settling(x)'
    <3>1. x # Parquet!NoFile
      <4>1. x \in FileNames
        BY DEF ParquetInv, ParquetTypes
      <4> QED
        BY <4>1, RealName
    <3>2. \A u \in DOMAIN writers : writers[u].file = x => x = f \/ u \in DOMAIN writers'
      BY <2>1 DEF f
    <3> QED
      BY <1>1, <2>1, <2>4, <2>8, <3>1, <3>2 DEF Settling
  <2>9. Placed'
    <3>1. \A r \in first + 1 .. rows :
            \/ \E u \in DOMAIN writers : r \in writers[u].buffer
            \/ \E x \in DOMAIN files : r \in files[x].rows /\ Settling(x)
      BY <1>1 DEF Placed
    <3>2. \A u \in DOMAIN writers : writers[u].buffer # {} => u \in DOMAIN writers'
      BY <1>2, <2>1
    <3>3. \A r \in first' + 1 .. rows' :
            \/ \E u \in DOMAIN writers' : r \in writers'[u].buffer
            \/ \E x \in DOMAIN files' : r \in files'[x].rows /\ Settling(x)'
      BY <1>1, <2>1, <2>4, <2>8, <3>1, <3>2
    <3> QED
      BY <3>3 DEF Placed
  <2> QED
    BY <2>5, <2>6, <2>7, <2>9
<1> QED
  BY <1>1, <1>3, <1>4

\* Every step keeps it.
LEMMA RowsStep == RowsInv /\ [Next]_vars => RowsInv'
<1> SUFFICES ASSUME RowsInv, [Next]_vars PROVE RowsInv'
  OBVIOUS
<1>1. ParquetInv'
  BY ParquetStep DEF RowsInv
<1>2. CASE UNCHANGED parquetVars
  BY <1>1, <1>2 DEF parquetVars, RowsInv, Once, Emptied, Placed, Settling, Short
<1>3. CASE RunParquet
  BY <1>1, <1>3, StageSteps, ReceiveRowStep, CreateRowStep, WriteRowsStep, CloseRowsStep
  DEF RunParquet, Parquet!Next
<1> QED
  BY <1>2, <1>3 DEF Next, vars, sinkVars, Only, RunQuestDb, RunApi, RunStream, RunHistory,
    RunBreaker, RunPosition
\* A set no two members of which differ.
LEMMA AtMostOne ==
  ASSUME NEW S, \A x, y \in S : x = y
  PROVE  Parquet!Cardinality(S) = IF S = {} THEN 0 ELSE 1
<1>1. Parquet!Cardinality(S) = Cardinality(S)
  BY DEF Parquet!Cardinality, Cardinality
<1>2. CASE S = {}
  BY <1>1, <1>2, FS_EmptySet
<1>3. CASE S # {}
  <2>1. PICK x : S = {x}
    BY <1>3
  <2> QED
    BY <1>1, <1>3, <2>1, FS_Singleton
<1> QED
  BY <1>2, <1>3

\* A row a stream sends to the Parquet sink is in one file at most, ever; files
\* have one writer, while they are open; and while the sink works and when it
\* has closed, each row of this process is in one buffer or in one file that is
\* closed, will be, or could not be, for any streams that may share names and
\* any number of restarts and faults (multi_stream_sink.rs, file_manager.rs).
THEOREM ParquetRowsOnce == Spec => []RowsOnce
<1>1. ASSUME RowsInv PROVE RowsOnce
  <2> USE <1>1 DEF RowsInv
  <2>1. \A r : \A f, g \in Parquet!Holding(r) : f = g
    BY DEF Once, Parquet!Holding
  <2>2. \A r : Parquet!Cardinality(Parquet!Holding(r)) = IF Parquet!Holding(r) = {} THEN 0 ELSE 1
    BY <2>1, AtMostOne
  <2>3. \A r : \A s, u \in Parquet!Buffering(r) : s = u
    BY DEF Once, Parquet!Buffering
  <2>4. \A r : Parquet!Cardinality(Parquet!Buffering(r)) = IF Parquet!Buffering(r) = {} THEN 0 ELSE 1
    BY <2>3, AtMostOne
  <2>5. ASSUME NEW f \in DOMAIN files
        PROVE  /\ \A s, u \in Parquet!Writing(f) : s = u
               /\ Parquet!Writing(f) # {} => ~ files[f].closed
    <3>1. f # Parquet!NoFile
      <4>1. f \in FileNames
        BY DEF ParquetInv, ParquetTypes
      <4> QED
        BY <4>1, RealName
    <3> QED
      BY <3>1 DEF ParquetInv, Owned, Parquet!Writing
  <2>6. ASSUME NEW f \in DOMAIN files PROVE Parquet!Cardinality(Parquet!Writing(f)) <= 1
    <3>1. \A s, u \in Parquet!Writing(f) : s = u
      BY <2>5
    <3>2. Parquet!Cardinality(Parquet!Writing(f)) = IF Parquet!Writing(f) = {} THEN 0 ELSE 1
      BY <3>1, AtMostOne
    <3> QED
      BY <3>2
  <2>7. \A r \in 1 .. rows : Parquet!Cardinality(Parquet!Holding(r)) <= 1
    BY <2>2
  <2>8. ASSUME stage \in {"select", "flush", "prune", "close", "done"}, NEW r \in first + 1 .. rows
        PROVE  /\ Parquet!Cardinality(Parquet!Holding(r)) + Parquet!Cardinality(Parquet!Buffering(r)) = 1
               /\ \A f \in Parquet!Holding(r) : files[f].closed \/ Parquet!Writing(f) # {} \/ f \in unclosed
    <3>1. CASE \E s \in DOMAIN writers : r \in writers[s].buffer
      <4>1. Parquet!Holding(r) = {} /\ Parquet!Buffering(r) # {}
        BY <3>1 DEF Once, Parquet!Holding, Parquet!Buffering
      <4> QED
        BY <2>2, <2>4, <4>1
    <3>2. CASE \E f \in DOMAIN files : r \in files[f].rows /\ Settling(f)
      <4>1. PICK f \in DOMAIN files : r \in files[f].rows /\ Settling(f)
        BY <3>2
      <4>2. Parquet!Buffering(r) = {} /\ f \in Parquet!Holding(r)
        BY <4>1 DEF Once, Parquet!Holding, Parquet!Buffering
      <4>3. files[f].closed \/ Parquet!Writing(f) # {} \/ f \in unclosed
        BY <4>1 DEF Settling, Parquet!Writing
      <4>4. \A g \in Parquet!Holding(r) : g = f
        BY <2>1, <4>2
      <4>5. Parquet!Cardinality(Parquet!Holding(r)) + Parquet!Cardinality(Parquet!Buffering(r)) = 1
        BY <2>2, <2>4, <4>2
      <4> QED
        BY <4>3, <4>4, <4>5
    <3> QED
      BY <2>8, <3>1, <3>2 DEF Placed
  <2> QED
    BY <2>5, <2>6, <2>7, <2>8 DEF RowsOnce, Parquet!RowsOnce
<1>2. RowsInv => RowsOnce
  BY <1>1
<1> QED
  BY RowsInit, RowsStep, <1>2, PTL DEF Spec
=============================================================================
