---------------------------- MODULE MonoSeqProofs ----------------------------
(***************************************************************************)
(* The generator of MonoSeq, for any processes, threads, machine ids and   *)
(* bounds. Increasing and FreshAfterRestart speak of ids, which are        *)
(* numbers; the proofs go through the stamps (milliseconds, sequence) the  *)
(* ids are made of, and the lemmas on IdOf carry the order over.           *)
(***************************************************************************)
EXTENDS MonoSeq, TLAPS

\* The lexicographic order of packed states.
Before(a, b) == a.ms < b.ms \/ (a.ms = b.ms /\ a.seq < b.seq)

(***************************************************************************)
(* Arithmetic of a number with a low digit below K.                        *)
(***************************************************************************)
LEMMA ProductNat == \A a, b \in Nat : a * b \in Nat
  OBVIOUS

LEMMA Digits ==
  ASSUME NEW K \in Nat, NEW x \in Nat, NEW y \in Nat, NEW r \in Nat, NEW q \in Nat,
         x < y, r < K
  PROVE  x * K + r < y * K + q
<1>1. PICK d \in Nat : y = x + 1 + d
  <2>1. y - x - 1 \in Nat /\ y = x + 1 + (y - x - 1)  OBVIOUS
  <2>2. QED  BY <2>1
<1>2. y * K = x * K + K + d * K
  BY <1>1
<1>3. d * K \in Nat /\ x * K \in Nat /\ y * K \in Nat
  BY <1>1, ProductNat
<1>4. QED  BY <1>2, <1>3

LEMMA StampParts ==
  ASSUME NEW s \in Stamp
  PROVE  s.ms \in Nat /\ s.ms <= MaxMs /\ s.seq \in Nat /\ s.seq < MAX_SEQ + 1
  BY BoundsAssumption DEF Stamp

LEMMA MachineParts ==
  ASSUME NEW p \in Process
  PROVE  MachineId[p] \in Nat /\ MachineId[p] < MachineCount /\ MachineCount \in Nat
  BY MachineAssumption

(***************************************************************************)
(* What IdOf does: ids are numbers within IdBound; a later stamp gives a   *)
(* greater id; different machines never give the same id.                  *)
(***************************************************************************)
LEMMA IdInBound ==
  ASSUME NEW p \in Process, NEW s \in Stamp
  PROVE  IdOf(MachineId[p], s) \in 0 .. IdBound /\ IdOf(MachineId[p], s) \in Nat
<1> DEFINE high == s.ms * MachineCount + MachineId[p]
           top == (MaxMs + 1) * MachineCount
           W == MAX_SEQ + 1
<1>1. high \in Nat /\ top \in Nat /\ W \in Nat
  BY StampParts, MachineParts, BoundsAssumption, ProductNat
<1>2. high < top
  <2>1. s.ms < MaxMs + 1 /\ MaxMs + 1 \in Nat  BY StampParts, BoundsAssumption
  <2>2. s.ms * MachineCount + MachineId[p] < (MaxMs + 1) * MachineCount + 0
    BY <2>1, StampParts, MachineParts, Digits
  <2>3. QED  BY <2>2, <1>1
<1>3. high * W + s.seq < top * W + 0
  <2> HIDE DEF high, top, W
  <2>1. s.seq \in Nat /\ s.seq < W  BY StampParts DEF W
  <2>2. QED  BY <1>1, <1>2, <2>1, Digits
<1>4. high * W \in Nat /\ top * W \in Nat
  <2> HIDE DEF high, top, W
  <2>1. QED  BY <1>1, ProductNat
<1>5. IdOf(MachineId[p], s) = high * W + s.seq /\ IdBound = top * W
  BY DEF IdOf, IdBound
<1>6. QED
  <2> HIDE DEF high, top, W
  <2>1. s.seq \in Nat  BY StampParts
  <2>2. QED  BY <1>3, <1>4, <1>5, <2>1

LEMMA IdOrder ==
  ASSUME NEW p \in Process, NEW q \in Process, NEW s \in Stamp, NEW u \in Stamp,
         s.ms < u.ms \/ (s.ms = u.ms /\ MachineId[p] < MachineId[q])
           \/ (p = q /\ Before(s, u))
  PROVE  IdOf(MachineId[p], s) < IdOf(MachineId[q], u)
<1> DEFINE a == s.ms * MachineCount + MachineId[p]
           b == u.ms * MachineCount + MachineId[q]
           W == MAX_SEQ + 1
<1>1. a \in Nat /\ b \in Nat /\ W \in Nat
  BY StampParts, MachineParts, BoundsAssumption, ProductNat
<1>2. /\ IdOf(MachineId[p], s) = a * W + s.seq
      /\ IdOf(MachineId[q], u) = b * W + u.seq
  BY DEF IdOf
<1>3. s.seq \in Nat /\ u.seq \in Nat /\ s.seq < W  BY StampParts
<1>4. a < b \/ (a = b /\ s.seq < u.seq)
  <2>1. CASE s.ms < u.ms  BY <2>1, StampParts, MachineParts, Digits
  <2>2. CASE s.ms = u.ms /\ MachineId[p] < MachineId[q]
    <3>1. s.ms * MachineCount \in Nat  BY StampParts, MachineParts, ProductNat
    <3>2. QED  BY <2>2, <3>1, MachineParts
  <2>3. CASE p = q /\ Before(s, u)
    <3>1. CASE s.ms < u.ms  BY <2>1, <3>1
    <3>2. CASE s.ms = u.ms /\ s.seq < u.seq  BY <2>3, <3>2
    <3>3. QED  BY <2>3, <3>1, <3>2 DEF Before
  <2>4. QED  BY <2>1, <2>2, <2>3
<1>5. QED
  <2> HIDE DEF a, b, W
  <2>1. CASE a < b  BY <1>1, <1>2, <1>3, <2>1, Digits
  <2>2. CASE a = b /\ s.seq < u.seq
    <3>1. a * W \in Nat  BY <1>1, ProductNat
    <3>2. QED  BY <1>2, <1>3, <2>2, <3>1
  <2>3. QED  BY <1>4, <2>1, <2>2

LEMMA MachinesDiffer ==
  ASSUME NEW p \in Process, NEW q \in Process, NEW s \in Stamp, NEW u \in Stamp,
         MachineId[p] # MachineId[q]
  PROVE  IdOf(MachineId[p], s) # IdOf(MachineId[q], u)
<1>1. /\ IdOf(MachineId[p], s) \in Nat
      /\ IdOf(MachineId[q], u) \in Nat
  BY IdInBound
<1>2. CASE s.ms < u.ms  BY <1>1, <1>2, IdOrder
<1>3. CASE u.ms < s.ms  BY <1>1, <1>3, IdOrder
<1>4. CASE s.ms = u.ms
  <2>1. MachineId[p] < MachineId[q] \/ MachineId[q] < MachineId[p]  BY MachineParts
  <2>2. QED  BY <1>1, <1>4, <2>1, IdOrder
<1>5. QED  BY <1>2, <1>3, <1>4, StampParts
(***************************************************************************)
(* Types.                                                                  *)
(***************************************************************************)
LEMMA SuccessorStamp ==
  ASSUME NEW s \in Stamp, NEW now \in 0 .. MaxMs, Usable(s, now)
  PROVE  /\ Successor(s, now) \in Stamp
         /\ Successor(s, now).ms = now
         /\ Before(s, Successor(s, now))
<1>1. CASE now = s.ms
  <2>1. s.seq + 1 \in 0 .. MAX_SEQ  BY <1>1, BoundsAssumption DEF Usable, Stamp
  <2>2. Successor(s, now) = [ms |-> now, seq |-> s.seq + 1]
    BY <1>1 DEF Successor, Stamp
  <2>3. QED  BY <1>1, <2>1, <2>2, StampParts DEF Stamp, Before
<1>2. CASE now # s.ms
  <2>1. Successor(s, now) = [ms |-> now, seq |-> 0] /\ 0 \in 0 .. MAX_SEQ
    BY <1>2, BoundsAssumption DEF Successor
  <2>2. s.ms < now  BY <1>2 DEF Usable
  <2>3. QED  BY <2>1, <2>2 DEF Stamp, Before
<1>3. QED  BY <1>1, <1>2

LEMMA LeaveTypes ==
  ASSUME TypeOK, NEW T, NEW where \in {"idle", "load"}, Leave(T, where)
  PROVE  /\ pc' \in [Thread -> {"idle", "load", "clock", "cas"}]
         /\ prev' \in [Thread -> Stamp]
         /\ new_state' \in [Thread -> Stamp]
         /\ \A t \in T \cap Thread : pc'[t] = where
         /\ \A t \in Thread \ T :
              pc'[t] = pc[t] /\ prev'[t] = prev[t] /\ new_state'[t] = new_state[t]
<1>1. Zero \in Stamp  BY BoundsAssumption DEF Zero, Stamp
<1>2. QED  BY <1>1 DEF Leave, TypeOK

(***************************************************************************)
(* TypeOK for every instance. That sequence numbers stay within their bit  *)
(* field depends on ReadClock waiting for a usable millisecond.            *)
(***************************************************************************)
THEOREM TypeCorrect == Spec => []TypeOK
<1>1. Init => TypeOK
  BY BoundsAssumption DEF Init, TypeOK, Zero, Stamp
<1>2. TypeOK /\ [Next]_vars => TypeOK'
  <2> SUFFICES ASSUME TypeOK, [Next]_vars PROVE TypeOK'
    OBVIOUS
  <2> USE DEF hostVars, historyVars
  <2>1. ASSUME NEW t \in Thread, Call(t) PROVE TypeOK'
    BY <2>1 DEF Call, TypeOK
  <2>2. ASSUME NEW t \in Thread, Load(t) PROVE TypeOK'
    BY <2>2, HomeAssumption DEF Load, TypeOK
  <2>3. ASSUME NEW t \in Thread, ReadClock(t) PROVE TypeOK'
    <3>1. Successor(prev[t], clock[home[t]]) \in Stamp
      BY <2>3, HomeAssumption, SuccessorStamp DEF ReadClock, TypeOK
    <3>2. QED  BY <2>3, <3>1 DEF ReadClock, TypeOK
  <2>4. ASSUME NEW t \in Thread, CompareExchange(t) PROVE TypeOK'
    <3>1. /\ home[t] \in Process /\ new_state[t] \in Stamp
          /\ IdOf(MachineId[home[t]], new_state[t]) \in Nat
      BY HomeAssumption, IdInBound DEF TypeOK
    <3>2. log' \in [Process -> Seq(Nat)]
      BY <2>4, <3>1 DEF CompareExchange, TypeOK
    <3>3. last_state' \in [Process -> Stamp]
      BY <2>4, <3>1 DEF CompareExchange, TypeOK
    <3>4. Leave({t}, "idle")  BY <2>4 DEF CompareExchange
    <3>5. QED  BY <2>4, <3>2, <3>3, <3>4, LeaveTypes DEF CompareExchange, TypeOK
  <2>5. ASSUME NEW t \in Thread, Contended(t) PROVE TypeOK'
    <3>1. Leave({t}, "load")  BY <2>5 DEF Contended
    <3>2. QED  BY <2>5, <3>1, LeaveTypes DEF Contended, TypeOK
  <2>6. ASSUME NEW p \in Process, Tick(p) PROVE TypeOK'
    BY <2>6, BoundsAssumption DEF Tick, TypeOK
  <2>7. ASSUME NEW p \in Process, SetBack(p) PROVE TypeOK'
    BY <2>7, BoundsAssumption DEF SetBack, TypeOK
  <2>8. ASSUME NEW p \in Process, Restart(p) PROVE TypeOK'
    <3>1. last_state' \in [Process -> Stamp]
      BY <2>8, BoundsAssumption DEF Restart, TypeOK, Zero, Stamp
    <3>2. log' \in [Process -> Seq(Nat)]  BY <2>8 DEF Restart, TypeOK
    <3>3. past' \in [Process -> SUBSET Nat]
      <4>1. log[p] \in Seq(Nat)  BY DEF TypeOK
      <4>2. Ids(log[p]) \subseteq Nat  BY <4>1 DEF Ids
      <4>3. QED  BY <2>8, <4>2 DEF Restart, TypeOK
    <3>4. floor' \in [Process -> 0 .. MaxMs]
      <4>1. last_state[p].ms \in 0 .. MaxMs  BY DEF TypeOK, Stamp
      <4>2. QED  BY <2>8, <4>1 DEF Restart, TypeOK, Later
    <3>5. clock' \in [Process -> 0 .. MaxMs]
      BY <2>8, BoundsAssumption DEF Restart, TypeOK
    <3>6. exposed' \in [Process -> BOOLEAN]
      BY <2>8 DEF Restart, TypeOK
    <3>7. Leave({t \in Thread : home[t] = p}, "idle")  BY <2>8 DEF Restart
    <3>8. restarts' \in 0 .. MaxRestarts /\ setbacks' = setbacks
      BY <2>8, BoundsAssumption DEF Restart, TypeOK
    <3>9. QED
      BY <3>1, <3>2, <3>3, <3>4, <3>5, <3>6, <3>7, <3>8, LeaveTypes DEF TypeOK
  <2>9. CASE UNCHANGED vars
    BY <2>9 DEF vars, TypeOK
  <2>10. QED
    BY <2>1, <2>2, <2>3, <2>4, <2>5, <2>6, <2>7, <2>8, <2>9 DEF Next, Step
<1>3. QED  BY <1>1, <1>2, PTL DEF Spec

(***************************************************************************)
(* What every returned id was made of, and where the next one can lie.     *)
(* Every id of log was packed from a stamp no later than last_state, and   *)
(* every candidate follows the state its compare-exchange expects. Behind  *)
(* a restart, past ids lie at or below floor, and, unless the clock has    *)
(* been seen there again, all that is new lies above it.                   *)
(***************************************************************************)
Returned(p, n, last) ==
  \E s \in Stamp :
    /\ n = IdOf(MachineId[p], s)
    /\ s = last \/ Before(s, last)

Reborn(p) == past[p] # {} /\ ~ exposed[p]

LogInv == \A p \in Process : \A i \in DOMAIN log[p] : Returned(p, log[p][i], last_state[p])

CandidateInv == \A t \in Thread : pc[t] = "cas" => Before(prev[t], new_state[t])

PastInv ==
  \A p \in Process : \A n \in past[p] :
    \E s \in Stamp : n = IdOf(MachineId[p], s) /\ s.ms <= floor[p]

RebornInv ==
  \A p \in Process : Reborn(p) =>
    /\ clock[p] > floor[p]
    /\ \A t \in Thread : (home[t] = p /\ pc[t] = "cas") => new_state[t].ms > floor[p]
    /\ \A i \in DOMAIN log[p] :
         \E s \in Stamp : log[p][i] = IdOf(MachineId[p], s) /\ s.ms > floor[p]

StampInv == Increasing /\ LogInv /\ CandidateInv /\ PastInv /\ RebornInv
(***************************************************************************)
(* The compare-exchange: the state it replaces is the one its candidate    *)
(* follows, so that the new id is greater than all the process returned.   *)
(***************************************************************************)
LEMMA ExchangeStep ==
  ASSUME TypeOK, StampInv, NEW t \in Thread, CompareExchange(t)
  PROVE  StampInv' /\ Before(last_state[home[t]], new_state[t])
<1> DEFINE p == home[t]
           n == IdOf(MachineId[p], new_state[t])
<1>1. /\ p \in Process /\ last_state[p] \in Stamp /\ new_state[t] \in Stamp
      /\ last_state[p] = prev[t] /\ Before(prev[t], new_state[t])
  BY HomeAssumption DEF CompareExchange, TypeOK, StampInv, CandidateInv
<1>2. /\ last_state' = [last_state EXCEPT ![p] = new_state[t]]
      /\ log' = [log EXCEPT ![p] = Append(@, n)]
      /\ UNCHANGED <<past, floor, exposed, clock>>
      /\ Leave({t}, "idle")
  BY DEF CompareExchange, hostVars, historyVars
<1>3. \A u \in Thread : pc'[u] = "cas" =>
        pc[u] = "cas" /\ prev'[u] = prev[u] /\ new_state'[u] = new_state[u]
  BY <1>2, LeaveTypes
<1>4. /\ log[p] \in Seq(Nat) /\ n \in Nat
      /\ log'[p] = Append(log[p], n) /\ last_state'[p] = new_state[t]
      /\ \A q \in Process \ {p} : log'[q] = log[q] /\ last_state'[q] = last_state[q]
  BY <1>1, <1>2, IdInBound DEF TypeOK
<1> HIDE DEF p, n
<1>5. /\ Len(log[p]) \in Nat /\ DOMAIN log[p] = 1 .. Len(log[p])
      /\ DOMAIN log'[p] = 1 .. Len(log[p]) + 1
      /\ log'[p][Len(log[p]) + 1] = n
      /\ \A i \in DOMAIN log[p] : log'[p][i] = log[p][i] /\ log[p][i] \in Nat
  BY <1>4
<1>6. \A i \in DOMAIN log[p] : Returned(p, log[p][i], new_state[t]) /\ log[p][i] < n
  <2> SUFFICES ASSUME NEW i \in DOMAIN log[p]
               PROVE  Returned(p, log[p][i], new_state[t]) /\ log[p][i] < n
    OBVIOUS
  <2>1. PICK s \in Stamp : log[p][i] = IdOf(MachineId[p], s)
                             /\ (s = last_state[p] \/ Before(s, last_state[p]))
    BY <1>1 DEF StampInv, LogInv, Returned
  <2>2. Before(s, new_state[t])
    BY <1>1, <2>1, StampParts DEF Before
  <2>3. IdOf(MachineId[p], s) < n  BY <1>1, <2>2, IdOrder DEF n, p
  <2>4. QED  BY <2>1, <2>2, <2>3 DEF Returned
<1>7. Increasing'
  <2> SUFFICES ASSUME NEW q \in Process, NEW i \in DOMAIN log'[q], NEW j \in DOMAIN log'[q], i < j
               PROVE  log'[q][i] < log'[q][j]
    BY DEF Increasing
  <2>1. CASE q # p  BY <1>4, <2>1 DEF StampInv, Increasing
  <2>2. CASE q = p
    <3>1. i \in DOMAIN log[p]  BY <1>5, <2>2
    <3>2. CASE j \in DOMAIN log[p]  BY <1>1, <1>5, <2>2, <3>1, <3>2 DEF StampInv, Increasing
    <3>3. CASE j = Len(log[p]) + 1  BY <1>5, <1>6, <2>2, <3>1, <3>3
    <3>4. QED  BY <1>5, <2>2, <3>2, <3>3
  <2>3. QED  BY <2>1, <2>2
<1>8. LogInv'
  <2> SUFFICES ASSUME NEW q \in Process, NEW i \in DOMAIN log'[q]
               PROVE  Returned(q, log'[q][i], last_state'[q])
    BY DEF LogInv, Returned
  <2>1. CASE q # p  BY <1>4, <2>1 DEF StampInv, LogInv
  <2>2. CASE q = p /\ i \in DOMAIN log[p]  BY <1>4, <1>5, <1>6, <2>2
  <2>3. CASE q = p /\ i = Len(log[p]) + 1  BY <1>1, <1>4, <1>5, <2>3 DEF Returned, n
  <2>4. QED  BY <1>5, <2>1, <2>2, <2>3
<1>9. CandidateInv'
  BY <1>3 DEF StampInv, CandidateInv
<1>10. PastInv'
  BY <1>2 DEF StampInv, PastInv
<1>11. RebornInv'
  <2> SUFFICES ASSUME NEW q \in Process, Reborn(q)
               PROVE  /\ clock[q] > floor[q]
                      /\ \A u \in Thread : (home[u] = q /\ pc'[u] = "cas") => new_state'[u].ms > floor[q]
                      /\ \A i \in DOMAIN log'[q] :
                           \E s \in Stamp : log'[q][i] = IdOf(MachineId[q], s) /\ s.ms > floor[q]
    BY <1>2 DEF RebornInv, Reborn
  <2>1. /\ clock[q] > floor[q]
        /\ \A u \in Thread : (home[u] = q /\ pc[u] = "cas") => new_state[u].ms > floor[q]
        /\ \A i \in DOMAIN log[q] :
             \E s \in Stamp : log[q][i] = IdOf(MachineId[q], s) /\ s.ms > floor[q]
    BY DEF StampInv, RebornInv
  <2>2. \A u \in Thread : (home[u] = q /\ pc'[u] = "cas") => new_state'[u].ms > floor[q]
    BY <1>3, <2>1
  <2>3. ASSUME NEW i \in DOMAIN log'[q]
        PROVE  \E s \in Stamp : log'[q][i] = IdOf(MachineId[q], s) /\ s.ms > floor[q]
    <3>1. CASE q # p  BY <1>4, <2>1, <3>1
    <3>2. CASE q = p /\ i \in DOMAIN log[p]  BY <1>5, <2>1, <3>2
    <3>3. CASE q = p /\ i = Len(log[p]) + 1
      <4>1. new_state[t].ms > floor[q]  BY <2>1, <3>3 DEF CompareExchange, p
      <4>2. QED  BY <1>1, <1>5, <3>3, <4>1 DEF n
    <3>4. QED  BY <1>5, <3>1, <3>2, <3>3
  <2>4. QED  BY <2>1, <2>2, <2>3
<1>12. QED
  BY <1>1, <1>7, <1>8, <1>9, <1>10, <1>11 DEF StampInv, p
(***************************************************************************)
(* A restart turns returned ids into past ones, below the new floor.       *)
(***************************************************************************)
LEMMA RestartStep ==
  ASSUME TypeOK, StampInv, NEW p \in Process, Restart(p)
  PROVE  StampInv'
<1> DEFINE top == Later(floor[p], last_state[p].ms)
<1>1. /\ log' = [log EXCEPT ![p] = << >>]
      /\ past' = [past EXCEPT ![p] = @ \cup Ids(log[p])]
      /\ floor' = [floor EXCEPT ![p] = top]
      /\ clock' = [clock EXCEPT ![p] = @ + 1]
      /\ last_state' = [last_state EXCEPT ![p] = Zero]
      /\ exposed' = [exposed EXCEPT ![p] = clock'[p] <= floor'[p]]
      /\ Leave({t \in Thread : home[t] = p}, "idle")
  BY DEF Restart
<1>2. /\ log'[p] = << >> /\ past'[p] = past[p] \cup Ids(log[p]) /\ floor'[p] = top
      /\ exposed'[p] <=> clock'[p] <= floor'[p]
      /\ \A q \in Process \ {p} :
           /\ log'[q] = log[q] /\ past'[q] = past[q] /\ floor'[q] = floor[q]
           /\ clock'[q] = clock[q] /\ last_state'[q] = last_state[q] /\ exposed'[q] = exposed[q]
  BY <1>1 DEF TypeOK
<1>3. /\ \A t \in Thread : home[t] = p => pc'[t] = "idle"
      /\ \A t \in Thread : home[t] # p =>
           pc'[t] = pc[t] /\ prev'[t] = prev[t] /\ new_state'[t] = new_state[t]
  BY <1>1, LeaveTypes
<1>4. /\ floor[p] \in Nat /\ last_state[p].ms \in Nat /\ last_state[p] \in Stamp
      /\ top \in Nat /\ floor[p] <= top /\ last_state[p].ms <= top
  <2>1. floor[p] \in Nat /\ last_state[p] \in Stamp  BY BoundsAssumption DEF TypeOK
  <2>2. last_state[p].ms \in Nat  BY <2>1, StampParts
  <2>3. QED  BY <2>1, <2>2 DEF Later
<1> HIDE DEF top
<1>5. Increasing' /\ LogInv'
  BY <1>2 DEF StampInv, Increasing, LogInv, Returned
<1>6. CandidateInv'
  BY <1>3 DEF StampInv, CandidateInv
<1>7. PastInv'
  <2> SUFFICES ASSUME NEW q \in Process, NEW n \in past'[q]
               PROVE  \E s \in Stamp : n = IdOf(MachineId[q], s) /\ s.ms <= floor'[q]
    BY DEF PastInv
  <2>1. CASE q # p  BY <1>2, <2>1 DEF StampInv, PastInv
  <2>2. CASE q = p /\ n \in past[p]
    <3>1. PICK s \in Stamp : n = IdOf(MachineId[p], s) /\ s.ms <= floor[p]
      BY <2>2 DEF StampInv, PastInv
    <3>2. s.ms <= top  BY <1>4, <3>1, StampParts
    <3>3. QED  BY <1>2, <2>2, <3>1, <3>2
  <2>3. CASE q = p /\ n \in Ids(log[p])
    <3>1. PICK i \in DOMAIN log[p] : n = log[p][i]  BY <2>3 DEF Ids
    <3>2. PICK s \in Stamp : n = IdOf(MachineId[p], s)
                             /\ (s = last_state[p] \/ Before(s, last_state[p]))
      BY <3>1 DEF StampInv, LogInv, Returned
    <3>3. s.ms <= top  BY <1>4, <3>2, StampParts DEF Before
    <3>4. QED  BY <1>2, <2>3, <3>2, <3>3
  <2>4. QED  BY <1>2, <2>1, <2>2, <2>3
<1>8. RebornInv'
  <2> SUFFICES ASSUME NEW q \in Process, Reborn(q)'
               PROVE  /\ clock'[q] > floor'[q]
                      /\ \A u \in Thread : (home[u] = q /\ pc'[u] = "cas") => new_state'[u].ms > floor'[q]
                      /\ \A i \in DOMAIN log'[q] :
                           \E s \in Stamp : log'[q][i] = IdOf(MachineId[q], s) /\ s.ms > floor'[q]
    BY DEF RebornInv
  <2>1. CASE q # p
    <3>1. Reborn(q)  BY <1>2, <2>1 DEF Reborn
    <3>2. QED  BY <1>2, <1>3, <2>1, <3>1 DEF StampInv, RebornInv
  <2>2. CASE q = p
    <3>1. ~ exposed'[p]  BY <2>2 DEF Reborn
    <3>2. clock'[p] \in Nat /\ floor'[p] \in Nat
      <4>1. clock[p] \in 0 .. MaxMs  BY DEF TypeOK
      <4>2. QED  BY <1>1, <1>2, <1>4, <4>1, BoundsAssumption DEF TypeOK
    <3>3. clock'[p] > floor'[p]  BY <1>2, <3>1, <3>2
    <3>4. DOMAIN log'[p] = {}  BY <1>2
    <3>5. QED  BY <1>3, <2>2, <3>3, <3>4
  <2>3. QED  BY <2>1, <2>2
<1>9. QED  BY <1>5, <1>6, <1>7, <1>8 DEF StampInv

(***************************************************************************)
(* The other steps return no id. ReadClock takes its millisecond from the  *)
(* clock in both branches, so that a reborn process stays above its floor. *)
(***************************************************************************)
LEMMA QuietStep ==
  ASSUME TypeOK, StampInv, UNCHANGED <<last_state, log, past, floor>>,
         \A q \in Process : Reborn(q)' => Reborn(q) /\ clock'[q] > floor[q],
         \A u \in Thread : pc'[u] = "cas" =>
           /\ Before(prev'[u], new_state'[u])
           /\ Reborn(home[u]) => new_state'[u].ms > floor[home[u]]
  PROVE  StampInv'
<1>1. Increasing' /\ LogInv' /\ PastInv'
  BY DEF StampInv, Increasing, LogInv, PastInv, Returned
<1>2. CandidateInv'  BY DEF CandidateInv
<1>3. RebornInv'
  BY DEF StampInv, RebornInv
<1>4. QED  BY <1>1, <1>2, <1>3 DEF StampInv

LEMMA StampStep == TypeOK /\ StampInv /\ [Next]_vars => StampInv'
<1> SUFFICES ASSUME TypeOK, StampInv, [Next]_vars PROVE StampInv'
  OBVIOUS
<1> USE DEF hostVars, historyVars
<1>1. /\ \A u \in Thread : pc[u] = "cas" =>
           /\ Before(prev[u], new_state[u])
           /\ Reborn(home[u]) => new_state[u].ms > floor[home[u]]
      /\ \A q \in Process : Reborn(q) => clock[q] > floor[q]
  BY HomeAssumption DEF StampInv, CandidateInv, RebornInv
<1>2. ASSUME NEW t \in Thread, Call(t) PROVE StampInv'
  <2>1. \A u \in Thread : pc'[u] = "cas" => pc[u] = "cas"  BY <1>2 DEF Call, TypeOK
  <2>2. QED  BY <1>1, <1>2, <2>1, QuietStep DEF Call, Reborn
<1>3. ASSUME NEW t \in Thread, Load(t) PROVE StampInv'
  <2>1. \A u \in Thread : pc'[u] = "cas" => pc[u] = "cas" /\ prev'[u] = prev[u]
    BY <1>3 DEF Load, TypeOK
  <2>2. QED  BY <1>1, <1>3, <2>1, QuietStep DEF Load, Reborn
<1>4. ASSUME NEW t \in Thread, ReadClock(t) PROVE StampInv'
  <2> DEFINE now == clock[home[t]]
  <2>1. /\ home[t] \in Process /\ prev[t] \in Stamp /\ now \in 0 .. MaxMs
        /\ Usable(prev[t], now)
    BY <1>4, HomeAssumption DEF ReadClock, TypeOK
  <2>2. Before(prev[t], Successor(prev[t], now)) /\ Successor(prev[t], now).ms = now
    BY <2>1, SuccessorStamp
  <2>3. /\ new_state'[t] = Successor(prev[t], now)
        /\ \A u \in Thread \ {t} : pc'[u] = pc[u] /\ new_state'[u] = new_state[u]
        /\ UNCHANGED <<last_state, prev, log, past, floor, clock, exposed>>
    BY <1>4 DEF ReadClock, TypeOK
  <2>4. \A u \in Thread : pc'[u] = "cas" =>
          /\ Before(prev'[u], new_state'[u])
          /\ Reborn(home[u]) => new_state'[u].ms > floor[home[u]]
    <3> SUFFICES ASSUME NEW u \in Thread, pc'[u] = "cas"
                 PROVE  /\ Before(prev'[u], new_state'[u])
                        /\ Reborn(home[u]) => new_state'[u].ms > floor[home[u]]
      OBVIOUS
    <3>1. CASE u = t  BY <1>1, <2>1, <2>2, <2>3, <3>1
    <3>2. CASE u # t  BY <1>1, <2>3, <3>2
    <3>3. QED  BY <3>1, <3>2
  <2>5. QED  BY <1>1, <2>3, <2>4, QuietStep DEF Reborn
<1>5. ASSUME NEW t \in Thread, CompareExchange(t) PROVE StampInv'
  BY <1>5, ExchangeStep
<1>6. ASSUME NEW t \in Thread, Contended(t) PROVE StampInv'
  <2>1. Leave({t}, "load")  BY <1>6 DEF Contended
  <2>2. \A u \in Thread : pc'[u] = "cas" =>
          pc[u] = "cas" /\ prev'[u] = prev[u] /\ new_state'[u] = new_state[u]
    BY <2>1, LeaveTypes
  <2>3. QED  BY <1>1, <1>6, <2>2, QuietStep DEF Contended, Reborn
<1>7. ASSUME NEW p \in Process, Tick(p) PROVE StampInv'
  <2>1. \A q \in Process : Reborn(q) => clock'[q] > floor[q]
    <3> SUFFICES ASSUME NEW q \in Process, Reborn(q) PROVE clock'[q] > floor[q]
      OBVIOUS
    <3>1. clock[q] \in Nat /\ floor[q] \in Nat /\ clock[q] > floor[q]
      BY <1>1, BoundsAssumption DEF TypeOK
    <3>2. clock'[q] = clock[q] \/ clock'[q] = clock[q] + 1
      BY <1>7 DEF Tick, TypeOK
    <3>3. QED  BY <3>1, <3>2
  <2>2. QED  BY <1>1, <1>7, <2>1, QuietStep DEF Tick, Reborn
<1>8. ASSUME NEW p \in Process, SetBack(p) PROVE StampInv'
  <2>1. PICK now \in 0 .. clock[p] :
          /\ clock' = [clock EXCEPT ![p] = now]
          /\ exposed' = [exposed EXCEPT ![p] = @ \/ now <= floor[p]]
    BY <1>8 DEF SetBack
  <2>2. UNCHANGED <<last_state, log, past, floor, pc, prev, new_state>>
    BY <1>8 DEF SetBack
  <2>3. \A q \in Process : Reborn(q)' => Reborn(q) /\ clock'[q] > floor[q]
    <3> SUFFICES ASSUME NEW q \in Process, Reborn(q)' PROVE Reborn(q) /\ clock'[q] > floor[q]
      OBVIOUS
    <3>1. CASE q # p  BY <1>1, <2>1, <2>2, <3>1 DEF Reborn, TypeOK
    <3>2. CASE q = p
      <4>1. exposed'[p] = (exposed[p] \/ now <= floor[p]) /\ clock'[p] = now
        BY <2>1 DEF TypeOK
      <4>2. now \in Nat /\ floor[p] \in Nat  BY <2>1, BoundsAssumption DEF TypeOK
      <4>3. ~ exposed[p] /\ ~ (now <= floor[p])  BY <3>2, <4>1 DEF Reborn
      <4>4. QED  BY <2>2, <3>2, <4>1, <4>2, <4>3 DEF Reborn
    <3>3. QED  BY <3>1, <3>2
  <2>4. QED  BY <1>1, <2>2, <2>3, QuietStep
<1>9. ASSUME NEW p \in Process, Restart(p) PROVE StampInv'
  BY <1>9, RestartStep
<1>10. CASE UNCHANGED vars
  BY <1>1, <1>10, QuietStep DEF vars, Reborn
<1>11. QED
  BY <1>2, <1>3, <1>4, <1>5, <1>6, <1>7, <1>8, <1>9, <1>10 DEF Next, Step

(***************************************************************************)
(* StampInv holds in every reachable state.                                *)
(***************************************************************************)
THEOREM StampInvariant == Spec => []StampInv
<1>1. Init => StampInv
  BY DEF Init, StampInv, Increasing, LogInv, CandidateInv, PastInv, RebornInv, Reborn
<1>2. QED  BY <1>1, StampStep, TypeCorrect, PTL DEF Spec

(***************************************************************************)
(* Increasing for every instance: whatever the threads' interleaving, the  *)
(* failures of the weak compare-exchange and the setbacks of the clock, a  *)
(* process returns ever greater ids.                                       *)
(***************************************************************************)
THEOREM IdsIncrease == Spec => []Increasing
<1>1. StampInv => Increasing  BY DEF StampInv
<1>2. QED  BY <1>1, StampInvariant, PTL

(***************************************************************************)
(* FreshAfterRestart for every instance: a restarted process repeats none  *)
(* of its earlier ids as long as its clock stays ahead of them.            *)
(***************************************************************************)
THEOREM RestartIsFresh == Spec => []FreshAfterRestart
<1>1. TypeOK /\ StampInv => FreshAfterRestart
  <2> SUFFICES ASSUME TypeOK, StampInv, NEW p \in Process, ~ exposed[p],
                      NEW n \in past[p], NEW i \in DOMAIN log[p]
               PROVE  n < log[p][i]
    BY DEF FreshAfterRestart
  <2>1. PICK s \in Stamp : n = IdOf(MachineId[p], s) /\ s.ms <= floor[p]
    BY DEF StampInv, PastInv
  <2>2. PICK u \in Stamp : log[p][i] = IdOf(MachineId[p], u) /\ u.ms > floor[p]
    BY DEF StampInv, RebornInv, Reborn
  <2>3. floor[p] \in Nat  BY BoundsAssumption DEF TypeOK
  <2>4. s.ms < u.ms  BY <2>1, <2>2, <2>3, StampParts
  <2>5. QED  BY <2>1, <2>2, <2>4, IdOrder
<1>2. QED  BY <1>1, TypeCorrect, StampInvariant, PTL
(***************************************************************************)
(* The generator implements IdDispenser when no two processes share a      *)
(* machine id: a compare-exchange that succeeds gives an id, a restart     *)
(* forgets, and every other step is invisible.                             *)
(***************************************************************************)
THEOREM ImplementsDispenser ==
  ASSUME DistinctMachines
  PROVE  Spec => DispenserSpec
<1>1. Init => Dispenser!Init
  BY DEF Init, Dispenser!Init
<1>2. TypeOK /\ StampInv /\ StampInv' /\ [Next]_vars => [Dispenser!Next]_log
  <2> SUFFICES ASSUME TypeOK, StampInv, StampInv', [Next]_vars
               PROVE  Dispenser!Next \/ log' = log
    OBVIOUS
  <2>1. ASSUME NEW t \in Thread, CompareExchange(t) PROVE Dispenser!Next
    <3> DEFINE p == home[t]
               n == IdOf(MachineId[p], new_state[t])
    <3>1. /\ p \in Process /\ new_state[t] \in Stamp
          /\ log' = [log EXCEPT ![p] = Append(@, n)]
          /\ log'[p] = Append(log[p], n) /\ log[p] \in Seq(Nat)
      BY <2>1, HomeAssumption DEF CompareExchange, TypeOK
    <3>2. n \in 0 .. IdBound /\ n \in Nat  BY <3>1, IdInBound
    <3>3. \A i \in DOMAIN log[p] : log[p][i] < n
      <4> SUFFICES ASSUME NEW i \in DOMAIN log[p] PROVE log[p][i] < n
        OBVIOUS
      <4> HIDE DEF p, n
      <4>1. /\ Len(log[p]) \in Nat /\ DOMAIN log[p] = 1 .. Len(log[p])
            /\ DOMAIN log'[p] = 1 .. Len(log[p]) + 1
            /\ log'[p][Len(log[p]) + 1] = n /\ log'[p][i] = log[p][i]
        BY <3>1, <3>2
      <4>2. i \in DOMAIN log'[p] /\ Len(log[p]) + 1 \in DOMAIN log'[p] /\ i < Len(log[p]) + 1
        BY <4>1
      <4>3. Increasing'  BY DEF StampInv
      <4>4. log'[p][i] < log'[p][Len(log[p]) + 1]  BY <3>1, <4>2, <4>3 DEF Increasing
      <4>5. QED  BY <4>1, <4>4
    <3>4. ASSUME NEW q \in Process \ {p}, NEW i \in DOMAIN log[q] PROVE log[q][i] # n
      <4>1. PICK s \in Stamp : log[q][i] = IdOf(MachineId[q], s)
        BY DEF StampInv, LogInv, Returned
      <4>2. MachineId[q] # MachineId[p]  BY <3>1 DEF DistinctMachines
      <4>3. QED  BY <3>1, <4>1, <4>2, MachinesDiffer
    <3>5. Dispenser!Give(p)  BY <3>1, <3>2, <3>3, <3>4 DEF Dispenser!Give
    <3>6. QED  BY <3>1, <3>5 DEF Dispenser!Next
  <2>2. ASSUME NEW p \in Process, Restart(p) PROVE Dispenser!Next
    BY <2>2 DEF Restart, Dispenser!Next, Dispenser!Forget
  <2>3. ASSUME NEW t \in Thread, Call(t) \/ Load(t) \/ ReadClock(t) \/ Contended(t)
        PROVE  log' = log
    BY <2>3 DEF Call, Load, ReadClock, Contended
  <2>4. ASSUME NEW p \in Process, Tick(p) \/ SetBack(p) PROVE log' = log
    BY <2>4 DEF Tick, SetBack
  <2>5. UNCHANGED vars => log' = log  BY DEF vars
  <2> QED  BY <2>1, <2>2, <2>3, <2>4, <2>5 DEF Next, Step
<1>3. QED
  BY <1>1, <1>2, TypeCorrect, StampInvariant, PTL
  DEF Spec, DispenserSpec, Dispenser!Spec
=============================================================================
