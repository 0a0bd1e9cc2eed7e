------------------------- MODULE AccountStateProofs -------------------------
(***************************************************************************)
(* Proofs about the account pipeline, for every set of execution ids,      *)
(* every epoch, every bound on the clock and both recovery modes.          *)
(***************************************************************************)
EXTENDS AccountState, FiniteSetTheorems, TLAPS

(***************************************************************************)
(* Where the executions of each place come from, and which places are      *)
(* empty when.                                                             *)
(***************************************************************************)
Sources ==
  /\ db \subseteq trades
  /\ hist \subseteq trades
  /\ wire \subseteq trades
  /\ echo \subseteq trades
  /\ \A i \in DOMAIN rx_buf : rx_buf[i] \in trades

Shape ==
  /\ pc = "start" <=> stream = "none"
  /\ pc = "start" => rx_buf = << >>
  /\ Restoring => stream = "down" /\ rx_buf = << >>
  /\ stream # "up" => wire = {} /\ echo = {}
  /\ hist # {} => pc \in {"upsert", "restore_upsert"}

(***************************************************************************)
(* The inductive strengthening of HolesExplained. Past is the set of       *)
(* executions that need no further care; a fetched history runs ahead of   *)
(* the table; and nothing on its way to the table (in a fetched history,   *)
(* in the channel, on the wire) is later than an execution that is neither *)
(* past nor before it on that way.                                         *)
(***************************************************************************)
Fetched == pc \notin {"start", "fetch", "dead"}
Past(e) == e \in db \/ e \in hist \/ e \in Exposed \/ Tied(e)
Buffered(e) == \E i \in DOMAIN rx_buf : rx_buf[i] = e
Earlier(f) == {e \in trades : Epoch < e.ts /\ e.ts < f.ts}

HistoryAhead == \A e \in hist, f \in db : f.ts <= e.ts

HistoryClosed == \A f \in hist : \A e \in Earlier(f) : Past(e)

ChannelClosed ==
  Fetched =>
    \A i \in DOMAIN rx_buf : \A e \in Earlier(rx_buf[i]) :
      Past(e) \/ \E k \in DOMAIN rx_buf : k < i /\ rx_buf[k] = e

EchoClosed ==
  Fetched => \A f \in echo : \A e \in Earlier(f) : Past(e) \/ Buffered(e)

Watched ==
  (Fetched /\ (stream \in {"connecting", "up"} \/ Restoring)) =>
    \A e \in trades : Epoch < e.ts => Past(e) \/ Buffered(e) \/ e \in wire

Closed ==
  /\ HistoryAhead
  /\ HistoryClosed
  /\ ChannelClosed
  /\ EchoClosed
  /\ Watched
  /\ HolesExplained

HoleInv == TypeOK /\ Sources /\ Shape /\ Closed
-----------------------------------------------------------------------------
(***************************************************************************)
(* The number of copies of an execution in part of a buffer is a number.   *)
(***************************************************************************)
LEMMA CopiesNat ==
  ASSUME NEW s \in Seq(Exec), NEW I \in SUBSET DOMAIN s, NEW e \in Exec
  PROVE  Cardinality({i \in I : s[i] = e}) \in Nat
<1>1. IsFiniteSet(DOMAIN s)
  <2>1. DOMAIN s = 1 .. Len(s) /\ Len(s) \in Nat  OBVIOUS
  <2>2. QED  BY <2>1, FS_Interval
<1>2. {i \in I : s[i] = e} \subseteq DOMAIN s  OBVIOUS
<1>3. QED  BY <1>1, <1>2, FS_Subset, FS_CardinalityType

(***************************************************************************)
(* The variables of the pipeline keep their types: in particular no copy   *)
(* count goes below zero, and only executions are persisted or applied.    *)
(***************************************************************************)
THEOREM TypeCorrect == Spec => []TypeOK
<1>1. Init => TypeOK
  BY DEF Init, TypeOK, NoCopies
<1>2. TypeOK /\ [Next]_vars => TypeOK'
  <2> SUFFICES ASSUME TypeOK, [Next]_vars PROVE TypeOK'
    OBVIOUS
  <2> USE DEF TypeOK
  <2>1. CASE Subscribe  BY <2>1 DEF Subscribe, historyVars
  <2>2. CASE Fetch
    BY <2>2 DEF Fetch, fetch_historical, AfterLastPoint, exchangeVars, historyVars
  <2>3. CASE Load
    <3>1. todo' \in [Exec -> Nat]  BY <2>3 DEF Load, OneCopyOf
    <3>2. QED  BY <2>3, <3>1 DEF Load, exchangeVars, historyVars
  <2>4. CASE Drain
    <3>1. todo' \in [Exec -> Nat]
      <4>1. PICK last \in 0 .. (MaxTs + Epoch) :
              todo' = [e \in Exec |->
                         Cardinality({i \in KeptIndices(last) : rx_buf[i] = e})]
        BY <2>4 DEF Drain
      <4>2. KeptIndices(last) \in SUBSET DOMAIN rx_buf  BY DEF KeptIndices
      <4>3. \A e \in Exec : Cardinality({i \in KeptIndices(last) : rx_buf[i] = e}) \in Nat
        BY <4>2, CopiesNat
      <4>4. QED  BY <4>1, <4>3
    <3>2. QED  BY <2>4, <3>1 DEF Drain, Elements, exchangeVars
  <2>5. CASE GoOnline  BY <2>5 DEF GoOnline, exchangeVars, historyVars
  <2>6. CASE Receive
    <3>1. Head(rx_buf) \in Exec /\ Tail(rx_buf) \in Seq(Exec)  BY <2>6 DEF Receive
    <3>2. todo' \in [Exec -> Nat]  BY <2>6 DEF Receive, OneCopyOf
    <3>3. QED  BY <2>6, <3>1, <3>2 DEF Receive, exchangeVars, historyVars
  <2>7. CASE Disconnected
    BY <2>7 DEF Disconnected, fetch_historical_again, AfterLastPoint, exchangeVars
  <2>8. CASE RestoreLoad
    <3>1. todo' \in [Exec -> Nat]  BY <2>8 DEF RestoreLoad, OneCopyOf
    <3>2. QED  BY <2>8, <3>1 DEF RestoreLoad, exchangeVars, historyVars
  <2>9. CASE Restored  BY <2>9 DEF Restored, exchangeVars, historyVars
  <2>10. CASE Resubscribe  BY <2>10 DEF Resubscribe, historyVars
  <2>11. ASSUME NEW e \in Exec, UpsertHistorical(e) PROVE TypeOK'
    BY <2>11 DEF UpsertHistorical, exchangeVars, historyVars
  <2>12. ASSUME NEW e \in Exec, Apply(e) PROVE TypeOK'
    <3>1. todo[e] > 0  BY <2>12 DEF Apply, First, Pending
    <3>2. todo' \in [Exec -> Nat]  BY <2>12, <3>1 DEF Apply
    <3>3. position' \in Seq(Exec)  BY <2>12 DEF Apply
    <3>4. QED  BY <2>12, <3>2, <3>3 DEF Apply, exchangeVars, historyVars
  <2>13. CASE Connect  BY <2>13 DEF Connect, taskVars, historyVars
  <2>14. ASSUME NEW e \in Exec, Deliver(e) PROVE TypeOK'
    BY <2>14 DEF Deliver, Emit, taskVars
  <2>15. ASSUME NEW e \in Exec, DeliverAgain(e) PROVE TypeOK'
    BY <2>15 DEF DeliverAgain, Emit, taskVars, historyVars
  <2>16. ASSUME NEW e \in Exec, Trade(e) PROVE TypeOK'
    BY <2>16 DEF Trade, taskVars
  <2>17. CASE StreamLost  BY <2>17 DEF StreamLost, taskVars, historyVars
  <2>18. CASE TaskError  BY <2>18 DEF TaskError, NoCopies, exchangeVars, historyVars
  <2>19. CASE NewProcess  BY <2>19 DEF NewProcess, NoCopies, historyVars
  <2>20. CASE UNCHANGED vars  BY <2>20 DEF vars
  <2>21. QED
    BY <2>1, <2>2, <2>3, <2>4, <2>5, <2>6, <2>7, <2>8, <2>9, <2>10, <2>11, <2>12,
       <2>13, <2>14, <2>15, <2>16, <2>17, <2>18, <2>19, <2>20
    DEF Next, Task, Adapter, ExitAfterRestore, Crash
<1>3. QED  BY <1>1, <1>2, PTL DEF Spec
-----------------------------------------------------------------------------
(***************************************************************************)
(* The steps of HoleInv. Each lemma takes the actions that bear on it; the *)
(* definitions below are used by all of them.                              *)
(***************************************************************************)
LEMMA SourcesStep == TypeOK /\ Sources /\ Shape /\ [Next]_vars => Sources' /\ Shape'
<1> SUFFICES ASSUME TypeOK, Sources, Shape, [Next]_vars PROVE Sources' /\ Shape'
  OBVIOUS
<1> USE DEF TypeOK, Sources, Shape, Restoring
<1>1. CASE Subscribe  BY <1>1 DEF Subscribe
<1>2. CASE Fetch
  BY <1>2 DEF Fetch, fetch_historical, AfterLastPoint, exchangeVars
<1>3. CASE Load  BY <1>3 DEF Load, exchangeVars
<1>4. CASE Drain  BY <1>4 DEF Drain, exchangeVars
<1>5. CASE GoOnline  BY <1>5 DEF GoOnline, exchangeVars
<1>6. CASE Receive
  <2>1. /\ Head(rx_buf) \in trades
        /\ \A i \in DOMAIN Tail(rx_buf) : Tail(rx_buf)[i] \in trades
    BY <1>6 DEF Receive
  <2>2. QED  BY <1>6, <2>1 DEF Receive, Consuming, exchangeVars
<1>7. CASE Disconnected
  BY <1>7 DEF Disconnected, Consuming, fetch_historical_again, AfterLastPoint,
     exchangeVars
<1>8. CASE RestoreLoad  BY <1>8 DEF RestoreLoad, exchangeVars
<1>9. CASE Restored  BY <1>9 DEF Restored, exchangeVars
<1>10. CASE Resubscribe  BY <1>10 DEF Resubscribe
<1>11. ASSUME NEW e \in Exec, UpsertHistorical(e) PROVE Sources' /\ Shape'
  BY <1>11 DEF UpsertHistorical, First, exchangeVars
<1>12. ASSUME NEW e \in Exec, Apply(e) PROVE Sources' /\ Shape'
  BY <1>12 DEF Apply, exchangeVars
<1>13. CASE Connect  BY <1>13 DEF Connect, taskVars
<1>14. ASSUME NEW e \in Exec, Deliver(e) PROVE Sources' /\ Shape'
  BY <1>14 DEF Deliver, Emit, taskVars
<1>15. ASSUME NEW e \in Exec, DeliverAgain(e) PROVE Sources' /\ Shape'
  BY <1>15 DEF DeliverAgain, Emit, taskVars
<1>16. ASSUME NEW e \in Exec, Trade(e) PROVE Sources' /\ Shape'
  BY <1>16 DEF Trade, taskVars
<1>17. CASE StreamLost  BY <1>17 DEF StreamLost, taskVars
<1>18. CASE TaskError  BY <1>18 DEF TaskError, Consuming, exchangeVars
<1>19. CASE NewProcess  BY <1>19 DEF NewProcess
<1>20. CASE UNCHANGED vars  BY <1>20 DEF vars
<1>21. QED
  BY <1>1, <1>2, <1>3, <1>4, <1>5, <1>6, <1>7, <1>8, <1>9, <1>10, <1>11, <1>12,
     <1>13, <1>14, <1>15, <1>16, <1>17, <1>18, <1>19, <1>20
  DEF Next, Task, Adapter, ExitAfterRestore, Crash

(***************************************************************************)
(* The variables that Closed reads.                                        *)
(***************************************************************************)
closedVars == <<trades, stream, wire, echo, rx_buf, pc, db, hist, gap, unsaved, overtaken>>

LEMMA ClosedFrame == Closed /\ UNCHANGED closedVars => Closed'
BY DEF closedVars, Closed, HistoryAhead, HistoryClosed, ChannelClosed, EchoClosed, Watched,
       HolesExplained, Past, Buffered, Earlier, Fetched, Restoring, Passed, Tied, Exposed

(***************************************************************************)
(* A fetch that returns everything the restart point has not passed        *)
(* leaves no execution uncared for.                                        *)
(***************************************************************************)
LEMMA FetchClosed ==
  ASSUME HoleInv, NEW X, X \subseteq AfterLastPoint, hist' = X,
         UNCHANGED <<trades, wire, echo, rx_buf, db, gap, overtaken>>,
         unsaved \subseteq unsaved',
         pc' \in {"upsert", "restore_upsert"},
         \A e \in AfterLastPoint : e.ts > Epoch => e \in X \/ e \in unsaved'
  PROVE  Closed'
<1> USE DEF HoleInv, TypeOK, Sources, Closed, Exec
<1>1. \A e \in trades : Epoch < e.ts => Past(e)'
  <2> SUFFICES ASSUME NEW e \in trades, Epoch < e.ts PROVE Past(e)'
    OBVIOUS
  <2>1. CASE Passed(e, db)
    BY <2>1, EpochAssumption DEF HolesExplained, Past, Exposed, Tied
  <2>2. CASE ~ Passed(e, db)
    BY <2>2, EpochAssumption DEF AfterLastPoint, Past, Exposed
  <2>3. QED  BY <2>1, <2>2
<1>2. HistoryAhead'
  BY DEF HistoryAhead, AfterLastPoint, Passed
<1>3. HolesExplained'
  BY DEF HolesExplained, Passed, Exposed, Tied
<1>4. QED
  BY <1>1, <1>2, <1>3 DEF HistoryClosed, ChannelClosed, EchoClosed, Watched, Earlier

LEMMA ClosedStep == HoleInv /\ [Next]_vars => Closed'
<1> SUFFICES ASSUME HoleInv, [Next]_vars PROVE Closed'
  OBVIOUS
<1>T. TypeOK /\ Sources /\ Shape /\ Closed
  BY DEF HoleInv
<1>1. CASE Subscribe
  BY <1>1, <1>T DEF Subscribe, historyVars, Closed, HistoryAhead, HistoryClosed, ChannelClosed,
     EchoClosed, Watched, HolesExplained, Fetched, Restoring, Passed, Tied, Exposed, Past, Earlier
<1>2. CASE Fetch
  BY <1>2, FetchClosed, EpochAssumption
  DEF Fetch, fetch_historical, exchangeVars, historyVars
<1>3. CASE Disconnected
  BY <1>3, <1>T, FetchClosed
  DEF Disconnected, fetch_historical_again, AfterLastPoint, exchangeVars, TypeOK
<1>4. CASE Load
  BY <1>4, <1>T DEF Load, exchangeVars, historyVars, Closed, HistoryAhead, HistoryClosed, ChannelClosed,
     EchoClosed, Watched, HolesExplained, Fetched, Restoring, Passed, Tied, Exposed, Past, Buffered, Earlier
<1>5. CASE Drain
  <2> USE <1>5, <1>T DEF Drain, exchangeVars
  <2>1. \A e \in Exec : Past(e) \/ Buffered(e) => Past(e)'
    BY DEF Past, Buffered, Tied, Exposed, Elements
  <2>2. HistoryAhead' /\ HolesExplained'
    BY DEF Closed, HistoryAhead, HolesExplained, Passed, Tied, Exposed
  <2>3. HistoryClosed' /\ EchoClosed'
    BY <2>1 DEF Closed, HistoryClosed, EchoClosed, Earlier, Fetched, TypeOK
  <2>4. ChannelClosed'
    BY DEF ChannelClosed
  <2>5. Watched'
    BY <2>1 DEF Closed, Watched, Fetched, Restoring, TypeOK
  <2>6. QED  BY <2>2, <2>3, <2>4, <2>5 DEF Closed
<1>6. CASE GoOnline
  BY <1>6, <1>T DEF GoOnline, exchangeVars, historyVars, Closed, HistoryAhead, HistoryClosed, ChannelClosed,
     EchoClosed, Watched, HolesExplained, Fetched, Restoring, Passed, Tied, Exposed, Past, Buffered, Earlier
<1>7. CASE Receive
  <2> DEFINE h == Head(rx_buf)
  <2> USE <1>7, <1>T DEF Receive, exchangeVars, historyVars
  <2>1. /\ hist = {} /\ hist' = {} /\ Fetched /\ ~ Restoring
        /\ h \in trades /\ h = rx_buf[1] /\ 1 \in DOMAIN rx_buf /\ h \in Exec
        /\ db' = db \cup {h}
    BY DEF Shape, Consuming, Restoring, Fetched, Sources, TypeOK
  <2>2. /\ rx_buf \in Seq(Exec) /\ rx_buf # << >>
        /\ \A k \in DOMAIN rx_buf' : k \in Nat /\ k + 1 \in DOMAIN rx_buf /\ rx_buf'[k] = rx_buf[k + 1]
        /\ \A k \in DOMAIN rx_buf : k = 1 \/ (k - 1 \in DOMAIN rx_buf' /\ rx_buf'[k - 1] = rx_buf[k])
    BY SMTT(30) DEF TypeOK
  <2>3. \A e : Past(e) => Past(e)'
    BY <2>1 DEF Past, Tied, Exposed
  <2>4. \A e : Buffered(e) => Past(e)' \/ Buffered(e)'
    BY <2>1, <2>2 DEF Buffered, Past
  <2>5. HistoryAhead' /\ HistoryClosed'
    BY <2>1 DEF HistoryAhead, HistoryClosed
  <2>6. EchoClosed' /\ Watched'
    BY <2>1, <2>3, <2>4 DEF Closed, EchoClosed, Watched, Earlier, Fetched, Restoring
  <2>7. ChannelClosed'
    <3> SUFFICES ASSUME NEW i \in DOMAIN rx_buf', NEW e \in trades, Epoch < e.ts, e.ts < rx_buf'[i].ts
                 PROVE Past(e)' \/ \E k \in DOMAIN rx_buf' : k < i /\ rx_buf'[k] = e
      BY DEF ChannelClosed, Earlier
    <3>1. Past(e) \/ \E k \in DOMAIN rx_buf : k < i + 1 /\ rx_buf[k] = e
      BY <2>1, <2>2 DEF Closed, ChannelClosed, Earlier
    <3>2. CASE Past(e)  BY <2>3, <3>2
    <3>3. ASSUME NEW k \in DOMAIN rx_buf, k < i + 1, rx_buf[k] = e
          PROVE Past(e)' \/ \E m \in DOMAIN rx_buf' : m < i /\ rx_buf'[m] = e
      <4>1. CASE k = 1  BY <2>1, <3>3, <4>1 DEF Past
      <4>2. CASE k # 1
        <5>1. k - 1 \in DOMAIN rx_buf' /\ rx_buf'[k - 1] = e  BY <2>2, <3>3, <4>2
        <5>2. k - 1 < i  BY <2>2, <3>3
        <5>3. QED  BY <5>1, <5>2
      <4>3. QED  BY <4>1, <4>2
    <3>4. QED  BY <3>1, <3>2, <3>3
  <2>8. HolesExplained'
    <3> SUFFICES ASSUME NEW e \in trades, e.ts > Epoch, Passed(e, db'), e \notin db'
                 PROVE e \in Exposed \/ Tied(e)
      BY DEF HolesExplained, Exposed, Tied
    <3>1. CASE Passed(e, db)
      BY <2>1, <3>1 DEF Closed, HolesExplained
    <3>2. CASE ~ Passed(e, db)
      <4>1. e.ts <= h.ts /\ e # h /\ e \in Exec  BY <2>1, <3>2 DEF Passed, Sources, TypeOK
      <4>2. CASE e.ts = h.ts  BY <2>1, <4>1, <4>2 DEF Tied
      <4>3. CASE e.ts < h.ts
        <5>1. Past(e) \/ \E k \in DOMAIN rx_buf : k < 1 /\ rx_buf[k] = e
          BY <2>1, <4>3, EpochAssumption, <4>1 DEF Closed, ChannelClosed, Earlier, Exec
        <5>2. Past(e)  BY <5>1, <2>2
        <5>3. QED  BY <5>2, <2>1 DEF Past
      <4>4. QED  BY <4>1, <4>2, <4>3, <2>1 DEF Exec
    <3>3. QED  BY <3>1, <3>2
  <2>9. QED  BY <2>5, <2>6, <2>7, <2>8 DEF Closed
<1>8. CASE RestoreLoad
  BY <1>8, <1>T DEF RestoreLoad, exchangeVars, historyVars, Closed, HistoryAhead, HistoryClosed, ChannelClosed,
     EchoClosed, Watched, HolesExplained, Fetched, Restoring, Passed, Tied, Exposed, Past, Buffered, Earlier
<1>9. CASE Restored
  BY <1>9, <1>T DEF Restored, exchangeVars, historyVars, Closed, HistoryAhead, HistoryClosed, ChannelClosed,
     EchoClosed, Watched, HolesExplained, Fetched, Restoring, Passed, Tied, Exposed, Past, Buffered, Earlier
<1>10. CASE Resubscribe
  BY <1>10, <1>T DEF Resubscribe, historyVars, Closed, HistoryAhead, HistoryClosed, ChannelClosed,
     EchoClosed, Watched, HolesExplained, Fetched, Restoring, Passed, Tied, Exposed, Past, Buffered, Earlier
<1>11. ASSUME NEW f \in Exec, UpsertHistorical(f) PROVE Closed'
  <2> USE <1>11, <1>T DEF UpsertHistorical, exchangeVars, historyVars
  <2>1. /\ f \in hist /\ f \in trades
        /\ \A e \in hist : e = f \/ f.ts <= e.ts
    <3>1. f \in hist /\ f \in trades  BY DEF First, Sources
    <3>2. \A e \in hist \ {f} : Precedes(f, e)  BY DEF First
    <3>3. \A e \in hist : e.ts \in Nat  BY DEF TypeOK, Exec
    <3>4. f.ts \in Nat  BY <3>1, <3>3
    <3>5. \A e \in hist : e = f \/ f.ts <= e.ts  BY <3>2, <3>3, <3>4 DEF Precedes
    <3>6. QED  BY <3>1, <3>5
  <2>2. \A e : Past(e) <=> Past(e)'
    BY <2>1 DEF Past, Tied, Exposed
  <2>3. HistoryAhead'
    BY <2>1 DEF Closed, HistoryAhead
  <2>4. HistoryClosed'
    BY <2>1, <2>2 DEF Closed, HistoryClosed, Earlier
  <2>5. ChannelClosed' /\ EchoClosed' /\ Watched'
    BY <2>2 DEF Closed, ChannelClosed, EchoClosed, Watched, Earlier, Fetched, Restoring, Buffered
  <2>6. HolesExplained'
    <3> SUFFICES ASSUME NEW e \in trades, e.ts > Epoch, Passed(e, db'), e \notin db'
                 PROVE e \in Exposed \/ Tied(e)
      BY DEF HolesExplained, Exposed, Tied
    <3>1. CASE Passed(e, db)
      BY <2>1, <3>1 DEF Closed, HolesExplained
    <3>2. CASE ~ Passed(e, db)
      <4>1. e.ts <= f.ts /\ e # f /\ e \in Exec  BY <3>2 DEF Passed, TypeOK
      <4>2. CASE e.ts = f.ts  BY <2>1, <4>1, <4>2 DEF Tied
      <4>3. CASE e.ts < f.ts
        <5>1. Past(e)
          BY <2>1, <4>3, EpochAssumption, <4>1 DEF Closed, HistoryClosed, Earlier, Exec
        <5>2. e \notin hist  BY <2>1, <4>1, <4>3 DEF Exec
        <5>3. QED  BY <5>1, <5>2 DEF Past
      <4>4. QED  BY <4>1, <4>2, <4>3 DEF Exec
    <3>3. QED  BY <3>1, <3>2
  <2>7. QED  BY <2>3, <2>4, <2>5, <2>6 DEF Closed
<1>12. ASSUME NEW f \in Exec, Apply(f) PROVE Closed'
  BY <1>12, <1>T, ClosedFrame DEF Apply, exchangeVars, historyVars, closedVars
<1>13. CASE Connect
  BY <1>13, <1>T DEF Connect, taskVars, historyVars, Closed, HistoryAhead, HistoryClosed, ChannelClosed,
     EchoClosed, Watched, HolesExplained, Fetched, Restoring, Passed, Tied, Exposed, Past, Buffered, Earlier
<1>14. ASSUME NEW f \in Exec, Deliver(f) PROVE Closed'
  <2> USE <1>14, <1>T DEF Deliver, taskVars
  <2>1. \A e : Past(e) => Past(e)'
    BY DEF Past, Tied, Exposed
  <2>2. HistoryAhead' /\ HolesExplained'
    BY DEF Closed, HistoryAhead, HolesExplained, Passed, Tied, Exposed
  <2>3. HistoryClosed'
    BY <2>1 DEF Closed, HistoryClosed, Earlier
  <2>4. CASE ~ Fetched
    BY <2>2, <2>3, <2>4 DEF Closed, ChannelClosed, EchoClosed, Watched, Fetched
  <2>5. CASE Fetched
    <3> DEFINE n == Len(rx_buf) + 1
    <3>1. /\ rx_buf' = Append(rx_buf, f) /\ Fetched' /\ stream = "up"
          /\ Restoring' = Restoring
      BY <2>5 DEF Emit, Fetched, Shape, Restoring
    <3>2. /\ n \in Nat /\ DOMAIN rx_buf = 1 .. (n - 1) /\ DOMAIN rx_buf' = 1 .. n
          /\ rx_buf'[n] = f
          /\ \A k \in DOMAIN rx_buf : k \in DOMAIN rx_buf' /\ k < n /\ rx_buf'[k] = rx_buf[k]
      BY <3>1 DEF TypeOK
    <3>3. \A e : Buffered(e) => Buffered(e)'
      BY <3>2 DEF Buffered
    <3>4. Buffered(f)'  BY <3>2 DEF Buffered
    <3>5. \A e \in Earlier(f) : Past(e)' \/ Buffered(e)
      <4>1. \A e \in Earlier(f) : Past(e) \/ Buffered(e) \/ e \in wire
        BY <2>5, <3>1 DEF Closed, Watched, Earlier
      <4>2. \A e \in Earlier(f) : e \in wire => Past(e)'
        BY DEF Earlier, Past, Exposed
      <4>3. QED  BY <2>1, <4>1, <4>2
    <3>6. ChannelClosed'
      <4> SUFFICES ASSUME NEW i \in DOMAIN rx_buf', NEW e \in trades, Epoch < e.ts, e.ts < rx_buf'[i].ts
                   PROVE Past(e)' \/ \E k \in DOMAIN rx_buf' : k < i /\ rx_buf'[k] = e
        BY DEF ChannelClosed, Earlier
      <4>1. CASE i = n
        BY <3>2, <3>5, <4>1 DEF Earlier, Buffered
      <4>2. CASE i # n
        <5>1. i \in DOMAIN rx_buf /\ rx_buf'[i] = rx_buf[i]  BY <3>2, <4>2
        <5>2. Past(e) \/ \E k \in DOMAIN rx_buf : k < i /\ rx_buf[k] = e
          BY <2>5, <5>1 DEF Closed, ChannelClosed, Earlier
        <5>3. QED  BY <2>1, <3>2, <5>2
      <4>3. QED  BY <4>1, <4>2
    <3>7. EchoClosed'
      <4> SUFFICES ASSUME NEW g \in echo', NEW e \in Earlier(g) PROVE Past(e)' \/ Buffered(e)'
        BY DEF EchoClosed, Earlier
      <4>1. CASE g = f  BY <3>3, <3>5, <4>1
      <4>2. CASE g \in echo
        BY <2>1, <2>5, <3>3, <4>2 DEF Closed, EchoClosed
      <4>3. QED  BY <4>1, <4>2
    <3>8. Watched'
      BY <2>1, <2>5, <3>1, <3>3, <3>4 DEF Closed, Watched
    <3>9. QED  BY <2>2, <2>3, <3>6, <3>7, <3>8 DEF Closed
  <2>6. QED  BY <2>4, <2>5
<1>15. ASSUME NEW f \in Exec, DeliverAgain(f) PROVE Closed'
  <2> USE <1>15, <1>T DEF DeliverAgain, taskVars, historyVars
  <2>1. \A e : Past(e) = Past(e)'
    BY DEF Past, Tied, Exposed
  <2>2. HistoryAhead' /\ HolesExplained'
    BY DEF Closed, HistoryAhead, HolesExplained, Passed, Tied, Exposed
  <2>3. HistoryClosed'
    BY <2>1 DEF Closed, HistoryClosed, Earlier
  <2>4. CASE ~ Fetched
    BY <2>2, <2>3, <2>4 DEF Closed, ChannelClosed, EchoClosed, Watched, Fetched
  <2>5. CASE Fetched
    <3> DEFINE n == Len(rx_buf) + 1
    <3>1. /\ rx_buf' = Append(rx_buf, f) /\ Fetched' /\ stream = "up"
          /\ Restoring' = Restoring
      BY <2>5 DEF Emit, Fetched, Shape, Restoring
    <3>2. /\ n \in Nat /\ DOMAIN rx_buf = 1 .. (n - 1) /\ DOMAIN rx_buf' = 1 .. n
          /\ rx_buf'[n] = f
          /\ \A k \in DOMAIN rx_buf : k \in DOMAIN rx_buf' /\ k < n /\ rx_buf'[k] = rx_buf[k]
      BY <3>1 DEF TypeOK
    <3>3. \A e : Buffered(e) => Buffered(e)'
      BY <3>2 DEF Buffered
    <3>4. ChannelClosed'
      <4> SUFFICES ASSUME NEW i \in DOMAIN rx_buf', NEW e \in trades, Epoch < e.ts, e.ts < rx_buf'[i].ts
                   PROVE Past(e)' \/ \E k \in DOMAIN rx_buf' : k < i /\ rx_buf'[k] = e
        BY DEF ChannelClosed, Earlier
      <4>1. CASE i = n
        <5>1. Past(e) \/ Buffered(e)
          BY <2>5, <3>2, <4>1 DEF Closed, EchoClosed, Earlier
        <5>2. QED  BY <2>1, <3>2, <4>1, <5>1 DEF Buffered
      <4>2. CASE i # n
        <5>1. i \in DOMAIN rx_buf /\ rx_buf'[i] = rx_buf[i]  BY <3>2, <4>2
        <5>2. Past(e) \/ \E k \in DOMAIN rx_buf : k < i /\ rx_buf[k] = e
          BY <2>5, <5>1 DEF Closed, ChannelClosed, Earlier
        <5>3. QED  BY <2>1, <3>2, <5>2
      <4>3. QED  BY <4>1, <4>2
    <3>5. EchoClosed'
      BY <2>1, <2>5, <3>3 DEF Closed, EchoClosed, Earlier
    <3>6. Watched'
      BY <2>1, <2>5, <3>1, <3>3 DEF Closed, Watched
    <3>7. QED  BY <2>2, <2>3, <3>4, <3>5, <3>6 DEF Closed
  <2>6. QED  BY <2>4, <2>5
<1>16. ASSUME NEW t \in Exec, Trade(t) PROVE Closed'
  <2> USE <1>16, <1>T DEF Trade, taskVars
  <2>1. \A f \in trades : f.id # t.id /\ f.ts <= t.ts /\ f # t  OBVIOUS
  <2>2. \A e : Past(e) => Past(e)'
    BY DEF Past, Tied, Exposed
  <2>3. /\ \A f \in trades : Earlier(f)' \subseteq Earlier(f)
        /\ \A e \in Earlier(t)' : e \in trades /\ Epoch < e.ts
    BY <2>1 DEF Earlier, TypeOK, Exec
  <2>4. HistoryAhead'
    BY DEF Closed, HistoryAhead
  <2>5. HistoryClosed'
    BY <2>2, <2>3 DEF Closed, HistoryClosed, Sources
  <2>6. ChannelClosed' /\ EchoClosed'
    BY <2>2, <2>3 DEF Closed, ChannelClosed, EchoClosed, Sources, Fetched, Buffered
  <2>7. Watched'
    <3> SUFFICES ASSUME Fetched, stream \in {"connecting", "up"} \/ Restoring,
                        NEW e \in trades', Epoch < e.ts
                 PROVE  Past(e)' \/ Buffered(e)' \/ e \in wire'
      BY DEF Watched, Fetched, Restoring
    <3>1. CASE e \in trades
      BY <2>2, <3>1 DEF Closed, Watched, Buffered
    <3>2. CASE e = t
      BY <3>2 DEF Blind, Past, Exposed, Fetched, Shape
    <3>3. QED  BY <3>1, <3>2
  <2>8. HolesExplained'
    <3> SUFFICES ASSUME NEW e \in trades', e.ts > Epoch, Passed(e, db), e \notin db
                 PROVE (e \in Exposed \/ Tied(e))'
      BY DEF HolesExplained
    <3>1. CASE e \in trades
      BY <3>1 DEF Closed, HolesExplained, Exposed, Tied
    <3>2. CASE e = t
      <4>1. PICK f \in db : t.ts <= f.ts  BY <3>2 DEF Passed
      <4>2. f \in trades /\ f # t /\ f.ts = t.ts
        BY <2>1, <4>1 DEF Sources, TypeOK, Exec
      <4>3. QED  BY <3>2, <4>2 DEF Tied
    <3>3. QED  BY <3>1, <3>2
  <2>9. QED  BY <2>4, <2>5, <2>6, <2>7, <2>8 DEF Closed
<1>17. CASE StreamLost
  BY <1>17, <1>T DEF StreamLost, taskVars, historyVars, Closed, HistoryAhead, HistoryClosed, ChannelClosed,
     EchoClosed, Watched, HolesExplained, Fetched, Restoring, Passed, Tied, Exposed, Past, Buffered, Earlier, Shape
<1>18. CASE TaskError
  BY <1>18, <1>T DEF TaskError, exchangeVars, historyVars, Closed, HistoryAhead, HistoryClosed, ChannelClosed,
     EchoClosed, Watched, HolesExplained, Fetched, Restoring, Passed, Tied, Exposed, Past, Buffered, Earlier
<1>19. CASE NewProcess
  BY <1>19, <1>T DEF NewProcess, historyVars, Closed, HistoryAhead, HistoryClosed, ChannelClosed,
     EchoClosed, Watched, HolesExplained, Fetched, Restoring, Passed, Tied, Exposed, Past, Buffered, Earlier
<1>20. CASE UNCHANGED vars
  BY <1>20, <1>T, ClosedFrame DEF vars, closedVars
<1>21. QED
  BY <1>1, <1>2, <1>3, <1>4, <1>5, <1>6, <1>7, <1>8, <1>9, <1>10, <1>11, <1>12,
     <1>13, <1>14, <1>15, <1>16, <1>17, <1>18, <1>19, <1>20
  DEF Next, Task, Adapter, ExitAfterRestore, Crash

(***************************************************************************)
(* HoleInv holds in every reachable state.                                 *)
(***************************************************************************)
THEOREM HoleInvariant == Spec => []HoleInv
<1>1. Init => HoleInv
  BY DEF Init, HoleInv, TypeOK, NoCopies, Sources, Shape, Restoring, Closed,
         HistoryAhead, HistoryClosed, ChannelClosed, EchoClosed, Watched, Fetched,
         HolesExplained
<1>2. HoleInv /\ TypeOK' /\ [Next]_vars => HoleInv'
  BY SourcesStep, ClosedStep DEF HoleInv
<1>3. QED  BY <1>1, <1>2, TypeCorrect, PTL DEF Spec

(***************************************************************************)
(* HolesExplained for every instance: an execution that the restart point  *)
(* of run_market has passed without its being persisted was exposed in one *)
(* of the named ways. HoleInv is needed because the restart point moves    *)
(* with every upsert: what it may pass is decided earlier, when a history  *)
(* is fetched, an execution is put on the wire, or the channel is filled.  *)
(***************************************************************************)
THEOREM HolesAreExplained == Spec => []HolesExplained
<1>1. HoleInv => HolesExplained
  BY DEF HoleInv, Closed
<1>2. QED  BY <1>1, HoleInvariant, PTL
-----------------------------------------------------------------------------
(***************************************************************************)
(* The strengthening of ReplayExact, OnlineCoversTable and LoopExact.      *)
(* While a replay runs, what is applied and what is pending make up the    *)
(* table, in order; a consuming loop has one execution in hand, whose row  *)
(* is committed; and in the loop, what is still to arrive on a stream that *)
(* was opened after the restore is new to the table.                       *)
(***************************************************************************)
Replaying == pc \in {"replay", "restore_replay"}

BeforeReplay == pc \in {"start", "fetch", "upsert"} => position = << >>

DuringReplay ==
  Replaying =>
    /\ \A e \in Exec : todo[e] \in {0, 1}
    /\ Elements(position) \cup Pending = load_range
    /\ InOrder(position)
    /\ \A i \in DOMAIN position : \A e \in Pending : Precedes(position[i], e)

AfterRestore ==
  pc = "resubscribe" => Elements(position) = load_range /\ InOrder(position)

InHand ==
  /\ pc = "resubscribe" => Pending = {}
  /\ Consuming =>
       \A e \in Pending :
         /\ e \in db /\ todo[e] = 1 /\ Pending = {e}
         /\ pc = "loop" /\ e.id \notin LateOrtu => e \notin Elements(position)

LoopFresh ==
  /\ \A e \in echo : e.id \in LateOrtu /\ e \notin wire
  /\ pc = "loop" =>
       /\ \A e \in wire : e \notin db /\ ~ Buffered(e)
       /\ \A i \in DOMAIN rx_buf : rx_buf[i].id \notin LateOrtu =>
            /\ rx_buf[i] \notin db
            /\ \A j \in DOMAIN rx_buf : rx_buf[j] = rx_buf[i] => j = i

ReplayInv ==
  /\ BeforeReplay /\ DuringReplay /\ AfterRestore /\ InHand
  /\ OnlineCoversTable /\ LoopFresh /\ LoopExact

(***************************************************************************)
(* Appending adds one element; a sequence in order has no element twice.   *)
(***************************************************************************)
LEMMA AppendElements ==
  ASSUME NEW s \in Seq(Exec), NEW e \in Exec
  PROVE  Elements(Append(s, e)) = Elements(s) \cup {e}
<1> DEFINE t == Append(s, e)
<1>1. /\ Len(s) \in Nat /\ DOMAIN s = 1 .. Len(s) /\ DOMAIN t = 1 .. Len(s) + 1
      /\ t[Len(s) + 1] = e /\ \A i \in DOMAIN s : t[i] = s[i]
  OBVIOUS
<1>2. QED  BY <1>1 DEF Elements

LEMMA InOrderOnce ==
  ASSUME position \in Seq(Exec), InOrder(position), NEW e
  PROVE  AppliedOnce(e)
<1> SUFFICES ASSUME NEW i \in DOMAIN position, NEW j \in DOMAIN position,
                    position[i] = e, position[j] = e, i < j
             PROVE  FALSE
  <2>1. DOMAIN position = 1 .. Len(position) /\ Len(position) \in Nat  OBVIOUS
  <2>2. QED  BY <2>1 DEF AppliedOnce
<1>1. Precedes(e, e)  BY DEF InOrder
<1>2. e.ts \in Nat /\ e.id \in Nat
  <2>1. e \in Exec  OBVIOUS
  <2>2. e.id \in ExecId /\ e.ts \in 1 .. MaxTs  BY <2>1 DEF Exec
  <2>3. \A t \in 1 .. MaxTs : t \in Nat  BY MaxTsAssumption
  <2>4. \A n \in ExecId : n \in Nat  BY ExecIdAssumption
  <2>5. QED  BY <2>2, <2>3, <2>4
<1>3. QED  BY <1>1, <1>2 DEF Precedes

LEMMA ReplayStep == HoleInv /\ ReplayInv /\ [Next]_vars => ReplayInv'
<1> SUFFICES ASSUME HoleInv, ReplayInv, [Next]_vars PROVE ReplayInv'
  OBVIOUS
<1>T. /\ TypeOK /\ Sources /\ Shape
      /\ BeforeReplay /\ DuringReplay /\ AfterRestore /\ InHand
      /\ OnlineCoversTable /\ LoopFresh /\ LoopExact
  BY DEF HoleInv, ReplayInv
<1> USE <1>T DEF BeforeReplay, DuringReplay, AfterRestore, InHand, OnlineCoversTable, LoopFresh,
                 LoopExact, Replaying, Consuming
<1>1. CASE Subscribe  BY <1>1 DEF Subscribe, historyVars, ReplayInv, Shape
<1>2. CASE Fetch  BY <1>2 DEF Fetch, exchangeVars, ReplayInv
<1>3. CASE Load
  <2>1. Pending' = load_range /\ position = << >>
    BY <1>3 DEF Load, OneCopyOf, Pending, load_range, TypeOK
  <2>2. QED
    BY <1>3, <2>1 DEF Load, OneCopyOf, exchangeVars, load_range, Elements, InOrder, ReplayInv
<1>4. CASE Drain
  BY <1>4 DEF Drain, exchangeVars, load_range, Elements, ReplayInv
<1>5. CASE GoOnline
  BY <1>5 DEF GoOnline, exchangeVars, load_range, Elements, Pending, ReplayInv
<1>6. CASE Receive
  <2> DEFINE h == Head(rx_buf)
  <2>1. /\ h \in Exec /\ 1 \in DOMAIN rx_buf /\ h = rx_buf[1]
        /\ db' = db \cup {h} /\ position' = position /\ Pending = {}
        /\ Elements(position)' = Elements(position)
        /\ UNCHANGED <<pc, wire, echo>> /\ Consuming
    BY <1>6 DEF Receive, Elements, exchangeVars, TypeOK
  <2>2. /\ \A k \in DOMAIN rx_buf' : k \in Nat /\ k + 1 \in DOMAIN rx_buf /\ rx_buf'[k] = rx_buf[k + 1]
    BY <1>6, SMTT(30) DEF Receive, TypeOK
  <2>3. /\ Pending' = {h} /\ todo'[h] = 1
    BY <1>6, <2>1 DEF Receive, OneCopyOf, Pending
  <2>7. OnlineCoversTable'
    <3>1. load_range' \subseteq load_range \cup {h}  BY <2>1 DEF load_range
    <3>2. load_range \subseteq Elements(position)  BY <2>1
    <3>3. QED  BY <2>1, <2>3, <3>1, <3>2
  <2>8. InHand'
    <3>1. ASSUME pc = "loop", h.id \notin LateOrtu PROVE h \notin Elements(position)
      BY <2>1, <3>1
    <3>2. QED  BY <2>1, <2>3, <3>1
  <2>4. LoopFresh'
    <3> SUFFICES ASSUME pc = "loop"
                 PROVE  /\ \A e \in wire : e \notin db' /\ ~ Buffered(e)'
                        /\ \A i \in DOMAIN rx_buf' : rx_buf'[i].id \notin LateOrtu =>
                             /\ rx_buf'[i] \notin db'
                             /\ \A j \in DOMAIN rx_buf' : rx_buf'[j] = rx_buf'[i] => j = i
      BY <2>1
    <3>1. \A e \in wire : e \notin db' /\ ~ Buffered(e)'
      BY <2>1, <2>2 DEF Buffered
    <3>2. ASSUME NEW i \in DOMAIN rx_buf', rx_buf'[i].id \notin LateOrtu
          PROVE  /\ rx_buf'[i] \notin db'
                 /\ \A j \in DOMAIN rx_buf' : rx_buf'[j] = rx_buf'[i] => j = i
      <4>1. i + 1 \in DOMAIN rx_buf /\ rx_buf'[i] = rx_buf[i + 1] /\ i \in Nat /\ i + 1 # 1
        BY <2>2, <1>6 DEF Receive, TypeOK
      <4>2. rx_buf[i + 1] \notin db /\ \A j \in DOMAIN rx_buf : rx_buf[j] = rx_buf[i + 1] => j = i + 1
        BY <3>2, <4>1
      <4>3. rx_buf'[i] \notin db'  BY <2>1, <4>1, <4>2
      <4>4. ASSUME NEW j \in DOMAIN rx_buf', rx_buf'[j] = rx_buf'[i] PROVE j = i
        BY <2>2, <4>1, <4>2, <4>4
      <4>5. QED  BY <4>3, <4>4
    <3>3. QED  BY <3>1, <3>2
  <2>5. LoopExact'
    <3> SUFFICES ASSUME pc = "loop"
                 PROVE  /\ Elements(position)' \subseteq db'
                        /\ \A e \in Exec : e.id \notin LateOrtu => AppliedOnce(e)'
      BY <2>1
    <3>1. Elements(position)' \subseteq db'  BY <2>1
    <3>2. ASSUME NEW e \in Exec, e.id \notin LateOrtu PROVE AppliedOnce(e)'
      BY <2>1, <3>2 DEF AppliedOnce
    <3>3. QED  BY <3>1, <3>2
  <2>6. QED  BY <2>1, <2>4, <2>5, <2>7, <2>8 DEF ReplayInv
<1>7. CASE Disconnected
  BY <1>7 DEF Disconnected, exchangeVars, ReplayInv
<1>8. CASE RestoreLoad
  <2>1. Pending' = load_range /\ position' = << >>
    BY <1>8 DEF RestoreLoad, OneCopyOf, Pending, load_range, TypeOK
  <2>2. QED
    BY <1>8, <2>1 DEF RestoreLoad, OneCopyOf, exchangeVars, load_range, Elements, InOrder, ReplayInv
<1>9. CASE Restored
  BY <1>9 DEF Restored, exchangeVars, load_range, Elements, InOrder, Pending, ReplayInv
<1>10. CASE Resubscribe
  <2>1. \A e \in Exec : AppliedOnce(e)'
    BY <1>10, InOrderOnce DEF Resubscribe, AppliedOnce, TypeOK
  <2>2. /\ wire = {} /\ echo = {} /\ rx_buf = << >>
    BY <1>10 DEF Resubscribe, Shape, Restoring
  <2>3. QED
    BY <1>10, <2>1, <2>2 DEF Resubscribe, load_range, Elements, Pending, historyVars, ReplayInv
<1>11. ASSUME NEW e \in Exec, UpsertHistorical(e) PROVE ReplayInv'
  BY <1>11 DEF UpsertHistorical, exchangeVars, ReplayInv
<1>12. ASSUME NEW e \in Exec, Apply(e) PROVE ReplayInv'
  <2>1. /\ e \in Pending /\ todo[e] > 0
        /\ \A f \in Pending \ {e} : Precedes(e, f)
        /\ position' = Append(position, e)
        /\ todo' = [todo EXCEPT ![e] = @ - 1]
        /\ UNCHANGED <<pc, db, echo, wire, rx_buf>>
        /\ Consuming \/ pc \in {"replay", "drain", "restore_replay"}
    BY <1>12 DEF Apply, First, Pending, exchangeVars
  <2>2. Elements(position)' = Elements(position) \cup {e}
    BY <2>1, AppendElements DEF TypeOK
  <2>3. DuringReplay'
    <3> SUFFICES ASSUME Replaying PROVE DuringReplay'
      BY <2>1
    <3>1. todo[e] = 1 /\ todo'[e] = 0 /\ \A f \in Exec : f # e => todo'[f] = todo[f]
      BY <2>1 DEF TypeOK
    <3>2. Pending' = Pending \ {e}  BY <3>1 DEF Pending
    <3>3. Elements(position)' \cup Pending' = load_range'
      BY <2>1, <2>2, <3>2 DEF load_range
    <3>4. /\ DOMAIN position = 1 .. Len(position) /\ Len(position) \in Nat
          /\ DOMAIN position' = 1 .. Len(position) + 1
          /\ position'[Len(position) + 1] = e
          /\ \A i \in DOMAIN position : position'[i] = position[i]
      BY <2>1 DEF TypeOK
    <3>5. InOrder(position)'
      <4> SUFFICES ASSUME NEW i \in DOMAIN position', NEW j \in DOMAIN position', i < j
                   PROVE  Precedes(position'[i], position'[j])
        BY DEF InOrder
      <4>1. i \in DOMAIN position  BY <3>4
      <4>2. CASE j \in DOMAIN position  BY <3>4, <4>1, <4>2 DEF InOrder
      <4>3. CASE j = Len(position) + 1  BY <2>1, <3>4, <4>1, <4>3
      <4>4. QED  BY <3>4, <4>2, <4>3
    <3>6. \A i \in DOMAIN position' : \A f \in Pending' : Precedes(position'[i], f)
      BY <2>1, <3>2, <3>4
    <3>7. \A f \in Exec : todo'[f] \in {0, 1}  BY <3>1
    <3>8. QED  BY <3>3, <3>5, <3>6, <3>7
  <2>4. OnlineCoversTable'
    <3>1. load_range' = load_range  BY <2>1 DEF load_range
    <3>2. ASSUME NEW f \in load_range \ Elements(position) PROVE ~ Consuming \/ f = e
      BY <2>1
    <3>3. QED  BY <2>1, <2>2, <3>1, <3>2
  <2>5. CASE ~ Consuming
    BY <2>1, <2>3, <2>4, <2>5 DEF ReplayInv
  <2>6. CASE Consuming
    <3>1. e \in db /\ todo[e] = 1 /\ Pending = {e}
      BY <2>1, <2>6
    <3>2. Pending' = {}
      <4>1. todo'[e] = 0 /\ \A f \in Exec : f # e => todo'[f] = todo[f]  BY <2>1, <3>1 DEF TypeOK
      <4>2. QED  BY <3>1, <4>1 DEF Pending
    <3>3. LoopExact'
      <4> SUFFICES ASSUME pc = "loop"
                   PROVE  /\ Elements(position)' \subseteq db'
                          /\ \A f \in Exec : f.id \notin LateOrtu => AppliedOnce(f)'
        BY <2>1
      <4>1. Elements(position)' \subseteq db'  BY <2>1, <2>2, <3>1
      <4>2. ASSUME NEW f \in Exec, f.id \notin LateOrtu PROVE AppliedOnce(f)'
        <5>1. /\ DOMAIN position = 1 .. Len(position) /\ Len(position) \in Nat
              /\ DOMAIN position' = 1 .. Len(position) + 1
              /\ position'[Len(position) + 1] = e
              /\ \A i \in DOMAIN position : position'[i] = position[i]
          BY <2>1 DEF TypeOK
        <5>2. AppliedOnce(f)  BY <4>2
        <5>3. f = e => \A i \in DOMAIN position : position[i] # f
          BY <2>6, <3>1, <4>2 DEF Elements
        <5>4. QED  BY <5>1, <5>2, <5>3 DEF AppliedOnce
      <4>3. QED  BY <4>1, <4>2
    <3>4. LoopFresh' /\ InHand'
      BY <2>1, <2>6, <3>2 DEF Buffered
    <3>5. QED  BY <2>1, <2>4, <2>6, <3>3, <3>4 DEF ReplayInv
  <2>7. QED  BY <2>5, <2>6
<1>13. CASE Connect
  BY <1>13 DEF Connect, taskVars, load_range, Elements, InOrder, Pending, Buffered, AppliedOnce, ReplayInv
<1>14. ASSUME NEW f \in Exec, Deliver(f) PROVE ReplayInv'
  <2>1. /\ UNCHANGED <<pc, db, position, todo>> /\ f \in wire
        /\ wire' = wire \ {f} /\ echo' \subseteq echo \cup {f}
        /\ f.id \notin LateOrtu => echo' = echo
    BY <1>14 DEF Deliver, taskVars
  <2>2. LoopFresh'
    <3>1. \A e \in echo' : e.id \in LateOrtu /\ e \notin wire'  BY <2>1
    <3>2. ASSUME pc = "loop"
          PROVE  /\ \A e \in wire' : e \notin db /\ ~ Buffered(e)'
                 /\ \A i \in DOMAIN rx_buf' : rx_buf'[i].id \notin LateOrtu =>
                      /\ rx_buf'[i] \notin db
                      /\ \A j \in DOMAIN rx_buf' : rx_buf'[j] = rx_buf'[i] => j = i
      <4>1. /\ DOMAIN rx_buf = 1 .. Len(rx_buf) /\ Len(rx_buf) \in Nat
            /\ DOMAIN rx_buf' = 1 .. Len(rx_buf) + 1
            /\ rx_buf'[Len(rx_buf) + 1] = f
            /\ \A i \in DOMAIN rx_buf : rx_buf'[i] = rx_buf[i]
        BY <1>14, <3>2 DEF Deliver, Emit, TypeOK
      <4>2. f \notin db /\ \A i \in DOMAIN rx_buf : rx_buf[i] # f
        BY <2>1, <3>2 DEF Buffered
      <4>3. \A e \in wire' : e \notin db /\ ~ Buffered(e)'
        BY <2>1, <3>2, <4>1 DEF Buffered
      <4>4. QED  BY <3>2, <4>1, <4>2, <4>3
    <3>3. QED  BY <2>1, <3>1, <3>2
  <2>3. QED
    BY <2>1, <2>2 DEF load_range, Elements, InOrder, Pending, AppliedOnce, ReplayInv
<1>15. ASSUME NEW f \in Exec, DeliverAgain(f) PROVE ReplayInv'
  <2>1. /\ UNCHANGED <<pc, db, position, todo, wire>> /\ f \in echo /\ f.id \in LateOrtu /\ f \notin wire
        /\ echo' \subseteq echo /\ f \in trades
    BY <1>15 DEF DeliverAgain, taskVars, Sources
  <2>2. LoopFresh'
    <3>1. \A e \in echo' : e.id \in LateOrtu /\ e \notin wire'  BY <2>1
    <3>2. ASSUME pc = "loop"
          PROVE  /\ \A e \in wire' : e \notin db /\ ~ Buffered(e)'
                 /\ \A i \in DOMAIN rx_buf' : rx_buf'[i].id \notin LateOrtu =>
                      /\ rx_buf'[i] \notin db
                      /\ \A j \in DOMAIN rx_buf' : rx_buf'[j] = rx_buf'[i] => j = i
      <4>1. /\ DOMAIN rx_buf = 1 .. Len(rx_buf) /\ Len(rx_buf) \in Nat
            /\ DOMAIN rx_buf' = 1 .. Len(rx_buf) + 1
            /\ rx_buf'[Len(rx_buf) + 1] = f
            /\ \A i \in DOMAIN rx_buf : rx_buf'[i] = rx_buf[i]
        BY <1>15, <3>2 DEF DeliverAgain, Emit, TypeOK
      <4>3. \A e \in wire' : e \notin db /\ ~ Buffered(e)'
        BY <2>1, <3>2, <4>1 DEF Buffered
      <4>4. QED  BY <2>1, <3>2, <4>1, <4>3
    <3>3. QED  BY <2>1, <3>1, <3>2
  <2>3. QED
    BY <2>1, <2>2 DEF load_range, Elements, InOrder, Pending, AppliedOnce, ReplayInv
<1>16. ASSUME NEW t \in Exec, Trade(t) PROVE ReplayInv'
  <2>1. /\ UNCHANGED <<pc, db, position, todo, echo, rx_buf>>
        /\ wire' \subseteq wire \cup {t} /\ t \notin trades /\ t \notin echo
    BY <1>16 DEF Trade, taskVars, Sources
  <2>2. t \notin db /\ ~ Buffered(t)
    BY <2>1 DEF Sources, Buffered
  <2>3. QED
    BY <2>1, <2>2 DEF load_range, Elements, InOrder, Pending, Buffered, AppliedOnce, ReplayInv
<1>17. CASE StreamLost
  BY <1>17 DEF StreamLost, taskVars, load_range, Elements, InOrder, Pending, AppliedOnce, ReplayInv
<1>18. CASE TaskError  BY <1>18 DEF TaskError, exchangeVars, ReplayInv
<1>19. CASE NewProcess  BY <1>19 DEF NewProcess, ReplayInv
<1>20. CASE UNCHANGED vars
  BY <1>20 DEF vars, load_range, Elements, InOrder, Pending, Buffered, AppliedOnce, ReplayInv
<1>21. QED
  BY <1>1, <1>2, <1>3, <1>4, <1>5, <1>6, <1>7, <1>8, <1>9, <1>10, <1>11, <1>12,
     <1>13, <1>14, <1>15, <1>16, <1>17, <1>18, <1>19, <1>20
  DEF Next, Task, Adapter, ExitAfterRestore, Crash

(***************************************************************************)
(* ReplayInv holds in every reachable state.                               *)
(***************************************************************************)
THEOREM ReplayInvariant == Spec => []ReplayInv
<1>1. Init => ReplayInv
  BY DEF Init, ReplayInv, BeforeReplay, DuringReplay, Replaying, AfterRestore,
         InHand, Consuming, Pending, NoCopies, OnlineCoversTable, LoopFresh, LoopExact
<1>2. QED  BY <1>1, ReplayStep, HoleInvariant, PTL DEF Spec

(***************************************************************************)
(* ReplayExact for every instance: a finished replay is the table, in      *)
(* order and once, because apply_executions takes the earliest pending     *)
(* execution each time and no upsert happens meanwhile.                    *)
(***************************************************************************)
THEOREM ReplayIsExact == Spec => []ReplayExact
<1>1. ReplayInv => ReplayExact
  BY DEF ReplayInv, DuringReplay, Replaying, AfterRestore, ReplayExact, ReplayDone
<1>2. QED  BY <1>1, ReplayInvariant, PTL

(***************************************************************************)
(* OnlineCoversTable for every instance: from the end of the replay on,    *)
(* the one persisted execution that can be missing from the position is    *)
(* the one whose upsert has not returned yet.                              *)
(***************************************************************************)
THEOREM OnlineCovers == Spec => []OnlineCoversTable
<1>1. ReplayInv => OnlineCoversTable
  BY DEF ReplayInv
<1>2. QED  BY <1>1, ReplayInvariant, PTL

(***************************************************************************)
(* LoopExact for every instance: after a restore, the position applies     *)
(* what is persisted, and each execution once unless its                   *)
(* ORDER_TRADE_UPDATE came late.                                           *)
(***************************************************************************)
THEOREM LoopIsExact == Spec => []LoopExact
<1>1. ReplayInv => LoopExact
  BY DEF ReplayInv
<1>2. QED  BY <1>1, ReplayInvariant, PTL
=============================================================================
