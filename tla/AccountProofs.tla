--------------------------- MODULE AccountProofs ---------------------------
(***************************************************************************)
(* Proofs about what an account has traded: the history that is fetched,   *)
(* for every window and page size and whenever trades are made, and the    *)
(* position the trades add up to; and at the end, with all the invariants  *)
(* at hand, about the types of all components that run alone.              *)
(***************************************************************************)
EXTENDS SinkProofs

(***************************************************************************)
(* The trade history. Trades are numbered in the order of their times.     *)
(* What has been fetched are those up to the page about to be asked for,   *)
(* except for some of a millisecond a full page ended in.                  *)
(***************************************************************************)
HistoryTypes ==
  /\ clock \in Nat \ {0} /\ trades \in Seq(Nat) /\ phase \in {"before", "page", "done", "failed"}
  /\ now_ms_all \in Nat /\ window_start_ms \in Nat /\ page_start \in Nat
  /\ fetched \in Seq(Nat) /\ cutAt \subseteq Nat

InOrder ==
  /\ \A i, j \in DOMAIN trades : i <= j => trades[i] <= trades[j]
  /\ \A i \in DOMAIN trades : trades[i] <= clock
  /\ now_ms_all <= clock

Increasing(seq) == \A i, j \in DOMAIN seq : i < j => seq[i] < seq[j]
Members(seq) == {seq[i] : i \in DOMAIN seq}
Sound(seq, from, to) == \A n \in Members(seq) : n \in DOMAIN trades /\ trades[n] \in from .. to
Whole(seq, from, to, excused) ==
  \A n \in DOMAIN trades : trades[n] \in from .. to => n \in Members(seq) \/ trades[n] \in excused
FetchedTo(to) ==
  /\ Increasing(fetched) /\ Sound(fetched, From + 1, to)
  /\ Whole(fetched, From + 1, to, cutAt \cup {now_ms_all})

Window ==
  /\ From + 1 <= page_start /\ window_start_ms <= page_start
  /\ page_start <= History!window_end_ms /\ FetchedTo(page_start - 1)

HistoryInv ==
  /\ HistoryTypes /\ InOrder
  /\ phase = "before" => fetched = << >>
  /\ phase = "page" => Window
  /\ phase = "done" => FetchedTo(now_ms_all)

LEMMA Lesser ==
  ASSUME NEW a \in Int, NEW b \in Int
  PROVE  History!Min({a, b}) = IF a <= b THEN a ELSE b
  BY DEF History!Min

\* A window ends at the time the fetch began at the latest.
LEMMA WindowEnd ==
  ASSUME HistoryInv
  PROVE  /\ History!window_end_ms \in Int /\ History!window_end_ms <= now_ms_all
         /\ window_start_ms <= now_ms_all => window_start_ms <= History!window_end_ms
<1>1. window_start_ms + WINDOW - 1 \in Int /\ now_ms_all \in Int /\ window_start_ms <= window_start_ms + WINDOW - 1
  BY AccountAssumption DEF HistoryInv, HistoryTypes
<1>2. History!window_end_ms =
        IF window_start_ms + WINDOW - 1 <= now_ms_all THEN window_start_ms + WINDOW - 1 ELSE now_ms_all
  BY <1>1, Lesser DEF History!window_end_ms
<1> QED
  BY <1>1, <1>2

\* A set of numbers from 1 on that has no gaps.
LEMMA Initial ==
  ASSUME NEW N \in Nat, NEW S \in SUBSET (1 .. N), \A i \in S : \A j \in 1 .. N : j < i => j \in S
  PROVE  \E k \in 0 .. N : S = 1 .. k
<1> DEFINE T == (1 .. N + 1) \ S
<1>1. T \subseteq Nat /\ N + 1 \in T
  OBVIOUS
<1> HIDE DEF T
<1>2. PICK least \in T : \A y \in T : ~ (<<y, least>> \in OpToRel(<, Nat))
  BY <1>1, NatLessThanWellFounded, WFMin
<1>3. \A y \in T : ~ (y < least)
  BY <1>1, <1>2 DEF OpToRel
<1>4. least \in 1 .. N + 1 /\ least \notin S /\ least - 1 \in 0 .. N
  BY DEF T
<1>5. \A j \in 1 .. least - 1 : j \in S
  BY <1>3, <1>4 DEF T
<1>6. \A j \in S : j \in 1 .. least - 1
  <2> SUFFICES ASSUME NEW j \in S, ~ (j < least) PROVE FALSE
    BY <1>4
  <2>1. least \in 1 .. N /\ (least = j \/ least < j)
    BY <1>4
  <2> QED
    BY <1>4, <2>1
<1>7. S = 1 .. least - 1
  BY <1>5, <1>6
<1> QED
  BY <1>4, <1>7

\* How many trades are earlier tells which are.
LEMMA EarlierTrades ==
  ASSUME HistoryInv, NEW time \in Nat
  PROVE  /\ History!Earlier(time) \in 0 .. Len(trades)
         /\ \A n \in DOMAIN trades : trades[n] < time <=> n <= History!Earlier(time)
<1> DEFINE S == {n \in 1 .. Len(trades) : trades[n] < time}
<1>1. /\ Len(trades) \in Nat /\ DOMAIN trades = 1 .. Len(trades)
      /\ \A n \in DOMAIN trades : trades[n] \in Nat
  BY DEF HistoryInv, HistoryTypes
<1>2. \A i \in S : \A j \in 1 .. Len(trades) : j < i => j \in S
  <2> SUFFICES ASSUME NEW i \in S, NEW j \in 1 .. Len(trades), j < i PROVE trades[j] < time
    OBVIOUS
  <2>1. trades[j] <= trades[i] /\ trades[i] < time
    BY <1>1 DEF HistoryInv, InOrder
  <2> QED
    BY <1>1, <2>1
<1>3. S \in SUBSET (1 .. Len(trades))
  OBVIOUS
<1> HIDE DEF S
<1>4. PICK k \in 0 .. Len(trades) : S = 1 .. k
  BY <1>1, <1>2, <1>3, Initial
<1>5. History!Cardinality(S) = Cardinality(S)
  BY DEF History!Cardinality, Cardinality
<1>6. Cardinality(1 .. k) = k
  BY <1>1, <1>4, FS_Interval
<1>7. History!Earlier(time) = k
  BY <1>4, <1>5, <1>6 DEF History!Earlier, S
<1>8. \A n \in DOMAIN trades : trades[n] < time <=> n \in S
  BY <1>1 DEF S
<1> QED
  BY <1>1, <1>4, <1>7, <1>8

\* Initially nothing is fetched.
LEMMA HistoryInit == Init => HistoryInv
  BY DEF Init, History!Init, HistoryInv, HistoryTypes, InOrder

\* What a page holds: the next trades in order, and if it is not full, all.
LEMMA PageHolds ==
  ASSUME HistoryInv, Window, NEW page, page = History!userTrades(page_start, History!window_end_ms)
  PROVE  /\ page \in Seq(Nat) /\ Increasing(page) /\ Len(page) <= LIMIT
         /\ Sound(page, page_start, History!window_end_ms)
         /\ \A n \in Members(page) : \A j \in DOMAIN trades :
              j < n /\ trades[j] >= page_start => j \in Members(page)
         /\ Len(page) < LIMIT => Whole(page, page_start, History!window_end_ms, {})
<1> DEFINE e == History!window_end_ms
           s == History!Earlier(page_start)
           k == History!Earlier(e + 1)
           m == History!Min({LIMIT, k - s})
<1>1. e \in Nat /\ e + 1 \in Nat /\ page_start \in Nat /\ page_start <= e /\ LIMIT \in Nat
  BY WindowEnd, AccountAssumption DEF Window, HistoryInv, HistoryTypes
<1>2. /\ Len(trades) \in Nat /\ DOMAIN trades = 1 .. Len(trades)
      /\ \A n \in DOMAIN trades : trades[n] \in Nat
  BY DEF HistoryInv, HistoryTypes
<1> HIDE DEF e
<1>3. s \in 0 .. Len(trades) /\ \A n \in DOMAIN trades : trades[n] < page_start <=> n <= s
  BY <1>1, EarlierTrades
<1>4. k \in 0 .. Len(trades) /\ \A n \in DOMAIN trades : trades[n] < e + 1 <=> n <= k
  BY <1>1, EarlierTrades
<1> HIDE DEF s, k
<1>5. s <= k
  <2>1. CASE s = 0
    BY <1>4, <2>1
  <2>2. CASE s # 0
    <3>1. s \in DOMAIN trades /\ trades[s] < page_start
      BY <1>2, <1>3, <2>2
    <3>2. trades[s] < e + 1
      BY <1>1, <1>2, <3>1
    <3> QED
      BY <1>4, <3>1, <3>2
  <2> QED
    BY <2>1, <2>2
<1>6. k - s \in Int /\ m = IF LIMIT <= k - s THEN LIMIT ELSE k - s
  <2>1. k - s \in Int /\ LIMIT \in Int
    BY <1>1, <1>3, <1>4
  <2> QED
    BY <2>1, Lesser
<1>7. page = [i \in 1 .. m |-> s + i]
  BY DEF History!userTrades, s, k, e
<1> HIDE DEF m
<1>8. m \in Nat /\ s + m <= k /\ m <= LIMIT /\ (m < LIMIT => s + m = k)
  BY <1>1, <1>3, <1>4, <1>5, <1>6
<1>9. /\ page \in Seq(Nat) /\ Len(page) = m /\ DOMAIN page = 1 .. m
      /\ \A i \in 1 .. m : page[i] = s + i
  BY <1>3, <1>7, <1>8
<1>10. \A n \in Nat : n \in Members(page) <=> s < n /\ n <= s + m
  <2>1. \A n \in Nat : s < n /\ n <= s + m => n - s \in 1 .. m /\ s + (n - s) = n
    BY <1>3, <1>8
  <2>2. \A i \in 1 .. m : s < s + i /\ s + i <= s + m
    BY <1>3, <1>8
  <2> QED
    BY <1>9, <2>1, <2>2 DEF Members
<1>11. \A n \in Members(page) : n \in Nat
  BY <1>3, <1>9 DEF Members
<1>12. Increasing(page)
  BY <1>3, <1>8, <1>9 DEF Increasing
<1>13. Sound(page, page_start, e)
  <2> SUFFICES ASSUME NEW n \in Members(page)
               PROVE  n \in DOMAIN trades /\ trades[n] \in page_start .. e
    BY DEF Sound
  <2>1. n \in Nat /\ s < n /\ n <= k
    BY <1>3, <1>4, <1>8, <1>10, <1>11
  <2>2. n \in DOMAIN trades
    BY <1>2, <1>3, <1>4, <2>1
  <2>3. ~ (trades[n] < page_start) /\ trades[n] < e + 1
    BY <1>3, <1>4, <2>1, <2>2
  <2> QED
    BY <1>1, <1>2, <2>2, <2>3
<1>14. ASSUME NEW n \in Members(page), NEW j \in DOMAIN trades, j < n, trades[j] >= page_start
       PROVE  j \in Members(page)
  <2>1. j \in Nat /\ n \in Nat /\ n <= s + m
    BY <1>2, <1>10, <1>11
  <2>2. ~ (trades[j] < page_start)
    BY <1>1, <1>2, <1>14
  <2>3. s < j
    BY <1>2, <1>3, <2>1, <2>2
  <2> QED
    BY <1>3, <1>8, <1>10, <1>14, <2>1, <2>3
<1>15. ASSUME m < LIMIT PROVE Whole(page, page_start, e, {})
  <2> SUFFICES ASSUME NEW n \in DOMAIN trades, trades[n] \in page_start .. e PROVE n \in Members(page)
    BY DEF Whole
  <2>1. n \in Nat /\ ~ (trades[n] < page_start) /\ trades[n] < e + 1
    BY <1>1, <1>2
  <2>2. s < n /\ n <= k
    BY <1>2, <1>3, <1>4, <2>1
  <2> QED
    BY <1>8, <1>10, <1>15, <2>1, <2>2
<1> QED
  BY <1>8, <1>9, <1>12, <1>13, <1>14, <1>15 DEF e
\* A page is added to what was fetched before it.
LEMMA PageAdded ==
  ASSUME HistoryInv, Window, NEW page \in Seq(Nat), NEW last \in Nat, NEW excused \in SUBSET Nat,
         Increasing(page), Sound(page, page_start, last), page_start <= last + 1,
         Whole(page, page_start, last, excused), fetched' = fetched \o page,
         cutAt \cup excused \subseteq cutAt', UNCHANGED <<trades, now_ms_all>>
  PROVE  FetchedTo(last)'
<1> DEFINE all == fetched \o page
<1>1. /\ fetched \in Seq(Nat) /\ page_start \in Nat /\ From + 1 \in Nat /\ From + 1 <= page_start
      /\ Len(trades) \in Nat /\ DOMAIN trades = 1 .. Len(trades)
      /\ \A n \in DOMAIN trades : trades[n] \in Nat
  BY AccountAssumption DEF HistoryInv, HistoryTypes, Window
<1>2. /\ Increasing(fetched) /\ Sound(fetched, From + 1, page_start - 1)
      /\ Whole(fetched, From + 1, page_start - 1, cutAt \cup {now_ms_all})
  BY DEF Window, FetchedTo
<1>3. /\ all \in Seq(Nat) /\ Len(fetched) \in Nat /\ Len(page) \in Nat /\ Len(all) = Len(fetched) + Len(page)
      /\ DOMAIN fetched = 1 .. Len(fetched) /\ DOMAIN page = 1 .. Len(page) /\ DOMAIN all = 1 .. Len(all)
      /\ \A i \in 1 .. Len(fetched) : all[i] = fetched[i]
      /\ \A i \in 1 .. Len(page) : all[i + Len(fetched)] = page[i]
  BY <1>1, ConcatProperties
<1>4. fetched' = all
  OBVIOUS
<1> HIDE DEF all
<1>5. \A i \in DOMAIN all :
        \/ i \in DOMAIN fetched /\ all[i] = fetched[i]
        \/ i \notin DOMAIN fetched /\ i - Len(fetched) \in DOMAIN page /\ all[i] = page[i - Len(fetched)]
  <2> SUFFICES ASSUME NEW i \in DOMAIN all, i \notin 1 .. Len(fetched)
               PROVE  i - Len(fetched) \in 1 .. Len(page) /\ all[i] = page[i - Len(fetched)]
    BY <1>3
  <2>1. i - Len(fetched) \in 1 .. Len(page) /\ (i - Len(fetched)) + Len(fetched) = i
    BY <1>3
  <2> QED
    BY <1>3, <2>1
<1>6. \A n : n \in Members(all) <=> n \in Members(fetched) \/ n \in Members(page)
  <2>1. \A n : n \in Members(all) => n \in Members(fetched) \/ n \in Members(page)
    BY <1>5 DEF Members
  <2>2. \A i \in DOMAIN fetched : i \in DOMAIN all /\ all[i] = fetched[i]
    BY <1>3
  <2>3. \A i \in DOMAIN page : i + Len(fetched) \in DOMAIN all /\ all[i + Len(fetched)] = page[i]
    BY <1>3, SMTT(30)
  <2>4. \A n : n \in Members(page) => n \in Members(all)
    BY <2>3 DEF Members
  <2>5. \A n : n \in Members(fetched) => n \in Members(all)
    BY <2>2 DEF Members
  <2> QED
    BY <2>1, <2>4, <2>5
<1>7. ASSUME NEW a \in Members(fetched), NEW b \in Members(page) PROVE a < b
  <2>1. /\ a \in DOMAIN trades /\ b \in DOMAIN trades
        /\ trades[a] \in From + 1 .. page_start - 1 /\ trades[b] \in page_start .. last
    BY <1>2 DEF Sound
  <2>2. trades[a] < trades[b] /\ trades[a] \in Nat /\ trades[b] \in Nat
    BY <1>1, <2>1
  <2>3. b <= a => trades[b] <= trades[a]
    BY <2>1 DEF HistoryInv, InOrder
  <2> QED
    BY <1>1, <2>1, <2>2, <2>3
<1>8. Increasing(all)
  <2> SUFFICES ASSUME NEW i \in DOMAIN all, NEW j \in DOMAIN all, i < j PROVE all[i] < all[j]
    BY DEF Increasing
  <2>1. CASE i \in DOMAIN fetched /\ j \in DOMAIN fetched
    BY <1>2, <1>3, <2>1 DEF Increasing
  <2>2. CASE i \in DOMAIN fetched /\ j \notin DOMAIN fetched
    <3>1. all[i] \in Members(fetched)
      BY <1>3, <2>2 DEF Members
    <3>2. all[j] \in Members(page)
      BY <1>5, <2>2 DEF Members
    <3> QED
      BY <1>7, <3>1, <3>2
  <2>3. CASE i \notin DOMAIN fetched
    <3>1. i - Len(fetched) \in DOMAIN page /\ all[i] = page[i - Len(fetched)]
      BY <1>5, <2>3
    <3>2. j \notin DOMAIN fetched
      BY <1>3, <2>3
    <3>3. j - Len(fetched) \in DOMAIN page /\ all[j] = page[j - Len(fetched)]
      BY <1>5, <3>2
    <3>4. i - Len(fetched) < j - Len(fetched)
      BY <1>3
    <3> QED
      BY <3>1, <3>3, <3>4 DEF Increasing
  <2> QED
    BY <2>1, <2>2, <2>3
<1>9. Sound(all, From + 1, last)
  <2> SUFFICES ASSUME NEW n \in Members(all) PROVE n \in DOMAIN trades /\ trades[n] \in From + 1 .. last
    BY DEF Sound
  <2>1. CASE n \in Members(fetched)
    <3>1. n \in DOMAIN trades /\ trades[n] \in From + 1 .. page_start - 1
      BY <1>2, <2>1 DEF Sound
    <3> QED
      BY <1>1, <3>1
  <2>2. CASE n \in Members(page)
    <3>1. n \in DOMAIN trades /\ trades[n] \in page_start .. last
      BY <2>2 DEF Sound
    <3> QED
      BY <1>1, <3>1
  <2> QED
    BY <1>6, <2>1, <2>2
<1>10. Whole(all, From + 1, last, cutAt' \cup {now_ms_all})
  <2> SUFFICES ASSUME NEW n \in DOMAIN trades, trades[n] \in From + 1 .. last
               PROVE  n \in Members(all) \/ trades[n] \in cutAt' \cup {now_ms_all}
    BY DEF Whole
  <2>1. CASE trades[n] \in From + 1 .. page_start - 1
    BY <1>2, <1>6, <2>1 DEF Whole
  <2>2. CASE trades[n] \in page_start .. last
    BY <1>6, <2>2 DEF Whole
  <2> QED
    BY <1>1, <2>1, <2>2
<1> QED
  BY <1>4, <1>8, <1>9, <1>10 DEF FetchedTo, Sound, Whole

\* A page is fetched. If it is full, it ends in a millisecond of which there may
\* be more trades; if not, it goes to the end of its window.
LEMMA FetchStep == ASSUME HistoryInv, History!FetchPage PROVE HistoryInv'
<1> USE DEF HistoryInv
<1>1. PICK page : page = History!userTrades(page_start, History!window_end_ms)
  OBVIOUS
<1> DEFINE full == Len(page) = LIMIT
<1>2. PICK e : e = History!window_end_ms
  OBVIOUS
<1>3. PICK l : l = History!Last(page)
  OBVIOUS
<1>4. PICK stop : stop = trades[l]
  OBVIOUS
<1>5. /\ phase = "page" /\ fetched' = fetched \o page /\ UNCHANGED <<clock, trades, now_ms_all>>
      /\ cutAt' = IF full THEN cutAt \cup {stop} ELSE cutAt
      /\ IF full /\ stop + 1 <= e
         THEN page_start' = stop + 1 /\ UNCHANGED <<window_start_ms, phase>>
         ELSE /\ window_start_ms' = e + 1 /\ page_start' = e + 1
              /\ phase' = IF e < now_ms_all THEN "page" ELSE "done"
  BY <1>1, <1>2, <1>3, <1>4 DEF History!FetchPage, History!Continues, History!NextPage
<1>6. /\ Window /\ now_ms_all \in Nat /\ page_start \in Nat /\ window_start_ms \in Nat
      /\ From + 1 \in Nat /\ From + 1 <= page_start /\ window_start_ms <= page_start
  BY <1>5, AccountAssumption DEF HistoryTypes, Window
<1>7. e \in Nat /\ e <= now_ms_all /\ page_start <= e
  BY <1>6, <1>2, WindowEnd DEF Window
<1>8. /\ page \in Seq(Nat) /\ Increasing(page) /\ Len(page) <= LIMIT /\ Len(page) \in Nat /\ LIMIT \in Nat \ {0}
      /\ Sound(page, page_start, e)
      /\ \A n \in Members(page) : \A j \in DOMAIN trades :
           j < n /\ trades[j] >= page_start => j \in Members(page)
      /\ Len(page) < LIMIT => Whole(page, page_start, e, {})
  BY <1>1, <1>6, <1>2, PageHolds, AccountAssumption
<1>9. /\ Len(trades) \in Nat /\ DOMAIN trades = 1 .. Len(trades) /\ \A n \in DOMAIN trades : trades[n] \in Nat
      /\ trades \in Seq(Nat) /\ fetched \in Seq(Nat) /\ fetched' \in Seq(Nat)
      /\ \A i, j \in DOMAIN trades : i <= j => trades[i] <= trades[j]
  BY <1>5, <1>8, ConcatProperties DEF HistoryTypes, InOrder
<1>10. InOrder'
  BY <1>5 DEF InOrder
<1>11. ASSUME window_start_ms' = e + 1, page_start' = e + 1,
              phase' = IF e < now_ms_all THEN "page" ELSE "done",
              FetchedTo(e)', cutAt' \subseteq Nat
       PROVE  HistoryInv'
  <2>1. HistoryTypes'
    BY <1>5, <1>7, <1>9, <1>11 DEF HistoryTypes
  <2>2. CASE e < now_ms_all
    <3>1. window_start_ms' <= now_ms_all'
      BY <1>5, <1>6, <1>7, <1>11, <2>2
    <3>2. History!window_end_ms' >= window_start_ms'
      <4>1. /\ window_start_ms' + WINDOW - 1 \in Int /\ now_ms_all' \in Int
            /\ window_start_ms' <= window_start_ms' + WINDOW - 1
        <5>1. window_start_ms' \in Nat /\ now_ms_all' \in Nat
          BY <2>1 DEF HistoryTypes
        <5>2. \A w \in Nat : w + WINDOW - 1 \in Int /\ w <= w + WINDOW - 1
          BY AccountAssumption
        <5> QED
          BY <5>1, <5>2
      <4>2. History!window_end_ms' = IF window_start_ms' + WINDOW - 1 <= now_ms_all'
                                     THEN window_start_ms' + WINDOW - 1 ELSE now_ms_all'
        BY <4>1, Lesser DEF History!window_end_ms
      <4> QED
        BY <3>1, <4>1, <4>2
    <3>3. page_start' - 1 = e /\ From + 1 <= page_start' /\ window_start_ms' <= page_start'
      BY <1>6, <1>7, <1>11
    <3>4. Window'
      BY <1>7, <1>11, <3>2, <3>3 DEF Window
    <3> QED
      BY <1>10, <1>11, <2>1, <2>2, <3>4
  <2>3. CASE ~ (e < now_ms_all)
    <3>1. e = now_ms_all /\ now_ms_all' = now_ms_all
      BY <1>5, <1>6, <1>7, <2>3
    <3>2. FetchedTo(now_ms_all)'
      BY <1>11, <3>1 DEF FetchedTo
    <3> QED
      BY <1>10, <1>11, <2>1, <2>3, <3>2
  <2> QED
    BY <2>2, <2>3
<1>12. CASE full
  <2>1. /\ Len(page) \in DOMAIN page /\ l = page[Len(page)]
        /\ \A i \in DOMAIN page : i = Len(page) \/ i < Len(page)
    BY <1>8, <1>12, <1>3 DEF History!Last
  <2>2. l \in Members(page) /\ \A n \in Members(page) : n = l \/ n < l
    BY <1>8, <2>1 DEF Members, Increasing
  <2>3. l \in DOMAIN trades /\ stop \in page_start .. e
    BY <1>8, <1>4, <2>2 DEF Sound
  <2>4. stop \in Nat /\ page_start <= stop /\ stop <= e
    BY <1>6, <1>7, <2>3
  <2>5. Sound(page, page_start, stop)
    <3> SUFFICES ASSUME NEW n \in Members(page)
                 PROVE  n \in DOMAIN trades /\ trades[n] \in page_start .. stop
      BY DEF Sound
    <3>1. n \in DOMAIN trades /\ trades[n] \in page_start .. e
      BY <1>8 DEF Sound
    <3>2. n <= l
      <4>1. n = l \/ n < l
        BY <2>2
      <4>2. n \in Nat /\ l \in Nat
        BY <1>9, <2>3, <3>1
      <4> QED
        BY <4>1, <4>2
    <3>3. trades[n] <= stop
      BY <1>9, <1>4, <2>3, <3>1, <3>2
    <3> QED
      BY <1>6, <1>7, <2>4, <3>1, <3>3
  <2>6. Whole(page, page_start, stop, {stop})
    <3> SUFFICES ASSUME NEW n \in DOMAIN trades, trades[n] \in page_start .. stop, trades[n] # stop
                 PROVE  n \in Members(page)
      BY DEF Whole
    <3>1. trades[n] < stop /\ trades[n] >= page_start
      BY <1>6, <2>4
    <3>2. l <= n => stop <= trades[n]
      BY <1>9, <1>4, <2>3
    <3>3. n < l
      BY <1>9, <2>3, <2>4, <3>1, <3>2
    <3> QED
      BY <1>8, <2>2, <3>1, <3>3
  <2>7. cutAt' = cutAt \cup {stop} /\ cutAt' \subseteq Nat
    BY <1>5, <1>12, <2>4 DEF HistoryTypes
  <2>8. FetchedTo(stop)'
    <3>1. {stop} \in SUBSET Nat /\ page_start <= stop + 1
      BY <1>6, <2>4
    <3> QED
      BY <1>5, <1>6, <1>8, <2>4, <2>5, <2>6, <2>7, <3>1, PageAdded
  <2>9. CASE stop + 1 <= e
    <3>1. page_start' = stop + 1 /\ UNCHANGED <<window_start_ms, phase>>
      BY <1>5, <1>12, <2>9
    <3>2. History!window_end_ms' = e
      BY <1>5, <1>2, <3>1 DEF History!window_end_ms
    <3>3. page_start' - 1 = stop /\ page_start' \in Nat /\ From + 1 <= page_start' /\ window_start_ms' <= page_start'
      BY <1>6, <2>4, <3>1
    <3>4. Window'
      BY <2>8, <2>9, <3>1, <3>2, <3>3 DEF Window
    <3>5. HistoryTypes'
      BY <1>5, <1>9, <2>7, <3>1, <3>3 DEF HistoryTypes
    <3> QED
      BY <1>5, <1>10, <3>1, <3>4, <3>5
  <2>10. CASE ~ (stop + 1 <= e)
    <3>1. stop = e
      BY <1>7, <2>4, <2>10
    <3> QED
      BY <1>5, <1>11, <2>7, <2>8, <2>10, <3>1
  <2> QED
    BY <2>9, <2>10
<1>13. CASE ~ full
  <2>1. Whole(page, page_start, e, {})
    BY <1>8, <1>13
  <2>2. cutAt' = cutAt /\ cutAt \subseteq Nat
    BY <1>5, <1>13 DEF HistoryTypes
  <2>3. FetchedTo(e)'
    <3>1. {} \in SUBSET Nat /\ page_start <= e + 1
      BY <1>6, <1>7
    <3> QED
      BY <1>5, <1>6, <1>7, <1>8, <2>1, <2>2, <3>1, PageAdded
  <2> QED
    BY <1>5, <1>13, <1>11, <2>2, <2>3
<1> QED
  BY <1>12, <1>13
\* Time goes on and trades are made meanwhile, none of them in what a fetch is
\* already done with, unless in the very millisecond it began.
LEMMA MeanwhileStep ==
  ASSUME HistoryInv, History!Tick \/ History!Trade
  PROVE  HistoryInv'
<1> USE DEF HistoryInv
<1>1. /\ UNCHANGED <<phase, now_ms_all, window_start_ms, page_start, fetched, cutAt>>
      /\ \/ clock' = clock + 1 /\ trades' = trades
         \/ clock' = clock /\ trades' = Append(trades, clock)
  BY DEF History!Tick, History!Trade, History!fetchVars
<1>2. /\ trades \in Seq(Nat) /\ Len(trades) \in Nat /\ DOMAIN trades = 1 .. Len(trades) /\ clock \in Nat \ {0}
      /\ \A n \in DOMAIN trades : trades[n] \in Nat
  BY DEF HistoryTypes
<1>3. /\ trades' \in Seq(Nat) /\ DOMAIN trades \subseteq DOMAIN trades'
      /\ \A n \in DOMAIN trades : trades'[n] = trades[n]
      /\ \A n \in DOMAIN trades' \ DOMAIN trades : trades'[n] = clock /\ \A j \in DOMAIN trades' : n <= j => n = j
  <2>1. CASE trades' = trades
    BY <1>2, <2>1
  <2>2. CASE trades' = Append(trades, clock)
    <3> DEFINE t == Append(trades, clock)
    <3>1. /\ t \in Seq(Nat) /\ DOMAIN t = 1 .. Len(trades) + 1 /\ t[Len(trades) + 1] = clock
          /\ \A n \in 1 .. Len(trades) : t[n] = trades[n]
      BY <1>2
    <3>2. trades' = t
      BY <2>2
    <3> HIDE DEF t
    <3>3. \A n \in DOMAIN t \ DOMAIN trades : n = Len(trades) + 1
      BY <1>2, <3>1
    <3> QED
      BY <1>2, <3>1, <3>2, <3>3
  <2> QED
    BY <1>1, <2>1, <2>2
<1>4. HistoryTypes'
  BY <1>1, <1>2, <1>3 DEF HistoryTypes
<1>5. InOrder'
  <2>1. \A n \in DOMAIN trades : trades[n] <= clock
    BY DEF InOrder
  <2>2. clock' \in Nat /\ clock <= clock' /\ now_ms_all <= clock' /\ now_ms_all \in Nat
    BY <1>1, <1>2 DEF InOrder, HistoryTypes
  <2>3. ASSUME NEW n \in DOMAIN trades' PROVE trades'[n] <= clock'
    BY <1>2, <1>3, <2>1, <2>2
  <2>4. ASSUME NEW i \in DOMAIN trades', NEW j \in DOMAIN trades', i <= j PROVE trades'[i] <= trades'[j]
    <3>1. CASE i \in DOMAIN trades /\ j \in DOMAIN trades
      BY <1>3, <2>4, <3>1 DEF InOrder
    <3>2. CASE i \in DOMAIN trades /\ j \notin DOMAIN trades
      BY <1>2, <1>3, <2>1, <3>2
    <3>3. CASE i \notin DOMAIN trades
      BY <1>2, <1>3, <2>4, <3>3
    <3> QED
      BY <3>1, <3>2, <3>3
  <2> QED
    BY <1>1, <2>2, <2>3, <2>4 DEF InOrder
<1>6. ASSUME NEW to \in Int, FetchedTo(to), to <= clock, to = clock => to = now_ms_all
      PROVE  FetchedTo(to)'
  <2>1. Increasing(fetched) /\ Sound(fetched, From + 1, to)
        /\ Whole(fetched, From + 1, to, cutAt \cup {now_ms_all})
    BY <1>6 DEF FetchedTo
  <2>2. \A n \in Members(fetched) : n \in DOMAIN trades' /\ trades'[n] \in From + 1 .. to
    BY <1>3, <2>1 DEF Sound
  <2>3. ASSUME NEW n \in DOMAIN trades', trades'[n] \in From + 1 .. to
        PROVE  n \in Members(fetched) \/ trades'[n] \in cutAt \cup {now_ms_all}
    <3>1. CASE n \in DOMAIN trades
      BY <1>3, <2>1, <2>3, <3>1 DEF Whole
    <3>2. CASE n \notin DOMAIN trades
      <4>1. trades'[n] = clock
        BY <1>3, <3>2
      <4>2. clock <= to
        BY <2>3, <4>1
      <4>3. to = clock
        BY <1>2, <1>6, <4>2
      <4> QED
        BY <1>6, <4>1, <4>3
    <3> QED
      BY <3>1, <3>2
  <2> QED
    BY <1>1, <2>1, <2>2, <2>3 DEF FetchedTo, Sound, Whole
<1>7. ASSUME phase' = "page" PROVE Window'
  <2>1. Window /\ page_start \in Nat /\ now_ms_all \in Nat
    BY <1>1, <1>7 DEF HistoryTypes
  <2>2. page_start <= now_ms_all /\ now_ms_all <= clock
    BY <2>1, WindowEnd DEF Window, InOrder
  <2>3. page_start - 1 \in Int /\ page_start - 1 < clock
    BY <1>2, <2>1, <2>2
  <2>4. PICK to \in Int : to = page_start - 1
    BY <2>3
  <2>5. FetchedTo(to)'
    <3>1. FetchedTo(to)
      BY <2>1, <2>4 DEF Window
    <3>2. to <= clock /\ to # clock
      BY <1>2, <2>3, <2>4
    <3> QED
      BY <1>6, <3>1, <3>2
  <2>6. FetchedTo(page_start - 1)'
    BY <1>1, <2>4, <2>5 DEF FetchedTo
  <2>7. History!window_end_ms' = History!window_end_ms
    BY <1>1 DEF History!window_end_ms
  <2> QED
    BY <1>1, <2>1, <2>6, <2>7 DEF Window
<1>8. ASSUME phase' = "done" PROVE FetchedTo(now_ms_all)'
  BY <1>1, <1>6, <1>8 DEF HistoryTypes, InOrder
<1> QED
  BY <1>1, <1>4, <1>5, <1>7, <1>8

\* A fetch begins, and fails.
LEMMA BeginStep ==
  ASSUME HistoryInv, History!Begin \/ History!FetchFails
  PROVE  HistoryInv'
<1> USE DEF HistoryInv
<1>1. CASE History!Begin
  <2>1. /\ fetched = << >> /\ now_ms_all' = clock /\ window_start_ms' = From + 1 /\ page_start' = From + 1
        /\ phase' = IF From + 1 <= clock THEN "page" ELSE "done"
        /\ UNCHANGED <<clock, trades, fetched, cutAt>>
    BY <1>1 DEF History!Begin
  <2>2. From + 1 \in Nat /\ clock \in Nat
    BY AccountAssumption DEF HistoryTypes
  <2>3. HistoryTypes' /\ InOrder'
    BY <2>1, <2>2 DEF HistoryTypes, InOrder
  <2>4. \A to \in Int : to < From + 1 => FetchedTo(to)'
    <3> SUFFICES ASSUME NEW to \in Int, to < From + 1 PROVE FetchedTo(to)'
      OBVIOUS
    <3>1. \A x \in From + 1 .. to : FALSE
      BY <2>2
    <3>2. fetched' = << >> /\ Members(<< >>) = {} /\ Increasing(<< >>)
      BY <2>1 DEF Members, Increasing
    <3> QED
      BY <3>1, <3>2 DEF FetchedTo, Sound, Whole
  <2>5. CASE From + 1 <= clock
    <3>1. History!window_end_ms' >= From + 1
      <4>1. From + 1 + WINDOW - 1 \in Int /\ clock \in Int /\ From + 1 <= From + 1 + WINDOW - 1
        BY <2>2, AccountAssumption
      <4>2. History!window_end_ms' =
              IF From + 1 + WINDOW - 1 <= clock THEN From + 1 + WINDOW - 1 ELSE clock
        BY <2>1, <4>1, Lesser DEF History!window_end_ms
      <4> QED
        BY <2>2, <2>5, <4>1, <4>2
    <3>2. FetchedTo(From)' /\ page_start' - 1 = From
      BY <2>1, <2>2, <2>4, AccountAssumption
    <3>3. Window'
      BY <2>1, <2>2, <3>1, <3>2 DEF Window
    <3> QED
      BY <2>1, <2>3, <2>5, <3>3
  <2>6. CASE ~ (From + 1 <= clock)
    <3>1. clock < From + 1
      BY <2>2, <2>6
    <3>2. PICK to \in Int : to = clock
      BY <2>2
    <3>3. FetchedTo(to)'
      BY <2>4, <3>1, <3>2
    <3>4. FetchedTo(now_ms_all)'
      BY <2>1, <3>2, <3>3 DEF FetchedTo
    <3> QED
      BY <2>1, <2>3, <2>6, <3>4
  <2> QED
    BY <2>5, <2>6
<1>2. CASE History!FetchFails
  <2>1. phase' = "failed" /\ fetched' = << >>
        /\ UNCHANGED <<clock, trades, now_ms_all, window_start_ms, page_start, cutAt>>
    BY <1>2 DEF History!FetchFails
  <2> QED
    BY <2>1 DEF HistoryTypes, InOrder
<1> QED
  BY <1>1, <1>2

\* Every step keeps it.
LEMMA HistoryStep == HistoryInv /\ [Next]_vars => HistoryInv'
<1> SUFFICES ASSUME HistoryInv, [Next]_vars PROVE HistoryInv'
  OBVIOUS
<1>1. CASE UNCHANGED historyVars
  <2>1. UNCHANGED <<clock, trades, phase, now_ms_all, window_start_ms, page_start, fetched, cutAt>>
    BY <1>1 DEF historyVars
  <2> QED
    BY <2>1 DEF HistoryInv, HistoryTypes, InOrder, Window, FetchedTo, Sound, Whole, History!window_end_ms
<1>2. CASE RunHistory
  BY <1>2, MeanwhileStep, BeginStep, FetchStep DEF RunHistory, History!Next
<1> QED
  BY <1>1, <1>2 DEF Next, vars, accountVars, Only, RunParquet, RunQuestDb, RunApi, RunStream,
    RunBreaker, RunPosition

\* A fetch returns the trades after its start once each and in order, and
\* misses only trades of a millisecond a full page ended in or of the one in
\* which it began, for any window, any page size and whenever trades are made
\* (binance_account.rs, fetch_historical).
THEOREM HistoryIsComplete == Spec => []HistoryComplete
<1>1. ASSUME HistoryInv PROVE HistoryComplete
  <2> SUFFICES ASSUME phase = "done"
               PROVE  /\ \A i, j \in DOMAIN fetched : i < j => fetched[i] < fetched[j]
                      /\ \A n \in DOMAIN trades :
                           /\ n \in History!Range(fetched) => trades[n] \in From + 1 .. now_ms_all
                           /\ trades[n] \in From + 1 .. now_ms_all =>
                                n \in History!Range(fetched) \/ trades[n] \in cutAt \cup {now_ms_all}
    BY DEF HistoryComplete, History!HistoryComplete
  <2>1. History!Range(fetched) = Members(fetched)
    BY DEF History!Range, Members
  <2>2. FetchedTo(now_ms_all)
    BY <1>1 DEF HistoryInv
  <2> QED
    BY <2>1, <2>2 DEF FetchedTo, Increasing, Sound, Whole
<1>2. HistoryInv => HistoryComplete
  BY <1>1
<1> QED
  BY HistoryInit, HistoryStep, <1>2, PTL DEF Spec

(***************************************************************************)
(* The arithmetic of a position. With an average price an / ad, a profit   *)
(* rn / rd and q units held, what has been paid is q * an / ad - rn / rd.  *)
(* The invariant says that this is the total of the trades, multiplied out *)
(* so that nothing is divided, together with the totals themselves as      *)
(* functions of the number of trades.                                      *)
(***************************************************************************)
\* G[i] is the total of the first i of the n terms.
Totals(G, terms, n) ==
  /\ G \in [0 .. n -> Int] /\ G[0] = 0
  /\ \A i \in 1 .. n : G[i] = G[i - 1] + terms[i]
SumIs(total, terms, n) == \E G : Totals(G, terms, n) /\ G[n] = total

\* One more term is added.
LEMMA OneMoreTerm ==
  ASSUME NEW n \in Nat, NEW total \in Int, NEW terms, NEW more, NEW term \in Int,
         SumIs(total, terms, n), \A i \in 1 .. n : more[i] = terms[i], more[n + 1] = term
  PROVE  SumIs(total + term, more, n + 1)
<1>1. PICK G : Totals(G, terms, n) /\ G[n] = total
  BY DEF SumIs
<1> DEFINE H == [i \in 0 .. n + 1 |-> IF i = n + 1 THEN total + term ELSE G[i]]
<1>2. \A i \in 0 .. n : i # n + 1 /\ G[i] \in Int
  BY <1>1 DEF Totals
<1>3. H \in [0 .. n + 1 -> Int] /\ H[n + 1] = total + term /\ \A i \in 0 .. n : H[i] = G[i]
  BY <1>2
<1> HIDE DEF H
<1>4. ASSUME NEW i \in 1 .. n + 1 PROVE H[i] = H[i - 1] + more[i]
  <2>1. CASE i = n + 1
    <3>1. i - 1 = n /\ n \in 0 .. n
      BY <2>1
    <3> QED
      BY <1>1, <1>3, <2>1, <3>1
  <2>2. CASE i # n + 1
    <3>1. i \in 1 .. n /\ i \in 0 .. n /\ i - 1 \in 0 .. n
      BY <2>2
    <3> QED
      BY <1>1, <1>3, <3>1 DEF Totals
  <2> QED
    BY <2>1, <2>2
<1>5. H[0] = 0
  BY <1>1, <1>3 DEF Totals
<1> QED
  BY <1>3, <1>4, <1>5 DEF SumIs, Totals

\* A function that adds the terms up as the totals do ends in their sum.
LEMMA SumUnique ==
  ASSUME NEW n \in Nat, NEW terms, NEW G, Totals(G, terms, n),
         NEW H, H[0] = 0, \A i \in 1 .. n : H[i] = H[i - 1] + terms[i]
  PROVE  H[n] = G[n]
<1> DEFINE T == {i \in 0 .. n : H[i] # G[i]}
<1>1. SUFFICES ASSUME T # {} PROVE FALSE
  OBVIOUS
<1>2. T \subseteq Nat
  OBVIOUS
<1>3. PICK least \in T : \A y \in T : ~ (<<y, least>> \in OpToRel(<, Nat))
  <2> HIDE DEF T
  <2> QED
    BY <1>1, <1>2, NatLessThanWellFounded, WFMin
<1>4. \A y \in T : ~ (y < least)
  BY <1>2, <1>3 DEF OpToRel
<1>5. least \in 1 .. n /\ least - 1 \in 0 .. n /\ least - 1 < least
  <2>1. least \in 0 .. n /\ least # 0
    BY DEF Totals
  <2> QED
    BY <2>1
<1>6. H[least - 1] = G[least - 1]
  BY <1>4, <1>5
<1>7. H[least] = G[least]
  BY <1>5, <1>6 DEF Totals
<1> QED
  BY <1>7

Rational == [num : Int, den : Nat \ {0}]
Deal == [qty : Int, price : Prices, fee : Int, off : Int]
Quantity(deals) == [i \in DOMAIN deals |-> deals[i].qty]
Charge(deals) == [i \in DOMAIN deals |-> deals[i].fee]
Cost(deals) == [i \in DOMAIN deals |-> deals[i].qty * deals[i].price + deals[i].fee]
Balance(q, an, ad, rn, rd, paid) == an * q * rd - rn * ad = paid * (ad * rd)

PositionTypes ==
  /\ amount \in Int /\ fees \in Int /\ avp \in Rational /\ realized \in Rational /\ dealt \in Seq(Deal)

Books ==
  /\ SumIs(amount, Quantity(dealt), Len(dealt)) /\ SumIs(fees, Charge(dealt), Len(dealt))
  /\ \E paid \in Int : /\ SumIs(paid, Cost(dealt), Len(dealt))
                       /\ Balance(amount, avp.num, avp.den, realized.num, realized.den, paid)

PositionInv ==
  /\ PositionTypes /\ Books
  /\ amount = 0 \/ (~ Pos!Zero(amount) /\ avp.num > 0)
  /\ \A i \in DOMAIN dealt : Pos!Zero(dealt[i].off)

\* The balance after a trade that opens a position, adds to it, reduces it or
\* turns it around.
LEMMA Opens ==
  ASSUME NEW an \in Int, NEW ad \in Nat \ {0}, NEW rn \in Int, NEW rd \in Nat \ {0}, NEW paid \in Int,
         NEW x \in Int, NEW price \in Int, NEW fee \in Int, Balance(0, an, ad, rn, rd, paid)
  PROVE  Balance(x, price, 1, rn * 1 + (-fee) * rd, rd * 1, paid + (x * price + fee))
<1>1. (-rn) * ad = (paid * rd) * ad
  BY DEF Balance
<1>2. -rn = paid * rd
  BY <1>1
<1> QED
  BY <1>2 DEF Balance

LEMMA Adds ==
  ASSUME NEW an \in Int, NEW ad \in Nat \ {0}, NEW rn \in Int, NEW rd \in Nat \ {0}, NEW paid \in Int,
         NEW x \in Int, NEW price \in Int, NEW fee \in Int, NEW q \in Int, NEW s \in {1, -1},
         Balance(q, an, ad, rn, rd, paid)
  PROVE  Balance(q + x, an * (s * q) * 1 + (price * (s * x)) * ad, ad * 1 * (s * x + s * q),
                 rn * 1 + (-fee) * rd, rd * 1, paid + (x * price + fee))
<1> DEFINE m == q + x
<1>1. (an * q * rd - rn * ad) * m = (paid * (ad * rd)) * m
  BY DEF Balance
<1>2. CASE s = 1
  BY <1>1, <1>2 DEF Balance
<1>3. CASE s = -1
  BY <1>1, <1>3 DEF Balance
<1> QED
  BY <1>2, <1>3

LEMMA Reduces ==
  ASSUME NEW an \in Int, NEW ad \in Nat \ {0}, NEW rn \in Int, NEW rd \in Nat \ {0}, NEW paid \in Int,
         NEW x \in Int, NEW price \in Int, NEW fee \in Int, NEW q \in Int, Balance(q, an, ad, rn, rd, paid)
  PROVE  LET rnum == rn * (1 * ad) + ((price * ad + (an * (-1)) * 1) * (-x)) * rd
             rden == rd * (1 * ad)
         IN Balance(q + x, an, ad, rnum * 1 + (-fee) * rden, rden * 1, paid + (x * price + fee))
<1>1. (an * q * rd - rn * ad) * ad = (paid * (ad * rd)) * ad
  BY DEF Balance
<1> QED
  BY <1>1 DEF Balance

LEMMA TurnsAround ==
  ASSUME NEW an \in Int, NEW ad \in Nat \ {0}, NEW rn \in Int, NEW rd \in Nat \ {0}, NEW paid \in Int,
         NEW x \in Int, NEW price \in Int, NEW fee \in Int, NEW q \in Int, Balance(q, an, ad, rn, rd, paid)
  PROVE  LET rnum == rn * (1 * ad) + ((price * ad + (an * (-1)) * 1) * (-(-q))) * rd
             rden == rd * (1 * ad)
         IN Balance(q + x, price, 1, rnum * 1 + (-fee) * rden, rden * 1, paid + (x * price + fee))
  BY DEF Balance

Position == [amount : Int, avp : Rational, realized : Rational]
BalancedAfter(p, fee, paid) ==
  Balance(p.amount, p.avp.num, p.avp.den, p.realized.num * 1 + (-fee) * p.realized.den,
          p.realized.den * 1, paid)

\* What the two ways to change a position make of its parts.
LEMMA Increased ==
  ASSUME NEW p \in Position, NEW x \in Int, NEW price \in Nat \ {0}
  PROVE  LET r == Pos!increase_position(p, x, price)
         IN
         /\ r.amount = p.amount + x /\ r.realized = p.realized
         /\ Pos!Zero(p.amount) => r.avp = [num |-> price, den |-> 1]
         /\ ~ Pos!Zero(p.amount) =>
              r.avp = [num |-> p.avp.num * Pos!Abs(p.amount) * 1 + (price * Pos!Abs(x)) * p.avp.den,
                       den |-> p.avp.den * 1 * (Pos!Abs(x) + Pos!Abs(p.amount))]
<1> DEFINE cost == Pos!Plus(Pos!Scaled(p.avp, Pos!Abs(p.amount)), Pos!Fraction(price * Pos!Abs(x)))
           dearer == [cost EXCEPT !.den = cost.den * (Pos!Abs(x) + Pos!Abs(p.amount))]
           average == IF Pos!Zero(p.amount) THEN Pos!Fraction(price) ELSE dearer
           r == Pos!increase_position(p, x, price)
<1>1. r = [p EXCEPT !.amount = p.amount + x, !.avp = average]
  BY DEF Pos!increase_position
<1>2. /\ p.avp = p.avp /\ p \in [amount : Int, avp : Rational, realized : Rational]
      /\ p.avp \in [num : Int, den : Nat \ {0}]
  BY DEF Position, Rational
<1>3. dearer = [num |-> p.avp.num * Pos!Abs(p.amount) * 1 + (price * Pos!Abs(x)) * p.avp.den,
                den |-> p.avp.den * 1 * (Pos!Abs(x) + Pos!Abs(p.amount))]
  BY DEF Pos!Plus, Pos!Scaled, Pos!Fraction
<1> HIDE DEF dearer, average, r
<1>4. r.amount = p.amount + x /\ r.realized = p.realized /\ r.avp = average
  BY <1>1, <1>2
<1> QED
  BY <1>3, <1>4 DEF average, Pos!Fraction, r

LEMMA Decreased ==
  ASSUME NEW p \in Position, NEW x \in Int, NEW price \in Nat \ {0}
  PROVE  LET r == Pos!decrease_position(p, x, price)
         IN
         /\ r.amount = p.amount + x /\ r.avp = p.avp
         /\ r.realized = [num |-> p.realized.num * (1 * p.avp.den)
                                    + ((price * p.avp.den + (p.avp.num * (-1)) * 1) * (-x)) * p.realized.den,
                          den |-> p.realized.den * (1 * p.avp.den)]
<1> DEFINE profit == Pos!Plus(p.realized,
                              Pos!Scaled(Pos!Plus(Pos!Fraction(price), Pos!Scaled(p.avp, -1)), -x))
           r == Pos!decrease_position(p, x, price)
<1>1. r = [p EXCEPT !.amount = p.amount + x, !.realized = profit]
  BY DEF Pos!decrease_position
<1>2. profit = [num |-> p.realized.num * (1 * p.avp.den)
                          + ((price * p.avp.den + (p.avp.num * (-1)) * 1) * (-x)) * p.realized.den,
                den |-> p.realized.den * (1 * p.avp.den)]
  BY DEF Pos!Plus, Pos!Scaled, Pos!Fraction
<1> HIDE DEF profit, r
<1>3. p \in [amount : Int, avp : Rational, realized : Rational]
  BY DEF Position
<1>4. r.amount = p.amount + x /\ r.avp = p.avp /\ r.realized = profit
  BY <1>1, <1>3
<1> QED
  BY <1>2, <1>4 DEF r

\* A profit realized by selling at a price is a fraction again.
LEMMA Realizes ==
  ASSUME NEW p \in Position, NEW x \in Int, NEW price \in Nat \ {0}
  PROVE  [num |-> p.realized.num * (1 * p.avp.den)
                    + ((price * p.avp.den + (p.avp.num * (-1)) * 1) * (-x)) * p.realized.den,
          den |-> p.realized.den * (1 * p.avp.den)] \in Rational
<1>1. p.avp.num \in Int /\ p.avp.den \in Nat \ {0} /\ p.realized.num \in Int /\ p.realized.den \in Nat \ {0}
  BY DEF Position, Rational
<1>2. PICK a \in Nat \ {0}, b \in Int, c \in Int, d \in Nat \ {0} :
        p.avp.den = a /\ p.realized.num = b /\ p.avp.num = c /\ p.realized.den = d
  BY <1>1
<1>3. \A m, n \in Int : m * n \in Int /\ m + n \in Int /\ -m \in Int
  OBVIOUS
<1>4. b * (1 * a) + ((price * a + (c * (-1)) * 1) * (-x)) * d \in Int
  <2>1. a \in Int /\ d \in Int /\ price \in Int /\ 1 * a \in Int /\ c * (-1) \in Int
    OBVIOUS
  <2>2. b * (1 * a) \in Int /\ price * a \in Int /\ (c * (-1)) * 1 \in Int /\ -x \in Int
    BY <1>3, <2>1
  <2>3. price * a + (c * (-1)) * 1 \in Int
    BY <1>3, <2>2
  <2>4. (price * a + (c * (-1)) * 1) * (-x) \in Int
    BY <1>3, <2>2, <2>3
  <2> QED
    BY <1>3, <2>1, <2>2, <2>4
<1>5. d * (1 * a) \in Nat \ {0}
  <2>1. 1 * a = a
    OBVIOUS
  <2>2. \A m, n \in Nat \ {0} : m * n \in Nat \ {0}
    OBVIOUS
  <2> QED
    BY <2>1, <2>2
<1>6. \A n \in Int, e \in Nat \ {0} : [num |-> n, den |-> e] \in Rational
  BY DEF Rational
<1>7. [num |-> b * (1 * a) + ((price * a + (c * (-1)) * 1) * (-x)) * d, den |-> d * (1 * a)] \in Rational
  BY <1>4, <1>5, <1>6
<1> QED
  BY <1>2, <1>7

\* However a trade changes a position, its quantity is added and the books
\* balance with what was paid for it; and the average price of what is held is
\* the price of some trade or between prices, so that it is not zero.
LEMMA TradeEffect ==
  ASSUME NEW p \in Position, NEW x \in Int, NEW price \in Nat \ {0}, NEW fee \in Int, NEW paid \in Int,
         NEW r, r = Pos!Traded(p, x, price),
         Balance(p.amount, p.avp.num, p.avp.den, p.realized.num, p.realized.den, paid),
         p.amount = 0 \/ (~ Pos!Zero(p.amount) /\ p.avp.num > 0)
  PROVE  /\ r.amount = p.amount + x /\ r.avp \in Rational /\ r.realized \in Rational
         /\ BalancedAfter(r, fee, paid + (x * price + fee))
         /\ r.avp.num > 0 \/ Pos!Zero(p.amount + x)
<1>1. /\ p.amount \in Int /\ p.avp \in Rational /\ p.realized \in Rational
      /\ p.avp.num \in Int /\ p.avp.den \in Nat \ {0} /\ p.realized.num \in Int /\ p.realized.den \in Nat \ {0}
  BY DEF Position, Rational
<1>2. EPSILON \in Nat \ {0}
  BY PositionAssumption
<1>3. PICK q : q = p.amount
  OBVIOUS
<1>4. PICK an, ad : an = p.avp.num /\ ad = p.avp.den
  OBVIOUS
<1>5. PICK rn, rd : rn = p.realized.num /\ rd = p.realized.den
  OBVIOUS
<1>6. q \in Int /\ an \in Int /\ ad \in Nat \ {0} /\ rn \in Int /\ rd \in Nat \ {0}
  BY <1>1, <1>3, <1>4, <1>5
<1>7. price \in Int
  OBVIOUS
<1>8. Balance(q, an, ad, rn, rd, paid) /\ (q = 0 \/ (~ Pos!Zero(q) /\ an > 0))
  BY <1>3, <1>4, <1>5
<1>9. CASE Pos!Zero(q)
  <2>1. q = 0
    BY <1>8, <1>9
  <2>2. r = Pos!increase_position(p, x, price)
    BY <1>3, <1>9 DEF Pos!Traded
  <2>3. r.amount = q + x /\ r.realized = p.realized /\ r.avp = [num |-> price, den |-> 1]
    <3> DEFINE up == Pos!increase_position(p, x, price)
    <3>1. /\ up.amount = p.amount + x /\ up.realized = p.realized
          /\ Pos!Zero(p.amount) => up.avp = [num |-> price, den |-> 1]
      BY Increased, Zenon
    <3> HIDE DEF up
    <3>2. r = up
      BY <2>2 DEF up
    <3> QED
      BY <1>3, <1>9, <3>1, <3>2, Zenon
  <2>4. r.avp \in Rational /\ r.avp.num = price /\ r.avp.den = 1 /\ price > 0
    BY <2>3 DEF Rational
  <2>5. Balance(x, price, 1, rn * 1 + (-fee) * rd, rd * 1, paid + (x * price + fee))
    <3>1. Balance(0, an, ad, rn, rd, paid)
      BY <1>8, <2>1
    <3> QED
      BY <1>6, <1>7, <3>1, Opens, Zenon
  <2>6. r.amount = x
    BY <1>6, <2>1, <2>3
  <2> QED
    BY <1>1, <1>3, <1>5, <2>3, <2>4, <2>5, <2>6 DEF BalancedAfter
<1>10. CASE ~ Pos!Zero(q) /\ (Pos!Zero(q + x) \/ (Pos!Same(q, q + x) /\ ~ (Pos!Abs(q + x) > Pos!Abs(q))))
  <2>1. r = Pos!decrease_position(p, x, price)
    BY <1>10, <1>3 DEF Pos!Traded
  <2> DEFINE rnum == rn * (1 * ad) + ((price * ad + (an * (-1)) * 1) * (-x)) * rd
             rden == rd * (1 * ad)
  <2>2. r.amount = q + x /\ r.avp = p.avp /\ r.realized = [num |-> rnum, den |-> rden]
    <3> DEFINE down == Pos!decrease_position(p, x, price)
    <3>1. /\ down.amount = p.amount + x /\ down.avp = p.avp
          /\ down.realized =
               [num |-> p.realized.num * (1 * p.avp.den)
                          + ((price * p.avp.den + (p.avp.num * (-1)) * 1) * (-x)) * p.realized.den,
                den |-> p.realized.den * (1 * p.avp.den)]
      BY Decreased, Zenon
    <3> HIDE DEF down
    <3>2. r = down
      BY <2>1 DEF down
    <3> QED
      BY <1>3, <1>4, <1>5, <3>1, <3>2, Zenon
  <2>3. r.realized \in Rational
    <3>1. [num |-> p.realized.num * (1 * p.avp.den)
                     + ((price * p.avp.den + (p.avp.num * (-1)) * 1) * (-x)) * p.realized.den,
           den |-> p.realized.den * (1 * p.avp.den)] \in Rational
      BY Realizes, Zenon
    <3> QED
      BY <1>4, <1>5, <2>2, <3>1, Zenon
  <2>4. Balance(q + x, an, ad, rnum * 1 + (-fee) * rden, rden * 1, paid + (x * price + fee))
    BY <1>6, <1>8, <1>7, Reduces, Zenon
  <2>5. r.realized.num = rnum /\ r.realized.den = rden
    <3> HIDE DEF rnum, rden
    <3> QED
      BY <2>2
  <2>6. an > 0
    BY <1>2, <1>10, <1>8 DEF Pos!Zero, Pos!Abs
  <2> QED
    BY <1>1, <1>3, <1>4, <2>2, <2>3, <2>4, <2>5, <2>6 DEF BalancedAfter
<1>11. CASE ~ Pos!Zero(q) /\ ~ Pos!Zero(q + x) /\ ~ Pos!Same(q, q + x)
  <2> DEFINE flat == Pos!decrease_position(p, -q, price)
             rnum == rn * (1 * ad) + ((price * ad + (an * (-1)) * 1) * (-(-q))) * rd
             rden == rd * (1 * ad)
  <2>1. r = Pos!increase_position(flat, q + x, price)
    BY <1>11, <1>3 DEF Pos!Traded, Pos!Flip
  <2>2. flat.amount = q + (-q) /\ flat.avp = p.avp /\ flat.realized = [num |-> rnum, den |-> rden]
    <3>1. -q \in Int
      BY <1>6
    <3>2. /\ flat.amount = p.amount + (-q) /\ flat.avp = p.avp
          /\ flat.realized =
               [num |-> p.realized.num * (1 * p.avp.den)
                          + ((price * p.avp.den + (p.avp.num * (-1)) * 1) * (-(-q))) * p.realized.den,
                den |-> p.realized.den * (1 * p.avp.den)]
      BY <3>1, Decreased, Zenon
    <3> HIDE DEF flat
    <3> QED
      BY <1>3, <1>4, <1>5, <3>2, Zenon
  <2>3. flat.amount = 0 /\ Pos!Zero(flat.amount)
    BY <1>2, <1>6, <2>2 DEF Pos!Zero, Pos!Abs
  <2>4. [num |-> rnum, den |-> rden] \in Rational
    <3>1. -q \in Int
      BY <1>6
    <3>2. [num |-> p.realized.num * (1 * p.avp.den)
                     + ((price * p.avp.den + (p.avp.num * (-1)) * 1) * (-(-q))) * p.realized.den,
           den |-> p.realized.den * (1 * p.avp.den)] \in Rational
      BY <3>1, Realizes, Zenon
    <3> QED
      BY <1>4, <1>5, <3>2, Zenon
  <2>5. flat \in Position
    <3>1. flat = [p EXCEPT !.amount = flat.amount, !.realized = flat.realized]
      BY DEF Pos!decrease_position, Position
    <3> HIDE DEF flat
    <3> QED
      BY <1>1, <2>2, <2>3, <2>4, <3>1 DEF Position
  <2> HIDE DEF flat
  <2>6. r.amount = 0 + (q + x) /\ r.realized = flat.realized /\ r.avp = [num |-> price, den |-> 1]
    <3>1. q + x \in Int
      BY <1>6
    <3> DEFINE up == Pos!increase_position(flat, q + x, price)
    <3>2. /\ up.amount = flat.amount + (q + x) /\ up.realized = flat.realized
          /\ Pos!Zero(flat.amount) => up.avp = [num |-> price, den |-> 1]
      BY <2>5, <3>1, Increased, Zenon
    <3> HIDE DEF up
    <3>3. r = up
      BY <2>1 DEF up
    <3> QED
      BY <2>3, <3>2, <3>3, Zenon
  <2>7. Balance(q + x, price, 1, rnum * 1 + (-fee) * rden, rden * 1, paid + (x * price + fee))
    BY <1>6, <1>8, <1>7, TurnsAround, Zenon
  <2>8. r.realized.num = rnum /\ r.realized.den = rden /\ r.realized \in Rational
    <3> HIDE DEF rnum, rden
    <3> QED
      BY <2>2, <2>4, <2>6
  <2>9. r.avp \in Rational /\ r.avp.num = price /\ r.avp.den = 1 /\ price > 0 /\ r.amount = q + x
    BY <1>6, <2>6 DEF Rational
  <2> QED
    BY <1>3, <2>7, <2>8, <2>9 DEF BalancedAfter
<1>12. CASE ~ Pos!Zero(q) /\ ~ Pos!Zero(q + x) /\ Pos!Same(q, q + x) /\ Pos!Abs(q + x) > Pos!Abs(q)
  <2>1. r = Pos!increase_position(p, x, price)
    BY <1>12, <1>3 DEF Pos!Traded
  <2> DEFINE num == an * Pos!Abs(q) * 1 + (price * Pos!Abs(x)) * ad
             den == ad * 1 * (Pos!Abs(x) + Pos!Abs(q))
  <2>2. r.amount = q + x /\ r.realized = p.realized /\ r.avp = [num |-> num, den |-> den]
    <3> DEFINE up == Pos!increase_position(p, x, price)
    <3>1. /\ up.amount = p.amount + x /\ up.realized = p.realized
          /\ ~ Pos!Zero(p.amount) =>
               up.avp = [num |-> p.avp.num * Pos!Abs(p.amount) * 1 + (price * Pos!Abs(x)) * p.avp.den,
                         den |-> p.avp.den * 1 * (Pos!Abs(x) + Pos!Abs(p.amount))]
      BY Increased, Zenon
    <3> HIDE DEF up
    <3>2. r = up
      BY <2>1 DEF up
    <3> QED
      BY <1>12, <1>3, <1>4, <3>1, <3>2, Zenon
  <2>3. q # 0 /\ an > 0
    BY <1>2, <1>12, <1>8 DEF Pos!Zero, Pos!Abs
  <2>4. PICK s \in {1, -1} : Pos!Abs(q) = s * q /\ Pos!Abs(x) = s * x /\ s * q > 0 /\ s * x > 0
    <3>1. CASE q > 0
      <4>1. x > 0
        BY <1>12, <1>6, <3>1 DEF Pos!Same, Pos!Abs
      <4>2. Pos!Abs(q) = 1 * q /\ Pos!Abs(x) = 1 * x /\ 1 * q > 0 /\ 1 * x > 0
        BY <1>6, <3>1, <4>1 DEF Pos!Abs
      <4> QED
        BY <4>2
    <3>2. CASE q < 0
      <4>1. x < 0
        BY <1>12, <1>6, <3>2 DEF Pos!Same, Pos!Abs
      <4>2. Pos!Abs(q) = (-1) * q /\ Pos!Abs(x) = (-1) * x /\ (-1) * q > 0 /\ (-1) * x > 0
        BY <1>6, <3>2, <4>1 DEF Pos!Abs
      <4> QED
        BY <4>2
    <3> QED
      BY <1>6, <2>3, <3>1, <3>2
  <2>5. Balance(q + x, num, den, rn * 1 + (-fee) * rd, rd * 1, paid + (x * price + fee))
    <3>1. num = an * (s * q) * 1 + (price * (s * x)) * ad /\ den = ad * 1 * (s * x + s * q)
      BY <2>4
    <3>2. Balance(q + x, an * (s * q) * 1 + (price * (s * x)) * ad, ad * 1 * (s * x + s * q),
                  rn * 1 + (-fee) * rd, rd * 1, paid + (x * price + fee))
      BY <1>6, <1>8, <1>7, Adds, ZenonT(30)
    <3> HIDE DEF num, den
    <3> QED
      BY <3>1, <3>2
  <2>6. num \in Int /\ den \in Nat \ {0} /\ num > 0
    <3>1. \A a, b \in Nat \ {0} : a * b \in Nat \ {0}
      OBVIOUS
    <3>2. Pos!Abs(q) \in Nat \ {0} /\ Pos!Abs(x) \in Nat \ {0} /\ an \in Nat \ {0} /\ ad \in Nat \ {0}
      BY <1>6, <2>3, <2>4
    <3>3. an * Pos!Abs(q) \in Nat \ {0} /\ (price * Pos!Abs(x)) * ad \in Nat \ {0}
          /\ ad * (Pos!Abs(x) + Pos!Abs(q)) \in Nat \ {0}
      BY <3>1, <3>2
    <3> QED
      BY <3>2, <3>3
  <2> HIDE DEF num, den
  <2>7. r.avp \in Rational /\ r.avp.num = num /\ r.avp.den = den
    BY <2>2, <2>6 DEF Rational
  <2> QED
    BY <1>1, <1>3, <1>5, <2>2, <2>5, <2>6, <2>7 DEF BalancedAfter
<1> QED
  BY <1>9, <1>10, <1>11, <1>12

\* The invariant holds before the first trade.
LEMMA PositionInit == Init => PositionInv
<1> SUFFICES ASSUME Init PROVE PositionInv
  OBVIOUS
<1>1. amount = 0 /\ avp = [num |-> 0, den |-> 1] /\ realized = [num |-> 0, den |-> 1] /\ fees = 0
      /\ dealt = << >>
  BY DEF Init, Pos!Init, Pos!Fraction
<1>2. PositionTypes
  BY <1>1 DEF PositionTypes, Rational
<1>3. \A terms : SumIs(0, terms, 0)
  <2> SUFFICES ASSUME NEW terms PROVE SumIs(0, terms, 0)
    OBVIOUS
  <2> DEFINE G == [i \in 0 .. 0 |-> 0]
  <2>1. G \in [0 .. 0 -> Int] /\ G[0] = 0 /\ \A i \in 1 .. 0 : FALSE
    OBVIOUS
  <2> HIDE DEF G
  <2>2. Totals(G, terms, 0)
    BY <2>1 DEF Totals
  <2> QED
    BY <2>1, <2>2 DEF SumIs
<1>4. Balance(0, 0, 1, 0, 1, 0)
  BY DEF Balance
<1>5. Books
  <2>1. Len(dealt) = 0
    BY <1>1
  <2>2. avp.num = 0 /\ avp.den = 1 /\ realized.num = 0 /\ realized.den = 1
    BY <1>1
  <2>3. SumIs(0, Cost(dealt), Len(dealt)) /\ SumIs(0, Quantity(dealt), Len(dealt))
        /\ SumIs(0, Charge(dealt), Len(dealt))
    BY <1>3, <2>1
  <2> QED
    BY <1>1, <1>4, <2>2, <2>3 DEF Books
<1>6. DOMAIN dealt = {}
  BY <1>1
<1> QED
  BY <1>1, <1>2, <1>5, <1>6 DEF PositionInv

\* A trade keeps it: what would be left over is snapped off before, and the
\* quantity, the fee and the cost are one more term of their sums.
LEMMA TradeStep ==
  ASSUME PositionInv, NEW requested \in Quantities, NEW price \in Prices, NEW charged,
         charged = << >> \/ \E f \in Fees : charged = <<f>>, Pos!trade(requested, price, charged)
  PROVE  PositionInv'
<1> DEFINE x == Pos!Snapped(requested)
           p == [amount |-> amount, avp |-> avp, realized |-> realized]
           r == Pos!Traded(p, x, price)
           fee == IF charged = << >> THEN FeeRate * Pos!Abs(requested) * price ELSE charged[1]
           deal == [qty |-> x, price |-> price, fee |-> fee, off |-> requested - x]
           n == Len(dealt)
<1>1. /\ amount \in Int /\ fees \in Int /\ avp \in Rational /\ realized \in Rational
      /\ dealt \in Seq(Deal) /\ n \in Nat /\ requested \in Int /\ price \in Nat \ {0} /\ EPSILON \in Nat \ {0}
  BY PositionAssumption DEF PositionInv, PositionTypes
<1>2. /\ x \in Int /\ requested - x \in Int /\ Pos!Zero(requested - x)
      /\ Pos!Zero(amount + x) => amount + x = 0
  BY <1>1 DEF Pos!Snapped, Pos!Zero, Pos!Abs
<1>3. fee \in Int
  <2>1. CASE charged = << >>
    <3>1. FeeRate \in Int /\ Pos!Abs(requested) \in Int /\ price \in Int
      BY <1>1, PositionAssumption DEF Pos!Abs
    <3>2. \A a, b, c \in Int : a * b * c \in Int
      OBVIOUS
    <3>3. fee = FeeRate * Pos!Abs(requested) * price
      BY <2>1
    <3> HIDE DEF fee
    <3> QED
      BY <3>1, <3>2, <3>3
  <2>2. CASE \E f \in Fees : charged = <<f>>
    BY <2>2, PositionAssumption
  <2> QED
    BY <2>1, <2>2
<1>4. /\ amount' = (IF Pos!Zero(amount + x) THEN 0 ELSE r.amount)
      /\ avp' = r.avp /\ realized' = Pos!Plus(r.realized, Pos!Fraction(-fee)) /\ fees' = fees + fee
      /\ dealt' = Append(dealt, deal)
  BY DEF Pos!trade
<1>5. p \in Position /\ p.amount = amount /\ p.avp = avp /\ p.realized = realized
  BY <1>1 DEF Position
<1> HIDE DEF x, p, fee
<1>6. PICK paid \in Int : /\ SumIs(paid, Cost(dealt), n)
                          /\ Balance(amount, avp.num, avp.den, realized.num, realized.den, paid)
  BY DEF PositionInv, Books
<1> HIDE DEF r
<1>7. /\ r.amount = p.amount + x /\ r.avp \in Rational /\ r.realized \in Rational
      /\ BalancedAfter(r, fee, paid + (x * price + fee))
      /\ r.avp.num > 0 \/ Pos!Zero(p.amount + x)
  <2>1. r = Pos!Traded(p, x, price)
    BY DEF r
  <2>2. Balance(p.amount, p.avp.num, p.avp.den, p.realized.num, p.realized.den, paid)
    BY <1>5, <1>6
  <2>3. p.amount = 0 \/ (~ Pos!Zero(p.amount) /\ p.avp.num > 0)
    BY <1>5 DEF PositionInv
  <2> QED
    BY <1>1, <1>2, <1>3, <1>5, <1>6, <2>1, <2>2, <2>3, TradeEffect, ZenonT(30)
<1>8. amount' = amount + x
  BY <1>2, <1>4, <1>5, <1>7
<1>9. realized' \in Rational /\ realized'.num = r.realized.num * 1 + (-fee) * r.realized.den
      /\ realized'.den = r.realized.den * 1
  <2>1. realized' = [num |-> r.realized.num * 1 + (-fee) * r.realized.den, den |-> r.realized.den * 1]
    BY <1>4 DEF Pos!Plus, Pos!Fraction
  <2>2. r.realized.num \in Int /\ r.realized.den \in Nat \ {0}
    BY <1>7 DEF Rational
  <2>3. r.realized.num * 1 + (-fee) * r.realized.den \in Int /\ r.realized.den * 1 \in Nat \ {0}
    BY <1>3, <2>2
  <2> QED
    BY <2>1, <2>3 DEF Rational
<1>10. deal \in Deal /\ deal.qty = x /\ deal.price = price /\ deal.fee = fee /\ deal.off = requested - x
  BY <1>1, <1>2, <1>3 DEF Deal
<1> HIDE DEF deal
<1>11. /\ dealt' \in Seq(Deal) /\ Len(dealt') = n + 1 /\ dealt'[n + 1] = deal
       /\ DOMAIN dealt' = 1 .. n + 1 /\ \A i \in 1 .. n : dealt'[i] = dealt[i]
  BY <1>1, <1>4, <1>10
<1>12. DOMAIN dealt = 1 .. n /\ \A i \in 1 .. n : i \in 1 .. n + 1
  BY <1>1
<1> HIDE DEF n
<1>13. SumIs(amount', Quantity(dealt'), n + 1)
  <2>1. SumIs(amount, Quantity(dealt), n)
    BY DEF PositionInv, Books, n
  <2>2. (\A i \in 1 .. n : Quantity(dealt')[i] = Quantity(dealt)[i]) /\ Quantity(dealt')[n + 1] = x
    BY <1>1, <1>10, <1>11, <1>12 DEF Quantity
  <2>3. SumIs(amount + x, Quantity(dealt'), n + 1)
    BY <1>1, <1>2, <2>1, <2>2, OneMoreTerm, Zenon
  <2> QED
    BY <1>8, <2>3
<1>14. SumIs(fees', Charge(dealt'), n + 1)
  <2>1. SumIs(fees, Charge(dealt), n)
    BY DEF PositionInv, Books, n
  <2>2. (\A i \in 1 .. n : Charge(dealt')[i] = Charge(dealt)[i]) /\ Charge(dealt')[n + 1] = fee
    BY <1>1, <1>10, <1>11, <1>12 DEF Charge
  <2>3. SumIs(fees + fee, Charge(dealt'), n + 1)
    BY <1>1, <1>3, <2>1, <2>2, OneMoreTerm, Zenon
  <2> QED
    BY <1>4, <2>3
<1>15. x * price + fee \in Int /\ paid + (x * price + fee) \in Int
  BY <1>1, <1>2, <1>3, <1>6
<1>16. SumIs(paid + (x * price + fee), Cost(dealt'), n + 1)
  <2>1. \A i \in 1 .. n : Cost(dealt')[i] = Cost(dealt)[i]
    BY <1>11, <1>12 DEF Cost
  <2>2. Cost(dealt')[n + 1] = x * price + fee
    BY <1>1, <1>10, <1>11 DEF Cost
  <2> QED
    BY <1>1, <1>6, <1>15, <2>1, <2>2, OneMoreTerm, Zenon
<1>17. Balance(amount', avp'.num, avp'.den, realized'.num, realized'.den, paid + (x * price + fee))
  BY <1>4, <1>5, <1>7, <1>8, <1>9 DEF BalancedAfter
<1>18. Books'
  <2>1. PICK cost \in Int : cost = paid + (x * price + fee)
    BY <1>15
  <2>2. SumIs(cost, Cost(dealt'), Len(dealt'))
        /\ Balance(amount', avp'.num, avp'.den, realized'.num, realized'.den, cost)
    BY <1>11, <1>16, <1>17, <2>1
  <2> QED
    BY <1>11, <1>13, <1>14, <2>2 DEF Books
<1>19. PositionTypes'
  <2>1. amount' \in Int /\ fees' \in Int
    BY <1>1, <1>2, <1>3, <1>4, <1>8
  <2> QED
    BY <1>4, <1>7, <1>9, <1>11, <2>1 DEF PositionTypes
<1>20. amount' = 0 \/ (~ Pos!Zero(amount') /\ avp'.num > 0)
  BY <1>2, <1>4, <1>5, <1>7, <1>8
<1>21. ASSUME NEW i \in 1 .. n + 1 PROVE Pos!Zero(dealt'[i].off)
  <2>1. CASE i = n + 1
    BY <1>2, <1>10, <1>11, <2>1
  <2>2. CASE i # n + 1
    <3>1. i \in 1 .. n
      BY <1>1, <2>2 DEF n
    <3> QED
      BY <1>11, <1>12, <3>1 DEF PositionInv
  <2> QED
    BY <2>1, <2>2
<1> QED
  BY <1>11, <1>18, <1>19, <1>20, <1>21 DEF PositionInv

\* Every step keeps it.
LEMMA PositionStep == PositionInv /\ [Next]_vars => PositionInv'
<1> SUFFICES ASSUME PositionInv, [Next]_vars PROVE PositionInv'
  OBVIOUS
<1>1. CASE UNCHANGED positionVars
  BY <1>1 DEF positionVars, PositionInv, PositionTypes, Books
<1>2. CASE RunPosition
  <2>1. PICK requested \in Quantities, price \in Prices :
          Pos!trade(requested, price, << >>) \/ \E f \in Fees : Pos!trade(requested, price, <<f>>)
    BY <1>2 DEF RunPosition, Pos!Next
  <2> QED
    BY <2>1, TradeStep
<1> QED
  BY <1>1, <1>2 DEF Next, vars, restVars, Only, RunParquet, RunQuestDb, RunApi, RunStream,
    RunHistory, RunBreaker

\* The books balance: a position is the sum of the quantities traded, its fees
\* those charged, and what it holds at its average price is what was paid for
\* it and has been realized, for any quantities, prices, fees and EPSILON and
\* however often the position is turned around (position.rs).
THEOREM PositionStaysExact == Spec => []PositionExact
<1>1. ASSUME PositionInv PROVE PositionExact
  <2> DEFINE n == Len(dealt)
             IsQuantity(g) == g = [i \in 0 .. n |-> IF i = 0 THEN 0 ELSE g[i - 1] + dealt[i].qty]
             IsCharge(g) == g = [i \in 0 .. n |-> IF i = 0 THEN 0 ELSE g[i - 1] + dealt[i].fee]
             IsCost(g) == g = [i \in 0 .. n |->
               IF i = 0 THEN 0 ELSE g[i - 1] + (dealt[i].qty * dealt[i].price + dealt[i].fee)]
             quantity == CHOOSE g : IsQuantity(g)
             charge == CHOOSE g : IsCharge(g)
             cost == CHOOSE g : IsCost(g)
  <2>1. n \in Nat /\ DOMAIN dealt = 1 .. n
    BY <1>1 DEF PositionInv, PositionTypes
  <2>2. PICK paid \in Int : /\ SumIs(paid, Cost(dealt), n)
                            /\ Balance(amount, avp.num, avp.den, realized.num, realized.den, paid)
    BY <1>1 DEF PositionInv, Books
  <2>3. SumIs(amount, Quantity(dealt), n) /\ SumIs(fees, Charge(dealt), n)
    BY <1>1 DEF PositionInv, Books
  <2>4. \A terms, G : Totals(G, terms, n) =>
          G = [i \in 0 .. n |-> IF i = 0 THEN 0 ELSE G[i - 1] + terms[i]]
    BY <2>1 DEF Totals
  <2> HIDE DEF n
  <2>5. quantity[n] = amount
    <3>1. PICK G : Totals(G, Quantity(dealt), n) /\ G[n] = amount
      BY <2>3 DEF SumIs
    <3>2. \A i \in 1 .. n : Quantity(dealt)[i] = dealt[i].qty
      BY <2>1 DEF Quantity
    <3>3. G = [i \in 0 .. n |-> IF i = 0 THEN 0 ELSE G[i - 1] + Quantity(dealt)[i]]
      BY <2>4, <3>1
    <3>4. IsQuantity(G)
      BY <2>1, <3>2, <3>3
    <3>5. IsQuantity(quantity)
      BY <3>4
    <3> HIDE DEF quantity
    <3>6. quantity[0] = 0 /\ \A i \in 1 .. n : quantity[i] = quantity[i - 1] + Quantity(dealt)[i]
      BY <2>1, <3>2, <3>5
    <3> QED
      BY <2>1, <3>1, <3>6, SumUnique
  <2>6. charge[n] = fees
    <3>1. PICK G : Totals(G, Charge(dealt), n) /\ G[n] = fees
      BY <2>3 DEF SumIs
    <3>2. \A i \in 1 .. n : Charge(dealt)[i] = dealt[i].fee
      BY <2>1 DEF Charge
    <3>3. G = [i \in 0 .. n |-> IF i = 0 THEN 0 ELSE G[i - 1] + Charge(dealt)[i]]
      BY <2>4, <3>1
    <3>4. IsCharge(G)
      BY <2>1, <3>2, <3>3
    <3>5. IsCharge(charge)
      BY <3>4
    <3> HIDE DEF charge
    <3>6. charge[0] = 0 /\ \A i \in 1 .. n : charge[i] = charge[i - 1] + Charge(dealt)[i]
      BY <2>1, <3>2, <3>5
    <3> QED
      BY <2>1, <3>1, <3>6, SumUnique
  <2>7. cost[n] = paid
    <3>1. PICK G : Totals(G, Cost(dealt), n) /\ G[n] = paid
      BY <2>2 DEF SumIs
    <3>2. \A i \in 1 .. n : Cost(dealt)[i] = dealt[i].qty * dealt[i].price + dealt[i].fee
      BY <2>1 DEF Cost
    <3>3. G = [i \in 0 .. n |-> IF i = 0 THEN 0 ELSE G[i - 1] + Cost(dealt)[i]]
      BY <2>4, <3>1
    <3>4. IsCost(G)
      BY <2>1, <3>2, <3>3
    <3>5. IsCost(cost)
      BY <3>4
    <3> HIDE DEF cost
    <3>6. cost[0] = 0 /\ \A i \in 1 .. n : cost[i] = cost[i - 1] + Cost(dealt)[i]
      BY <2>1, <3>2, <3>5
    <3> QED
      BY <2>1, <3>1, <3>6, SumUnique
  <2>8. Pos!Equal(Pos!Plus(Pos!Scaled(avp, amount), Pos!Scaled(realized, -1)), Pos!Fraction(cost[n]))
    <3>1. avp.num \in Int /\ avp.den \in Nat /\ realized.num \in Int /\ realized.den \in Nat /\ amount \in Int
      BY <1>1 DEF PositionInv, PositionTypes, Rational
    <3>2. PICK an, ad, rn, rd : an = avp.num /\ ad = avp.den /\ rn = realized.num /\ rd = realized.den
      OBVIOUS
    <3>3. (an * amount * rd + (rn * (-1)) * ad) * 1 = paid * (ad * rd)
      BY <2>2, <3>1, <3>2 DEF Balance
    <3> HIDE DEF cost
    <3> QED
      BY <2>7, <3>2, <3>3 DEF Pos!Equal, Pos!Plus, Pos!Scaled, Pos!Fraction
  <2>9. amount = 0 \/ (~ Pos!Zero(amount) /\ avp.num > 0)
    BY <1>1 DEF PositionInv
  <2>10. \A i \in DOMAIN dealt : Pos!Zero(dealt[i].off)
    BY <1>1 DEF PositionInv
  <2> QED
    BY <2>5, <2>6, <2>7, <2>8, <2>9, <2>10, Zenon DEF PositionExact, Pos!PositionExact, Pos!Total, n
<1>2. PositionInv => PositionExact
  BY <1>1
<1> QED
  BY PositionInit, PositionStep, <1>2, PTL DEF Spec

(***************************************************************************)
(* The types of all components, with the limits the code keeps: no line of *)
(* the QuestDB sink is a batch long, a send is given up after its last     *)
(* retry, seen_ortu never exceeds its limit when a message was handled.    *)
(***************************************************************************)
Components ==
  RowsInv /\ IlpInv /\ ApiInv /\ StreamInv /\ HistoryInv /\ BreakerInv /\ PositionInv

ParquetLimits ==
  /\ stage \in {"down", "select", "flush", "prune", "close", "done", "failed"}
  /\ todo \subseteq Streams
IlpLimits ==
  /\ \A s \in DOMAIN buffers : Len(buffers[s]) < BATCH_SIZE
  /\ link \in {"none", "up", "dead"} /\ breaks \in 0 .. MaxBreaks
  /\ attempts \in 0 .. MaxAttempts + 1 /\ (ilpStage = "send" => attempts <= MaxAttempts)
ApiLimits == cut \subseteq Api!Links
StreamLimits == IsFiniteSet(seen_ortu) /\ Cardinality(seen_ortu) <= SEEN_LIMIT
HistoryLimits ==
  clock \in 1 .. MaxTime /\ trades \in Seq(1 .. MaxTime) /\ now_ms_all \in 0 .. MaxTime
BreakerLimits == failure_count \in 0 .. MaxCount

Limits ==
  /\ ParquetLimits /\ IlpLimits /\ ApiLimits /\ StreamLimits /\ HistoryLimits /\ BreakerLimits

\* Initially.
LEMMA LimitsInit == Init => Limits
<1> SUFFICES ASSUME Init PROVE Limits
  OBVIOUS
<1>1. ParquetLimits /\ IlpLimits
  BY SinksAssumption DEF Init, Parquet!Init, QuestDb!Init, ParquetLimits, IlpLimits
<1>2. StreamLimits
  BY AccountAssumption, FS_EmptySet DEF Init, Stream!Init, StreamLimits
<1>3. ApiLimits /\ HistoryLimits /\ BreakerLimits
  BY AccountAssumption, BreakerAssumption
  DEF Init, Api!Init, History!Init, Breaker!Init, ApiLimits, HistoryLimits, BreakerLimits
<1> QED
  BY <1>1, <1>2, <1>3 DEF Limits

\* The steps of the Parquet sink.
LEMMA ParquetLimitsStep == ASSUME RowsInv, ParquetLimits, Parquet!Next PROVE ParquetLimits'
<1> USE DEF ParquetLimits
<1>0. DOMAIN writers \subseteq Streams
  BY DEF RowsInv, ParquetInv, ParquetTypes
<1>1. CASE Parquet!Start \/ Parquet!Stop \/ Parquet!Finished
  BY <1>1 DEF Parquet!Start, Parquet!Stop, Parquet!Finished
<1>2. CASE Parquet!Flushed_all \/ Parquet!flush_all("tick") \/ Parquet!flush_all("closed")
  <2>1. CASE Parquet!Flushed_all
    <3>1. /\ stage' \in {"select", "prune", "close"}
          /\ todo' = todo \/ todo' \in SUBSET (DOMAIN writers) \/ todo' = DOMAIN writers
      BY <2>1 DEF Parquet!Flushed_all, RowsInv, ParquetInv, ParquetTypes
    <3> QED
      BY <1>0, <3>1
  <2>2. ASSUME NEW why \in {"tick", "closed"}, Parquet!flush_all(why) PROVE ParquetLimits'
    BY <1>0, <2>2 DEF Parquet!flush_all, Parquet!Unflushed
  <2> QED
    BY <1>2, <2>1, <2>2
<1>3. ASSUME NEW s \in Streams, Parquet!write_stream_data(s) PROVE ParquetLimits'
  BY <1>3 DEF Parquet!write_stream_data
<1>4. ASSUME NEW s \in Streams,
             Parquet!ensure_writer_initialized(s) \/ Parquet!write_batch(s)
             \/ Parquet!prune_idle_writers(s) \/ Parquet!close(s)
      PROVE  ParquetLimits'
  BY <1>4 DEF Parquet!ensure_writer_initialized, Parquet!write_batch, Parquet!prune_idle_writers,
    Parquet!close
<1> QED
  BY <1>1, <1>2, <1>3, <1>4 DEF Parquet!Next

\* The steps of the QuestDB sink.
LEMMA IlpLimitsStep == ASSUME IlpInv, IlpLimits, QuestDb!Next PROVE IlpLimits'
<1> USE SinksAssumption DEF IlpLimits
<1>0. buffers \in [DOMAIN buffers -> Seq(Nat)] /\ ilpRows \in Nat
  BY DEF IlpInv, IlpTypes
<1>1. ASSUME NEW s \in Streams \ ObsStreams, QuestDb!write_stream_data(s) PROVE IlpLimits'
  <2> DEFINE old == IF s \in DOMAIN buffers THEN buffers[s] ELSE << >>
             line == Append(old, ilpRows + 1)
  <2>1. /\ ilpStage = "select" /\ UNCHANGED <<link, breaks>>
        /\ \/ /\ buffers' = QuestDb!Put(s, << >>) /\ attempts' = 0
           \/ /\ Len(line) < BATCH_SIZE /\ buffers' = QuestDb!Put(s, line)
              /\ UNCHANGED <<ilpStage, attempts>>
    <3>1. line \in Seq(Nat)
      BY <1>0
    <3>2. Len(line) \in Nat
      BY <3>1
    <3> HIDE DEF line
    <3>3. \/ Len(line) >= BATCH_SIZE /\ buffers' = QuestDb!Put(s, << >>) /\ attempts' = 0
          \/ /\ ~ (Len(line) >= BATCH_SIZE) /\ buffers' = QuestDb!Put(s, line)
             /\ UNCHANGED <<ilpStage, attempts>>
      BY <1>1 DEF QuestDb!write_stream_data, line
    <3>4. ilpStage = "select" /\ UNCHANGED <<link, breaks>>
      BY <1>1 DEF QuestDb!write_stream_data, QuestDb!netVars
    <3> QED
      BY <3>2, <3>3, <3>4
  <2> HIDE DEF line
  <2>2. Len(<< >>) = 0
    OBVIOUS
  <2>3. \A s2 \in DOMAIN buffers' : Len(buffers'[s2]) < BATCH_SIZE
    BY <2>1, <2>2 DEF QuestDb!Put
  <2> QED
    BY <2>1, <2>3
<1>2. ASSUME NEW s \in Streams \ ObsStreams, QuestDb!FlushStream(s) PROVE IlpLimits'
  <2>1. /\ s \in ilpTodo /\ buffers' = [buffers EXCEPT ![s] = << >>] /\ UNCHANGED <<link, breaks>>
        /\ (attempts' = attempts \/ attempts' = 0)
    BY <1>2 DEF QuestDb!FlushStream, QuestDb!serialize_and_clear, QuestDb!netVars
  <2>2. Len(<< >>) = 0
    OBVIOUS
  <2>3. \A s2 \in DOMAIN buffers' : Len(buffers'[s2]) < BATCH_SIZE
    BY <2>1, <2>2
  <2>4. (attempts' = attempts /\ ilpStage' = "flush") \/ attempts' = 0
    BY <1>2 DEF QuestDb!FlushStream
  <2> QED
    BY <2>1, <2>3, <2>4
<1>3. CASE QuestDb!Flushed
  <2>1. /\ ilpStage' \in {"done", "select"} /\ UNCHANGED <<attempts, link, breaks>>
        /\ buffers' = buffers \/ \E kept \in SUBSET DOMAIN buffers : buffers' = QuestDb!Restrict(buffers, kept)
    BY <1>3 DEF QuestDb!Flushed, QuestDb!netVars
  <2>2. \A s2 \in DOMAIN buffers' : Len(buffers'[s2]) < BATCH_SIZE
    BY <2>1 DEF QuestDb!Restrict
  <2> QED
    BY <2>1, <2>2
<1>4. CASE QuestDb!flush_all("tick") \/ QuestDb!flush_all("closed")
  BY <1>4 DEF QuestDb!flush_all, QuestDb!netVars
<1>9. ASSUME NEW how, NEW passed, QuestDb!End(how, passed)
      PROVE  /\ ilpStage' = how
             /\ DOMAIN buffers' = {} /\ \A s2 \in DOMAIN buffers' : Len(buffers'[s2]) < BATCH_SIZE
  BY <1>9 DEF QuestDb!End
<1>5. CASE QuestDb!ensure_connected
  <2>1. /\ link' \in {link, "up"} /\ UNCHANGED attempts
        /\ breaks' = breaks \/ (breaks < MaxBreaks /\ breaks' = breaks + 1)
        /\ QuestDb!End("failed", << >>) \/ UNCHANGED <<ilpStage, buffers>>
    BY <1>5 DEF QuestDb!ensure_connected, QuestDb!Continue
  <2>2. CASE QuestDb!End("failed", << >>)
    BY <1>9, <2>1, <2>2
  <2>3. CASE UNCHANGED <<ilpStage, buffers>>
    BY <2>1, <2>3
  <2> QED
    BY <2>1, <2>2, <2>3
<1>6. CASE QuestDb!Write \/ QuestDb!WriteIntoVoid
  <2>1. ilpStage' \in {"select", "flush"} /\ UNCHANGED <<buffers, attempts, link, breaks>>
    BY <1>6 DEF QuestDb!Write, QuestDb!WriteIntoVoid, QuestDb!Sent
  <2> QED
    BY <2>1
<1>7. CASE QuestDb!WriteFails
  <2>1. /\ ilpStage = "send" /\ link' = "none" /\ attempts' = attempts + 1
        /\ breaks' = breaks \/ (breaks < MaxBreaks /\ breaks' = breaks + 1)
        /\ \/ attempts' > MaxAttempts /\ QuestDb!End("failed", << >>)
           \/ ~ (attempts' > MaxAttempts) /\ UNCHANGED <<ilpStage, buffers>>
    BY <1>7 DEF QuestDb!WriteFails, QuestDb!Continue
  <2>2. CASE QuestDb!End("failed", << >>)
    BY <1>9, <2>1, <2>2
  <2>3. CASE ~ (attempts' > MaxAttempts) /\ UNCHANGED <<ilpStage, buffers>>
    BY <2>1, <2>3
  <2> QED
    BY <2>1, <2>2, <2>3
<1>8. CASE QuestDb!Read \/ QuestDb!Break
  BY <1>8 DEF QuestDb!Read, QuestDb!Break, QuestDb!taskVars
<1>10. CASE QuestDb!Stop
  <2>1. /\ ilpStage \in {"select", "flush", "send"} /\ UNCHANGED <<attempts, link, breaks>>
        /\ \E passed : QuestDb!End("stopped", passed)
    BY <1>10 DEF QuestDb!Stop
  <2> QED
    BY <1>9, <2>1
<1> QED
  BY <1>1, <1>2, <1>3, <1>4, <1>5, <1>6, <1>7, <1>8, <1>10 DEF QuestDb!Next

\* The steps of the user-data stream: what is remembered is cleared when it
\* has one entry too many.
LEMMA StreamLimitsStep == ASSUME StreamLimits, Stream!Next PROVE StreamLimits'
<1> USE AccountAssumption DEF StreamLimits
<1>1. ASSUME NEW t \in Trades, Stream!OrderTradeUpdate(t) PROVE StreamLimits'
  <2> DEFINE seen == seen_ortu \cup {t}
  <2>1. seen_ortu' = seen_ortu \/ seen_ortu' = Stream!Remember(seen)
    BY <1>1 DEF Stream!OrderTradeUpdate
  <2>2. IsFiniteSet(seen) /\ Cardinality(seen) \in Nat
    BY FS_AddElement, FS_CardinalityType
  <2>3. Stream!Cardinality(seen) = Cardinality(seen)
    BY DEF Stream!Cardinality, Cardinality
  <2>4. IsFiniteSet({}) /\ Cardinality({}) = 0
    BY FS_EmptySet
  <2> QED
    BY <2>1, <2>2, <2>3, <2>4 DEF Stream!Remember
<1>2. CASE Stream!End \/ Stream!OtherText \/ \E t \in Trades : Stream!TradeLite(t) \/ Stream!Wait(t)
  BY <1>2 DEF Stream!End, Stream!OtherText, Stream!TradeLite, Stream!Wait
<1> QED
  BY <1>1, <1>2 DEF Stream!Next

\* The steps of the history: trades are made at times the clock has shown.
LEMMA HistoryLimitsStep == ASSUME HistoryInv, HistoryLimits, History!Next PROVE HistoryLimits'
<1> USE AccountAssumption DEF HistoryLimits
<1>1. CASE History!Tick \/ History!Begin \/ History!FetchPage \/ History!FetchFails
  BY <1>1 DEF History!Tick, History!Begin, History!FetchPage, History!FetchFails, History!fetchVars
<1>2. CASE History!Trade
  BY <1>2 DEF History!Trade, History!fetchVars
<1> QED
  BY <1>1, <1>2 DEF History!Next

\* The other two.
LEMMA ApiLimitsStep == ASSUME ApiLimits, Api!Next PROVE ApiLimits'
  BY DEF ApiLimits, Api!Next, Api!Request, Api!FindConnection, Api!connect_ws_api,
    Api!StoreConnection, Api!InsertPending, Api!Send, Api!SendFails, Api!Timeout, Api!WriteNext,
    Api!WriterEnds, Api!ReadAnswer, Api!ReaderEnds, Api!Cut, Api!requestVars, Api!linkVars,
    Api!exchangeVars

LEMMA BreakerLimitsStep == ASSUME BreakerLimits, Breaker!Next PROVE BreakerLimits'
  BY BreakerAssumption DEF BreakerLimits, Breaker!Next, Breaker!Call, Breaker!ReadState,
    Breaker!CheckElapsed, Breaker!SwapTesting, Breaker!SetHalfOpen, Breaker!LoadTesting,
    Breaker!ResetCount, Breaker!Succeed, Breaker!Close, Breaker!CountFailure,
    Breaker!SetFailureTime, Breaker!Fail, Breaker!Trip, Breaker!breakerVars

\* A component that does not run keeps its limits.
LEMMA LimitsStep == Components /\ Limits /\ [Next]_vars => Limits'
<1> SUFFICES ASSUME Components, Limits, [Next]_vars PROVE Limits'
  OBVIOUS
<1> USE DEF Limits
<1>1. ParquetLimits'
  <2>1. CASE UNCHANGED parquetVars
    BY <2>1 DEF parquetVars, ParquetLimits
  <2>2. CASE RunParquet
    BY <2>2, ParquetLimitsStep DEF RunParquet, Components
  <2> QED
    BY <2>1, <2>2 DEF Next, vars, sinkVars, Only, RunQuestDb, RunApi, RunStream, RunHistory,
      RunBreaker, RunPosition
<1>2. IlpLimits'
  <2>1. CASE UNCHANGED questDbVars
    BY <2>1 DEF questDbVars, IlpLimits
  <2>2. CASE RunQuestDb
    BY <2>2, IlpLimitsStep DEF RunQuestDb, Components
  <2> QED
    BY <2>1, <2>2 DEF Next, vars, sinkVars, Only, RunParquet, RunApi, RunStream, RunHistory,
      RunBreaker, RunPosition
<1>3. ApiLimits'
  <2>1. CASE UNCHANGED apiVars
    BY <2>1 DEF apiVars, ApiLimits, Api!Links
  <2>2. CASE RunApi
    BY <2>2, ApiLimitsStep DEF RunApi
  <2> QED
    BY <2>1, <2>2 DEF Next, vars, accountVars, Only, RunParquet, RunQuestDb, RunStream,
      RunHistory, RunBreaker, RunPosition
<1>4. StreamLimits'
  <2>1. CASE UNCHANGED streamVars
    BY <2>1 DEF streamVars, StreamLimits
  <2>2. CASE RunStream
    BY <2>2, StreamLimitsStep DEF RunStream
  <2> QED
    BY <2>1, <2>2 DEF Next, vars, accountVars, Only, RunParquet, RunQuestDb, RunApi,
      RunHistory, RunBreaker, RunPosition
<1>5. HistoryLimits'
  <2>1. CASE UNCHANGED historyVars
    BY <2>1 DEF historyVars, HistoryLimits
  <2>2. CASE RunHistory
    BY <2>2, HistoryLimitsStep DEF RunHistory, Components
  <2> QED
    BY <2>1, <2>2 DEF Next, vars, accountVars, Only, RunParquet, RunQuestDb, RunApi,
      RunStream, RunBreaker, RunPosition
<1>6. BreakerLimits'
  <2>1. CASE UNCHANGED breakerVars
    BY <2>1 DEF breakerVars, BreakerLimits
  <2>2. CASE RunBreaker
    BY <2>2, BreakerLimitsStep DEF RunBreaker
  <2> QED
    BY <2>1, <2>2 DEF Next, vars, restVars, Only, RunParquet, RunQuestDb, RunApi, RunStream,
      RunHistory, RunPosition
<1> QED
  BY <1>1, <1>2, <1>3, <1>4, <1>5, <1>6

\* Every component keeps its types and its limits, for any value of them: in
\* particular no buffer of a sink exceeds a batch, send_bytes does not retry
\* more often than it may, seen_ortu is never left longer than its limit, and
\* average prices never have a zero denominator (multi_stream_sink.rs,
\* questdb.rs, binance_account.rs, circuit_breaker.rs, position.rs).
THEOREM StandaloneTypes == Spec => []TypeOK
<1>1. Init => Components /\ Limits
  BY LimitsInit, RowsInit, IlpInit, ApiInit, StreamInit, HistoryInit, BreakerInit, PositionInit
  DEF Components
<1>2. Components /\ Limits /\ [Next]_vars => Components' /\ Limits'
  BY LimitsStep, RowsStep, IlpStep, ApiStep, StreamStep, HistoryStep, BreakerStep, PositionStep
  DEF Components
<1>3. ASSUME Components, Limits PROVE TypeOK
  <2> USE <1>3 DEF Components, Limits
  <2>1. Parquet!TypeOK
    <3>1. \A s \in DOMAIN writers : Parquet!Cardinality(writers[s].buffer) <= BATCH_SIZE
      BY DEF RowsInv, Short, Parquet!Cardinality, Cardinality
    <3>2. \A s \in DOMAIN writers : writers[s].buffer \subseteq 1 .. rows
      BY DEF RowsInv, ParquetInv, ParquetTypes, Once
    <3>3. \A f \in DOMAIN files : f[1] \in Parquet!Keys
      BY DEF RowsInv, ParquetInv, ParquetTypes, FileNames
    <3> QED
      BY <3>1, <3>2, <3>3 DEF RowsInv, ParquetInv, ParquetTypes, Owned, Once, ParquetLimits, Parquet!TypeOK
  <2>2. QuestDb!TypeOK
    BY DEF IlpInv, IlpTypes, IlpLimits, QuestDb!TypeOK
  <2>3. Api!TypeOK
    BY DEF ApiInv, ApiTypes, ApiLimits, ApiSteps, Api!TypeOK
  <2>4. Stream!TypeOK
    BY DEF StreamInv, StreamTypes, StreamLimits, Stream!TypeOK, Stream!Cardinality, Cardinality
  <2>5. History!TypeOK
    BY DEF HistoryInv, HistoryTypes, HistoryLimits, History!TypeOK
  <2>6. Breaker!TypeOK
    BY DEF BreakerInv, BreakerTypes, BreakerLimits, Breaker!TypeOK
  <2>7. Pos!TypeOK
    BY DEF PositionInv, PositionTypes, Rational, Deal, Pos!TypeOK
  <2> QED
    BY <2>1, <2>2, <2>3, <2>4, <2>5, <2>6, <2>7 DEF TypeOK
<1> QED
  BY <1>1, <1>2, <1>3, PTL DEF Spec
=============================================================================
