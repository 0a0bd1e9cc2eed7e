---------------------------- MODULE TradeHistory ----------------------------
(***************************************************************************)
(* src/src/exchanges/binance_account.rs, fetch_historical: the account's   *)
(* trades after a time, asked for in windows of seven days and, within a   *)
(* window, in pages; a full page goes on in the millisecond after its last *)
(* trade. Trades may be made meanwhile.                                    *)
(***************************************************************************)
EXTENDS Integers, Sequences, FiniteSets, SequencesExt, FiniteSetsExt

CONSTANTS
  From,            \* gt_ts / 1000
  WINDOW,          \* seven days in milliseconds
  LIMIT,           \* trades in a full page
  MaxTime, MaxTrades  \* bounds

VARIABLES
  clock,
  trades,          \* the time of each trade, by its number
  phase,           \* "before", "page", "done" or "failed"
  now_ms_all,      \* the clock when the fetch began
  window_start_ms, page_start,
  fetched,         \* the numbers of the trades fetched
  cutAt            \* milliseconds a full page ended in

vars == <<clock, trades, phase, now_ms_all, window_start_ms, page_start, fetched, cutAt>>
fetchVars == <<phase, now_ms_all, window_start_ms, page_start, fetched, cutAt>>

Init ==
  /\ clock = 1 /\ trades = << >> /\ phase = "before" /\ now_ms_all = 0
  /\ window_start_ms = 0 /\ page_start = 0 /\ fetched = << >> /\ cutAt = {}

Tick == clock < MaxTime /\ clock' = clock + 1 /\ UNCHANGED <<trades, fetchVars>>
Trade ==
  /\ Len(trades) < MaxTrades /\ trades' = Append(trades, clock) /\ UNCHANGED <<clock, fetchVars>>

\* The window loop is entered if there is time since `From` at all.
Begin ==
  /\ phase = "before" /\ now_ms_all' = clock /\ window_start_ms' = From + 1 /\ page_start' = From + 1
  /\ phase' = IF From + 1 <= clock THEN "page" ELSE "done"
  /\ UNCHANGED <<clock, trades, fetched, cutAt>>

window_end_ms == Min({window_start_ms + WINDOW - 1, now_ms_all})

\* userTrades returns the oldest trades of the range, at most LIMIT. Trades are
\* numbered as they are made, so that those of a range follow each other.
Earlier(time) == Cardinality({n \in 1 .. Len(trades) : trades[n] < time})
userTrades(from, to) ==
  LET skipped == Earlier(from)
  IN [i \in 1 .. Min({LIMIT, Earlier(to + 1) - skipped}) |-> skipped + i]

\* Mutant: the next page starts two milliseconds on.
NextPageSkips(page) == trades[Last(page)] + 2
NextPage(page) == trades[Last(page)] + 1
Continues(page) == Len(page) = LIMIT /\ NextPage(page) <= window_end_ms

FetchPage ==
  /\ phase = "page"
  /\ LET page == userTrades(page_start, window_end_ms)
     IN /\ fetched' = fetched \o page
        /\ cutAt' = IF Len(page) = LIMIT THEN cutAt \cup {trades[Last(page)]} ELSE cutAt
        /\ IF Continues(page) THEN page_start' = NextPage(page) /\ UNCHANGED <<window_start_ms, phase>>
           ELSE /\ window_start_ms' = window_end_ms + 1 /\ page_start' = window_end_ms + 1
                /\ phase' = IF window_end_ms < now_ms_all THEN "page" ELSE "done"
  /\ UNCHANGED <<clock, trades, now_ms_all>>

\* An error of any page fails the whole fetch.
FetchFails ==
  /\ phase = "page" /\ phase' = "failed" /\ fetched' = << >>
  /\ UNCHANGED <<clock, trades, now_ms_all, window_start_ms, page_start, cutAt>>

Next == Tick \/ Trade \/ Begin \/ FetchPage \/ FetchFails

Spec == Init /\ [][Next]_vars

(***************************************************************************)
(* Properties.                                                             *)
(***************************************************************************)
TypeOK ==
  /\ clock \in 1 .. MaxTime /\ trades \in Seq(1 .. MaxTime)
  /\ phase \in {"before", "page", "done", "failed"} /\ now_ms_all \in 0 .. MaxTime

\* A fetch returns the trades after `From` once each and in order. It misses
\* only trades of a millisecond that a full page ended in, and those made in
\* the very millisecond the fetch began.
HistoryComplete ==
  phase = "done" =>
    /\ \A i, j \in DOMAIN fetched : i < j => fetched[i] < fetched[j]
    /\ \A n \in DOMAIN trades :
         /\ n \in Range(fetched) => trades[n] \in From + 1 .. now_ms_all
         /\ trades[n] \in From + 1 .. now_ms_all =>
              n \in Range(fetched) \/ trades[n] \in cutAt \cup {now_ms_all}
=============================================================================
