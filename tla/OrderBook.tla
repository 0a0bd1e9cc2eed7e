----------------------------- MODULE OrderBook -----------------------------
(***************************************************************************)
(* src/src/md/orderbook.rs: the book of one market. Each side maps prices  *)
(* to quantities; an update with quantity 0 removes its level. Prices and  *)
(* quantities are naturals.                                                *)
(***************************************************************************)
EXTENDS Integers, FiniteSets, Functions

NoMarket == "unknown"
New == [bids |-> << >>, asks |-> << >>, last |-> 0, market |-> NoMarket]

SetLevel(side, u) ==
  IF u.qty = 0 THEN Restrict(side, DOMAIN side \ {u.price})
  ELSE [p \in DOMAIN side \cup {u.price} |-> IF p = u.price THEN u.qty ELSE side[p]]

\* Mutant: only the update before the last is outdated.
OutdatedByFar(b, u) == u.id + 2 < b.last
Outdated(b, u) == u.id < b.last

\* The first update fixes the market; one of another market fails. An update
\* older than the last one is skipped; one with the same id is applied, since
\* a message has one update per level.
Apply(b, u) ==
  LET m == [b EXCEPT !.market = u.market]
  IN IF b.market \notin {NoMarket, u.market} \/ Outdated(b, u)
     THEN IF b.market = NoMarket THEN m ELSE b
     ELSE IF u.side = "Buy" THEN [m EXCEPT !.bids = SetLevel(@, u), !.last = u.id]
     ELSE [m EXCEPT !.asks = SetLevel(@, u), !.last = u.id]

TopBids(b, n) ==
  Restrict(b.bids, {p \in DOMAIN b.bids : Cardinality({q \in DOMAIN b.bids : q > p}) < n})
TopAsks(b, n) ==
  Restrict(b.asks, {p \in DOMAIN b.asks : Cardinality({q \in DOMAIN b.asks : q < p}) < n})
=============================================================================
