----------------------- MODULE MCSubscriptionManager -----------------------
(* Small instances of SubscriptionManager. *)
EXTENDS SubscriptionManager

Plan(venue, stream, chained, viaObs, viaArb) ==
  [sub |-> [venue |-> venue, stream |-> stream, chained |-> chained], obs |-> viaObs, arb |-> viaArb]

AllPlans == {
  Plan("binance", "L2", FALSE, FALSE, FALSE), Plan("binance", "Trade", FALSE, FALSE, FALSE),
  Plan("okx", "L2", TRUE, FALSE, FALSE), Plan("okx", "L2", FALSE, FALSE, FALSE),
  Plan("okx", "Trade", FALSE, FALSE, FALSE),
  Plan("deribit", "L2", FALSE, FALSE, FALSE), Plan("deribit", "Trade", FALSE, FALSE, FALSE),
  Plan("binance", "L2", FALSE, TRUE, FALSE),
  Plan("okx", "L2", FALSE, TRUE, TRUE), Plan("binance", "L2", FALSE, FALSE, TRUE),
  Plan("binance", "Trade", FALSE, FALSE, TRUE),
  Plan("okx", "L2", TRUE, FALSE, TRUE), Plan("okx", "Trade", FALSE, FALSE, TRUE) }

\* The third event removes the level of the first.
ThreeQuotes == <<
  [side |-> "Buy", price |-> 1, qty |-> 1],
  [side |-> "Sell", price |-> 2, qty |-> 1],
  [side |-> "Buy", price |-> 1, qty |-> 0] >>
=============================================================================
