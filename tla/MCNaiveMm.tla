----------------------------- MODULE MCNaiveMm -----------------------------
(* Small instances of NaiveMm. *)
EXTENDS NaiveMm, TLC

TwoBids == [s \in Side |-> IF s = "bid" THEN 2 ELSE 0]
Prices == Permutations(Price)
=============================================================================
