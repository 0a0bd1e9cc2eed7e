--------------------------- MODULE NaiveMmClaims ---------------------------
(***************************************************************************)
(* What the documents and comments of the market maker say of it, and the  *)
(* code does not do.                                                       *)
(***************************************************************************)
EXTENDS MCNaiveMm

\* strategy.rs:347 "One-time cancel-all on first readiness", and
\* docs/naive_mm_strat.md:9: no order of this process is posted before the
\* orders of earlier ones have been asked to be cancelled.
StartsClean == cancel_all = "unsent" => \A s \in Side : posted[s] = 0

Settled(s) ==
  /\ \A id \in Own(s) : ~ Open(id) /\ id \notin posts \cup cancels
  /\ answers = {} /\ execs = << >> /\ positions = << >>

\* docs/naive_mm_strat.md:7 "if thereis no order for side (bid/ask), we post
\* order": a side with no order, of which nothing is under way, and below the
\* limit, is not left without one for ever.
Requotes ==
  \A s \in Side :
    Settled(s) /\ ~ AtLimit(s) /\ posted[s] \in 1 .. MaxOrders[s] - 1 ~> ~ Settled(s)
=============================================================================
