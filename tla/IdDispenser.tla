---------------------------- MODULE IdDispenser ----------------------------
(***************************************************************************)
(* What callers of xcommons::monoseq::next_id rely on, without threads,    *)
(* clocks or bit fields: a process is given ever greater ids, and never an *)
(* id that another running process holds. A process that restarts forgets  *)
(* what it was given; nothing is promised across that.                     *)
(***************************************************************************)
EXTENDS Naturals, Sequences

CONSTANTS Process, Id

VARIABLE given    \* the ids given to each process since it started, in order

Init == given = [p \in Process |-> << >>]

Give(p) ==
  \E id \in Id :
    /\ \A i \in DOMAIN given[p] : given[p][i] < id
    /\ \A q \in Process \ {p} : \A i \in DOMAIN given[q] : given[q][i] # id
    /\ given' = [given EXCEPT ![p] = Append(@, id)]

Forget(p) == given' = [given EXCEPT ![p] = << >>]

Next == \E p \in Process : Give(p) \/ Forget(p)

Spec == Init /\ [][Next]_given
=============================================================================
