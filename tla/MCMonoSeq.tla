------------------------------ MODULE MCMonoSeq ------------------------------
(***************************************************************************)
(* Instances of MonoSeq: which process each thread belongs to, and the     *)
(* machine ids.                                                            *)
(***************************************************************************)
EXTENDS MonoSeq, TLC

CONSTANTS p1, p2, t1, t2, t3

OneProcess == (t1 :> p1) @@ (t2 :> p1)
TwoProcesses == (t1 :> p1) @@ (t2 :> p1) @@ (t3 :> p2)

OneMachine == (p1 :> 1)
TwoMachines == (p1 :> 1) @@ (p2 :> 0)
=============================================================================
