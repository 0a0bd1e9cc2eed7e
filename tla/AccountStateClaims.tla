------------------------- MODULE AccountStateClaims -------------------------
(***************************************************************************)
(* What docs/trade_account.md and docs/ACCOUNT_STATE_DISCONNECTS.md say of *)
(* the pipeline of AccountState and the code does not do. Each claim is    *)
(* refuted by a run of its own.                                            *)
(***************************************************************************)
EXTENDS AccountState

(***************************************************************************)
(* trade_account.md:25 and :37: positions are tracked with exactly-once    *)
(* semantics, and idempotent inserts prevent a double apply across the     *)
(* stream and REST. An execution that the first backfill persisted and the *)
(* replay applied may still be on the wire when the buffer is drained.     *)
(***************************************************************************)
ExactlyOnce == \A e \in Exec : AppliedOnce(e)

(***************************************************************************)
(* ACCOUNT_STATE_DISCONNECTS.md:72: executions missed while disconnected   *)
(* are covered by the REST backfill. One made between the backfill of a    *)
(* restore and the new subscription is in neither, and is out of reach of  *)
(* every later backfill once a later execution is persisted.               *)
(***************************************************************************)
DisconnectsCovered ==
  pc = "loop" =>
    \A e \in gap \ (unsaved \cup overtaken) : Passed(e, db) => e \in db \/ Tied(e)
=============================================================================
