-------------------------- MODULE MCReconciliation --------------------------
(***************************************************************************)
(* Instances of Reconciliation: one ticker and up to four orders, enough   *)
(* for an entry, its stop, a re-entry and what ends it.                    *)
(***************************************************************************)
EXTENDS Reconciliation

CONSTANT A
============================================================================
