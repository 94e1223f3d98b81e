-------------------------- MODULE MCReconciliation --------------------------
(***************************************************************************)
(* Small instances of Reconciliation: one attempt with two transactions,   *)
(* and one beside another that can never be settled, in runs of one row.   *)
(***************************************************************************)
EXTENDS Reconciliation

CONSTANTS p1, p2, t1, t2, c1, w1

PaysFirst == [t \in Transactions |-> p1]
=============================================================================
