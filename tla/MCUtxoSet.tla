----------------------------- MODULE MCUtxoSet -----------------------------
(* UtxoSet on a small instance. *)
EXTENDS UtxoSet

CONSTANTS o1, o2, o3, o4, t1, t2
=============================================================================
