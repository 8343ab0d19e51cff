---------------------------- MODULE MCLcDeferral ----------------------------
(* LcDeferral on a small instance. *)
EXTENDS LcDeferral

CONSTANTS deposit, withdrawal

TwoAndOne == [e \in Events |-> IF e = deposit THEN 2 ELSE 1]
=============================================================================
