--------------------------- MODULE MCFeeBumping ---------------------------
(* FeeBumping on a small instance. *)
EXTENDS FeeBumping

CONSTANTS t1, t2
=============================================================================
