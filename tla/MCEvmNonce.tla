---------------------------- MODULE MCEvmNonce ----------------------------
(* EvmNonce on a small instance: two messages for the first of two chains. *)
EXTENDS EvmNonce

CONSTANTS m1, m2

FirstChain == [m \in Msgs |-> 1]
ZeroAndOne == <<0, 1>>
=============================================================================
