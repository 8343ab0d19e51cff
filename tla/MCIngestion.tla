---------------------------- MODULE MCIngestion ----------------------------
(* Ingestion on small instances. *)
EXTENDS Ingestion

Event(kind, tx, index) == [kind |-> kind, tx |-> tx, index |-> index]

Starknet == {Event("starknet", 1, 0), Event("starknet", 1, 1)}
Mixed    == {Event("toUtxo", 1, 0), Event("evm", 1, 1), Event("starknet", 1, 0)}
Broken   == {Event("evm", 1, 1)}
Garbage  == {Event("starknet", 1, 0)}
=============================================================================
