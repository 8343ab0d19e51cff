--------------------------- MODULE MCWorkerQueue ---------------------------
(* WorkerQueue on small instances: a transfer whose first event makes the  *)
(* worker publish a second one, which ingestion publishes as well.         *)
EXTENDS WorkerQueue, TLC

CONSTANTS init, sign, junk, t1, t2, w1, w2

Produced(e)  == IF e = init THEN {sign} \cap Events ELSE {}
TransferKey(e) == IF e = junk THEN t2 ELSE t1

TwoStages    == [e \in Events |-> Produced(e)]
TransferOf   == [e \in Events |-> TransferKey(e)]
Permits      == Permutations({w1, w2})
=============================================================================
