---------------------------- MODULE MCWorkerWake ----------------------------
(* WorkerWake on small instances: a worker with a slot, or two.            *)
EXTENDS WorkerWake

CONSTANTS w1, w2, s1, s2

MCHome == [s \in Slot |-> IF s = s1 THEN w1 ELSE w2]
=============================================================================
