---------------------------- MODULE MCSharedWork ----------------------------
(* SharedWork on small instances: a run for k2 may join k1.                 *)
EXTENDS SharedWork, TLC

CONSTANTS k1, k2

MCNested == {<<k2, k1>>, <<Beside, k1>>}
=============================================================================
