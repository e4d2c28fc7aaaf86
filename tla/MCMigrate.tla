------------------------------ MODULE MCMigrate ------------------------------
(* Migrate with two releases: the newer one adds an entry below a key that   *)
(* the older one carries, and one above.                                     *)
EXTENDS Migrate, TLC

CONSTANTS older, newer

MCCarries == [release \in Release |-> IF release = older THEN {1, 3} ELSE {1, 2, 3, 4}]
=============================================================================
