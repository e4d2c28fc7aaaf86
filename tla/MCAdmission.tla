---------------------------- MODULE MCAdmission ----------------------------
(* Admission on small instances.                                           *)
EXTENDS Admission, TLC

Symmetry == Permutations(Actor) \union Permutations(Request)
=============================================================================
