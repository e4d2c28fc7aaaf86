------------------------------ MODULE MCRights ------------------------------
(* Rights with two releases: the newer one has entries between those of the  *)
(* older one and above, and adds a column to audit_events, in its CREATE and *)
(* as a repair.                                                              *)
EXTENDS Rights

CONSTANTS older, newer, seq, action, method

MCCarries == [release \in Release |-> IF release = older THEN {1, 2, 4} ELSE {1, 2, 3, 4, 5}]

MCColumns ==
  [release \in Release |-> IF release = older THEN {seq, action} ELSE {seq, action, method}]

MCAdds == [k \in Key |-> IF k = 5 THEN {method} ELSE {}]
=============================================================================
