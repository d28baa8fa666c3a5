---------------------------- MODULE MCHAPairing ----------------------------
(* Instance of HAPairing for TLC.                                            *)
EXTENDS HAPairing, TLC

\* Nodes, request ids and handlers are interchangeable.
Symmetry == Permutations(Nodes) \cup Permutations(Ids) \cup Permutations(Workers)
=============================================================================
