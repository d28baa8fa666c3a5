---------------------------- MODULE MCBlocklists ----------------------------
(* Instance of Blocklists for TLC.                                           *)
EXTENDS Blocklists, TLC

\* Custom lists and refreshes are interchangeable.
Symmetry == Permutations(Urls) \cup Permutations(Refreshes)
=============================================================================
