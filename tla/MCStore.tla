------------------------------ MODULE MCStore -------------------------------
(* Small instances of BitemporalStore: what TLC may permute. *)
EXTENDS BitemporalStore, TLC

Symmetry == Permutations(Uris) \cup Permutations(Scopes)
              \cup Permutations(Bodies) \cup Permutations(Writers)
=============================================================================
