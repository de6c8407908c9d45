---------------------------- MODULE MCH3Lookup ----------------------------
(* Instances of H3Lookup for TLC. *)
EXTENDS H3Lookup, TLC

Symmetry == Permutations(Lookup)
===========================================================================
