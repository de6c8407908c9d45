------------------------ MODULE MCMdnsResolverSet ------------------------
(* Instances of MdnsResolverSet for TLC. *)
EXTENDS MdnsResolverSet, TLC

(* Bindings, callers and the slots of a binding are interchangeable. *)
Symmetry == Permutations(Binding) \cup Permutations(Slot) \cup Permutations(Caller)
=============================================================================
