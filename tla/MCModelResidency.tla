-------------------------- MODULE MCModelResidency --------------------------
(* Model values and symmetry for ModelResidency. *)
EXTENDS ModelResidency, TLC

Symmetry == Permutations(Requests) \cup Permutations(Entries)
                \cup Permutations(Configs)

=============================================================================
