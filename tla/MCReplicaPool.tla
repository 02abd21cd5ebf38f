--------------------------- MODULE MCReplicaPool ---------------------------
(* Model values and symmetry for ReplicaPool. *)
EXTENDS ReplicaPool

Symmetry == Permutations(Clients) \cup Permutations(Tenants)

=============================================================================
