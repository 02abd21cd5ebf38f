-------------------------- MODULE MCTenantRotation --------------------------
(***************************************************************************)
(* Does the queue of ReplicaPool rotate between the tenants?  A history    *)
(* variable records which tenants were served while a call waits.  The     *)
(* behaviours are those of ReplicaPool in which nobody cancels, closes,    *)
(* asks for a replica by affinity or sets a deadline.                      *)
(***************************************************************************)
EXTENDS ReplicaPool

VARIABLE served   \* tenants admitted while a call waits

Symmetry == Permutations(Clients) \cup Permutations(Tenants)

RotationInit == Init /\ served = [c \in Threads |-> {}]

TenantOf(c) == waiters[Position(waiters, c)].tenant

\* Tenants admitted while c waits, since c's own tenant had a turn.
Record ==
    served' = [c \in Threads |->
                  IF \E d \in Threads : Admits(d) /\ pc[c] = "waiting"
                  THEN IF TenantOf(c) = lastTenant' THEN {}
                       ELSE served[c] \cup {lastTenant'}
                  ELSE IF pc[c] = "waiting" THEN served[c] ELSE {}]

RotationNext ==
    /\ \E c \in Clients :
          \/ \E t \in Tenants : \/ AcquireDirect(c, t, NoAffinity)
                                \/ AcquireQueued(c, t, NoAffinity, "none")
          \/ Poll(c)
          \/ Release(c)
    /\ Record

RotationSpec == RotationInit /\ [][RotationNext]_<<vars, served>>

\* docs/TEAM_GATEWAY.md:223: "The model queue rotates between tenant keys".
\* Until a waiting tenant has had its turn, no other tenant has two.
QueueRotatesBetweenTenants ==
    [][ \A c, d \in Threads :
           Admits(d) /\ pc[c] = "waiting" => lastTenant' \notin served[c]
      ]_<<vars, served>>

=============================================================================
