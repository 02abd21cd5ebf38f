--------------------------- MODULE LeaseAllocator ---------------------------
(***************************************************************************)
(* What a replica pool promises to the code that uses it: a replica has at *)
(* most one owner, it is granted only while the pool is open, it is taken  *)
(* back only by being returned, and when the pool reports that it is       *)
(* drained every replica is free for good.                                 *)
(***************************************************************************)
CONSTANTS Threads, Replicas, Nobody

VARIABLES owner,    \* who holds each replica
          open,     \* leases may be granted
          drained   \* somebody was told that no lease is or will be out

vars == <<owner, open, drained>>

AllFree == \A r \in Replicas : owner[r] = Nobody

Init == /\ owner = [r \in Replicas |-> Nobody]
        /\ open = TRUE
        /\ drained = FALSE

Grant(c, r) == /\ open
               /\ owner[r] = Nobody
               /\ owner' = [owner EXCEPT ![r] = c]
               /\ UNCHANGED <<open, drained>>

Return(r) == /\ owner[r] # Nobody
             /\ owner' = [owner EXCEPT ![r] = Nobody]
             /\ UNCHANGED <<open, drained>>

\* The pool stops granting; it may say so at once when nothing is out.
Shut == /\ open' = FALSE
        /\ drained' \in {drained, AllFree}
        /\ drained => drained'
        /\ UNCHANGED owner

Next == \/ \E c \in Threads, r \in Replicas : Grant(c, r)
        \/ \E r \in Replicas : Return(r)
        \/ Shut

Spec == Init /\ [][Next]_vars

=============================================================================
