--------------------------- MODULE MCLockWaiting ---------------------------
(***************************************************************************)
(* Instances of LockWaiting: three owners, a group lock and its two        *)
(* members.                                                                *)
(***************************************************************************)
EXTENDS LockWaiting

MCLock == 1..3
MCImplications == [l \in MCLock |-> IF l = 1 THEN {} ELSE {1}]

Sh(l) == [lock |-> l, type |-> "shared"]
Ex(l) == [lock |-> l, type |-> "exclusive"]
Rel(l) == [lock |-> l, type |-> "release"]

(***************************************************************************)
(* Shared and exclusive requests for the group and for members, a request  *)
(* for two locks, and one that hands over a lock when it is granted.       *)
(***************************************************************************)
MCRequests == {{Sh(1)}, {Ex(1)}, {Sh(2), Sh(3)}, {Rel(2), Ex(3)}}

MCUnions == {{Sh(1), Ex(2)}, {Sh(2), Ex(2), Ex(3)}}

=============================================================================
