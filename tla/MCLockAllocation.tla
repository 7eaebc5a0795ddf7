-------------------------- MODULE MCLockAllocation --------------------------
(***************************************************************************)
(* Instance of LockAllocation: three owners and the lock hierarchy of the  *)
(* unit tests (test/hs/Test/Ganeti/Locking/Allocation.hs) cut to size: a   *)
(* lock that includes everything, a collection lock in it, and two locks   *)
(* of the collection.  Requests touch at most two locks.                   *)
(***************************************************************************)
EXTENDS LockAllocation

MCLock == 1..4

BigLock == 1
CollectionLock == 2

MCImplications ==
  [l \in MCLock |-> CASE l = BigLock        -> {}
                      [] l = CollectionLock -> {BigLock}
                      [] OTHER              -> {BigLock, CollectionLock}]

MCLockRequest == [lock : MCLock, type : {"shared", "exclusive", "release"}]

MCRequests ==
  {{}} \cup {{r, s} : r \in MCLockRequest, s \in MCLockRequest}

=============================================================================
