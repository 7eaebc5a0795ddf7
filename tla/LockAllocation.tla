--------------------------- MODULE LockAllocation ---------------------------
(***************************************************************************)
(* The lock allocation of WConfd (src/Ganeti/Locking/Allocation.hs).       *)
(*                                                                         *)
(* A LockAllocation keeps two associations "with the invariant that they   *)
(* fit together": from locks to their allocation state and from owners to  *)
(* the locks they own.  A group lock (say, all nodes) also keeps the       *)
(* indirect ownerships: who owns which of the locks it includes.           *)
(*                                                                         *)
(* Locks and owners are numbers, because the code uses their order.  An    *)
(* absent map entry is a default value: "none" for an ownership,           *)
(* FreeLock for an allocation state (the code deletes the entry            *)
(* `Shared S.empty M.empty`, and treats it like an absent one).  A list    *)
(* of requests is a set, as its order and repetitions have no effect:      *)
(* requests that touch the same lock differently are rejected.             *)
(***************************************************************************)
EXTENDS Integers, FiniteSets

CONSTANTS Owner,            \* the clients that can own locks
          Lock,             \* the locks; < is the lock order
          lockImplications, \* the group locks each lock is included in
          Requests          \* the request lists that clients send

ASSUME OwnerAssumption == Owner \subseteq Nat

ASSUME LockAssumption == Lock \subseteq Nat

(***************************************************************************)
(* The prerequisite of the type class Lock (Locking/Types.hs) and the      *)
(* restrictions of doc/design-daemons.rst: a group lock comes before its   *)
(* members, and all locks between the group lock and a member of the group *)
(* also belong to the group.  Being included in is transitive.             *)
(***************************************************************************)
ASSUME ImplicationAssumption ==
  /\ lockImplications \in [Lock -> SUBSET Lock]
  /\ \A m \in Lock : \A g \in lockImplications[m] :
       /\ g < m
       /\ \A k \in Lock : g < k /\ k < m => g \in lockImplications[k]
       /\ lockImplications[g] \subseteq lockImplications[m]

OwnerState == {"shared", "exclusive"}
Mode == OwnerState \cup {"none"}
RequestType == OwnerState \cup {"release"}

LockRequest == [lock : Lock, type : RequestType]

ASSUME RequestsAssumption == Requests \subseteq SUBSET LockRequest

AllocationState == [kind : {"Exclusive", "Shared"},
                    owners : SUBSET Owner,
                    indirect : [Lock -> [Owner -> Mode]]]

Allocation == [locks : [Lock -> AllocationState],
               owned : [Owner -> [Lock -> Mode]]]

NoIndirect == [l \in Lock |-> [o \in Owner |-> "none"]]

FreeLock == [kind |-> "Shared", owners |-> {}, indirect |-> NoIndirect]

emptyAllocation == [locks |-> [l \in Lock |-> FreeLock],
                    owned |-> [o \in Owner |-> [l \in Lock |-> "none"]]]

listLocks(o, a) == a.owned[o]

HeldLocks(o, a) == {l \in Lock : a.owned[o][l] # "none"}

lockOwners(a) == {o \in Owner : HeldLocks(o, a) # {}}

\* At the given level or higher.
holdsLock(o, l, s, a) ==
  a.owned[o][l] \in (IF s = "shared" THEN OwnerState ELSE {"exclusive"})

-----------------------------------------------------------------------------
(***************************************************************************)
(* The checks of updateLocks, in the order the code makes them.            *)
(***************************************************************************)

inconsistentRequests(reqs) ==
  \E r \in reqs, s \in reqs : r # s /\ r.lock = s.lock

(***************************************************************************)
(* "Order violation: requesting l while holding highest": a request below  *)
(* the highest lock held, unless the lock or one of its groups is already  *)
(* held at the level that makes the request harmless.                      *)
(***************************************************************************)
notHolding(o, l, modes, a) ==
  \A k \in {l} \cup lockImplications[l] : a.owned[o][k] \notin modes

orderViolation(o, reqs, a) ==
  \E r \in reqs :
    /\ \E h \in HeldLocks(o, a) : r.lock < h
    /\ \/ r.type = "exclusive" /\ notHolding(o, r.lock, {"exclusive"}, a)
       \/ r.type = "shared" /\ notHolding(o, r.lock, OwnerState, a)

\* Mutant: a group requested along with its member counts as held.
groupViolationInRequest(o, reqs, a) ==
  \E r \in reqs :
    /\ r.type = "exclusive"
    /\ \E g \in lockImplications[r.lock] :
         a.owned[o][g] = "shared" \/ [lock |-> g, type |-> "shared"] \in reqs

\* Requesting a lock exclusively while holding a shared lock on its group.
groupViolation(o, reqs, a) ==
  \E r \in reqs :
    /\ r.type = "exclusive"
    /\ \E g \in lockImplications[r.lock] : a.owned[o][g] = "shared"

\* Mutant: the group check is forgotten.
badRequestNoGroups(o, reqs, a) ==
  inconsistentRequests(reqs) \/ orderViolation(o, reqs, a)

badRequest(o, reqs, a) ==
  \/ inconsistentRequests(reqs)
  \/ orderViolation(o, reqs, a)
  \/ groupViolation(o, reqs, a)

-----------------------------------------------------------------------------
(***************************************************************************)
(* Whom a request is blocked on.                                           *)
(***************************************************************************)

indirectOwners(i) == {o \in Owner : \E l \in Lock : i[l][o] # "none"}

indirectExclusives(i) ==
  {o \in Owner : \E l \in Lock : i[l][o] = "exclusive"}

exclusiveOwners(s) == IF s.kind = "Exclusive" THEN s.owners ELSE {}

\* Mutant: a shared request overlooks the exclusive owners of members.
blockedOnNoIndirect(r, a) ==
  LET s == a.locks[r.lock]
  IN  CASE r.type = "release"   -> {}
        [] r.type = "exclusive" -> s.owners \cup indirectOwners(s.indirect)
        [] r.type = "shared"    -> exclusiveOwners(s)

blockedOn(r, a) ==
  LET s == a.locks[r.lock]
  IN  CASE r.type = "release"   -> {}
        [] r.type = "exclusive" -> s.owners \cup indirectOwners(s.indirect)
        [] r.type = "shared"    -> exclusiveOwners(s)
                                     \cup indirectExclusives(s.indirect)

indirectBlocked(t, g, a) ==
  CASE t = "release"   -> {}
    [] t = "exclusive" -> a.locks[g].owners
    [] t = "shared"    -> exclusiveOwners(a.locks[g])

requestBlocked(r, a) ==
  blockedOn(r, a)
    \cup UNION {indirectBlocked(r.type, g, a) : g \in lockImplications[r.lock]}

blocked(o, reqs, a) == (UNION {requestBlocked(r, a) : r \in reqs}) \ {o}

-----------------------------------------------------------------------------
(***************************************************************************)
(* The update itself.  The requests affect different locks, so the folds   *)
(* over the list are one simultaneous update.                              *)
(***************************************************************************)

affected(reqs) == {r.lock : r \in reqs}

requestType(reqs, l) == (CHOOSE r \in reqs : r.lock = l).type

grantedMode(t) == IF t = "release" THEN "none" ELSE t

\* updateLock, on the allocation state of the lock.
updateLock(o, s, t) ==
  CASE t = "exclusive" -> [s EXCEPT !.kind = "Exclusive", !.owners = {o}]
    [] t = "shared" ->
         [s EXCEPT !.kind = "Shared",
                   !.owners = IF s.kind = "Exclusive" THEN {o}
                                                      ELSE @ \cup {o}]
    [] t = "release" ->
         IF s.kind = "Exclusive" /\ s.owners # {o}
         THEN s
         ELSE [s EXCEPT !.kind = "Shared", !.owners = @ \ {o}]

\* updateLock, on the locks owned by the requestor.
updateOwned(owned, reqs) ==
  [l \in Lock |-> IF l \in affected(reqs)
                  THEN grantedMode(requestType(reqs, l))
                  ELSE owned[l]]

\* Mutant: a release leaves the indirect ownership behind.
updateIndirectsNoDelete(o, g, i, reqs) ==
  [l \in Lock |-> IF /\ l \in affected(reqs)
                     /\ g \in lockImplications[l]
                     /\ requestType(reqs, l) # "release"
                  THEN [i[l] EXCEPT ![o] = requestType(reqs, l)]
                  ELSE i[l]]

\* The indirect ownerships of g: M.insert or M.delete of (lock, owner).
updateIndirects(o, g, i, reqs) ==
  [l \in Lock |-> IF l \in affected(reqs) /\ g \in lockImplications[l]
                  THEN [i[l] EXCEPT ![o] = grantedMode(requestType(reqs, l))]
                  ELSE i[l]]

updateLockState(o, g, s, reqs) ==
  LET t == IF g \in affected(reqs)
           THEN updateLock(o, s, requestType(reqs, g))
           ELSE s
  IN  [t EXCEPT !.indirect = updateIndirects(o, g, @, reqs)]

applyRequests(o, reqs, a) ==
  [locks |-> [g \in Lock |-> updateLockState(o, g, a.locks[g], reqs)],
   owned |-> [a.owned EXCEPT ![o] = updateOwned(@, reqs)]]

(***************************************************************************)
(* updateLocks: the answer is Bad, or Ok with the owners the request is    *)
(* blocked on; the state changes only on Ok with no blocker.               *)
(***************************************************************************)
Bad == [ok |-> FALSE, blocked |-> {}]
Ok(b) == [ok |-> TRUE, blocked |-> b]

updateLocksResult(o, reqs, a) ==
  IF badRequest(o, reqs, a) THEN Bad ELSE Ok(blocked(o, reqs, a))

updateLocks(o, reqs, a) ==
  IF updateLocksResult(o, reqs, a) = Ok({})
  THEN applyRequests(o, reqs, a)
  ELSE a

manipulateLocksPredicate(t, S, o, a) ==
  updateLocks(o, {[lock |-> l, type |-> t] : l \in HeldLocks(o, a) \cap S}, a)

freeLocksPredicate(S, o, a) == manipulateLocksPredicate("release", S, o, a)

-----------------------------------------------------------------------------
VARIABLE alloc

Init == alloc = emptyAllocation

UpdateLocks(o) ==
  \E reqs \in Requests : alloc' = updateLocks(o, reqs, alloc)

FreeLocksPredicate(o) ==
  \E S \in SUBSET Lock : alloc' = freeLocksPredicate(S, o, alloc)

Next == \E o \in Owner : UpdateLocks(o) \/ FreeLocksPredicate(o)

Spec == Init /\ [][Next]_alloc

-----------------------------------------------------------------------------
(***************************************************************************)
(* The owners that the state of a lock names are the owners that own it,   *)
(* in that mode, and an exclusive state names a single owner.              *)
(***************************************************************************)
Fits(a) ==
  \A l \in Lock :
    /\ a.locks[l].kind = "Exclusive" => \E o \in Owner : a.locks[l].owners = {o}
    /\ \A o \in Owner :
         a.owned[o][l] = IF o \notin a.locks[l].owners THEN "none"
                         ELSE IF a.locks[l].kind = "Exclusive" THEN "exclusive"
                         ELSE "shared"

IndirectFits(a) ==
  \A g \in Lock, l \in Lock, o \in Owner :
    a.locks[g].indirect[l][o] =
      IF g \in lockImplications[l] THEN a.owned[o][l] ELSE "none"

Related(k, l) == k = l \/ k \in lockImplications[l] \/ l \in lockImplications[k]

Excludes(a) ==
  \A o \in Owner, p \in Owner, k \in Lock, l \in Lock :
    o # p /\ Related(k, l) /\ a.owned[o][l] = "exclusive"
      => a.owned[p][k] = "none"

\* Type correctness of the allocation that updateLocks yields.
TypeOK == alloc \in Allocation

(***************************************************************************)
(* The two associations of a LockAllocation "fit together", as the comment *)
(* on the data type demands: after any sequence of updateLocks and         *)
(* freeLocksPredicate the state of every lock names exactly the owners     *)
(* that hold it, in the mode they hold it, and the indirect ownerships it  *)
(* keeps are exactly the ownerships of the locks included in it: no stale  *)
(* entry survives a release or a downgrade, none is missing.               *)
(***************************************************************************)
FitTogether == Fits(alloc) /\ IndirectFits(alloc)

(***************************************************************************)
(* Mutual exclusion across the hierarchy: while an owner holds a lock      *)
(* exclusively, no one else holds it, a group it belongs to, or a lock     *)
(* that belongs to it, in any mode.                                        *)
(***************************************************************************)
Exclusion == Excludes(alloc)

(***************************************************************************)
(* Deadlock avoidance.  An owner reaches the locks it holds and all locks  *)
(* included in those.  An owner precedes another one if some lock lies     *)
(* above all the first one reaches, but not above all the second one       *)
(* reaches.  This is a strict order on the owners.                         *)
(***************************************************************************)
Reach(o, a) ==
  {l \in Lock : \E h \in {l} \cup lockImplications[l] : a.owned[o][h] # "none"}

precedes(o, p, a) ==
  \E l \in Lock : /\ \A k \in Reach(o, a) : k < l
                  /\ \E k \in Reach(p, a) : l <= k

\* Asking exclusively for a lock that the owner already holds shared.
upgrade(o, r, a) == r.type = "exclusive" /\ a.owned[o][r.lock] = "shared"

(***************************************************************************)
(* The lock order does its job: an owner whose request is accepted but has *)
(* to wait for another owner precedes that owner, unless it waits for an   *)
(* upgrade.  So owners can not wait for one another in a circle, however   *)
(* many there are and through whatever group locks they block each other.  *)
(***************************************************************************)
BlockedOrdered ==
  \A o \in Owner, p \in Owner, reqs \in Requests : \A r \in reqs :
    /\ ~badRequest(o, reqs, alloc)
    /\ p \in requestBlocked(r, alloc) \ {o}
    /\ ~upgrade(o, r, alloc)
    => precedes(o, p, alloc)

=============================================================================
