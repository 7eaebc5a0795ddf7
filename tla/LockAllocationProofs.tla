------------------------ MODULE LockAllocationProofs ------------------------
(***************************************************************************)
(* Proofs about LockAllocation, for every set of owners, every lock order  *)
(* with a legal inclusion relation and every set of request lists.         *)
(***************************************************************************)
EXTENDS LockAllocation, TLAPS

\* The type requestType finds for an affected lock is that of some request.
LEMMA RequestTypeFound ==
  ASSUME NEW reqs \in SUBSET LockRequest, NEW l \in affected(reqs)
  PROVE  \E r \in reqs : /\ r.lock = l
                         /\ requestType(reqs, l) = r.type
                         /\ r.type \in RequestType
  BY Zenon DEF affected, requestType, LockRequest

\* applyRequests yields an allocation.
LEMMA ApplyTyped ==
  ASSUME NEW a \in Allocation, NEW o \in Owner,
         NEW reqs \in SUBSET LockRequest
  PROVE  applyRequests(o, reqs, a) \in Allocation
<1> DEFINE b == applyRequests(o, reqs, a)
<1>1. \A l \in affected(reqs) : requestType(reqs, l) \in RequestType
  BY Zenon, RequestTypeFound
<1>2. \A l \in affected(reqs) : grantedMode(requestType(reqs, l)) \in Mode
  BY Zenon, <1>1 DEF grantedMode, Mode, RequestType, OwnerState
<1>3. updateOwned(a.owned[o], reqs) \in [Lock -> Mode]
  BY Zenon, <1>2 DEF updateOwned, Allocation
<1>4. b.owned \in [Owner -> [Lock -> Mode]]
  BY Zenon, <1>3 DEF applyRequests, Allocation
<1>5. ASSUME NEW g \in Lock
      PROVE  updateLockState(o, g, a.locks[g], reqs) \in AllocationState
  <2> DEFINE s == a.locks[g]
  <2>1. s \in AllocationState
    BY Zenon DEF Allocation
  <2>2. \A t \in RequestType : /\ updateLock(o, s, t) \in AllocationState
                               /\ updateLock(o, s, t).indirect = s.indirect
    BY ZenonT(60), <2>1 DEF updateLock, AllocationState, RequestType, OwnerState
  <2>3. updateIndirects(o, g, s.indirect, reqs) \in [Lock -> [Owner -> Mode]]
    BY Zenon, <1>2, <2>1 DEF updateIndirects, AllocationState
  <2>4. QED
    BY Zenon, <1>1, <2>1, <2>2, <2>3 DEF updateLockState, AllocationState
<1>6. b.locks \in [Lock -> AllocationState]
  BY Zenon, <1>5 DEF applyRequests
<1>7. QED
  BY Zenon, <1>4, <1>6 DEF applyRequests, Allocation

\* What applyRequests does to the fields of the states and to the ownerships.
LEMMA ApplyFields ==
  ASSUME NEW a \in Allocation, NEW o \in Owner,
         NEW reqs \in SUBSET LockRequest, NEW l \in Lock
  PROVE  LET b == applyRequests(o, reqs, a)
             t == requestType(reqs, l)
         IN  /\ l \notin affected(reqs) =>
                  /\ b.locks[l].kind = a.locks[l].kind
                  /\ b.locks[l].owners = a.locks[l].owners
                  /\ b.owned[o][l] = a.owned[o][l]
             /\ l \in affected(reqs) =>
                  /\ b.locks[l].kind = updateLock(o, a.locks[l], t).kind
                  /\ b.locks[l].owners = updateLock(o, a.locks[l], t).owners
                  /\ b.owned[o][l] = grantedMode(t)
             /\ \A p \in Owner \ {o} : b.owned[p][l] = a.owned[p][l]
<1> DEFINE b == applyRequests(o, reqs, a)
           s == a.locks[l]
           t == requestType(reqs, l)
<1>1. s \in AllocationState
  BY Zenon DEF Allocation
<1>2. l \in affected(reqs) => updateLock(o, s, t) \in AllocationState
  <2>1. l \in affected(reqs) => t \in RequestType
    BY RequestTypeFound
  <2>2. QED
    BY Zenon, <1>1, <2>1 DEF updateLock, AllocationState, RequestType, OwnerState
<1>3. b.locks[l] = updateLockState(o, l, s, reqs)
  BY Zenon DEF applyRequests
<1>4. /\ l \notin affected(reqs) =>
           b.locks[l].kind = s.kind /\ b.locks[l].owners = s.owners
      /\ l \in affected(reqs) =>
           /\ b.locks[l].kind = updateLock(o, s, t).kind
           /\ b.locks[l].owners = updateLock(o, s, t).owners
  BY Zenon, <1>1, <1>2, <1>3 DEF updateLockState, AllocationState
<1>5. /\ b.owned[o] = updateOwned(a.owned[o], reqs)
      /\ \A p \in Owner \ {o} : b.owned[p] = a.owned[p]
  BY Zenon DEF applyRequests, Allocation
<1>6. QED
  BY Zenon, <1>4, <1>5 DEF updateOwned

\* An unblocked request leaves no one else in the state of an affected lock,
\* unless both the request and the state are shared.
LEMMA UnblockedOwners ==
  ASSUME NEW a \in Allocation, NEW o \in Owner,
         NEW reqs \in SUBSET LockRequest, blocked(o, reqs, a) = {},
         NEW r \in reqs, NEW p \in Owner \ {o}
  PROVE  /\ r.type = "exclusive" =>
              /\ p \notin a.locks[r.lock].owners
              /\ p \notin indirectOwners(a.locks[r.lock].indirect)
              /\ \A g \in lockImplications[r.lock] : p \notin a.locks[g].owners
         /\ r.type = "shared" =>
              /\ p \notin exclusiveOwners(a.locks[r.lock])
              /\ p \notin indirectExclusives(a.locks[r.lock].indirect)
              /\ \A g \in lockImplications[r.lock] :
                   p \notin exclusiveOwners(a.locks[g])
<1>1. p \notin requestBlocked(r, a)
  BY Zenon DEF blocked
<1>2. p \notin blockedOn(r, a)
  BY Zenon, <1>1 DEF requestBlocked
<1>3. \A g \in lockImplications[r.lock] : p \notin indirectBlocked(r.type, g, a)
  BY Zenon, <1>1 DEF requestBlocked
<1>4. QED
  BY Zenon, <1>2, <1>3 DEF blockedOn, indirectBlocked

\* Granting an unblocked request keeps the two associations consistent.
LEMMA ApplyFits ==
  ASSUME NEW a \in Allocation, NEW o \in Owner,
         NEW reqs \in SUBSET LockRequest,
         Fits(a), blocked(o, reqs, a) = {}
  PROVE  Fits(applyRequests(o, reqs, a))
<1> DEFINE b == applyRequests(o, reqs, a)
<1> SUFFICES ASSUME NEW l \in Lock
    PROVE /\ b.locks[l].kind = "Exclusive" =>
               \E p \in Owner : b.locks[l].owners = {p}
          /\ \A p \in Owner :
               b.owned[p][l] =
                 IF p \notin b.locks[l].owners THEN "none"
                 ELSE IF b.locks[l].kind = "Exclusive" THEN "exclusive"
                 ELSE "shared"
  BY Zenon DEF Fits
<1> DEFINE s == a.locks[l]
           t == requestType(reqs, l)
<1>1. /\ s \in AllocationState
      /\ s.kind = "Exclusive" => \E p \in Owner : s.owners = {p}
      /\ \A p \in Owner :
           a.owned[p][l] = IF p \notin s.owners THEN "none"
                           ELSE IF s.kind = "Exclusive" THEN "exclusive"
                           ELSE "shared"
  BY Zenon DEF Fits, Allocation
<1>2. CASE l \notin affected(reqs)
  BY <1>1, <1>2, ApplyFields
<1>3. CASE l \in affected(reqs)
  <2>1. PICK r \in reqs : r.lock = l /\ t = r.type /\ r.type \in RequestType
    BY Zenon, <1>3, RequestTypeFound
  <2>2. /\ b.locks[l].kind = updateLock(o, s, t).kind
        /\ b.locks[l].owners = updateLock(o, s, t).owners
        /\ b.owned[o][l] = grantedMode(t)
        /\ \A p \in Owner \ {o} : b.owned[p][l] = a.owned[p][l]
    BY <1>3, ApplyFields
  <2>3. CASE t = "exclusive"
    <3>1. s.owners \subseteq {o}
      BY Zenon, <2>1, <2>3, <1>1, UnblockedOwners DEF AllocationState
    <3>2. b.locks[l].kind = "Exclusive" /\ b.locks[l].owners = {o}
      BY Zenon, <2>2, <2>3, <1>1 DEF updateLock, AllocationState
    <3>3. QED
      BY Zenon, <3>1, <3>2, <2>2, <2>3, <1>1 DEF grantedMode
  <2>4. CASE t = "shared"
    <3>1. s.kind = "Exclusive" => s.owners \subseteq {o}
      BY Zenon, <2>1, <2>4, <1>1, UnblockedOwners DEF exclusiveOwners, AllocationState
    <3>2. b.locks[l].kind = "Shared" /\ b.locks[l].owners = s.owners \cup {o}
      BY ZenonT(60), <3>1, <2>2, <2>4, <1>1 DEF updateLock, AllocationState
    <3>3. QED
      BY Zenon, <3>1, <3>2, <2>2, <2>4, <1>1 DEF grantedMode
  <2>5. CASE t = "release"
    <3>1. CASE s.kind = "Exclusive" /\ s.owners # {o}
      <4>1. b.locks[l].kind = s.kind /\ b.locks[l].owners = s.owners
        BY Zenon, <3>1, <2>2, <2>5 DEF updateLock
      <4>2. o \notin s.owners
        BY Zenon, <3>1, <1>1
      <4>3. QED
        BY <4>1, <4>2, <2>2, <2>5, <1>1 DEF grantedMode
    <3>2. CASE ~(s.kind = "Exclusive" /\ s.owners # {o})
      <4>1. b.locks[l].kind = "Shared" /\ b.locks[l].owners = s.owners \ {o}
        BY ZenonT(60), <3>2, <2>2, <2>5, <1>1 DEF updateLock, AllocationState
      <4>2. QED
        BY <4>1, <3>2, <2>2, <2>5, <1>1 DEF grantedMode
    <3>3. QED
      BY Zenon, <3>1, <3>2
  <2>6. QED
    BY Zenon, <2>1, <2>3, <2>4, <2>5 DEF RequestType, OwnerState
<1>4. QED
  BY Zenon, <1>2, <1>3

\* Granting any request keeps the indirect ownerships exact.
LEMMA ApplyIndirectFits ==
  ASSUME NEW a \in Allocation, NEW o \in Owner,
         NEW reqs \in SUBSET LockRequest, IndirectFits(a)
  PROVE  IndirectFits(applyRequests(o, reqs, a))
<1> DEFINE b == applyRequests(o, reqs, a)
<1> SUFFICES ASSUME NEW g \in Lock, NEW l \in Lock, NEW p \in Owner
    PROVE b.locks[g].indirect[l][p] =
            IF g \in lockImplications[l] THEN b.owned[p][l] ELSE "none"
  BY Zenon DEF IndirectFits
<1>1. a.locks[g] \in AllocationState
  BY Zenon DEF Allocation
<1>2. b.locks[g].indirect = updateIndirects(o, g, a.locks[g].indirect, reqs)
  <2>1. g \in affected(reqs) =>
          LET u == updateLock(o, a.locks[g], requestType(reqs, g))
          IN  u \in AllocationState /\ u.indirect = a.locks[g].indirect
    <3>1. g \in affected(reqs) => requestType(reqs, g) \in RequestType
      BY Zenon, RequestTypeFound
    <3>2. QED
      BY Zenon, <1>1, <3>1 DEF updateLock, AllocationState, RequestType, OwnerState
  <2>2. b.locks[g] = updateLockState(o, g, a.locks[g], reqs)
    BY Zenon DEF applyRequests
  <2>3. QED
    BY Zenon, <1>1, <2>1, <2>2 DEF updateLockState, AllocationState
<1>3. a.locks[g].indirect \in [Lock -> [Owner -> Mode]]
  BY Zenon, <1>1 DEF AllocationState
<1>4. a.locks[g].indirect[l][p] =
        IF g \in lockImplications[l] THEN a.owned[p][l] ELSE "none"
  BY DEF IndirectFits
<1>5. b.locks[g].indirect[l][p] =
        IF l \in affected(reqs) /\ g \in lockImplications[l] /\ p = o
        THEN grantedMode(requestType(reqs, l))
        ELSE a.locks[g].indirect[l][p]
  BY <1>2, <1>3 DEF updateIndirects
<1>6. QED
  BY <1>4, <1>5, ApplyFields

\* Granting an unblocked request keeps exclusive locks exclusive.
LEMMA ApplyExcludes ==
  ASSUME NEW a \in Allocation, NEW o \in Owner,
         NEW reqs \in SUBSET LockRequest,
         Fits(a), IndirectFits(a), Excludes(a), blocked(o, reqs, a) = {}
  PROVE  Excludes(applyRequests(o, reqs, a))
<1> DEFINE b == applyRequests(o, reqs, a)
<1> SUFFICES ASSUME NEW p \in Owner, NEW q \in Owner,
                    NEW k \in Lock, NEW l \in Lock,
                    p # q, Related(k, l), b.owned[p][l] = "exclusive"
             PROVE  b.owned[q][k] = "none"
  BY DEF Excludes
<1>1. CASE p # o /\ q # o
  BY <1>1, ApplyFields DEF Excludes
<1>2. CASE p = o
  <2>1. b.owned[q][k] = a.owned[q][k]
    BY <1>2, ApplyFields
  <2>2. CASE l \notin affected(reqs)
    BY <1>2, <2>1, <2>2, ApplyFields DEF Excludes
  <2>3. CASE l \in affected(reqs)
    <3>1. PICK r \in reqs : r.lock = l /\ requestType(reqs, l) = r.type
      BY <2>3, RequestTypeFound
    <3>2. r.type = "exclusive"
      BY <1>2, <2>3, <3>1, ApplyFields DEF grantedMode
    <3>3. /\ q \notin a.locks[l].owners
          /\ q \notin indirectOwners(a.locks[l].indirect)
          /\ \A g \in lockImplications[l] : q \notin a.locks[g].owners
      BY ZenonT(60), <1>2, <3>1, <3>2, UnblockedOwners
    <3>4. k = l \/ k \in lockImplications[l] => a.owned[q][k] = "none"
      BY Zenon, <3>3 DEF Fits
    <3>5. l \in lockImplications[k] => a.owned[q][k] = "none"
      BY <3>3 DEF IndirectFits, indirectOwners
    <3>6. QED
      BY Zenon, <2>1, <3>4, <3>5 DEF Related
  <2>4. QED
    BY Zenon, <2>2, <2>3
<1>3. CASE q = o
  <2>1. a.owned[p][l] = "exclusive"
    BY <1>3, ApplyFields
  <2>2. CASE k \notin affected(reqs)
    BY <1>3, <2>1, <2>2, ApplyFields DEF Excludes
  <2>3. CASE k \in affected(reqs)
    <3>1. PICK r \in reqs : /\ r.lock = k
                            /\ requestType(reqs, k) = r.type
                            /\ r.type \in RequestType
      BY Zenon, <2>3, RequestTypeFound
    <3>2. /\ p \in a.locks[l].owners
          /\ p \in exclusiveOwners(a.locks[l])
      BY Zenon, <2>1 DEF Fits, exclusiveOwners
    <3>3. k \in lockImplications[l] =>
            /\ p \in indirectOwners(a.locks[k].indirect)
            /\ p \in indirectExclusives(a.locks[k].indirect)
      BY <2>1 DEF IndirectFits, indirectOwners, indirectExclusives
    <3>4. r.type # "exclusive" /\ r.type # "shared"
      BY <1>3, <3>1, <3>2, <3>3, UnblockedOwners DEF Related
    <3>5. QED
      BY <1>3, <2>3, <3>1, <3>4, ApplyFields
         DEF RequestType, OwnerState, grantedMode
  <2>4. QED
    BY Zenon, <2>2, <2>3
<1>4. QED
  BY Zenon, <1>1, <1>2, <1>3

-----------------------------------------------------------------------------
(***************************************************************************)
(* The inductive invariant.  Exclusion alone is not inductive: that a      *)
(* request is unblocked is judged by the owners and indirect ownerships    *)
(* kept with the locks, so these have to be exact.                         *)
(***************************************************************************)
GoodAllocation(a) == a \in Allocation /\ Fits(a) /\ IndirectFits(a) /\ Excludes(a)

\* updateLocks preserves the invariant, whatever the request.
LEMMA UpdateGood ==
  ASSUME NEW a, GoodAllocation(a), NEW o \in Owner,
         NEW reqs \in SUBSET LockRequest
  PROVE  GoodAllocation(updateLocks(o, reqs, a))
<1>1. CASE updateLocksResult(o, reqs, a) = Ok({})
  <2>1. blocked(o, reqs, a) = {}
    BY Zenon, <1>1 DEF updateLocksResult, Ok, Bad
  <2>2. GoodAllocation(applyRequests(o, reqs, a))
    BY Zenon, <2>1, ApplyTyped, ApplyFits, ApplyIndirectFits, ApplyExcludes
       DEF GoodAllocation
  <2>3. QED
    BY Zenon, <1>1, <2>2 DEF updateLocks
<1>2. CASE updateLocksResult(o, reqs, a) # Ok({})
  BY Zenon, <1>2 DEF updateLocks
<1>3. QED
  BY Zenon, <1>1, <1>2

\* The invariant holds of the allocation WConfd starts with.
LEMMA EmptyGood == GoodAllocation(emptyAllocation)
<1>1. NoIndirect \in [Lock -> [Owner -> Mode]]
  BY Zenon DEF NoIndirect, Mode
<1>2. emptyAllocation \in Allocation
  BY Zenon, <1>1 DEF emptyAllocation, Allocation, AllocationState, FreeLock, Mode
<1>3. Fits(emptyAllocation)
  BY Zenon DEF Fits, emptyAllocation, FreeLock
<1>4. IndirectFits(emptyAllocation)
  BY Zenon DEF IndirectFits, emptyAllocation, FreeLock, NoIndirect
<1>5. Excludes(emptyAllocation)
  BY Zenon DEF Excludes, emptyAllocation
<1>6. QED
  BY Zenon, <1>2, <1>3, <1>4, <1>5 DEF GoodAllocation

IInv == GoodAllocation(alloc)

\* The inductive invariant holds in every reachable state.
THEOREM AllocationInvariant == Spec => []IInv
<1>1. Init => IInv
  BY Zenon, EmptyGood DEF Init, IInv
<1>2. IInv /\ [Next]_alloc => IInv'
  <2> SUFFICES ASSUME IInv, [Next]_alloc PROVE IInv'
    BY Zenon
  <2>1. ASSUME NEW o \in Owner, UpdateLocks(o) PROVE IInv'
    <3>1. PICK reqs \in Requests : alloc' = updateLocks(o, reqs, alloc)
      BY Zenon, <2>1 DEF UpdateLocks
    <3>2. QED
      BY Zenon, <3>1, UpdateGood, RequestsAssumption DEF IInv
  <2>2. ASSUME NEW o \in Owner, FreeLocksPredicate(o) PROVE IInv'
    <3>1. PICK S \in SUBSET Lock : alloc' = freeLocksPredicate(S, o, alloc)
      BY Zenon, <2>2 DEF FreeLocksPredicate
    <3> DEFINE reqs == {[lock |-> l, type |-> "release"] :
                          l \in HeldLocks(o, alloc) \cap S}
    <3>2. reqs \in SUBSET LockRequest
      BY DEF HeldLocks, LockRequest, RequestType
    <3>3. alloc' = updateLocks(o, reqs, alloc)
      BY Zenon, <3>1 DEF freeLocksPredicate, manipulateLocksPredicate
    <3>4. QED
      BY Zenon, <3>2, <3>3, UpdateGood DEF IInv
  <2>3. CASE UNCHANGED alloc
    BY Zenon, <2>3 DEF IInv
  <2>4. QED
    BY Zenon, <2>1, <2>2, <2>3 DEF Next
<1>3. QED
  BY <1>1, <1>2, PTL DEF Spec

\* The state of a LockAllocation is well-formed and its parts fit together.
THEOREM AllocationFitsTogether == Spec => [](TypeOK /\ FitTogether)
<1>1. IInv => TypeOK /\ FitTogether
  BY Zenon DEF IInv, GoodAllocation, TypeOK, FitTogether
<1>2. QED
  BY <1>1, AllocationInvariant, PTL

\* Mutual exclusion across the lock hierarchy.
THEOREM MutualExclusion == Spec => []Exclusion
<1>1. IInv => Exclusion
  BY Zenon DEF IInv, GoodAllocation, Exclusion
<1>2. QED
  BY <1>1, AllocationInvariant, PTL

-----------------------------------------------------------------------------
(***************************************************************************)
(* Deadlock avoidance.                                                     *)
(***************************************************************************)

\* precedes is a strict order: what is contained in it has no circles.
THEOREM PrecedesStrict ==
  ASSUME NEW a \in Allocation
  PROVE  /\ \A o \in Owner : ~precedes(o, o, a)
         /\ \A o \in Owner, p \in Owner, q \in Owner :
              precedes(o, p, a) /\ precedes(p, q, a) => precedes(o, q, a)
<1>1. \A o \in Owner : Reach(o, a) \subseteq Nat
  BY Zenon, LockAssumption DEF Reach
<1>2. ASSUME NEW o \in Owner PROVE ~precedes(o, o, a)
  BY <1>1, LockAssumption DEF precedes
<1>3. ASSUME NEW o \in Owner, NEW p \in Owner, NEW q \in Owner,
             precedes(o, p, a), precedes(p, q, a)
      PROVE  precedes(o, q, a)
  <2>1. PICK l \in Lock : /\ \A k \in Reach(o, a) : k < l
                          /\ \E k \in Reach(p, a) : l <= k
    BY Zenon, <1>3 DEF precedes
  <2>2. PICK m \in Lock : /\ \A k \in Reach(p, a) : k < m
                          /\ \E k \in Reach(q, a) : m <= k
    BY Zenon, <1>3 DEF precedes
  <2>3. l < m
    BY <2>1, <2>2, <1>1, LockAssumption
  <2>4. \E k \in Reach(q, a) : l <= k
    BY <2>2, <2>3, <1>1, LockAssumption
  <2>5. QED
    BY Zenon, <2>1, <2>4 DEF precedes
<1>4. QED
  BY Zenon, <1>2, <1>3

\* Who blocks a request holds the lock, a group it belongs to or a member of
\* it; and holds that exclusively, if the request is for a shared lock.
LEMMA BlockerHolds ==
  ASSUME NEW a, GoodAllocation(a), NEW r \in LockRequest,
         NEW p \in requestBlocked(r, a)
  PROVE  /\ p \in Owner
         /\ r.type # "release"
         /\ \E x \in Lock : /\ Related(x, r.lock)
                            /\ a.owned[p][x] # "none"
                            /\ r.type = "shared" =>
                                 a.owned[p][x] = "exclusive"
<1> DEFINE l == r.lock
<1>1. /\ l \in Lock
      /\ r.type \in RequestType
      /\ lockImplications[l] \subseteq Lock
      /\ a \in Allocation
  BY Zenon, ImplicationAssumption DEF LockRequest, GoodAllocation
<1>2. /\ r.type # "release"
      /\ \/ p \in blockedOn(r, a)
         \/ \E g \in lockImplications[l] : p \in indirectBlocked(r.type, g, a)
  BY Zenon DEF requestBlocked, blockedOn, indirectBlocked
<1>3. \A x \in Lock : /\ a.locks[x].owners \subseteq Owner
                      /\ exclusiveOwners(a.locks[x]) \subseteq a.locks[x].owners
  BY Zenon, <1>1 DEF Allocation, AllocationState, exclusiveOwners
<1>4. \A x \in Lock, q \in Owner :
        /\ q \in a.locks[x].owners => a.owned[q][x] # "none"
        /\ q \in exclusiveOwners(a.locks[x]) => a.owned[q][x] = "exclusive"
  BY Zenon DEF GoodAllocation, Fits, exclusiveOwners
<1>5. CASE \E g \in lockImplications[l] : p \in indirectBlocked(r.type, g, a)
  <2>1. PICK g \in lockImplications[l] : p \in indirectBlocked(r.type, g, a)
    BY Zenon, <1>5
  <2>2. /\ p \in a.locks[g].owners
        /\ r.type = "shared" => p \in exclusiveOwners(a.locks[g])
    BY Zenon, <2>1, <1>1, <1>2, <1>3 DEF indirectBlocked, RequestType, OwnerState
  <2>3. QED
    BY Zenon, <2>2, <1>1, <1>2, <1>3, <1>4 DEF Related
<1>6. CASE p \in blockedOn(r, a)
  <2>1. CASE p \in a.locks[l].owners /\ (r.type = "shared" =>
                                           p \in exclusiveOwners(a.locks[l]))
    BY Zenon, <2>1, <1>1, <1>2, <1>3, <1>4 DEF Related
  <2>2. CASE /\ p \in indirectOwners(a.locks[l].indirect)
             /\ r.type = "shared" =>
                  p \in indirectExclusives(a.locks[l].indirect)
    <3>1. p \in Owner
      BY Zenon, <2>2 DEF indirectOwners
    <3>2. PICK x \in Lock : /\ a.locks[l].indirect[x][p] # "none"
                            /\ r.type = "shared" =>
                                 a.locks[l].indirect[x][p] = "exclusive"
      BY Zenon, <2>2 DEF indirectOwners, indirectExclusives
    <3>3. l \in lockImplications[x] /\ a.owned[p][x] = a.locks[l].indirect[x][p]
      BY Zenon, <3>1, <3>2, <1>1 DEF GoodAllocation, IndirectFits
    <3>4. QED
      BY Zenon, <3>1, <3>2, <3>3, <1>2 DEF Related
  <2>3. indirectExclusives(a.locks[l].indirect)
          \subseteq indirectOwners(a.locks[l].indirect)
    BY Zenon DEF indirectExclusives, indirectOwners
  <2>4. QED
    BY Zenon, <1>6, <2>1, <2>2, <2>3, <1>1, <1>2, <1>3
       DEF blockedOn, RequestType, OwnerState
<1>7. QED
  BY Zenon, <1>2, <1>5, <1>6

\* Locks related to a lock are related to every group of it.
LEMMA RelatedToGroup ==
  ASSUME NEW l \in Lock, NEW k \in {l} \cup lockImplications[l],
         NEW x \in Lock, Related(x, l)
  PROVE  k \in Lock /\ Related(x, k) /\ Related(k, x)
<1>1. k \in Lock
  BY Zenon, ImplicationAssumption
<1>2. CASE k = l
  BY Zenon, <1>2 DEF Related
<1>3. CASE k \in lockImplications[l] /\ x = l
  BY Zenon, <1>1, <1>3 DEF Related
<1>4. CASE k \in lockImplications[l] /\ l \in lockImplications[x]
  BY Zenon, <1>1, <1>4, ImplicationAssumption DEF Related
<1>5. CASE k \in lockImplications[l] /\ x \in lockImplications[l]
  <2>1. k < l /\ x < l /\ (k < x \/ x < k \/ k = x)
    BY <1>1, <1>5, ImplicationAssumption, LockAssumption
  <2>2. QED
    BY Zenon, <1>1, <1>5, <2>1, ImplicationAssumption DEF Related
<1>6. QED
  BY Zenon, <1>2, <1>3, <1>4, <1>5 DEF Related

\* A request is not blocked if its lock, or a group of it, is already held
\* exclusively, or is held in any mode and the request is for a shared lock.
LEMMA HolderNotBlocked ==
  ASSUME NEW a, GoodAllocation(a), NEW o \in Owner, NEW r \in LockRequest,
         NEW k \in {r.lock} \cup lockImplications[r.lock],
         \/ a.owned[o][k] = "exclusive"
         \/ a.owned[o][k] = "shared" /\ r.type = "shared",
         NEW p \in requestBlocked(r, a) \ {o}
  PROVE  FALSE
<1>1. r.lock \in Lock
  BY Zenon DEF LockRequest
<1>2. PICK x \in Lock : /\ p \in Owner
                        /\ Related(x, r.lock)
                        /\ a.owned[p][x] # "none"
                        /\ r.type = "shared" => a.owned[p][x] = "exclusive"
  BY BlockerHolds
<1>3. k \in Lock /\ Related(x, k) /\ Related(k, x)
  BY Zenon, <1>1, <1>2, RelatedToGroup
<1>4. QED
  BY Zenon, <1>2, <1>3 DEF GoodAllocation, Excludes

\* What an owner reaches lies below any lock it has to wait for.
LEMMA ReachBelow ==
  ASSUME NEW a, GoodAllocation(a), NEW o \in Owner,
         NEW reqs \in SUBSET LockRequest, ~badRequest(o, reqs, a),
         NEW r \in reqs, NEW p \in requestBlocked(r, a) \ {o},
         ~upgrade(o, r, a), NEW k \in Reach(o, a)
  PROVE  k < r.lock
<1> DEFINE l == r.lock
<1>1. /\ l \in Lock /\ k \in Lock /\ l \in Nat /\ k \in Nat
      /\ r \in LockRequest
      /\ r.type \in OwnerState
      /\ a \in Allocation
  BY Zenon, LockAssumption, BlockerHolds
     DEF Reach, LockRequest, RequestType, GoodAllocation
<1>2. PICK h \in {k} \cup lockImplications[k] : a.owned[o][h] # "none"
  BY Zenon DEF Reach
<1>3. /\ h \in Lock /\ h \in Nat /\ h <= k
      /\ a.owned[o][h] \in OwnerState
  BY <1>1, <1>2, ImplicationAssumption, LockAssumption DEF Allocation, Mode
<1>4. h \notin {l} \cup lockImplications[l]
  <2>1. SUFFICES ASSUME h \in {l} \cup lockImplications[l] PROVE FALSE
    BY Zenon
  <2>2. a.owned[o][h] = "shared" /\ r.type = "exclusive"
    BY Zenon, <1>1, <1>3, <2>1, HolderNotBlocked DEF OwnerState
  <2>3. h # l
    BY Zenon, <2>2 DEF upgrade
  <2>4. groupViolation(o, reqs, a)
    BY Zenon, <2>1, <2>2, <2>3 DEF groupViolation
  <2>5. QED
    BY Zenon, <2>4 DEF badRequest
<1>5. h < l
  <2>1. SUFFICES ASSUME l < h PROVE FALSE
    BY <1>1, <1>3, <1>4
  <2>2. h \in HeldLocks(o, a)
    BY Zenon, <1>2, <1>3 DEF HeldLocks
  <2>3. /\ r.type = "exclusive" => ~notHolding(o, l, {"exclusive"}, a)
        /\ r.type = "shared" => ~notHolding(o, l, OwnerState, a)
    BY Zenon, <2>1, <2>2 DEF badRequest, orderViolation
  <2>4. \E g \in {l} \cup lockImplications[l] :
          \/ a.owned[o][g] = "exclusive"
          \/ a.owned[o][g] = "shared" /\ r.type = "shared"
    BY Zenon, <1>1, <2>3 DEF notHolding, OwnerState
  <2>5. QED
    BY Zenon, <1>1, <2>4, HolderNotBlocked
<1>6. ~(l <= k)
  BY <1>1, <1>2, <1>3, <1>4, <1>5, ImplicationAssumption
<1>7. QED
  BY <1>1, <1>6

\* Who blocks a request reaches the lock requested, or one above it.
LEMMA BlockerReaches ==
  ASSUME NEW a, GoodAllocation(a), NEW r \in LockRequest,
         NEW p \in requestBlocked(r, a)
  PROVE  \E k \in Reach(p, a) : r.lock <= k
<1>1. PICK x \in Lock : Related(x, r.lock) /\ a.owned[p][x] # "none"
  BY Zenon, BlockerHolds
<1>2. PICK l \in Lock : l = r.lock
  BY Zenon DEF LockRequest
<1>3. CASE x = l \/ x \in lockImplications[l]
  <2>1. l \in Reach(p, a) /\ l <= l
    BY <1>1, <1>3, LockAssumption DEF Reach
  <2>2. QED
    BY Zenon, <1>2, <2>1
<1>4. CASE l \in lockImplications[x]
  <2>1. x \in Reach(p, a) /\ l <= x
    BY <1>1, <1>4, LockAssumption, ImplicationAssumption DEF Reach
  <2>2. QED
    BY Zenon, <1>2, <2>1
<1>5. QED
  BY Zenon, <1>1, <1>2, <1>3, <1>4 DEF Related

\* Who waits for a lock precedes whom it waits for, in every reachable state.
THEOREM DeadlockAvoidance == Spec => []BlockedOrdered
<1>1. IInv => BlockedOrdered
  <2> SUFFICES ASSUME IInv, NEW o \in Owner, NEW p \in Owner,
                      NEW reqs \in Requests, NEW r \in reqs,
                      ~badRequest(o, reqs, alloc),
                      p \in requestBlocked(r, alloc) \ {o},
                      ~upgrade(o, r, alloc)
               PROVE  precedes(o, p, alloc)
    BY Zenon DEF BlockedOrdered
  <2>1. reqs \in SUBSET LockRequest /\ r \in LockRequest /\ r.lock \in Lock
    BY Zenon, RequestsAssumption DEF LockRequest
  <2>2. \A k \in Reach(o, alloc) : k < r.lock
    BY Zenon, <2>1, ReachBelow DEF IInv
  <2>3. \E k \in Reach(p, alloc) : r.lock <= k
    BY Zenon, <2>1, BlockerReaches DEF IInv
  <2>4. QED
    BY Zenon, <2>1, <2>2, <2>3 DEF precedes
<1>2. QED
  BY <1>1, AllocationInvariant, PTL

=============================================================================
