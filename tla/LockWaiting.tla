---------------------------- MODULE LockWaiting ----------------------------
(***************************************************************************)
(* Pending lock requests (src/Ganeti/Locking/Waiting.hs) and the lock      *)
(* operations WConfd offers on top of them (src/Ganeti/WConfd/Core.hs).    *)
(*                                                                         *)
(* A request that cannot be granted is queued under one of the owners it   *)
(* is blocked on, the smallest, and is looked at again only when that      *)
(* owner acts.  Every operation is one atomic modification of the waiting  *)
(* structure (modifyLockWaiting uses atomicModifyIORef), and answers with  *)
(* a result and the set of owners to notify.                               *)
(*                                                                         *)
(* The client's side is the variable asleep: the owners that were told     *)
(* that they are blocked and have not been notified since.                 *)
(***************************************************************************)
EXTENDS Integers, FiniteSets, Sequences, SequencesExt

CONSTANTS Owner, Lock, lockImplications, Requests,
          Priority,      \* the smallest number is the most important one
          Unions,        \* the lists opportunisticLockUnion is called with
          Subsets        \* the sets of locks that the free operations select

VARIABLES lw,            \* the LockWaiting structure
          asleep

vars == <<lw, asleep>>

L == INSTANCE LockAllocation WITH alloc <- lw.allocation

Entry == [prio : Priority, owner : Owner, reqs : SUBSET L!LockRequest]

\* lwPendingOwners is a map; lwPending maps owners without a queue to {}.
emptyWaiting == [allocation    |-> L!emptyAllocation,
                 pending       |-> [o \in Owner |-> {}],
                 pendingOwners |-> <<>>]

getPendingOwners(s) == DOMAIN s.pendingOwners

hasPendingRequest(o, s) == o \in getPendingOwners(s)

getPendingRequests(s) == UNION Range(s.pending)

extRepr(s) == <<s.allocation, getPendingRequests(s)>>

Delete(m, keys) == Restrict(m, DOMAIN m \ keys)

\* The order of the triples (priority, owner, request).
InOrder(entries) ==
  SetToSortSeq(entries, LAMBDA e, f : \/ e.prio < f.prio
                                      \/ e.prio = f.prio /\ e.owner < f.owner)

-----------------------------------------------------------------------------
(***************************************************************************)
(* The mutually recursive core.  An Answer is the new state, the result    *)
(* and the owners to notify.                                               *)
(***************************************************************************)
Answer(s, result, notify) ==
  [state |-> s, result |-> result, notify |-> notify]

RECURSIVE revisitRequests(_, _, _)
RECURSIVE updateLocksCore(_, _, _)
RECURSIVE updateLocksWaitingCore(_, _, _, _)

tryFulfillRequest(acc, e) ==
  LET answer == updateLocksWaitingCore(e.prio, e.owner, e.reqs, acc.state)
  IN  [state |-> answer.state, notify |-> acc.notify \cup answer.notify]

revisitRequests(notify, todo, s) ==
  LET requests == UNION {s.pending[o] : o \in todo}
      dequeued == [s EXCEPT
                     !.pending = [o \in Owner |-> IF o \in todo THEN {}
                                                                ELSE @[o]],
                     !.pendingOwners = Delete(@, {e.owner : e \in requests})]
      folded == FoldLeft(tryFulfillRequest,
                         [state |-> dequeued, notify |-> notify],
                         InOrder(requests))
      done == notify \cup todo
  IN  IF todo = {}
      THEN [visited |-> notify, state |-> s]
      ELSE revisitRequests(done, folded.notify \ done, folded.state)

\* Mutant: pending requests are not looked at again.
updateLocksCoreNoRevisit(o, reqs, s) ==
  LET result == L!updateLocksResult(o, reqs, s.allocation)
  IN  IF hasPendingRequest(o, s)
      THEN Answer(s, L!Bad, {})
      ELSE Answer([s EXCEPT !.allocation = L!updateLocks(o, reqs, @)],
                  result, {})

\* Mutant: the owners to notify are compared with the old pending owners.
updateLocksCoreOldPending(o, reqs, s) ==
  LET result == L!updateLocksResult(o, reqs, s.allocation)
      updated == [s EXCEPT !.allocation = L!updateLocks(o, reqs, @)]
  IN  IF hasPendingRequest(o, s)
      THEN Answer(s, L!Bad, {})
      ELSE IF result # L!Ok({})
      THEN Answer(s, result, {})
      ELSE LET r == revisitRequests({}, {o}, updated)
           IN  Answer(r.state, result, r.visited \ getPendingOwners(s))

\* updateLocks'
updateLocksCore(o, reqs, s) ==
  LET result == L!updateLocksResult(o, reqs, s.allocation)
      updated == [s EXCEPT !.allocation = L!updateLocks(o, reqs, @)]
  IN  IF hasPendingRequest(o, s)
      THEN Answer(s, L!Bad, {})
      ELSE IF result # L!Ok({})
      THEN Answer(s, result, {})
      ELSE LET r == revisitRequests({}, {o}, updated)
           IN  Answer(r.state, result, r.visited \ getPendingOwners(r.state))

\* The request is queued under the smallest owner it is blocked on.
enqueue(e, blocked, s) ==
  LET blocker == Min(blocked)
  IN  [s EXCEPT
         !.pendingOwners = (e.owner :> [blocker |-> blocker, entry |-> e]) @@ @,
         !.pending[blocker] = @ \cup {e}]

\* updateLocksWaiting'
updateLocksWaitingCore(prio, o, reqs, s) ==
  LET answer == updateLocksCore(o, reqs, s)
      entry == [prio |-> prio, owner |-> o, reqs |-> reqs]
      blocked == answer.result.blocked
  IN  IF answer.result.ok /\ blocked # {}
      THEN [answer EXCEPT !.state = enqueue(entry, blocked, @)]
      ELSE answer

-----------------------------------------------------------------------------
(***************************************************************************)
(* The exported operations.                                                *)
(***************************************************************************)

requestFulfilled(o, reqs, s) ==
  /\ ~hasPendingRequest(o, s)
  /\ \A r \in reqs :
       L!listLocks(o, s.allocation)[r.lock] = L!grantedMode(r.type)

Unless(fulfilled, s, o, answer) ==
  IF fulfilled THEN Answer(s, L!Ok({}), {})
               ELSE [answer EXCEPT !.notify = @ \ {o}]

updateLocks(o, reqs, s) ==
  Unless(requestFulfilled(o, reqs, s), s, o, updateLocksCore(o, reqs, s))

updateLocksWaiting(prio, o, reqs, s) ==
  Unless(requestFulfilled(o, reqs, s), s, o,
         updateLocksWaitingCore(prio, o, reqs, s))

\* Mutant: the whole queue of the blocker is dropped.
removePendingRequestWholeQueue(o, s) ==
  IF ~hasPendingRequest(o, s)
  THEN s
  ELSE [s EXCEPT !.pendingOwners = Delete(@, {o}),
                 !.pending[s.pendingOwners[o].blocker] = {}]

removePendingRequest(o, s) ==
  IF ~hasPendingRequest(o, s)
  THEN s
  ELSE LET p == s.pendingOwners[o]
       IN  [s EXCEPT !.pendingOwners = Delete(@, {o}),
                     !.pending[p.blocker] = @ \ {p.entry}]

\* The same request again is answered, but neither queued twice nor granted.
safeUpdateLocksWaiting(prio, o, reqs, s) ==
  IF /\ hasPendingRequest(o, s)
     /\ {reqs} = {e.reqs : e \in {f \in getPendingRequests(s) : f.owner = o}}
  THEN [updateLocksWaiting(prio, o, reqs, removePendingRequest(o, s))
          EXCEPT !.state = s]
  ELSE updateLocksWaiting(prio, o, reqs, s)

manipulateLocksPredicate(type, S, o, s) ==
  updateLocks(o, {[lock |-> l, type |-> type] :
                    l \in L!HeldLocks(o, s.allocation) \cap S},
              removePendingRequest(o, s))

freeLocksPredicate(S, o, s) == manipulateLocksPredicate("release", S, o, s)

downGradeLocksPredicate(S, o, s) == manipulateLocksPredicate("shared", S, o, s)

intersectLocks(S, o, s) == freeLocksPredicate(Lock \ S, o, s)

\* All locks and the pending request.
releaseResources(o, s) ==
  LET s1 == removePendingRequest(o, s)
  IN  updateLocks(o, {[lock |-> l, type |-> "release"] :
                        l \in L!HeldLocks(o, s1.allocation)}, s1)

(***************************************************************************)
(* Try the wanted locks one after the other, in order; the owners to       *)
(* notify are not collected but taken to be none.                          *)
(***************************************************************************)
Level(mode) == CASE mode = "none" -> 0 [] mode = "shared" -> 1
                 [] mode = "exclusive" -> 2

opportunisticLockUnion(o, wanted, s) ==
  LET held == L!listLocks(o, s.allocation)
      missing == {r \in wanted : Level(held[r.lock]) < Level(r.type)}
      sorted == SetToSortSeq(missing, LAMBDA r, t :
                  \/ r.lock < t.lock
                  \/ r.lock = t.lock /\ Level(r.type) < Level(t.type))
      maybeAllocate(acc, r) ==
        LET answer == updateLocks(o, {r}, acc.state)
        IN  [state |-> answer.state,
             success |-> IF answer.result = L!Ok({})
                         THEN acc.success \o <<r.lock>> ELSE acc.success]
  IN  FoldLeft(maybeAllocate, [state |-> s, success |-> <<>>], sorted)

guardedOpportunisticLockUnion(count, o, wanted, s) ==
  LET union == opportunisticLockUnion(o, wanted, s)
  IN  IF Len(union.success) < count
      THEN [state |-> s, success |-> <<>>]
      ELSE union

(***************************************************************************)
(* Serialisation: only the owned locks and the pending requests are        *)
(* written.  Reading requests all locks anew, owner by owner, and fails if *)
(* one is not granted (allocationFromOwners); then the pending requests    *)
(* are made again (fromExtRepr).                                           *)
(***************************************************************************)
allocateOneOwner(owned, acc, o) ==
  LET reqs == {[lock |-> l, type |-> owned[o][l]] :
                 l \in {k \in Lock : owned[o][k] # "none"}}
  IN  [allocation |-> L!updateLocks(o, reqs, acc.allocation),
       ok |-> acc.ok /\ L!updateLocksResult(o, reqs, acc.allocation) = L!Ok({})]

allocationFromOwners(owned) ==
  FoldLeft(LAMBDA acc, o : allocateOneOwner(owned, acc, o),
           [allocation |-> L!emptyAllocation, ok |-> TRUE],
           SetToSortSeq({o \in Owner : \E l \in Lock : owned[o][l] # "none"}, <))

fromExtRepr(allocation, requests) ==
  FoldLeft(LAMBDA s, e : updateLocksWaiting(e.prio, e.owner, e.reqs, s).state,
           [emptyWaiting EXCEPT !.allocation = allocation],
           InOrder(requests))

reload(s) == fromExtRepr(allocationFromOwners(s.allocation.owned).allocation,
                         getPendingRequests(s))

-----------------------------------------------------------------------------
Init == lw = emptyWaiting /\ asleep = {}

(***************************************************************************)
(* The actions.  A client whose request is answered with Bad goes on as    *)
(* before; one that gets any other answer is awake, unless it is told that *)
(* it has to wait.                                                         *)
(***************************************************************************)
Deliver(o, answer) ==
  /\ lw' = answer.state
  /\ asleep' = IF answer.result.ok
               THEN asleep \ (answer.notify \cup {o})
               ELSE asleep \ answer.notify

TryUpdateLocks(o) ==
  \E reqs \in Requests : Deliver(o, updateLocks(o, reqs, lw))

UpdateLocksWaiting(o) ==
  \E prio \in Priority, reqs \in Requests :
    LET answer == safeUpdateLocksWaiting(prio, o, reqs, lw)
    IN  IF answer.result.ok /\ answer.result.blocked # {}
        THEN lw' = answer.state /\ asleep' = (asleep \ answer.notify) \cup {o}
        ELSE Deliver(o, answer)

FreeLocks(o) == Deliver(o, releaseResources(o, lw))

FreeLocksLevel(o) ==
  \E S \in Subsets : Deliver(o, freeLocksPredicate(S, o, lw))

DownGradeLocksLevel(o) ==
  \E S \in Subsets : Deliver(o, downGradeLocksPredicate(S, o, lw))

IntersectLocks(o) ==
  \E S \in Subsets : Deliver(o, intersectLocks(S, o, lw))

OpportunisticLockUnion(o) ==
  \E wanted \in Unions :
    /\ lw' = opportunisticLockUnion(o, wanted, lw).state
    /\ UNCHANGED asleep

GuardedOpportunisticLockUnion(o) ==
  \E wanted \in Unions : \E count \in 1..Cardinality(wanted) :
    /\ lw' = guardedOpportunisticLockUnion(count, o, wanted, lw).state
    /\ UNCHANGED asleep

\* WConfd restarts and reads the lock state it has written.
Reload ==
  /\ allocationFromOwners(lw.allocation.owned).ok
  /\ lw' = reload(lw)
  /\ UNCHANGED asleep

Next == \/ \E o \in Owner : \/ TryUpdateLocks(o)
                            \/ UpdateLocksWaiting(o)
                            \/ FreeLocks(o)
                            \/ FreeLocksLevel(o)
                            \/ DownGradeLocksLevel(o)
                            \/ IntersectLocks(o)
                            \/ OpportunisticLockUnion(o)
                            \/ GuardedOpportunisticLockUnion(o)
        \/ Reload

Spec == Init /\ [][Next]_vars

-----------------------------------------------------------------------------
(***************************************************************************)
(* Properties.                                                             *)
(***************************************************************************)
(***************************************************************************)
(* "Pending requests must be good and not fulfillable" (the unit test      *)
(* prop_PendingJustified), and the owner they are queued under is one of   *)
(* those that block them; so looking at them when this owner acts is soon  *)
(* enough.  The two indexes of pending requests agree: lwPendingOwners     *)
(* names the queue a request is in, and the queues hold nothing else, so   *)
(* that removePendingRequest finds it.                                     *)
(***************************************************************************)
PendingJustified ==
  /\ \A o \in getPendingOwners(lw) :
       LET p == lw.pendingOwners[o]
           result == L!updateLocksResult(o, p.entry.reqs, lw.allocation)
       IN  result.ok /\ p.blocker \in result.blocked
  /\ \A b \in Owner, e \in getPendingRequests(lw) :
       e \in lw.pending[b] <=>
         /\ hasPendingRequest(e.owner, lw)
         /\ lw.pendingOwners[e.owner] = [blocker |-> b, entry |-> e]

(***************************************************************************)
(* No lost wakeup: the owners that have been told to wait and were not     *)
(* notified since are exactly those with a pending request.  This covers   *)
(* the operations that discard the owners to notify.                       *)
(***************************************************************************)
NoLostWakeup == asleep = getPendingOwners(lw)

(***************************************************************************)
(* The comment on extRepr: the lock state that is written to disk captures *)
(* the behaviour.  Reading it back never fails and yields the same         *)
(* ownership and the same pending requests.                                *)
(***************************************************************************)
ReloadFaithful ==
  /\ allocationFromOwners(lw.allocation.owned).ok
  /\ extRepr(reload(lw)) = extRepr(lw)

\* The owners an owner waits for.
waitsFor(o) == IF hasPendingRequest(o, lw)
               THEN L!blocked(o, lw.pendingOwners[o].entry.reqs, lw.allocation)
               ELSE {}

(***************************************************************************)
(* What the lock order achieves: whenever owners wait for one another in a *)
(* circle, one of them waits to upgrade a lock from shared to exclusive.   *)
(* The order check refuses only locks strictly below the highest one held, *)
(* so two owners that share a lock and both ask to upgrade it do deadlock. *)
(***************************************************************************)
DeadlockOnlyByUpgrade ==
  \A S \in (SUBSET Owner) \ {{}} :
    (\A o \in S : waitsFor(o) \cap S # {}) =>
      \E o \in S : \E r \in lw.pendingOwners[o].entry.reqs :
        L!upgrade(o, r, lw.allocation)

\* What each owner waits for.
wants == [o \in Owner |-> IF hasPendingRequest(o, lw)
                          THEN lw.pendingOwners[o].entry.reqs ELSE {}]

Service == INSTANCE LockService WITH alloc <- lw.allocation

(***************************************************************************)
(* The queues of LockWaiting implement the promise of LockService: a       *)
(* request is granted as soon as it is possible, whoever it was queued     *)
(* under, nothing is granted that was not asked for, and an operation of   *)
(* one owner changes nothing else about the others.                        *)
(***************************************************************************)
ServiceSpec == Service!Spec

=============================================================================
