---------------------------- MODULE LockService ----------------------------
(***************************************************************************)
(* What the lock daemon promises, without saying how it finds the requests *)
(* to grant (src/Ganeti/Locking/Waiting.hs promises it in the comments on  *)
(* updateLocks' and updateLocksWaiting', and its unit tests state it as    *)
(* prop_Progress, prop_PendingGetFulfilledEventually and                   *)
(* prop_PendingJustified).                                                 *)
(*                                                                         *)
(* An owner waits for at most one request.  When an owner changes what it  *)
(* holds, waiting requests are granted one after the other, in some order, *)
(* until none that is left could be granted; all in one atomic step.       *)
(* There are no queues, no index of blockers, no priorities.               *)
(***************************************************************************)
EXTENDS Integers, FiniteSets, Sequences, SequencesExt

CONSTANTS Owner, Lock, lockImplications, Requests

VARIABLES alloc,   \* the lock allocation
          wants    \* the request each owner waits for; {} for none

L == INSTANCE LockAllocation

CanGrant(o, reqs, a) == L!updateLocksResult(o, reqs, a) = L!Ok({})

Init == alloc = L!emptyAllocation /\ wants = [o \in Owner |-> {}]

\* An acceptable request that is blocked by someone waits.
Wait(o) ==
  LET reqs == wants'[o]
  IN  /\ wants[o] = {} /\ reqs \in Requests
      /\ wants' = [wants EXCEPT ![o] = reqs]
      /\ L!updateLocksResult(o, reqs, alloc).ok
      /\ ~CanGrant(o, reqs, alloc)
      /\ UNCHANGED alloc

\* Grant what the owners of the sequence want, starting in allocation a.
GrantInOrder(order, a) ==
  FoldLeft(LAMBDA acc, o : [granted |-> acc.granted
                                          /\ CanGrant(o, wants[o], acc.alloc),
                            alloc |-> L!updateLocks(o, wants[o], acc.alloc)],
           [granted |-> TRUE, alloc |-> a], order)

Settle(a, waiting) ==
  LET S == {o \in waiting : wants'[o] = {}}
  IN  /\ wants' = [o \in Owner |-> IF o \in waiting \ S THEN wants[o] ELSE {}]
      /\ \E order \in SetToSeqs(S) :
           GrantInOrder(order, a) = [granted |-> TRUE, alloc |-> alloc']
      /\ \A o \in waiting \ S : ~CanGrant(o, wants[o], alloc')

\* What an owner changed about its own locks.
OwnChange(o) ==
  {[lock |-> l, type |-> IF alloc'.owned[o][l] = "none"
                         THEN "release" ELSE alloc'.owned[o][l]] :
     l \in {k \in Lock : alloc'.owned[o][k] # alloc.owned[o][k]}}

(***************************************************************************)
(* An owner changes what it holds and gives up what it waits for, if       *)
(* anything; an owner that waits can only give up locks, not get more.     *)
(***************************************************************************)
Change(o) ==
  LET reqs == OwnChange(o)
      waiting == {p \in Owner \ {o} : wants[p] # {}}
  IN  /\ wants'[o] = {} /\ (wants[o] # {} \/ reqs # {})
      /\ CanGrant(o, reqs, alloc)
      /\ wants[o] # {} => \A r \in reqs :
                          \/ r.type = "release"
                          \/ alloc.owned[o][r.lock] = "exclusive"
      /\ Settle(L!updateLocks(o, reqs, alloc), waiting)

Next == \E o \in Owner : Wait(o) \/ Change(o)

Spec == Init /\ [][Next]_<<alloc, wants>>

=============================================================================
