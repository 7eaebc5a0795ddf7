------------------------------- MODULE SharedLock -------------------------------
(***************************************************************************)
(* The shared lock that synchronises threads within a process              *)
(* (lib/locking.py): shared and exclusive mode, priorities, timeouts,      *)
(* downgrading and deletion, on top of pipe-based conditions.              *)
(*                                                                         *)
(* Everything a call does between taking the internal lock and releasing   *)
(* it is one action.  A call that has to wait gives the internal lock up   *)
(* inside PipeCondition.wait and goes on in Resume.                        *)
(*                                                                         *)
(* A condition is a record: its mode, the threads in its wait(), and       *)
(* whether it is the one that __pending_shared holds for its priority, so  *)
(* that further shared acquires join it.                                   *)
(***************************************************************************)
EXTENDS Integers, Sequences, FiniteSets

CONSTANTS
  Threads,
  Prios,                \* priorities, counted from the most urgent
  Timeouts,             \* the kinds of timeouts given: "none", "long"
  None                  \* no thread

ASSUME Parameters == /\ Prios \subseteq Nat
                     /\ Timeouts \subseteq {"none", "long"}
                     /\ None \notin Threads

VARIABLES
  exc, shr,             \* __exc and __shr: the owners
  deleted,              \* __deleted
  pending,              \* __pending: per priority the queue of conditions
  th                    \* per thread: st, where its call is ("out": in none,
                        \* "wait": asleep, "woken": notified, "expired": awake
                        \* because of the timeout), and the call's parameters

vars == <<exc, shr, deleted, pending, th>>

Outside == [st |-> "out", shared |-> FALSE, prio |-> 0, timed |-> FALSE, del |-> FALSE]
Waiting(t) == th[t].st # "out"
Asleep(t) == th[t].st = "wait"
Owns(t) == t = exc \/ t \in shr
Free == exc = None /\ shr = {}

-------------------------------------------------------------------------------
(* The queue.                                                              *)

\* Mutant: an exclusive acquire does not look at the sharers.
CanAcquireUnlessExclusive(shared) == exc = None

\* __can_acquire
CanAcquire(shared) == exc = None /\ (shared \/ shr = {})

\* __find_first_pending_queue: the priority served first.
Nonempty(queues) == {p \in Prios : queues[p] # <<>>}
First(queues) == CHOOSE p \in Nonempty(queues) : \A q \in Nonempty(queues) : p <= q
Top(queues) == Head(queues[First(queues)])

\* prioqueue.remove
RemoveAt(queue, i) == SubSeq(queue, 1, i - 1) \o SubSeq(queue, i + 1, Len(queue))

\* Forget the condition that shared acquires of priority p join.
PopShared(queues, p) ==
  [queues EXCEPT ![p] = [i \in DOMAIN @ |-> [@[i] EXCEPT !.open = FALSE]]]

\* Mutant: an acquire that needs a condition of its own gets ahead of the others.
EnqueueInFront(queues, t, shared, p) ==
  [queues EXCEPT ![p] = << [shared |-> shared, open |-> FALSE, waiters |-> {t}] >> \o @]

\* A shared acquire joins the open condition of its priority; any other acquire
\* gets a condition of its own at the end of the queue.
Enqueue(queues, t, shared, p) ==
  LET new == [shared |-> shared, open |-> shared, waiters |-> {t}] IN
  IF shared /\ \E i \in DOMAIN queues[p] : queues[p][i].open
  THEN [queues EXCEPT ![p] = [i \in DOMAIN queues[p] |->
          IF queues[p][i].open THEN [queues[p][i] EXCEPT !.waiters = @ \union {t}]
                               ELSE queues[p][i]]]
  ELSE [queues EXCEPT ![p] = Append(@, new)]

\* The end of __acquire_unlocked: a condition without further waiters is
\* removed, a shared one together with whatever __pending_shared holds.
Leave(queues, t, p) ==
  LET c == CHOOSE i \in DOMAIN queues[p] : t \in queues[p][i].waiters
      cond == queues[p][c]
      last == cond.waiters = {t}
      gone == [queues EXCEPT ![p] = RemoveAt(@, c)]
  IN CASE ~last               -> [queues EXCEPT ![p][c].waiters = @ \ {t}]
       [] last /\ cond.shared -> PopShared(gone, p)
       [] OTHER               -> gone

\* PipeCondition.notify_all: whoever is asleep on it wakes up.
Notify(threads, S) ==
  [t \in Threads |-> IF t \in S /\ threads[t].st = "wait"
                     THEN [threads[t] EXCEPT !.st = "woken"] ELSE threads[t]]

\* __notify_topmost
NotifyTopmost ==
  IF Nonempty(pending) = {}
  THEN UNCHANGED <<pending, th>>
  ELSE /\ th' = Notify(th, Top(pending).waiters)
       /\ pending' = IF Top(pending).shared THEN PopShared(pending, First(pending))
                                            ELSE pending

-------------------------------------------------------------------------------
(* The calls.                                                              *)

\* delete once the lock is held exclusively: every pending acquire is told.
MarkDeleted(threads) ==
  /\ deleted' = TRUE
  /\ exc' = None /\ shr' = shr
  /\ th' = Notify(threads, Threads)

\* The call of t, which left the queues as they are given, gets the lock.
Obtain(t, shared, del, queues) ==
  /\ pending' = queues
  /\ IF del THEN MarkDeleted([th EXCEPT ![t] = Outside])
     ELSE /\ exc' = IF shared THEN exc ELSE t
          /\ shr' = IF shared THEN shr \union {t} ELSE shr
          /\ th' = [th EXCEPT ![t] = Outside]
          /\ deleted' = deleted

\* acquire, or delete by a thread that does not own the lock, up to the point
\* where it sleeps or returns.  (A call that fails at once changes nothing:
\* the lock is deleted, or the timeout is too short to wait.)
Acquire(t) ==
  \E shared \in BOOLEAN, timeout \in Timeouts, p \in Prios, del \in BOOLEAN :
    LET queues == Enqueue(pending, t, shared, p) IN
    /\ ~deleted /\ ~Waiting(t) /\ ~Owns(t)
    /\ del => ~shared
    /\ IF Nonempty(pending) = {} /\ CanAcquire(shared)
       THEN Obtain(t, shared, del, pending)
       ELSE IF t \in Top(queues).waiters /\ CanAcquire(shared)
       THEN Obtain(t, shared, del, Leave(queues, t, p))
       ELSE /\ pending' = queues
            /\ th' = [th EXCEPT ![t] = [st |-> "wait", shared |-> shared, prio |-> p,
                                        timed |-> timeout # "none", del |-> del]]
            /\ UNCHANGED <<exc, shr, deleted>>

\* The time given for an acquire is over: poll() returns, or would return.
Expire(t) ==
  /\ th[t].st \in {"wait", "woken"} /\ th[t].timed
  /\ th' = [th EXCEPT ![t].st = "expired"]
  /\ UNCHANGED <<exc, shr, deleted, pending>>

\* The loop of __acquire_unlocked after a wait.
Resume(t) ==
  LET call == th[t]
      left == Leave(pending, t, call.prio)
  IN
  /\ call.st \in {"woken", "expired"}
  /\ IF ~deleted /\ t \in Top(pending).waiters /\ CanAcquire(call.shared)
     THEN Obtain(t, call.shared, call.del, left)
     ELSE /\ IF deleted \/ call.st = "expired"
             THEN pending' = left /\ th' = [th EXCEPT ![t] = Outside]
             ELSE pending' = pending /\ th' = [th EXCEPT ![t].st = "wait"]
          /\ UNCHANGED <<exc, shr, deleted>>

\* Mutant: only an exclusive owner tells the next one.
ReleaseSilently(t) ==
  /\ Owns(t)
  /\ exc' = IF t = exc THEN None ELSE exc
  /\ shr' = shr \ {t}
  /\ deleted' = deleted
  /\ IF t = exc THEN NotifyTopmost ELSE UNCHANGED <<pending, th>>

Release(t) ==
  /\ Owns(t)
  /\ exc' = IF t = exc THEN None ELSE exc
  /\ shr' = shr \ {t}
  /\ deleted' = deleted
  /\ IF shr' = {} THEN NotifyTopmost ELSE UNCHANGED <<pending, th>>

\* Shared acquires of the first pending priority go ahead of the others.
Downgrade(t) ==
  LET p == First(pending)
      q == pending[p]
      c == CHOOSE i \in DOMAIN q : q[i].open
  IN
  /\ exc = t
  /\ exc' = None /\ shr' = shr \union {t} /\ deleted' = deleted
  /\ IF Nonempty(pending) # {} /\ \E i \in DOMAIN q : q[i].open
     THEN /\ pending' = PopShared([pending EXCEPT ![p] = <<q[c]>> \o RemoveAt(@, c)], p)
          /\ th' = Notify(th, q[c].waiters)
     ELSE UNCHANGED <<pending, th>>

\* delete by the thread that owns the lock.
Delete(t) ==
  /\ exc = t
  /\ MarkDeleted(th)
  /\ pending' = pending

-------------------------------------------------------------------------------
Init == /\ exc = None /\ shr = {} /\ deleted = FALSE
        /\ pending = [p \in Prios |-> <<>>]
        /\ th = [t \in Threads |-> Outside]

Next == \E t \in Threads : \/ Acquire(t) \/ Expire(t) \/ Resume(t)
                           \/ Release(t) \/ Downgrade(t) \/ Delete(t)

\* Threads run, and owners release the lock in the end.
Fairness == \A t \in Threads : WF_vars(Resume(t)) /\ WF_vars(Release(t))

Spec == Init /\ [][Next]_vars /\ Fairness

-------------------------------------------------------------------------------
(* Properties.                                                             *)

\* An exclusive owner is the only owner, and a deleted lock has none: the
\* asserts of delete and GetLockInfo.
Exclusion == /\ exc # None => shr = {}
             /\ deleted => Free

\* While the lock is free and somebody waits for it, a thread at the top of the
\* queue is awake and about to take it; after the deletion everybody is.
NoLostWakeup ==
  /\ Free /\ ~deleted /\ Nonempty(pending) # {} =>
       \E t \in Top(pending).waiters : ~Asleep(t)
  /\ deleted => \A t \in Threads : ~Asleep(t)

\* A blocking acquire of the most urgent priority gets the lock, or an error
\* because of a deletion, if nobody gives timeouts or else if the lock keeps
\* becoming free.
Urgent(t) == Waiting(t) /\ ~th[t].timed /\ \A p \in Prios : th[t].prio <= p
BlockingServed ==
  []<>Free \/ [](\A t \in Threads : ~th[t].timed) =>
    \A t \in Threads : Urgent(t) ~> ~Waiting(t)

=============================================================================
