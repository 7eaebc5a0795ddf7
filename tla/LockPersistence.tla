-------------------------- MODULE LockPersistence --------------------------
(***************************************************************************)
(* Jobs that take a lock from WConfd while WConfd may crash and jobs may   *)
(* die: the lock RPCs and how they save the lock state and notify jobs     *)
(* (modifyLockWaiting in src/Ganeti/WConfd/Monad.hs), the restart from the *)
(* saved state (prepMain in src/Ganeti/WConfd/Server.hs), the cleanup of   *)
(* dead owners (src/Ganeti/WConfd/DeathDetection.hs), and the waiting of   *)
(* jobs (_RequestAndWait and _AcquireLocks in lib/mcpu.py).                *)
(*                                                                         *)
(* What a lock state is and how requests change it is the subject of       *)
(* LockWaiting; here it is one lock, requested exclusively, with a queue   *)
(* ordered by priority.  The worker that saves the state is the one of     *)
(* AsyncWorker: it answers a thread only after a write that began after    *)
(* the thread's change, so that reading and writing are one step here.     *)
(***************************************************************************)
EXTENDS Integers, FiniteSets

CONSTANTS Client, NoClient,
          Prio,          \* [Client -> Int], smaller is more urgent
          MaxRequests, MaxCrashes, MaxFailures, MaxDeaths   \* bounds

ASSUME ClientAssumption == NoClient \notin Client
ASSUME PrioAssumption == \A c \in Client : Prio[c] \in -20..19   \* opPrioHighest, -Lowest

VARIABLES ds,        \* the lock state in memory
          disk,      \* the lock state on disk
          thread,    \* what WConfd does with the RPC of each client
          nfy,       \* whom that thread has to notify
          cleaner,   \* the death detection thread: "none", "saving", "saved"
          cleanerNfy,
          pc, op, mode,   \* of each client: where it is, its RPC, how it waits
          sighup,    \* sighupReceived of each client
          lost,      \* clients whose claim was not on disk in some crash
          count      \* counters for the bounds

daemon == <<ds, disk, thread, nfy, cleaner, cleanerNfy>>
client == <<pc, op, mode, sighup>>
vars == <<daemon, client, lost, count>>

-----------------------------------------------------------------------------
(***************************************************************************)
(* The operations on the lock state, returning it with the clients to      *)
(* notify: updateLocksWaiting, and freeLocks or releaseResources, which    *)
(* revisit the queue in the order of the priorities.                       *)
(***************************************************************************)
urgent(q) == CHOOSE c \in q : \A d \in q : Prio[c] <= Prio[d]

updateLocksWaiting(c, s) ==
  IF s.holder \in {NoClient, c}
    THEN <<[s EXCEPT !.holder = c], {}>>
    ELSE <<[s EXCEPT !.queue = @ \cup {c}], {}>>

release(c, s) ==
  LET q == s.queue \ {c}
  IN IF s.holder # c THEN <<[s EXCEPT !.queue = q], {}>>
     ELSE IF q = {} THEN <<[holder |-> NoClient, queue |-> {}], {}>>
     ELSE <<[holder |-> urgent(q), queue |-> q \ {urgent(q)}], {urgent(q)}>>

Init ==
  /\ ds = [holder |-> NoClient, queue |-> {}]
  /\ disk = ds
  /\ thread = [c \in Client |-> "none"]
  /\ nfy = [c \in Client |-> {}]
  /\ cleaner = "none" /\ cleanerNfy = {}
  /\ pc = [c \in Client |-> "idle"]
  /\ op = [c \in Client |-> "request"]
  /\ mode = [c \in Client |-> "timed"]
  /\ sighup = [c \in Client |-> FALSE]
  /\ lost = {}
  /\ count = [requests |-> 0, crashes |-> 0, failures |-> 0, deaths |-> 0]

-----------------------------------------------------------------------------
(***************************************************************************)
(* WConfd.  A thread changes the lock state in memory, waits until it is   *)
(* saved, sends SIGHUP to the jobs that got locks, and answers.            *)
(***************************************************************************)
Handle(c) ==
  /\ thread[c] = "sent"
  /\ LET r == IF op[c] = "request" THEN updateLocksWaiting(c, ds)
                                   ELSE release(c, ds)
     IN /\ ds' = r[1]
        /\ nfy' = [nfy EXCEPT ![c] = r[2]]
  /\ thread' = [thread EXCEPT ![c] = "saving"]
  /\ UNCHANGED <<disk, cleaner, cleanerNfy, client, lost, count>>

AnswerSaving ==
  /\ thread' = [c \in Client |-> IF thread[c] = "saving" THEN "saved"
                                                         ELSE thread[c]]
  /\ cleaner' = IF cleaner = "saving" THEN "saved" ELSE cleaner
  /\ UNCHANGED <<ds, nfy, cleanerNfy, client, lost>>

NeedsSaving == cleaner = "saving" \/ \E c \in Client : thread[c] = "saving"

\* Mutant: the pending requests are not part of the saved state.
SaveOwnersOnly ==
  /\ NeedsSaving
  /\ disk' = [ds EXCEPT !.queue = {}]
  /\ AnswerSaving
  /\ UNCHANGED count

Save == NeedsSaving /\ disk' = ds /\ AnswerSaving /\ UNCHANGED count

\* Errors are only logged; the threads go on.
SaveFails ==
  /\ NeedsSaving
  /\ count.failures < MaxFailures
  /\ count' = [count EXCEPT !.failures = @ + 1]
  /\ AnswerSaving
  /\ UNCHANGED disk

Notify(c) ==
  /\ thread[c] = "saved"
  /\ sighup' = [d \in Client |-> sighup[d] \/ d \in nfy[c]]
  /\ nfy' = [nfy EXCEPT ![c] = {}]
  /\ thread' = [thread EXCEPT ![c] = "notified"]
  /\ UNCHANGED <<ds, disk, cleaner, cleanerNfy, pc, op, mode, lost, count>>

Reply(c) ==
  /\ thread[c] = "notified"
  /\ thread' = [thread EXCEPT ![c] = "none"]
  /\ pc' = [pc EXCEPT ![c] = CASE @ = "requesting" -> "check"
                               [] @ = "freeing" -> "idle"
                               [] OTHER -> @]
  /\ UNCHANGED <<ds, disk, nfy, cleaner, cleanerNfy, op, mode, sighup, lost,
                 count>>

\* Mutant: only who waits for the lock is cleaned up.
CleanupDeadWaiter(c) ==
  /\ cleaner = "none"
  /\ pc[c] = "dead" /\ c \in ds.queue
  /\ ds' = release(c, ds)[1]
  /\ cleanerNfy' = release(c, ds)[2]
  /\ cleaner' = "saving"
  /\ UNCHANGED <<disk, thread, nfy, client, lost, count>>

\* Only owners of locks are looked at, not those that merely wait for some.
CleanupDead(c) ==
  /\ cleaner = "none"
  /\ pc[c] = "dead" /\ c = ds.holder
  /\ ds' = release(c, ds)[1]
  /\ cleanerNfy' = release(c, ds)[2]
  /\ cleaner' = "saving"
  /\ UNCHANGED <<disk, thread, nfy, client, lost, count>>

CleanerNotify ==
  /\ cleaner = "saved"
  /\ sighup' = [d \in Client |-> sighup[d] \/ d \in cleanerNfy]
  /\ cleanerNfy' = {}
  /\ cleaner' = "none"
  /\ UNCHANGED <<ds, disk, thread, nfy, pc, op, mode, lost, count>>

(***************************************************************************)
(* A crash and the restart from disk.  Jobs whose RPC was not answered     *)
(* repeat it (RetryOnNetworkError in lib/rpc/transport.py).                *)
(***************************************************************************)
Claims(c, s) == \/ pc[c] = "working" /\ c = s.holder
                \/ pc[c] \in {"check", "waiting"}
                     /\ c \in s.queue \cup {s.holder}
                \/ pc[c] \notin {"working", "check", "waiting"}

Crash ==
  /\ count.crashes < MaxCrashes
  /\ count' = [count EXCEPT !.crashes = @ + 1]
  /\ ds' = disk
  /\ thread' = [c \in Client |-> IF thread[c] # "none" /\ pc[c] # "dead"
                                   THEN "sent" ELSE "none"]
  /\ nfy' = [c \in Client |-> {}]
  /\ cleaner' = "none" /\ cleanerNfy' = {}
  /\ lost' = lost \cup {c \in Client : ~Claims(c, disk)}
  /\ UNCHANGED <<disk, client>>

-----------------------------------------------------------------------------
(***************************************************************************)
(* A job.  With a timeout it asks HasPendingRequest again only after a     *)
(* SIGHUP, and a last time when the time is over; if the request is still  *)
(* pending then, it frees its locks.  Without a timeout it keeps asking.   *)
(* In both cases it goes on to work once no request is pending.            *)
(***************************************************************************)
Send(c, o) ==
  /\ op' = [op EXCEPT ![c] = o]
  /\ thread' = [thread EXCEPT ![c] = "sent"]
  /\ UNCHANGED <<ds, disk, nfy, cleaner, cleanerNfy>>

Request(c, m) ==
  /\ pc[c] = "idle"
  /\ count.requests < MaxRequests
  /\ count' = [count EXCEPT !.requests = @ + 1]
  /\ pc' = [pc EXCEPT ![c] = "requesting"]
  /\ mode' = [mode EXCEPT ![c] = m]
  /\ sighup' = [sighup EXCEPT ![c] = FALSE]
  /\ Send(c, "request")
  /\ UNCHANGED lost

hasPendingRequest(c) == c \in ds.queue

CheckPending(c) ==
  /\ pc[c] = "check"
  /\ pc' = [pc EXCEPT ![c] = IF hasPendingRequest(c) THEN "waiting"
                                                     ELSE "working"]
  /\ UNCHANGED <<daemon, op, mode, sighup, lost, count>>

\* Mutant: the job relies on being notified.
PollOnSignal(c) ==
  /\ pc[c] = "waiting"
  /\ sighup[c]
  /\ ~hasPendingRequest(c)
  /\ pc' = [pc EXCEPT ![c] = "working"]
  /\ sighup' = [sighup EXCEPT ![c] = @ /\ mode[c] = "definite"]
  /\ UNCHANGED <<daemon, op, mode, lost, count>>

Poll(c) ==
  /\ pc[c] = "waiting"
  /\ mode[c] = "definite" \/ sighup[c]
  /\ ~hasPendingRequest(c)
  /\ pc' = [pc EXCEPT ![c] = "working"]
  /\ sighup' = [sighup EXCEPT ![c] = @ /\ mode[c] = "definite"]
  /\ UNCHANGED <<daemon, op, mode, lost, count>>

Timeout(c) ==
  /\ pc[c] = "waiting" /\ mode[c] = "timed"
  /\ sighup' = [sighup EXCEPT ![c] = FALSE]
  /\ \/ /\ hasPendingRequest(c)
        /\ pc' = [pc EXCEPT ![c] = "freeing"]
        /\ Send(c, "free")
     \/ /\ ~hasPendingRequest(c)
        /\ pc' = [pc EXCEPT ![c] = "working"]
        /\ UNCHANGED <<daemon, op>>
  /\ UNCHANGED <<mode, lost, count>>

Finish(c) ==
  /\ pc[c] = "working"
  /\ pc' = [pc EXCEPT ![c] = "freeing"]
  /\ Send(c, "free")
  /\ lost' = lost \ {c}
  /\ UNCHANGED <<mode, sighup, count>>

\* The RPC of a job that dies may still be on its way to WConfd.
Die(c) ==
  /\ pc[c] # "dead"
  /\ count.deaths < MaxDeaths
  /\ count' = [count EXCEPT !.deaths = @ + 1]
  /\ pc' = [pc EXCEPT ![c] = "dead"]
  /\ lost' = lost \ {c}
  /\ UNCHANGED <<daemon, op, mode, sighup>>

-----------------------------------------------------------------------------
Serve(c) == Handle(c) \/ Notify(c) \/ Reply(c)

Wait(c) == CheckPending(c) \/ Poll(c) \/ Timeout(c)

Next ==
  \/ Save \/ SaveFails \/ CleanerNotify \/ Crash
  \/ \E c \in Client :
       \/ Serve(c) \/ Wait(c) \/ CleanupDead(c) \/ Finish(c) \/ Die(c)
       \/ \E m \in {"timed", "definite"} : Request(c, m)

Spec == Init /\ [][Next]_vars

(***************************************************************************)
(* The threads of WConfd are scheduled fairly and death detection runs     *)
(* every now and then; a job does not stop while it waits, and its work    *)
(* ends.  Nothing makes a job request locks, crash or die.                 *)
(***************************************************************************)
FairSpec ==
  /\ Spec
  /\ WF_vars(Save) /\ WF_vars(CleanerNotify)
  /\ \A c \in Client : /\ WF_vars(Serve(c))
                       /\ WF_vars(Wait(c))
                       /\ WF_vars(Finish(c))
                       /\ WF_vars(CleanupDead(c))

-----------------------------------------------------------------------------
(***************************************************************************)
(* A job that believes it has the lock has it, and a job that waits is     *)
(* queued or has got the lock, unless the claim was not on disk when       *)
(* WConfd crashed.  So two jobs work under the lock at the same time only  *)
(* if one of them has lost it in a crash.  As long as every write of the   *)
(* lock state succeeds, a claim is lost only by a job that was already     *)
(* working when WConfd crashed: a queued request that was answered keeps   *)
(* its place.                                                              *)
(***************************************************************************)
BeliefsTrue ==
  \A c \in Client :
    \/ Claims(c, ds)
    \/ c \in lost /\ (count.failures = 0 => pc[c] \notin {"check", "waiting"})

\* A job that waits without a timeout gets to work, unless it dies or a write
\* of the lock state fails: its request survives a crash of WConfd, and it asks
\* for it even if the notification was lost.
DefiniteServed ==
  \A c \in Client :
    pc[c] = "waiting" /\ mode[c] = "definite"
      ~> pc[c] \in {"working", "dead"} \/ count.failures > 0

(***************************************************************************)
(* A job that dies ends up owning nothing, even if one of its requests is  *)
(* carried out or granted after its death, or WConfd crashes.              *)
(***************************************************************************)
DeadReleased == \A c \in Client : pc[c] = "dead" ~> [](c # ds.holder)

=============================================================================
