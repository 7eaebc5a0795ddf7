------------------------------ MODULE JobQueue ------------------------------
(***************************************************************************)
(* The job queue: luxid schedules jobs and runs each of them in a process   *)
(* of its own, and the two share nothing but the job file.                  *)
(*                                                                         *)
(* luxid (JQScheduler.hs, JQueue.hs, Query/Exec.hs, Query/Server.hs) is     *)
(* many threads over one queue that is changed atomically: handlers of      *)
(* requests, the threads that start jobs, the poller, the watchers of job   *)
(* files.  A job process (lib/jqueue/exec.py and _JobProcessor) works on    *)
(* its own copy of the job and writes it to the file.  Either may crash.    *)
(***************************************************************************)
EXTENDS JobFile

CONSTANTS Jobs,         \* job ids
          NumOps,         \* number of opcodes of each job
          Deps,           \* the jobs each job depends on (its first opcode does)
          MaxRunning,     \* max_running_jobs of the cluster
          Watched,        \* the jobs whose files are watched, besides polling
          RestartAnywhere,\* whether luxid may be restarted while the file of a job
                          \* that has a process says that it is queued
          MaxEvents       \* bound on restarts of luxid, failed starts, crashes of
                          \* processes, retries of opcodes, and requests to
                          \* cancel a job or change its priority

ASSUME JobsAssumption == IsFiniteSet(Jobs)
ASSUME NumOpsAssumption == \A j \in Jobs : NumOps[j] \in Nat \ {0}
ASSUME DepsAssumption == \A j \in Jobs : Deps[j] \subseteq Jobs \ {j}
ASSUME LimitAssumption == MaxRunning \in Nat \ {0}

VARIABLES file,      \* job files
          queue,       \* luxid: qEnqueued, qRunning, qManipulated
          mem,         \* luxid: its copy of each job in the queue
          handler,     \* luxid: what a handler is doing with a job it took out
          start,       \* luxid: progress of starting each job
          chores,      \* luxid: clean-up and scheduling that threads will do
          poller,      \* luxid: the time-based watcher
          watch,       \* luxid: what the file watcher of a job has just read
          gen,         \* luxid: its incarnation, naming its livelock
          procs,       \* job processes, by process id
          events       \* number of events that MaxEvents bounds

luxid == <<queue, mem, handler, start, chores, poller, watch, gen>>
vars == <<file, luxid, procs, events>>

NoLock == <<"none", 0>>
LuxidLock(g) == <<"luxid", g>>
ProcLock(p) == <<"process", p>>

Pids == DOMAIN procs

NoJob == [ops |-> <<>>, livelock |-> NoLock, pid |-> 0]
NewJob(j) == [ops |-> [i \in 1..NumOps[j] |-> "queued"], livelock |-> NoLock, pid |-> 0]
Submitted(j) == file[j] # NoJob
Finalized(j) == Submitted(j) /\ jobFinalized(file[j])

\* What luxid uses of its copy of a job that runs: its livelock, and whether
\* it ended.
View(job) == [ops |-> <<IF jobFinalized(job) THEN "success" ELSE "running">>,
              livelock |-> job.livelock, pid |-> 0]

\* Mutant: the livelock of luxid counts as one of a process that died.
isDeadStarting(lock) ==
    \/ lock[1] = "process" /\ procs[lock[2]].pc = "dead"
    \/ lock[1] = "luxid"

\* Mutant: a process that removed its livelock file is not known to be dead.
isDeadLuxid(lock) == lock[1] = "luxid" /\ lock[2] # gen

isDead(lock) ==
    \/ lock[1] = "process" /\ procs[lock[2]].pc = "dead"
    \/ lock[1] = "luxid" /\ lock[2] # gen

NotStarting == [pc |-> "none", job |-> NoJob, pid |-> 0]
Resting == [phase |-> "idle", todo |-> <<>>, job |-> 0, got |-> NoJob]

Init ==
    /\ file = [j \in Jobs |-> NoJob]
    /\ queue = [enqueued |-> {}, running |-> {}, manipulated |-> {}]
    /\ mem = [j \in Jobs |-> NoJob]
    /\ handler = [j \in Jobs |-> "none"]
    /\ start = [j \in Jobs |-> NotStarting]
    /\ chores = {}
    /\ poller = Resting
    /\ watch = [j \in Jobs |-> NoJob]
    /\ gen = 1
    /\ procs = <<>>
    /\ events = 0

-----------------------------------------------------------------------------
(* The queue of luxid.                                                     *)

\* While a job is taken out of the queue, or being manipulated, jobs that
\* depend on it count as eligible.
jobEligible(q, j) == Deps[j] \cap (q.running \cup q.enqueued) = {}

\* Mutant: the jobs that run already are not counted.
selectJobsToRunAnyway(q) ==
    LET eligible == {j \in q.enqueued : jobEligible(q, j)}
        n        == Min({MaxRunning, Cardinality(eligible)})
    IN  {chosen \in SUBSET eligible : Cardinality(chosen) = n}

\* As many eligible jobs as there is room for.  The order, by priority, is not
\* modelled; there are no filter rules and no rate limits.
selectJobsToRun(q) ==
    LET eligible == {j \in q.enqueued : jobEligible(q, j)}
        used     == Cardinality(q.running) + Cardinality(q.manipulated)
        n        == IF used >= MaxRunning THEN 0
                    ELSE Min({MaxRunning - used, Cardinality(eligible)})
    IN  {chosen \in SUBSET eligible : Cardinality(chosen) = n}

scheduleSomeJobs(q, jobs) ==
    \E chosen \in selectJobsToRun(q) :
        /\ queue' = [q EXCEPT !.enqueued = @ \ chosen, !.running = @ \cup chosen]
        /\ mem' = [j \in Jobs |-> IF j \in chosen THEN View(jobs[j]) ELSE jobs[j]]
        /\ start' = [j \in Jobs |->
                        IF j \in chosen THEN [pc |-> "chosen", job |-> jobs[j], pid |-> 0]
                        ELSE start[j]]

sortoutFinishedJobs == {j \in queue.running : jobFinalized(mem[j])}

\* Cleaning up, which is always followed by scheduling.
cleanupFinishedJobs ==
    LET fin == sortoutFinishedJobs
    IN  /\ scheduleSomeJobs([queue EXCEPT !.running = @ \ fin],
                            [j \in Jobs |-> IF j \in fin THEN NoJob ELSE mem[j]])
        /\ watch' = [j \in Jobs |-> IF j \in fin THEN NoJob ELSE watch[j]]

\* Threads that were forked to clean up or to schedule; doing it once more is
\* harmless, so they are not counted.
Cleanup ==
    /\ "cleanup" \in chores
    /\ cleanupFinishedJobs
    /\ chores' = chores \ {"cleanup"}
    /\ UNCHANGED <<file, handler, poller, gen, procs, events>>

Schedule ==
    /\ "schedule" \in chores
    /\ scheduleSomeJobs(queue, mem)
    /\ chores' = chores \ {"schedule"}
    /\ UNCHANGED <<file, handler, poller, watch, gen, procs, events>>

Event == events < MaxEvents /\ events' = events + 1

-----------------------------------------------------------------------------
(* Requests.                                                               *)

\* The job is on disk before it is in the queue: another thread enqueues it.
SubmitJob(j) ==
    /\ ~Submitted(j)
    /\ \A k \in Deps[j] : Submitted(k)
    /\ file' = [file EXCEPT ![j] = NewJob(j)]
    /\ mem' = [mem EXCEPT ![j] = NewJob(j)]
    /\ handler' = [handler EXCEPT ![j] = "enqueue"]
    /\ UNCHANGED <<queue, start, chores, poller, watch, gen, procs, events>>

enqueueNewJobs(j) ==
    /\ handler[j] = "enqueue"
    /\ handler' = [handler EXCEPT ![j] = "none"]
    /\ queue' = [queue EXCEPT !.enqueued = @ \cup {j}]
    /\ chores' = chores \cup {"schedule"}
    /\ UNCHANGED <<file, mem, start, poller, watch, gen, procs, events>>

\* CancelJob and setJobPriority take a queued job out of the queue first.
rmJob(j, why) ==
    /\ j \in queue.enqueued
    /\ queue' = [queue EXCEPT !.enqueued = @ \ {j}]
    /\ handler' = [handler EXCEPT ![j] = why]
    /\ UNCHANGED <<file, mem, start, chores, poller, watch, gen, procs>>

CancelQueued(j) == rmJob(j, "cancel") /\ Event

\* The job is read from disk, marked and written back.
CancelWrite(j) ==
    /\ handler[j] = "cancel"
    /\ file' = [file EXCEPT ![j] = cancelQueuedJob(@)]
    /\ handler' = [handler EXCEPT ![j] = "none"]
    /\ mem' = [mem EXCEPT ![j] = NoJob]
    /\ UNCHANGED <<queue, start, chores, poller, watch, gen, procs, events>>

\* A job that was handed over is signalled, once its process id is on disk.
cancelJob(j) ==
    /\ j \in queue.running
    /\ ~isDead(file[j].livelock)
    /\ file[j].pid \in Pids
    /\ procs[file[j].pid].pc # "dead"
    /\ procs' = [procs EXCEPT ![file[j].pid].cancel = TRUE]
    /\ Event
    /\ UNCHANGED <<file, luxid>>

setJobPriority(j) ==
    /\ rmJob(j, "priority")
    /\ Event

\* Its copy in memory is written, and enqueued again.
PriorityWrite(j) ==
    /\ handler[j] = "priority"
    /\ file' = [file EXCEPT ![j] = mem[j]]
    /\ handler' = [handler EXCEPT ![j] = "enqueue"]
    /\ UNCHANGED <<queue, mem, start, chores, poller, watch, gen, procs, events>>

-----------------------------------------------------------------------------
(* Starting a job.  The copy of the job taken when it was chosen is written *)
(* twice, with the livelock of luxid and with the one of the process.       *)

WriteLivelock(j, lock) == file' = [file EXCEPT ![j] = [start[j].job EXCEPT !.livelock = lock]]

ForkLockFree == \A j \in Jobs : start[j].pc \notin {"owned", "spawned", "named"}

startJob(j) ==
    /\ start[j].pc = "chosen"
    /\ ForkLockFree
    /\ WriteLivelock(j, LuxidLock(gen))
    /\ start' = [start EXCEPT ![j].pc = "owned"]
    /\ UNCHANGED <<queue, mem, handler, chores, poller, watch, gen, procs, events>>

spawnJobProcess(j) ==
    /\ start[j].pc = "owned"
    /\ procs' = Append(procs, [job |-> j, pc |-> "boot", copy |-> NoJob, cancel |-> FALSE])
    /\ start' = [start EXCEPT ![j].pc = "spawned", ![j].pid = Len(procs) + 1]
    /\ UNCHANGED <<file, queue, mem, handler, chores, poller, watch, gen, events>>

\* The process has created its livelock and sent its name.
SetLivelock(j) ==
    /\ start[j].pc = "spawned"
    /\ procs[start[j].pid].pc = "boot"
    /\ WriteLivelock(j, ProcLock(start[j].pid))
    /\ start' = [start EXCEPT ![j].pc = "named"]
    /\ UNCHANGED <<queue, mem, handler, chores, poller, watch, gen, procs, events>>

\* The process is told that it can start, and gets the secret parameters.
Handover(j) ==
    /\ start[j].pc = "named"
    /\ procs[start[j].pid].pc = "boot"
    /\ procs' = [procs EXCEPT ![start[j].pid].pc = "started"]
    /\ start' = [start EXCEPT ![j] = NotStarting]
    /\ UNCHANGED <<file, queue, mem, handler, chores, poller, watch, gen, events>>

Kill(p) == procs' = [procs EXCEPT ![p] = [@ EXCEPT !.pc = "dead", !.copy = NoJob, !.cancel = FALSE]]

\* Writing, forking or talking to the process fails; the process is killed.
StartFails(j) ==
    /\ start[j].pc \in {"owned", "spawned", "named"}
    /\ \/ /\ start[j].pid \in Pids /\ procs[start[j].pid].pc = "dead"
          /\ UNCHANGED <<procs, events>>
       \/ /\ Event
          /\ IF start[j].pid \in Pids THEN Kill(start[j].pid) ELSE UNCHANGED procs
    /\ start' = [start EXCEPT ![j].pc = "failed"]
    /\ UNCHANGED <<file, queue, mem, handler, chores, poller, watch, gen>>

\* If death detection has the job in its hands, it is not removed.
failJobs(j) ==
    /\ start[j].pc = "failed"
    /\ queue' = [queue EXCEPT !.running = @ \ {j}]
    /\ mem' = IF j \in queue.running THEN [mem EXCEPT ![j] = NoJob] ELSE mem
    /\ start' = [start EXCEPT ![j].pc = "failing"]
    /\ UNCHANGED <<file, handler, chores, poller, watch, gen, procs, events>>

FailWrite(j) ==
    /\ start[j].pc = "failing"
    /\ file' = [file EXCEPT ![j] = failQueuedJob(start[j].job)]
    /\ start' = [start EXCEPT ![j] = NotStarting]
    /\ UNCHANGED <<queue, mem, handler, chores, poller, watch, gen, procs, events>>

-----------------------------------------------------------------------------
(* Noticing changes: the watcher of a job file, and the poller.            *)

\* Putting what was read into the queue, if the job still runs.  Two threads
\* may do this in the order opposite to that of their reading.
updateJobStatus(j, job) ==
    /\ mem' = IF j \in queue.running THEN [mem EXCEPT ![j] = job] ELSE mem
    /\ chores' = IF jobFinalized(job) THEN chores \cup {"cleanup"} ELSE chores

WatchRead(j) ==
    /\ j \in queue.running \cap Watched
    /\ watch[j] = NoJob
    /\ View(file[j]) # mem[j]
    /\ watch' = [watch EXCEPT ![j] = View(file[j])]
    /\ UNCHANGED <<file, queue, mem, handler, start, chores, poller, gen, procs, events>>

WatchUpdate(j) ==
    /\ watch[j] # NoJob
    /\ updateJobStatus(j, watch[j])
    /\ watch' = [watch EXCEPT ![j] = NoJob]
    /\ UNCHANGED <<file, queue, handler, start, poller, gen, procs, events>>

\* A round of the poller works on the running jobs as they were when it read
\* the queue: first it looks for dead jobs, then it updates them.
Snapshot == [j \in queue.running |-> mem[j]]
Drop(todo, j) == [k \in DOMAIN todo \ {j} |-> todo[k]]

PollBegin ==
    /\ poller.phase = "idle"
    /\ poller' = [poller EXCEPT !.phase = "death", !.todo = Snapshot]
    /\ UNCHANGED <<file, queue, mem, handler, start, chores, watch, gen, procs, events>>

\* A job without livelock, or with the one of luxid, is being started.
\* A dead job is taken out of the running ones, if it is still there.
checkForDeath(j) ==
    /\ poller.phase = "death" /\ j \in DOMAIN poller.todo
    /\ LET died == isDead(poller.todo[j].livelock)
       IN  IF died /\ j \in queue.running
           THEN /\ queue' = [queue EXCEPT !.running = @ \ {j}, !.manipulated = @ \cup {j}]
                /\ poller' = [poller EXCEPT !.phase = "manipulate", !.job = j]
           ELSE /\ poller' = [poller EXCEPT !.todo = Drop(@, j)]
                /\ UNCHANGED queue
    /\ UNCHANGED <<file, mem, handler, start, chores, watch, gen, procs, events>>

\* Mutant: what is on disk is not looked at.
ManipulateDeadAlways ==
    /\ poller.phase = "manipulate"
    /\ file' = [file EXCEPT ![poller.job] = failQueuedJob(@)]
    /\ queue' = [queue EXCEPT !.running = @ \cup {poller.job},
                              !.manipulated = @ \ {poller.job}]
    /\ poller' = [poller EXCEPT !.phase = "death", !.todo = Drop(@, poller.job), !.job = 0]
    /\ UNCHANGED <<mem, handler, start, chores, watch, gen, procs, events>>

\* It is read again from disk and marked as failed, unless it is finalized; then
\* it is one of the running jobs again.
ManipulateDead ==
    /\ poller.phase = "manipulate"
    /\ file' = IF jobFinalized(file[poller.job]) THEN file
               ELSE [file EXCEPT ![poller.job] = failQueuedJob(@)]
    /\ queue' = [queue EXCEPT !.running = @ \cup {poller.job},
                              !.manipulated = @ \ {poller.job}]
    /\ poller' = [poller EXCEPT !.phase = "death", !.todo = Drop(@, poller.job), !.job = 0]
    /\ UNCHANGED <<mem, handler, start, chores, watch, gen, procs, events>>

PollUpdates ==
    /\ poller.phase = "death" /\ poller.todo = <<>>
    /\ poller' = [poller EXCEPT !.phase = "update", !.todo = Snapshot]
    /\ UNCHANGED <<file, queue, mem, handler, start, chores, watch, gen, procs, events>>

\* The file of each is read.  (If it did not change since it was read last, that
\* is skipped and a clean-up is forked, like the one with which the round ends.)
readJobStatus(j) ==
    /\ poller.phase = "update" /\ j \in DOMAIN poller.todo
    /\ poller' = [poller EXCEPT !.phase = "insert", !.job = j, !.got = View(file[j])]
    /\ UNCHANGED <<file, queue, mem, handler, start, chores, watch, gen, procs, events>>

updateJob ==
    /\ poller.phase = "insert"
    /\ updateJobStatus(poller.job, poller.got)
    /\ poller' = [phase |-> "update", todo |-> Drop(poller.todo, poller.job),
                  job |-> 0, got |-> NoJob]
    /\ UNCHANGED <<file, queue, handler, start, watch, gen, procs, events>>

PollEnd ==
    /\ poller.phase = "update" /\ poller.todo = <<>>
    /\ cleanupFinishedJobs
    /\ poller' = Resting
    /\ UNCHANGED <<file, handler, chores, gen, procs, events>>

Poll ==
    \/ PollBegin \/ ManipulateDead \/ PollUpdates \/ updateJob \/ PollEnd
    \/ \E j \in Jobs : checkForDeath(j) \/ readJobStatus(j)

-----------------------------------------------------------------------------
(* A restart of luxid: what it had in memory is gone, and what is started   *)
(* is decided by the status in the files alone.                             *)

initJQScheduler ==
    LET open == {j \in Jobs : Submitted(j) /\ ~Finalized(j)}
        run  == {j \in open : jobStarted(file[j])}
    IN  /\ queue' = [enqueued |-> open \ run, running |-> run, manipulated |-> {}]
        /\ mem' = [j \in Jobs |-> IF j \in run THEN View(file[j])
                                  ELSE IF j \in open THEN file[j] ELSE NoJob]

\* No job that luxid began to start, or that is between two opcodes, is queued
\* according to its file.
Restartable == \A j \in Jobs : file[j].livelock # NoLock => calcJobStatus(file[j].ops) # "queued"

Restart ==
    /\ Event
    /\ RestartAnywhere \/ Restartable
    /\ gen' = gen + 1
    /\ initJQScheduler
    /\ handler' = [j \in Jobs |-> "none"]
    /\ start' = [j \in Jobs |-> NotStarting]
    /\ chores' = {"schedule"}
    /\ poller' = Resting
    /\ watch' = [j \in Jobs |-> NoJob]
    /\ UNCHANGED <<file, procs>>

-----------------------------------------------------------------------------
(* A job process.                                                          *)

Step(p, pc, copy) == procs' = [procs EXCEPT ![p].pc = pc, ![p].copy = copy]
Write(p, copy) == file' = [file EXCEPT ![procs[p].job] = copy]

\* Without luxid at the other end of the pipe it dies.
PipeBroken(p) ==
    /\ procs[p].pc = "boot"
    /\ \A j \in Jobs : start[j].pid # p
    /\ Kill(p)
    /\ UNCHANGED <<file, luxid, events>>

\* The process id is set in its copy, and written with the first change.
SafeLoadJobFromDisk(p) ==
    /\ procs[p].pc = "started"
    /\ Step(p, "ready", [file[procs[p].job] EXCEPT !.pid = p])
    /\ UNCHANGED <<file, luxid, events>>

\* The last write of a job that failed or was cancelled.
Finish(p, job, status) ==
    /\ Write(p, MarkUnfinishedOps(job, status))
    /\ Step(p, "exiting", NoJob)

\* The beginning of a call of the job processor: find the opcode, and mark it
\* as waiting for locks.  An opcode that is marked as running is an error.
MarkWaitlock(p) ==
    LET job == procs[p].copy
        todo == IF jobFinalized(job) THEN "nothing" ELSE job.ops[FindNextOpcode(job)]
    IN  /\ procs[p].pc = "ready" \/ (procs[p].pc = "loop" /\ ~procs[p].cancel)
        /\ \/ /\ todo \in {"nothing", "running"}
              /\ Step(p, "exiting", NoJob)
              /\ UNCHANGED file
           \/ todo = "canceling" /\ Finish(p, job, "canceled")
           \/ /\ todo = "queued"
              /\ Write(p, SetOp(job, FindNextOpcode(job), "waiting"))
              /\ Step(p, "waiting", SetOp(job, FindNextOpcode(job), "waiting"))
           \/ /\ todo = "waiting"
              /\ Step(p, "waiting", job)
              /\ UNCHANGED file
        /\ UNCHANGED <<luxid, events>>

\* Mutant: it is enough that they ended.
UnmetEnded(p) ==
    {k \in Deps[procs[p].job] : FindNextOpcode(procs[p].copy) = 1 /\ ~Finalized(k)}

\* The dependencies of the opcode that is waiting; they must be successful.
\* The first one, in any order, that is not decides what happens.
Unmet(p) ==
    {k \in Deps[procs[p].job] :
        FindNextOpcode(procs[p].copy) = 1 /\ calcJobStatus(file[k].ops) # "success"}

CheckDependencies(p) ==
    /\ procs[p].pc = "waiting"
    /\ \E k \in Unmet(p) :
        \/ /\ ~Finalized(k)
           /\ Step(p, "loop", procs[p].copy)
           /\ UNCHANGED file
        \/ calcJobStatus(file[k].ops) = "canceled" /\ Finish(p, procs[p].copy, "canceled")
        \/ calcJobStatus(file[k].ops) = "error" /\ Finish(p, procs[p].copy, "error")
    /\ UNCHANGED <<luxid, events>>

\* If the attempts to get the locks raise the priority, the job is written.
LockAcquireTimeout(p) ==
    /\ procs[p].pc = "waiting" /\ Unmet(p) = {}
    /\ Write(p, procs[p].copy) \/ UNCHANGED file
    /\ Step(p, "loop", procs[p].copy)
    /\ UNCHANGED <<luxid, events>>

\* The locks are held; the opcode is written as running.
NotifyStart(p) ==
    LET job == SetOp(procs[p].copy, FindNextOpcode(procs[p].copy), "running")
    IN  /\ procs[p].pc = "waiting" /\ Unmet(p) = {}
        /\ Write(p, job)
        /\ Step(p, "exec", job)
        /\ UNCHANGED <<luxid, events>>

\* The logical unit wants other locks: waiting again, in memory only.
NotifyRetry(p) ==
    LET job == SetOp(procs[p].copy, FindNextOpcode(procs[p].copy), "waiting")
    IN  /\ procs[p].pc = "exec"
        /\ Event
        /\ Step(p, "waiting", job)
        /\ UNCHANGED <<file, luxid>>

\* The opcode ends, and with the last one the job.
OpSuccess(p) ==
    LET job == SetOp(procs[p].copy, FindNextOpcode(procs[p].copy), "success")
    IN  /\ procs[p].pc = "exec"
        /\ Write(p, job)
        /\ IF jobFinalized(job) THEN Step(p, "exiting", NoJob) ELSE Step(p, "loop", job)
        /\ UNCHANGED <<luxid, events>>

OpError(p) ==
    /\ procs[p].pc = "exec" \/ (procs[p].pc = "waiting" /\ Unmet(p) = {})
    /\ Finish(p, procs[p].copy, "error")
    /\ UNCHANGED <<luxid, events>>

\* Between two calls of the job processor a request to cancel is handled: the
\* job is changed on disk, and the process continues with what is there.
CancelJob(p) ==
    LET job == Cancel(file[procs[p].job])
    IN  /\ procs[p].pc = "loop" /\ procs[p].cancel
        /\ Write(p, job)
        /\ procs' = [procs EXCEPT ![p] = [@ EXCEPT !.pc = "ready", !.cancel = FALSE, !.copy = job]]
        /\ UNCHANGED <<luxid, events>>

\* The process removes its livelock file and ends.
Exit(p) ==
    /\ procs[p].pc = "exiting"
    /\ Kill(p)
    /\ UNCHANGED <<file, luxid, events>>

\* It is killed, or dies of an exception, wherever it is.
Crash(p) ==
    /\ procs[p].pc # "dead"
    /\ Event
    /\ Kill(p)
    /\ UNCHANGED <<file, luxid>>

Process(p) ==
    \/ PipeBroken(p) \/ SafeLoadJobFromDisk(p) \/ MarkWaitlock(p)
    \/ CheckDependencies(p) \/ LockAcquireTimeout(p) \/ NotifyStart(p) \/ NotifyRetry(p)
    \/ OpSuccess(p) \/ OpError(p) \/ CancelJob(p) \/ Exit(p)

Starting(j) ==
    \/ startJob(j) \/ spawnJobProcess(j) \/ SetLivelock(j) \/ Handover(j)
    \/ StartFails(j) \/ failJobs(j) \/ FailWrite(j)

Handling(j) == enqueueNewJobs(j) \/ CancelWrite(j) \/ PriorityWrite(j)

Next ==
    \/ \E j \in Jobs :
        \/ SubmitJob(j) \/ CancelQueued(j) \/ cancelJob(j) \/ setJobPriority(j)
        \/ Handling(j) \/ Starting(j) \/ WatchRead(j) \/ WatchUpdate(j)
    \/ Cleanup \/ Schedule \/ Poll
    \/ \E p \in Pids : Process(p) \/ Crash(p)
    \/ Restart

Spec == Init /\ [][Next]_vars

-----------------------------------------------------------------------------
(* Properties.                                                             *)

Executing(p) ==
    \/ procs[p].pc = "started"
    \/ procs[p].pc \in {"ready", "waiting", "exec", "loop"} /\ ~jobFinalized(procs[p].copy)
Executors(j) == {p \in Pids : procs[p].job = j /\ Executing(p)}
\* A job is executed by one process at a time, and never again once it ended.
OneExecutor ==
    \A j \in Jobs :
        /\ Cardinality(Executors(j)) <= 1
        /\ j \in queue.enqueued => Executors(j) = {}

\* No more jobs are executed at the same time than the cluster allows, also
\* after restarts of luxid.
ExecutionLimit ==
    Cardinality({p \in Pids : Executing(p)}) <= MaxRunning

\* An opcode runs only when the jobs it depends on were successful, even if the
\* scheduler has started the job too early.
DependenciesMet ==
    \A p \in Pids : procs[p].pc = "exec" =>
        \A k \in Deps[procs[p].job] : calcJobStatus(file[k].ops) = "success"

\* The outcome of a job is not changed any more once it is finalized: neither
\* by a late write of its process, nor by death detection, a failed start or a
\* cancellation.
OutcomeStable ==
    [][\A j \in Jobs : Finalized(j) => file'[j].ops = file[j].ops]_vars

LuxidWrites(j) == file'[j] # file[j] /\ procs' = procs

\* Once a job is started luxid leaves its file alone, unless the process died.
HandsOff ==
    [][\A j \in Jobs : LuxidWrites(j) => Executors(j) = {}]_vars

\* The processes that wait for a job to end use all places for running jobs.
Stuck ==
    Cardinality({j \in queue.running : \E p \in Executors(j), k \in Deps[j] : ~Finalized(k)})
        >= MaxRunning

\* "Enqueue new jobs. This will guarantee that the jobs will be executed
\* eventually."  The jobs that were submitted all end, unless all places are
\* taken by jobs that were started before those they depend on.
EventuallyDone == []<>(Stuck \/ \A j \in Jobs : Submitted(j) => Finalized(j))

\* The handlers of luxid, the poller and the processes go on.  Locks are granted
\* in the end, because the last attempt to get them has no timeout, and a logical
\* unit ends.
Fairness ==
    /\ WF_vars(\E j \in Jobs : Handling(j) \/ Starting(j))
    /\ WF_vars(Poll)
    /\ \A p \in 1..Cardinality(Jobs) :
        /\ WF_vars(p \in Pids /\ Process(p))
        /\ SF_vars(p \in Pids /\ (NotifyStart(p) \/ OpSuccess(p) \/ OpError(p)))

FairSpec == Spec /\ Fairness
=============================================================================
