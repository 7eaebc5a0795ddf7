------------------------------- MODULE JobFile -------------------------------
(***************************************************************************)
(* A job as it is stored in a job file of the queue directory: the status   *)
(* of each opcode, the livelock of the process that is responsible for it,  *)
(* and the process id once the process has written it.  Priorities, inputs, *)
(* results, time stamps and logs are left out.                              *)
(*                                                                         *)
(* Both sides compute with job files: luxid (JQueue.hs) and the job process *)
(* (lib/jqueue/__init__.py).                                                *)
(***************************************************************************)
EXTENDS Naturals, Sequences, FiniteSetsExt

OpStatus ==
    {"queued", "waiting", "canceling", "running", "canceled", "success", "error"}

OpsFinalized == {"canceled", "success", "error"}

\* The first failed, cancelled or cancelling opcode decides; then success, if
\* all succeeded; then the last waiting or running opcode.
calcJobStatus(ops) ==
    LET ends  == {i \in DOMAIN ops : ops[i] \in {"error", "canceling", "canceled"}}
        marks == {i \in DOMAIN ops : ops[i] \in {"waiting", "running"}}
    IN  IF ends # {} THEN ops[Min(ends)]
        ELSE IF \A i \in DOMAIN ops : ops[i] = "success" THEN "success"
        ELSE IF marks # {} THEN ops[Max(marks)] ELSE "queued"

\* Mutant: waiting for locks does not count as started.
jobStartedRunning(job) == calcJobStatus(job.ops) \notin {"queued", "waiting"}

jobStarted(job) == calcJobStatus(job.ops) # "queued"

jobFinalized(job) == calcJobStatus(job.ops) \in OpsFinalized

\* luxid marks every opcode, whatever its status was.
cancelQueuedJob(job) == [job EXCEPT !.ops = [i \in DOMAIN @ |-> "canceled"]]

failQueuedJob(job) == [job EXCEPT !.ops = [i \in DOMAIN @ |-> "error"]]

\* The job process marks the opcodes that are not finalized.
MarkUnfinishedOps(job, status) ==
    [job EXCEPT !.ops =
        [i \in DOMAIN @ |-> IF @[i] \in OpsFinalized THEN @[i] ELSE status]]

SetOp(job, i, status) == [job EXCEPT !.ops[i] = status]

\* The job after a request to cancel; one that runs or ended stays as it is.
Cancel(job) ==
    CASE calcJobStatus(job.ops) = "queued"  -> MarkUnfinishedOps(job, "canceled")
      [] calcJobStatus(job.ops) = "waiting" -> MarkUnfinishedOps(job, "canceling")
      [] OTHER -> job

\* The opcode to process next; only of jobs that are not finalized.
FindNextOpcode(job) == Min({i \in DOMAIN job.ops : job.ops[i] \notin OpsFinalized})
=============================================================================
