----------------------------- MODULE JobQueueProofs -----------------------------
(***************************************************************************)
(* What luxid and the job processes never do to a job, proved for any      *)
(* finite set of jobs and any number of restarts, failed starts, crashes   *)
(* and requests.                                                           *)
(*                                                                         *)
(* The argument rests on two facts.  The livelock in the file of a job is  *)
(* set before its process is spawned and only removed with the job's end,  *)
(* so there is never a second process for a job, unless luxid is restarted *)
(* while the file of a job with a process says that it is queued.  And the *)
(* opcodes of a job file are regular: as soon as one of them has failed or *)
(* was cancelled all have ended, so that "not ended" can be read off from  *)
(* the file as well as from the copy of the process.                       *)
(*                                                                         *)
(* Everything that is not temporal is proved in lemma Core.  Its steps are *)
(* lemmas: first those about job files, processes and what a step leaves   *)
(* alone, then one for each group of actions (ProcessStep, RequestStep,    *)
(* StartingStep, NoticeStep, SchedulerStep, RestartStep), which holds the  *)
(* lemmas only this group needs, and at last what follows from IInv.       *)
(***************************************************************************)
EXTENDS JobQueue, TLAPS

\* The leaves are first-order: the prover for them, if they name no other.
USE Zenon

-----------------------------------------------------------------------------
(* Job files.                                                              *)

Regular(ops) ==
    \/ \A i \in DOMAIN ops : ops[i] \in OpsFinalized
    \/ \A i \in DOMAIN ops : ops[i] \notin {"error", "canceled"}

Open(ops) == \E i \in DOMAIN ops : ops[i] \notin OpsFinalized

-----------------------------------------------------------------------------
(* The state.                                                              *)

Lock == {NoLock} \cup {LuxidLock(g) : g \in Nat} \cup {ProcLock(p) : p \in Nat}

JobOf(j) == [ops : [1..NumOps[j] -> OpStatus], livelock : Lock, pid : Nat]
Job == {NoJob} \cup UNION {JobOf(j) : j \in Jobs}

\* What View yields.
Sight == [ops : {<<"success">>, <<"running">>}, livelock : Lock, pid : {0}]

StartRun == [pc : {"none", "chosen", "owned", "spawned", "named", "failed", "failing"},
             job : {NoJob} \cup {NewJob(j) : j \in Jobs}, pid : Nat]

Proc == [job : Jobs, copy : Job, cancel : BOOLEAN,
         pc : {"boot", "started", "ready", "waiting", "exec", "loop", "exiting", "dead"}]

Typed ==
    /\ file \in [Jobs -> Job] /\ \A j \in Jobs : file[j] \in JobOf(j) \cup {NoJob}
    /\ queue \in [enqueued : SUBSET Jobs, running : SUBSET Jobs, manipulated : SUBSET Jobs]
    /\ mem \in [Jobs -> Job \cup Sight]
    /\ handler \in [Jobs -> {"none", "enqueue", "cancel", "priority"}]
    /\ start \in [Jobs -> StartRun]
    /\ watch \in [Jobs -> {NoJob} \cup Sight]
    /\ procs \in Seq(Proc) /\ gen \in Nat

-----------------------------------------------------------------------------
(* The inductive invariant.                                                *)

NoProc(j) == \A p \in Pids : procs[p].job # j
AllDead(j) == \A p \in Pids : procs[p].job = j => procs[p].pc = "dead"

\* Never started, as far as the file tells, and really.
Fresh(j) == file[j] = NewJob(j) /\ NoProc(j)

Met(j) == \A k \in Deps[j] : Submitted(k) /\ calcJobStatus(file[k].ops) = "success"

Held(j) == j \in queue.running \/ j \in queue.manipulated

\* A livelock that was or is in the file of j.  It is not dead, unless the job
\* ended or the process of the job is dead.
LockOf(j, lock) ==
    \/ lock = NoLock \/ lock = LuxidLock(gen) \/ Finalized(j)
    \/ \E p \in Pids : procs[p].job = j /\ lock = ProcLock(p)

\* A copy of the job in the memory of luxid may be old, but is not wrong.
Seen(j, v) ==
    /\ v \in Sight /\ LockOf(j, v.livelock)
    /\ v.ops = <<"success">> => Finalized(j)

FileOk(j) ==
    Submitted(j) =>
        /\ Regular(file[j].ops) /\ LockOf(j, file[j].livelock)
        /\ file[j].livelock = NoLock => Finalized(j) \/ Fresh(j)
        /\ file[j].livelock = LuxidLock(gen) => Finalized(j) \/ file[j].ops = NewJob(j).ops
        /\ Finalized(j) \/ ~jobStarted(file[j]) \/ Held(j)
        /\ \A k \in Deps[j] : Submitted(k)
        /\ file[j].ops[1] \in {"running", "success"} => Met(j)

\* A job belongs to a handler, to the queue, or to who starts and runs it.
PlaceOk(j) ==
    /\ ~Submitted(j) => /\ NoProc(j) /\ start[j] = NotStarting /\ ~Held(j)
                        /\ handler[j] = "none" /\ j \notin queue.enqueued
    /\ handler[j] # "none" => j \notin queue.enqueued
    /\ handler[j] # "none" \/ j \in queue.enqueued =>
           Fresh(j) /\ mem[j] = NewJob(j) /\ start[j] = NotStarting /\ ~Held(j)
    /\ Held(j) => Seen(j, mem[j])
    /\ watch[j] # NoJob => Seen(j, watch[j])

StartOk(j) ==
    /\ start[j].pc = "none" => start[j] = NotStarting
    /\ start[j].pc # "none" => start[j].job = NewJob(j)
    /\ start[j].pid # 0 => start[j].pid \in Pids /\ procs[start[j].pid].job = j
    /\ start[j].pc \in {"chosen", "owned"} =>
           start[j].pid = 0 /\ NoProc(j) /\ j \in queue.running
    /\ start[j].pc = "chosen" => file[j] = NewJob(j)
    /\ start[j].pc = "owned" => file[j] = [NewJob(j) EXCEPT !.livelock = LuxidLock(gen)]
    /\ start[j].pc \in {"spawned", "named"} =>
           /\ start[j].pid # 0 /\ procs[start[j].pid].pc \in {"boot", "dead"}
           /\ procs[start[j].pid].pc = "boot" =>
                  j \in queue.running /\ file[j].ops = NewJob(j).ops
           /\ procs[start[j].pid].pc = "boot" /\ start[j].pc = "named" =>
                  file[j] = [NewJob(j) EXCEPT !.livelock = ProcLock(start[j].pid)]
    /\ start[j].pc \in {"failed", "failing"} => AllDead(j)
    /\ start[j].pc \in {"spawned", "named", "failed", "failing"} =>
           file[j].ops \in {NewJob(j).ops, failQueuedJob(NewJob(j)).ops}

\* What a process has in its copy is in the file, except that it is waiting
\* again for the locks of an opcode that is running according to the file.
Matches(ops, copy) ==
    \A i \in DOMAIN copy : ops[i] = copy[i] \/ (copy[i] = "waiting" /\ ops[i] = "running")

AtWork == {"ready", "waiting", "exec", "loop"}

ProcOk(j, p) ==
    /\ procs[p].pc = "boot" => start[j].pid = p
    /\ procs[p].pc = "started" =>
           file[j] = [NewJob(j) EXCEPT !.livelock = ProcLock(p)] /\ j \in queue.running
    /\ procs[p].pc \in AtWork =>
           /\ procs[p].copy \in JobOf(j) /\ Regular(procs[p].copy.ops)
           /\ procs[p].copy.livelock = ProcLock(p) /\ file[j].livelock = ProcLock(p)
           /\ Matches(file[j].ops, procs[p].copy.ops)
           /\ Open(procs[p].copy.ops) => j \in queue.running
    /\ procs[p].pc \in {"waiting", "exec", "loop"} => Open(procs[p].copy.ops)
    /\ procs[p].pc = "exec" => procs[p].copy.ops[FindNextOpcode(procs[p].copy)] = "running"

OnlyProc(j) == \A p, q \in Pids : procs[p].job = j /\ procs[q].job = j => p = q

JobInv(j) ==
    /\ FileOk(j) /\ PlaceOk(j) /\ StartOk(j) /\ OnlyProc(j)
    /\ \A p \in Pids : procs[p].job = j => ProcOk(j, p)

PollerOk ==
    /\ poller = [phase |-> poller.phase, todo |-> poller.todo,
                 job |-> poller.job, got |-> poller.got]
    /\ poller.phase = "manipulate" =>
           /\ poller.job \in Jobs \ queue.running /\ queue.manipulated = {poller.job}
           /\ Finalized(poller.job) \/ AllDead(poller.job)
    /\ poller.phase # "manipulate" => queue.manipulated = {}
    /\ \A j \in DOMAIN poller.todo :
           j \in Jobs /\ Submitted(j) /\ LockOf(j, poller.todo[j].livelock)
    /\ poller.phase = "insert" => poller.job \in Jobs /\ Seen(poller.job, poller.got)

Limit == Cardinality(queue.running) + Cardinality(queue.manipulated) <= MaxRunning

IInv == Typed /\ PollerOk /\ Limit /\ \A j \in Jobs : JobInv(j)

-----------------------------------------------------------------------------
(* What a step keeps if it does not touch it.                              *)

\* Jobs stay, and so does the outcome of those that ended.
Stable ==
    \A i \in Jobs : /\ Submitted(i) => Submitted(i)'
                    /\ Finalized(i) => file'[i].ops = file[i].ops

\* Processes stay, work for the same job, and stay dead.
ProcsKept ==
    \A p \in Pids : /\ p \in Pids' /\ procs'[p].job = procs[p].job
                    /\ procs[p].pc = "dead" => procs'[p].pc = "dead"

Untouched(k) ==
    /\ file'[k] = file[k] /\ start'[k] = start[k] /\ handler'[k] = handler[k]
    /\ mem'[k] = mem[k] /\ watch'[k] = watch[k]
    /\ k \in queue'.enqueued <=> k \in queue.enqueued
    /\ k \in queue'.running <=> k \in queue.running
    /\ k \in queue'.manipulated <=> k \in queue.manipulated
    /\ \A p \in Pids : procs[p].job = k =>
           procs'[p].pc = procs[p].pc /\ procs'[p].copy = procs[p].copy
    /\ \A p \in Pids' : procs'[p].job = k => p \in Pids /\ procs[p].job = k

\* Nobody works on the job any more: it ended, or its process died.
Done(j) == Finalized(j) \/ (AllDead(j) /\ ~NoProc(j))

-----------------------------------------------------------------------------
(* What the argument needs of the natural numbers and of finite sets.  The  *)
(* library states it; it is an assumption of lemma Core, so that the        *)
(* library's theorems are not in the scope of every step.                   *)

WellOrdered == \A S : S \subseteq Nat /\ S # {} => \E x \in S : \A y \in S : x <= y

Counting ==
    /\ \A S : IsFiniteSet(S) => Cardinality(S) \in Nat
    /\ Cardinality({}) = 0 /\ \A x : Cardinality({x}) = 1
    /\ \A S : IsFiniteSet(S) =>
          \A R \in SUBSET S : IsFiniteSet(R) /\ Cardinality(R) <= Cardinality(S)
    /\ \A S, R : IsFiniteSet(S) /\ IsFiniteSet(R) =>
          /\ IsFiniteSet(S \cup R)
          /\ Cardinality(S \cup R) = Cardinality(S) + Cardinality(R) - Cardinality(S \cap R)
    /\ \A S, x : IsFiniteSet(S) =>
          /\ Cardinality(S \cup {x}) = IF x \in S THEN Cardinality(S) ELSE Cardinality(S) + 1
          /\ Cardinality(S \ {x}) = IF x \in S THEN Cardinality(S) - 1 ELSE Cardinality(S)
    /\ \A S, R : IsFiniteSet(R) => \A f \in Injection(S, R) :
          IsFiniteSet(S) /\ Cardinality(S) <= Cardinality(R)

-----------------------------------------------------------------------------
\* The invariant is inductive, and the properties follow from it.
LEMMA Core ==
  ASSUME WellOrdered, Counting
  PROVE  /\ Init => IInv
         /\ RestartAnywhere = FALSE /\ IInv /\ [Next]_vars => IInv' /\ Stable
         /\ IInv => OneExecutor /\ ExecutionLimit /\ DependenciesMet
         /\ IInv /\ Next => \A j \in Jobs : LuxidWrites(j) => Executors(j) = {}

\* The least and the greatest element.
<1>MinExists.
  ASSUME NEW S, S \subseteq Nat, S # {}
  PROVE  Min(S) \in S /\ \A y \in S : Min(S) <= y
  <2> USE <1>MinExists
  <2>1. PICK x \in S : \A y \in S : x <= y
    BY DEF WellOrdered
  <2> QED  BY <2>1 DEF Min

<1>MaxExists.
  ASSUME NEW n \in Nat, NEW S, S \subseteq 1..n, S # {}
  PROVE  Max(S) \in S
  <2> USE <1>MaxExists
  <2> DEFINE T == {n - y : y \in S}
  <2>0. \A y \in S : y \in Int /\ n - y \in Nat
    <3> SUFFICES ASSUME NEW y \in S PROVE y \in Int /\ n - y \in Nat  OBVIOUS
    <3>1. y \in 1..n
      OBVIOUS
    <3> QED  BY SMT, <3>1
  <2>1. T \subseteq Nat /\ T # {}
    BY <2>0
  <2>2. Min(T) \in T /\ \A z \in T : Min(T) <= z
    BY <2>1, <1>MinExists
  <2>3. PICK x \in S : Min(T) = n - x
    BY <2>2
  <2>4. \A y \in S : n - x <= n - y
    BY <2>2, <2>3
  <2>5. \A y \in S : x >= y
    BY SMT, <2>0, <2>4
  <2> QED  BY <2>5 DEF Max

\* A regular job has ended if and only if all of its opcodes have.
<1>StatusOpen.
  ASSUME NEW n \in Nat, NEW ops \in [1..n -> OpStatus], Regular(ops)
  PROVE  calcJobStatus(ops) \in OpsFinalized <=> ~Open(ops)
  <2> USE <1>StatusOpen
  <2> DEFINE ends  == {i \in DOMAIN ops : ops[i] \in {"error", "canceling", "canceled"}}
             marks == {i \in DOMAIN ops : ops[i] \in {"waiting", "running"}}
  <2>0. DOMAIN ops = 1..n /\ ends \subseteq 1..n /\ marks \subseteq 1..n
    BY SMT
  <2>1. calcJobStatus(ops) =
          IF ends # {} THEN ops[Min(ends)]
          ELSE IF \A i \in DOMAIN ops : ops[i] = "success" THEN "success"
          ELSE IF marks # {} THEN ops[Max(marks)] ELSE "queued"
    BY DEF calcJobStatus
  <2>2. ends # {} => ops[Min(ends)] \in {"error", "canceling", "canceled"}
    <3> SUFFICES ASSUME ends # {} PROVE Min(ends) \in ends  OBVIOUS
    <3>1. ends \subseteq Nat
      BY SMT, <2>0
    <3> HIDE DEF ends
    <3> QED  BY <3>1, <1>MinExists
  <2>3. marks # {} => ops[Max(marks)] \in {"waiting", "running"}
    <3> SUFFICES ASSUME marks # {} PROVE Max(marks) \in marks  OBVIOUS
    <3> HIDE DEF marks
    <3> QED  BY <2>0, <1>MaxExists
  <2>4. CASE Open(ops)
    <3>1. \A i \in DOMAIN ops : ops[i] \notin {"error", "canceled"}
      BY <2>4 DEF Open, Regular
    <3>2. ends # {} => Min(ends) \in DOMAIN ops /\ ops[Min(ends)] = "canceling"
      <4> SUFFICES ASSUME ends # {} PROVE Min(ends) \in ends  BY <3>1
      <4>1. ends \subseteq Nat
        BY SMT, <2>0
      <4> HIDE DEF ends
      <4> QED  BY <4>1, <1>MinExists
    <3>3. ~\A i \in DOMAIN ops : ops[i] = "success"
      BY <2>4 DEF Open, OpsFinalized
    <3> HIDE DEF ends, marks
    <3>4. calcJobStatus(ops) \in {"canceling", "waiting", "running", "queued"}
      BY <2>1, <2>3, <3>2, <3>3
    <3> QED  BY <2>4, <3>4 DEF OpsFinalized
  <2>5. CASE ~Open(ops)
    <3>1. \A i \in DOMAIN ops : ops[i] \in OpsFinalized
      BY <2>5 DEF Open
    <3>2. ends # {} => ops[Min(ends)] \in OpsFinalized
      <4> SUFFICES ASSUME ends # {} PROVE Min(ends) \in ends  BY <3>1
      <4>1. ends \subseteq Nat
        BY SMT, <2>0
      <4> HIDE DEF ends
      <4> QED  BY <4>1, <1>MinExists
    <3>3. ends = {} => \A i \in DOMAIN ops : ops[i] = "success"
      BY <3>1 DEF OpsFinalized
    <3> HIDE DEF ends, marks
    <3>4. calcJobStatus(ops) \in OpsFinalized
      BY <2>1, <3>2, <3>3 DEF OpsFinalized
    <3> QED  BY <2>5, <3>4
  <2> QED  BY <2>4, <2>5

\* The next opcode of a job that has not ended is its first one that has not.
<1>NextOpcode.
  ASSUME NEW n \in Nat \ {0}, NEW job, job.ops \in [1..n -> OpStatus], Open(job.ops)
  PROVE  /\ FindNextOpcode(job) \in 1..n
         /\ job.ops[FindNextOpcode(job)] \notin OpsFinalized
         /\ FindNextOpcode(job) # 1 => job.ops[1] \in OpsFinalized
  <2> USE <1>NextOpcode
  <2> DEFINE S == {i \in DOMAIN job.ops : job.ops[i] \notin OpsFinalized}
  <2>1. DOMAIN job.ops = 1..n
    BY SMT
  <2>2. S # {} /\ S \subseteq 1..n
    BY <2>1 DEF Open
  <2>3. S \subseteq Nat
    BY SMT, <2>2
  <2>4. Min(S) \in S /\ \A y \in S : Min(S) <= y
    <3> HIDE DEF S
    <3> QED  BY <2>2, <2>3, <1>MinExists
  <2>5. ASSUME 1 \in S PROVE Min(S) = 1
    <3> HIDE DEF S
    <3>1. Min(S) \in 1..n /\ Min(S) <= 1
      BY <2>2, <2>4, <2>5
    <3> QED  BY SMT, <3>1
  <2>6. 1 \in DOMAIN job.ops
    BY SMT, <2>1
  <2>7. FindNextOpcode(job) = Min(S)
    BY DEF FindNextOpcode
  <2>8. 1 \in S \/ job.ops[1] \in OpsFinalized
    BY <2>6
  <2>9. Min(S) \in 1..n /\ job.ops[Min(S)] \notin OpsFinalized
    BY <2>1, <2>4
  <2> HIDE DEF S
  <2> QED  BY <2>5, <2>7, <2>8, <2>9

\* Livelocks differ.
<1>Locks.
  /\ \A g, p : NoLock # LuxidLock(g) /\ NoLock # ProcLock(p) /\ LuxidLock(g) # ProcLock(p)
  /\ \A g, h : LuxidLock(g) = LuxidLock(h) => g = h
  /\ \A p, q : ProcLock(p) = ProcLock(q) => p = q
  /\ ~isDead(NoLock) /\ ~isDead(LuxidLock(gen))
  /\ \A p : isDead(ProcLock(p)) <=> procs[p].pc = "dead"
  BY SMT DEF NoLock, LuxidLock, ProcLock, isDead

\* The fields of a job.
<1>JobIsThere.
  ASSUME NEW j \in Jobs, NEW job \in JobOf(j)
  PROVE  /\ job # NoJob /\ job \in Job
         /\ job.ops \in [1..NumOps[j] -> OpStatus] /\ job.livelock \in Lock
         /\ NumOps[j] \in Nat \ {0} /\ 1 \in DOMAIN job.ops /\ DOMAIN job.ops = 1..NumOps[j]
         /\ Regular(job.ops) => (jobFinalized(job) <=> ~Open(job.ops))
  <2> USE <1>JobIsThere
  <2>1. NumOps[j] \in Nat \ {0}
    BY NumOpsAssumption
  <2>2. job.ops \in [1..NumOps[j] -> OpStatus] /\ job.livelock \in Lock
    BY DEF JobOf
  <2>3. DOMAIN job.ops = 1..NumOps[j]
    BY <2>2
  <2>4. 1 \in DOMAIN job.ops
    BY SMT, <2>1, <2>3
  <2>5. job # NoJob
    <3>1. 1 \notin DOMAIN NoJob.ops
      BY SMT DEF NoJob
    <3> QED  BY <2>4, <3>1
  <2>6. job \in Job
    BY DEF Job
  <2>7. Regular(job.ops) => (jobFinalized(job) <=> ~Open(job.ops))
    BY <2>1, <2>2, <1>StatusOpen DEF jobFinalized
  <2> QED  BY <2>1, <2>2, <2>3, <2>4, <2>5, <2>6, <2>7

\* A new job is queued, and nobody's.
<1>NewJobIsQueued.
  ASSUME NEW j \in Jobs
  PROVE  /\ NewJob(j) \in JobOf(j) /\ NewJob(j).livelock = NoLock
         /\ Regular(NewJob(j).ops) /\ Open(NewJob(j).ops)
         /\ calcJobStatus(NewJob(j).ops) = "queued" /\ NewJob(j).ops[1] = "queued"
  <2> USE <1>NewJobIsQueued
  <2> DEFINE ops == NewJob(j).ops
  <2>1. NumOps[j] \in Nat \ {0}
    BY NumOpsAssumption
  <2>2. ops = [i \in 1..NumOps[j] |-> "queued"] /\ NewJob(j).livelock = NoLock
    BY DEF NewJob
  <2>3. NewJob(j) \in JobOf(j)
    BY DEF NewJob, JobOf, Lock, OpStatus
  <2>4. 1 \in DOMAIN ops
    BY SMT, <2>1, <2>2
  <2>5. \A i \in DOMAIN ops : ops[i] = "queued"
    BY <2>2
  <2> HIDE DEF ops
  <2>6. Regular(ops) /\ Open(ops)
    BY <2>4, <2>5 DEF Regular, Open, OpsFinalized
  <2>7. calcJobStatus(ops) = "queued"
    <3>1. {i \in DOMAIN ops : ops[i] \in {"error", "canceling", "canceled"}} = {}
      BY <2>5
    <3>2. {i \in DOMAIN ops : ops[i] \in {"waiting", "running"}} = {}
      BY <2>5
    <3>3. ~\A i \in DOMAIN ops : ops[i] = "success"
      BY <2>4, <2>5
    <3> QED  BY <3>1, <3>2, <3>3 DEF calcJobStatus
  <2>8. ops[1] = "queued"
    BY <2>4, <2>5
  <2> QED  BY <2>2, <2>3, <2>6, <2>7, <2>8 DEF ops

\* What the operations on job files yield.
<1>FailedJob.
  ASSUME NEW j \in Jobs, NEW job \in JobOf(j)
  PROVE  /\ failQueuedJob(job) \in JobOf(j) /\ cancelQueuedJob(job) \in JobOf(j)
         /\ failQueuedJob(job).ops = [i \in 1..NumOps[j] |-> "error"]
         /\ failQueuedJob(job).livelock = job.livelock
         /\ cancelQueuedJob(job).livelock = job.livelock
         /\ Regular(failQueuedJob(job).ops) /\ jobFinalized(failQueuedJob(job))
         /\ Regular(cancelQueuedJob(job).ops) /\ jobFinalized(cancelQueuedJob(job))
         /\ failQueuedJob(job).ops[1] = "error" /\ cancelQueuedJob(job).ops[1] = "canceled"
  <2> USE <1>FailedJob
  <2>1. DOMAIN job.ops = 1..NumOps[j] /\ 1 \in 1..NumOps[j]
    BY <1>JobIsThere
  <2>2. /\ failQueuedJob(job) = [job EXCEPT !.ops = [i \in 1..NumOps[j] |-> "error"]]
        /\ cancelQueuedJob(job) = [job EXCEPT !.ops = [i \in 1..NumOps[j] |-> "canceled"]]
    BY <2>1 DEF failQueuedJob, cancelQueuedJob
  <2>3. /\ [i \in 1..NumOps[j] |-> "error"] \in [1..NumOps[j] -> OpStatus]
        /\ [i \in 1..NumOps[j] |-> "canceled"] \in [1..NumOps[j] -> OpStatus]
    BY DEF OpStatus
  <2>4. /\ failQueuedJob(job) \in JobOf(j)
        /\ failQueuedJob(job).ops = [i \in 1..NumOps[j] |-> "error"]
        /\ failQueuedJob(job).livelock = job.livelock
    BY SMT, <2>2, <2>3 DEF JobOf
  <2>5. /\ cancelQueuedJob(job) \in JobOf(j)
        /\ cancelQueuedJob(job).ops = [i \in 1..NumOps[j] |-> "canceled"]
        /\ cancelQueuedJob(job).livelock = job.livelock
    BY SMT, <2>2, <2>3 DEF JobOf
  <2>6. /\ Regular(failQueuedJob(job).ops) /\ ~Open(failQueuedJob(job).ops)
        /\ failQueuedJob(job).ops[1] = "error"
    BY <2>1, <2>4 DEF Regular, Open, OpsFinalized
  <2>7. /\ Regular(cancelQueuedJob(job).ops) /\ ~Open(cancelQueuedJob(job).ops)
        /\ cancelQueuedJob(job).ops[1] = "canceled"
    BY <2>1, <2>5 DEF Regular, Open, OpsFinalized
  <2>8. jobFinalized(failQueuedJob(job)) /\ jobFinalized(cancelQueuedJob(job))
    BY <2>4, <2>5, <2>6, <2>7, <1>JobIsThere
  <2> QED  BY <2>4, <2>5, <2>6, <2>7, <2>8

\* A job stays regular when its next opcode gets a new status.
<1>ChangedJob.
  ASSUME NEW j \in Jobs, NEW job \in JobOf(j), Regular(job.ops), Open(job.ops),
         NEW status \in {"waiting", "running", "success"}
  PROVE  LET new == SetOp(job, FindNextOpcode(job), status)
         IN  /\ FindNextOpcode(job) \in 1..NumOps[j]
             /\ job.ops[FindNextOpcode(job)] \notin OpsFinalized
             /\ FindNextOpcode(job) # 1 => job.ops[1] = "success"
             /\ new \in JobOf(j) /\ new.livelock = job.livelock /\ Regular(new.ops)
             /\ new.ops[FindNextOpcode(job)] = status
             /\ \A i \in 1..NumOps[j] : i # FindNextOpcode(job) => new.ops[i] = job.ops[i]
             /\ status # "success" => Open(new.ops) /\ FindNextOpcode(new) = FindNextOpcode(job)
  <2> USE <1>ChangedJob
  <2> DEFINE next == FindNextOpcode(job)
             new == SetOp(job, next, status)
  <2>1. /\ job.ops \in [1..NumOps[j] -> OpStatus] /\ NumOps[j] \in Nat \ {0}
        /\ DOMAIN job.ops = 1..NumOps[j] /\ 1 \in 1..NumOps[j]
    BY <1>JobIsThere
  <2>2. /\ next \in 1..NumOps[j] /\ job.ops[next] \notin OpsFinalized
        /\ next # 1 => job.ops[1] \in OpsFinalized
    BY <2>1, <1>NextOpcode
  <2>3. \A i \in 1..NumOps[j] : job.ops[i] \notin {"error", "canceled"}
    BY <2>1 DEF Open, Regular
  <2>4. next # 1 => job.ops[1] = "success"
    BY <2>1, <2>2, <2>3 DEF OpsFinalized
  <2>5. new = [job EXCEPT !.ops = [job.ops EXCEPT ![next] = status]]
    BY SMT DEF SetOp
  <2> HIDE DEF next
  <2>6. /\ [job.ops EXCEPT ![next] = status] \in [1..NumOps[j] -> OpStatus]
        /\ [job.ops EXCEPT ![next] = status][next] = status
        /\ \A i \in 1..NumOps[j] : i # next => [job.ops EXCEPT ![next] = status][i] = job.ops[i]
    BY <2>1, <2>2 DEF OpStatus
  <2>7. /\ new \in JobOf(j) /\ new.livelock = job.livelock
        /\ new.ops = [job.ops EXCEPT ![next] = status]
    BY <2>5, <2>6 DEF JobOf
  <2> HIDE DEF new
  <2>8. DOMAIN new.ops = 1..NumOps[j]
    BY <2>7, <1>JobIsThere
  <2>9. Regular(new.ops)
    <3>1. \A i \in 1..NumOps[j] : new.ops[i] \notin {"error", "canceled"}
      BY <2>2, <2>3, <2>6, <2>7
    <3> QED  BY <2>8, <3>1 DEF Regular
  <2>10. ASSUME status # "success" PROVE Open(new.ops) /\ FindNextOpcode(new) = next
    <3>1. status \notin OpsFinalized
      BY <2>10 DEF OpsFinalized
    <3>2. \A i \in 1..NumOps[j] : new.ops[i] \notin OpsFinalized <=> job.ops[i] \notin OpsFinalized
      BY <2>2, <2>6, <2>7, <3>1
    <3>3. {i \in DOMAIN new.ops : new.ops[i] \notin OpsFinalized}
            = {i \in DOMAIN job.ops : job.ops[i] \notin OpsFinalized}
      BY <2>1, <2>8, <3>2
    <3>4. Open(new.ops)
      BY <2>2, <2>6, <2>7, <2>8, <3>1 DEF Open
    <3> QED  BY <3>3, <3>4 DEF FindNextOpcode, next
  <2> QED  BY <2>2, <2>4, <2>6, <2>7, <2>9, <2>10 DEF next, new

\* What stays true while jobs and processes stay.
<1>EndKept.
  ASSUME Stable, NEW i \in Jobs, Finalized(i)
  PROVE  Finalized(i)'
  BY <1>EndKept DEF Stable, Finalized, jobFinalized

<1>LockKept.
  ASSUME Stable, ProcsKept, gen' = gen, NEW i \in Jobs, NEW lock, LockOf(i, lock)
  PROVE  LockOf(i, lock)'
  BY <1>LockKept, <1>EndKept DEF LockOf, ProcsKept, LuxidLock, ProcLock, NoLock

<1>SeenKept.
  ASSUME Stable, ProcsKept, gen' = gen, NEW i \in Jobs, NEW v, Seen(i, v)
  PROVE  Seen(i, v)'
  BY <1>SeenKept, <1>EndKept, <1>LockKept DEF Seen

<1>MetKept.
  ASSUME Stable, NEW i \in Jobs, Met(i)
  PROVE  Met(i)'
  <2> USE <1>MetKept
  <2> SUFFICES ASSUME NEW k \in Deps[i]
               PROVE  Submitted(k)' /\ calcJobStatus(file'[k].ops) = "success"
    BY DEF Met
  <2>1. k \in Jobs
    BY DepsAssumption
  <2>2. Submitted(k) /\ calcJobStatus(file[k].ops) = "success"
    BY DEF Met
  <2>3. Finalized(k)
    BY <2>2 DEF Finalized, jobFinalized, OpsFinalized
  <2> QED  BY <2>1, <2>2, <2>3 DEF Stable

\* A job that is not touched.
<1>JobKept.
  ASSUME IInv, Stable, ProcsKept, gen' = gen, NEW k \in Jobs, Untouched(k)
  PROVE  JobInv(k)'
  <2> USE <1>JobKept
  <2>1. FileOk(k) /\ PlaceOk(k) /\ StartOk(k) /\ OnlyProc(k)
    BY DEF IInv, JobInv
  <2>2. /\ file'[k] = file[k] /\ start'[k] = start[k] /\ handler'[k] = handler[k]
        /\ mem'[k] = mem[k] /\ watch'[k] = watch[k]
        /\ k \in queue'.enqueued <=> k \in queue.enqueued
        /\ k \in queue'.running <=> k \in queue.running
        /\ Held(k)' <=> Held(k)
    BY DEF Untouched, Held
  <2>3. \A p \in Pids : procs[p].job = k =>
            /\ p \in Pids' /\ procs'[p].job = k
            /\ procs'[p].pc = procs[p].pc /\ procs'[p].copy = procs[p].copy
    BY DEF Untouched, ProcsKept
  <2>4. \A p \in Pids' : procs'[p].job = k => p \in Pids /\ procs[p].job = k
    BY DEF Untouched
  <2>5. (Submitted(k)' <=> Submitted(k)) /\ (Finalized(k)' <=> Finalized(k))
    BY <2>2 DEF Submitted, Finalized
  <2>6. (NoProc(k)' <=> NoProc(k)) /\ (AllDead(k)' <=> AllDead(k))
    BY <2>3, <2>4 DEF NoProc, AllDead
  <2>7. Fresh(k)' <=> Fresh(k)
    BY <2>2, <2>6 DEF Fresh
  <2>8. FileOk(k)'
    <3> SUFFICES ASSUME Submitted(k) PROVE FileOk(k)'
      BY <2>5 DEF FileOk
    <3>1. /\ Regular(file[k].ops) /\ LockOf(k, file[k].livelock)
          /\ file[k].livelock = NoLock => Finalized(k) \/ Fresh(k)
          /\ file[k].livelock = LuxidLock(gen) => Finalized(k) \/ file[k].ops = NewJob(k).ops
          /\ Finalized(k) \/ ~jobStarted(file[k]) \/ Held(k)
          /\ \A d \in Deps[k] : Submitted(d)
          /\ file[k].ops[1] \in {"running", "success"} => Met(k)
      BY <2>1 DEF FileOk
    <3>2. LockOf(k, file[k].livelock)'
      <4>1. \A lock : LockOf(k, lock) => LockOf(k, lock)'
        BY <1>LockKept
      <4> QED  BY <2>2, <3>1, <4>1 DEF LockOf
    <3>3. \A d \in Deps[k] : Submitted(d)'
      BY <3>1, DepsAssumption DEF Stable
    <3>4. file'[k].ops[1] \in {"running", "success"} => Met(k)'
      BY <2>2, <3>1, <1>MetKept
    <3>5. /\ file'[k].livelock = NoLock => Finalized(k)' \/ Fresh(k)'
          /\ file'[k].livelock = LuxidLock(gen') => Finalized(k)' \/ file'[k].ops = NewJob(k).ops
          /\ Finalized(k)' \/ ~jobStarted(file'[k]) \/ Held(k)'
      BY <2>2, <2>5, <2>7, <3>1
    <3> QED  BY <2>2, <3>1, <3>2, <3>3, <3>4, <3>5 DEF FileOk
  <2>9. PlaceOk(k)'
    <3>1. \A v : Seen(k, v) => Seen(k, v)'
      BY <1>SeenKept
    <3>2. (Held(k) => Seen(k, mem[k])) /\ (watch[k] # NoJob => Seen(k, watch[k]))
      BY <2>1 DEF PlaceOk
    <3>3. (Held(k) => Seen(k, mem[k])') /\ (watch[k] # NoJob => Seen(k, watch[k])')
      BY <2>2, <3>1, <3>2 DEF Seen, LockOf
    <3> QED  BY <2>1, <2>2, <2>5, <2>6, <2>7, <3>3 DEF PlaceOk
  <2>10. StartOk(k)'
    <3>1. start[k].pid # 0 => start[k].pid \in Pids /\ procs[start[k].pid].job = k
      BY <2>1 DEF StartOk
    <3>2. start[k].pid # 0 => /\ start[k].pid \in Pids' /\ procs'[start[k].pid].job = k
                              /\ procs'[start[k].pid].pc = procs[start[k].pid].pc
      BY <2>3, <3>1
    <3> QED  BY <2>1, <2>2, <2>6, <3>1, <3>2 DEF StartOk
  <2>11. OnlyProc(k)'
    BY <2>1, <2>4 DEF OnlyProc
  <2>12. ASSUME NEW p \in Pids', procs'[p].job = k PROVE ProcOk(k, p)'
    <3>1. /\ p \in Pids /\ procs[p].job = k
          /\ procs'[p].pc = procs[p].pc /\ procs'[p].copy = procs[p].copy
      BY <2>3, <2>4, <2>12
    <3>2. ProcOk(k, p)
      BY <3>1 DEF IInv, JobInv
    <3> QED  BY <2>2, <3>1, <3>2 DEF ProcOk
  <2> QED  BY <2>8, <2>9, <2>10, <2>11, <2>12 DEF JobInv

\* What the poller is about stays true.
<1>PollerKept.
  ASSUME IInv, Stable, ProcsKept, gen' = gen, poller' = poller,
         queue'.manipulated = queue.manipulated,
         \A k \in queue.manipulated : k \notin queue'.running,
         \A p \in Pids' \ Pids : procs'[p].job \notin queue.manipulated
  PROVE  PollerOk'
  <2> USE <1>PollerKept
  <2>1. PollerOk
    BY DEF IInv
  <2>2. ASSUME poller.phase = "manipulate"
        PROVE  /\ poller.job \in Jobs \ queue'.running /\ queue'.manipulated = {poller.job}
               /\ Finalized(poller.job)' \/ AllDead(poller.job)'
    <3>1. /\ poller.job \in Jobs \ queue.running /\ queue.manipulated = {poller.job}
          /\ Finalized(poller.job) \/ AllDead(poller.job)
      BY <2>1, <2>2 DEF PollerOk
    <3>2. poller.job \in queue.manipulated
      BY <3>1
    <3>3. AllDead(poller.job) => AllDead(poller.job)'
      BY <3>2 DEF AllDead, ProcsKept
    <3> QED  BY <3>1, <3>2, <3>3, <1>EndKept DEF Finalized
  <2>3. \A j \in DOMAIN poller.todo :
           j \in Jobs /\ Submitted(j) /\ LockOf(j, poller.todo[j].livelock)
    BY <2>1 DEF PollerOk
  <2>4. \A j \in DOMAIN poller.todo : Submitted(j)' /\ LockOf(j, poller.todo[j].livelock)'
    <3> SUFFICES ASSUME NEW j \in DOMAIN poller.todo
                 PROVE  LockOf(j, poller.todo[j].livelock)'
      BY <2>3 DEF Stable
    <3>1. \A lock : LockOf(j, lock) => LockOf(j, lock)'
      BY <2>3, <1>LockKept
    <3> QED  BY <2>3, <3>1 DEF LockOf
  <2>5. ASSUME poller.phase = "insert"
        PROVE  poller.job \in Jobs /\ Seen(poller.job, poller.got)'
    <3>1. poller.job \in Jobs /\ Seen(poller.job, poller.got)
      BY <2>1, <2>5 DEF PollerOk
    <3>2. \A v : Seen(poller.job, v) => \A i : i = poller.job => Seen(i, v)'
      BY <3>1, <1>SeenKept
    <3> QED  BY ZenonT(60), <3>1, <3>2 DEF Seen, LockOf, Finalized, Submitted
  <2> QED  BY <2>1, <2>2, <2>3, <2>4, <2>5 DEF PollerOk

\* The invariant after a step about one job.
<1>Gather.
  ASSUME IInv, Stable, ProcsKept, gen' = gen, NEW j \in Jobs,
         Typed', PollerOk', Limit', JobInv(j)', \A k \in Jobs \ {j} : Untouched(k)
  PROVE  IInv'
  <2> USE <1>Gather
  <2>1. \A k \in Jobs : JobInv(k)'
    <3> SUFFICES ASSUME NEW k \in Jobs, k # j PROVE JobInv(k)'  OBVIOUS
    <3> QED  BY <1>JobKept
  <2> QED  BY <2>1 DEF IInv

\* Processes, and how a step may change one of them.
<1>ProcTyped.
  ASSUME IInv
  PROVE  /\ procs \in Seq(Proc) /\ Pids = 1..Len(procs) /\ Len(procs) \in Nat /\ 0 \notin Pids
         /\ procs \in [Pids -> Proc]
         /\ \A p \in Pids : procs[p] \in Proc /\ procs[p].job \in Jobs
  <2> USE <1>ProcTyped
  <2>1. procs \in Seq(Proc)
    BY DEF IInv, Typed
  <2>2. Pids = 1..Len(procs) /\ Len(procs) \in Nat /\ procs \in [1..Len(procs) -> Proc]
    BY SMT, <2>1 DEF Pids
  <2>3. 0 \notin 1..Len(procs)
    BY SMT, <2>2
  <2>4. \A p \in 1..Len(procs) : procs[p] \in Proc
    BY <2>2
  <2>5. \A r \in Proc : r.job \in Jobs
    BY DEF Proc
  <2> QED  BY <2>1, <2>2, <2>3, <2>4, <2>5

<1>ProcChange.
  ASSUME IInv, NEW p \in Pids, NEW r \in Proc, r.job = procs[p].job,
         procs[p].pc = "dead" => r.pc = "dead", procs' = [procs EXCEPT ![p] = r]
  PROVE  /\ procs' \in Seq(Proc) /\ Pids' = Pids /\ procs'[p] = r
         /\ \A q \in Pids : q # p => procs'[q] = procs[q]
         /\ ProcsKept
  <2> USE <1>ProcChange
  <2>1. procs \in Seq(Proc) /\ Pids = 1..Len(procs)
    BY <1>ProcTyped
  <2>2. /\ procs' \in Seq(Proc) /\ Len(procs') = Len(procs)
        /\ \A q \in Pids : procs'[q] = IF q = p THEN r ELSE procs[q]
    <3>1. p \in 1..Len(procs)
      BY <2>1
    <3>2. /\ [procs EXCEPT ![p] = r] \in Seq(Proc) /\ Len([procs EXCEPT ![p] = r]) = Len(procs)
          /\ \A q \in 1..Len(procs) : [procs EXCEPT ![p] = r][q] = IF q = p THEN r ELSE procs[q]
      BY SMT, <2>1, <3>1
    <3> QED  BY <2>1, <3>2
  <2>3. Pids' = Pids
    BY SMT, <2>1, <2>2 DEF Pids
  <2> QED  BY <2>2, <2>3 DEF ProcsKept

\* A write of a job file, which keeps the outcome of a job that ended.
<1>FileChange.
  ASSUME IInv, NEW j \in Jobs, NEW job \in JobOf(j), file' = [file EXCEPT ![j] = job],
         Finalized(j) => job.ops = file[j].ops
  PROVE  /\ file' \in [Jobs -> Job] /\ \A i \in Jobs : file'[i] \in JobOf(i) \cup {NoJob}
         /\ file'[j] = job /\ Submitted(j)' /\ \A i \in Jobs : i # j => file'[i] = file[i]
         /\ Stable
  <2> USE <1>FileChange
  <2>1. file \in [Jobs -> Job] /\ \A i \in Jobs : file[i] \in JobOf(i) \cup {NoJob}
    BY DEF IInv, Typed
  <2>2. job \in Job /\ job # NoJob
    BY <1>JobIsThere
  <2>3. /\ file' \in [Jobs -> Job]
        /\ file'[j] = job /\ \A i \in Jobs : i # j => file'[i] = file[i]
    BY <2>1, <2>2
  <2> QED  BY <2>1, <2>2, <2>3 DEF Stable, Submitted

<1>NothingChanges.
  ASSUME IInv
  PROVE  /\ file' = file => Stable
         /\ procs' = procs => ProcsKept /\ Pids' = Pids
  BY <1>NothingChanges DEF Stable, Submitted, ProcsKept, Pids

\* The file of a job that was submitted.
<1>FileTyped.
  ASSUME IInv, NEW j \in Jobs, Submitted(j)
  PROVE  /\ file[j] \in JobOf(j) /\ Regular(file[j].ops)
         /\ file[j].ops \in [1..NumOps[j] -> OpStatus]
         /\ Finalized(j) <=> ~Open(file[j].ops)
  <2> USE <1>FileTyped
  <2>1. file[j] \in JobOf(j)
    BY DEF IInv, Typed, Submitted
  <2>2. Regular(file[j].ops)
    BY DEF IInv, JobInv, FileOk
  <2> QED  BY <2>1, <2>2, <1>JobIsThere DEF Finalized

\* A job is not running and in manipulation at once.
<1>Apart.
  ASSUME IInv
  PROVE  \A k \in queue.manipulated : k \notin queue.running
  <2> USE <1>Apart
  <2>1. PollerOk
    BY DEF IInv
  <2>2. CASE poller.phase = "manipulate"
    <3>1. poller.job \notin queue.running /\ queue.manipulated = {poller.job}
      BY <2>1, <2>2 DEF PollerOk
    <3> QED  BY <3>1
  <2>3. CASE poller.phase # "manipulate"
    <3>1. queue.manipulated = {}
      BY <2>1, <2>3 DEF PollerOk
    <3> QED  BY <3>1
  <2> QED  BY <2>2, <2>3

\* A process that was handed its job is the only one who works on it.
<1>Alone.
  ASSUME IInv, NEW p \in Pids, NEW j \in Jobs, procs[p].job = j,
         procs[p].pc \in AtWork \cup {"started"}
  PROVE  /\ Submitted(j) /\ start[j] = NotStarting /\ handler[j] = "none"
         /\ j \notin queue.enqueued
         /\ \A q \in Pids : procs[q].job = j => q = p
         /\ ~Finalized(j) => j \in queue.running
  <2> USE <1>Alone
  <2>1. FileOk(j) /\ PlaceOk(j) /\ StartOk(j) /\ OnlyProc(j) /\ ProcOk(j, p)
    BY DEF IInv, JobInv
  <2>2. ~NoProc(j) /\ ~Fresh(j) /\ ~AllDead(j)
    BY DEF NoProc, Fresh, AllDead, AtWork
  <2>3. Submitted(j) /\ handler[j] = "none" /\ j \notin queue.enqueued
    BY <2>1, <2>2 DEF PlaceOk
  <2>4. \A q \in Pids : procs[q].job = j => q = p
    BY <2>1 DEF OnlyProc
  <2>5. start[j] = NotStarting
    <3>1. start[j].pc \notin {"chosen", "owned", "failed", "failing"}
      BY <2>1, <2>2 DEF StartOk
    <3>2. ASSUME start[j].pc \in {"spawned", "named"} PROVE FALSE
      <4>1. start[j].pid \in Pids /\ procs[start[j].pid].job = j
            /\ procs[start[j].pid].pc \in {"boot", "dead"}
        BY <2>1, <3>2 DEF StartOk
      <4>2. start[j].pid = p
        BY <2>4, <4>1
      <4> QED  BY <4>1, <4>2 DEF AtWork
    <3>3. start[j].pc = "none"
      BY <3>1, <3>2 DEF IInv, Typed, StartRun
    <3> QED  BY <2>1, <3>3 DEF StartOk
  <2>6. ASSUME ~Finalized(j) PROVE j \in queue.running
    <3>1. CASE procs[p].pc = "started"
      BY <2>1, <3>1 DEF ProcOk
    <3>2. CASE procs[p].pc \in AtWork
      <4>1. /\ procs[p].copy \in JobOf(j) /\ Matches(file[j].ops, procs[p].copy.ops)
            /\ Open(procs[p].copy.ops) => j \in queue.running
        BY <2>1, <3>2 DEF ProcOk
      <4>2. file[j] \in JobOf(j) /\ Open(file[j].ops)
        BY <2>3, <2>6, <1>FileTyped
      <4>3. DOMAIN file[j].ops = DOMAIN procs[p].copy.ops
        BY <4>1, <4>2, <1>JobIsThere
      <4>4. PICK i \in DOMAIN file[j].ops : file[j].ops[i] \notin OpsFinalized
        BY <4>2 DEF Open
      <4>5. procs[p].copy.ops[i] \notin OpsFinalized
        BY <4>1, <4>3, <4>4 DEF Matches, OpsFinalized
      <4> QED  BY <4>1, <4>3, <4>5 DEF Open
    <3> QED  BY <3>1, <3>2
  <2> QED  BY <2>3, <2>4, <2>5, <2>6

\* A job nobody starts.
<1>StartIdle.
  ASSUME NEW j, start'[j] = NotStarting
  PROVE  StartOk(j)'
  <2> USE <1>StartIdle
  <2>1. NotStarting.pc = "none" /\ NotStarting.pid = 0
    BY DEF NotStarting
  <2>2. start'[j].pc = "none" /\ start'[j].pid = 0
    BY <2>1
  <2> QED  BY <2>2 DEF StartOk

\* What a process at work knows of its job.
<1>Working.
  ASSUME IInv, NEW p \in Pids, NEW j \in Jobs, procs[p].job = j, procs[p].pc \in AtWork
  PROVE  LET copy == procs[p].copy
         IN  /\ copy \in JobOf(j) /\ Regular(copy.ops) /\ copy.livelock = ProcLock(p)
             /\ Submitted(j) /\ file[j] \in JobOf(j) /\ Regular(file[j].ops)
             /\ file[j].livelock = ProcLock(p)
             /\ Matches(file[j].ops, copy.ops)
             /\ jobFinalized(copy) <=> ~Open(copy.ops)
             /\ Open(copy.ops) => Open(file[j].ops) /\ j \in queue.running
             /\ Open(file[j].ops) => j \in queue.running
             /\ copy.ops[1] \in {"running", "success"} => Met(j)
             /\ file[j].ops[1] \in {"running", "success"} => Met(j)
             /\ \A k \in Deps[j] : Submitted(k)
  <2> USE <1>Working
  <2> DEFINE copy == procs[p].copy
  <2>1. FileOk(j) /\ ProcOk(j, p)
    BY DEF IInv, JobInv
  <2>2. /\ copy \in JobOf(j) /\ Regular(copy.ops) /\ copy.livelock = ProcLock(p)
        /\ file[j].livelock = ProcLock(p) /\ Matches(file[j].ops, copy.ops)
        /\ Open(copy.ops) => j \in queue.running
    BY <2>1 DEF ProcOk
  <2>3. Submitted(j) /\ (~Finalized(j) => j \in queue.running)
    BY <1>Alone
  <2>4. file[j] \in JobOf(j) /\ Regular(file[j].ops) /\ (Finalized(j) <=> ~Open(file[j].ops))
    BY <2>3, <1>FileTyped
  <2> HIDE DEF copy
  <2>5. DOMAIN file[j].ops = DOMAIN copy.ops /\ 1 \in DOMAIN copy.ops
        /\ (jobFinalized(copy) <=> ~Open(copy.ops))
    BY <2>2, <2>4, <1>JobIsThere
  <2>6. Open(copy.ops) => Open(file[j].ops)
    BY <2>2, <2>5 DEF Open, Matches, OpsFinalized
  <2>7. /\ file[j].ops[1] \in {"running", "success"} => Met(j)
        /\ \A k \in Deps[j] : Submitted(k)
    BY <2>1, <2>3 DEF FileOk
  <2>8. copy.ops[1] \in {"running", "success"} => Met(j)
    BY <2>2, <2>5, <2>7 DEF Matches
  <2> QED  BY <2>2, <2>3, <2>4, <2>5, <2>6, <2>7, <2>8 DEF copy

\* Every step of a process keeps the invariant, and what ended.
<1>ProcessStep.
  \A p \in Pids : IInv /\ (Process(p) \/ Crash(p)) => IInv' /\ Stable
  <2>MarkedJob.
    ASSUME NEW j \in Jobs, NEW job \in JobOf(j), Regular(job.ops), Open(job.ops),
           NEW status \in {"canceled", "error", "canceling"}
    PROVE  /\ MarkUnfinishedOps(job, status) \in JobOf(j)
           /\ MarkUnfinishedOps(job, status).livelock = job.livelock
           /\ Regular(MarkUnfinishedOps(job, status).ops)
           /\ MarkUnfinishedOps(job, status).ops[1] \in {status, "success"}
           /\ MarkUnfinishedOps(job, status).ops[1] = "success" => job.ops[1] = "success"
    <3> USE <2>MarkedJob
    <3> DEFINE new == [i \in 1..NumOps[j] |-> IF job.ops[i] \in OpsFinalized THEN job.ops[i]
                                                                         ELSE status]
    <3>1. /\ job.ops \in [1..NumOps[j] -> OpStatus]
          /\ DOMAIN job.ops = 1..NumOps[j] /\ 1 \in 1..NumOps[j]
      BY <1>JobIsThere
    <3>2. MarkUnfinishedOps(job, status) = [job EXCEPT !.ops = new]
      BY <3>1 DEF MarkUnfinishedOps
    <3>3. new \in [1..NumOps[j] -> OpStatus]
      BY <3>1 DEF OpStatus
    <3>4. \A i \in 1..NumOps[j] : job.ops[i] \notin {"error", "canceled"}
      BY <3>1 DEF Open, Regular
    <3>5. \A i \in 1..NumOps[j] : \/ new[i] = "success" /\ job.ops[i] = "success"
                                  \/ new[i] = status
      BY <3>4 DEF OpsFinalized
    <3>6. DOMAIN new = 1..NumOps[j]
      OBVIOUS
    <3> HIDE DEF new
    <3>7. /\ MarkUnfinishedOps(job, status) \in JobOf(j)
          /\ MarkUnfinishedOps(job, status).ops = new
          /\ MarkUnfinishedOps(job, status).livelock = job.livelock
      BY SMT, <3>2, <3>3 DEF JobOf
    <3>8. Regular(new)
      <4>1. CASE status = "canceling"
        BY <3>5, <3>6, <4>1 DEF Regular
      <4>2. CASE status \in {"canceled", "error"}
        BY <3>5, <3>6, <4>2 DEF Regular, OpsFinalized
      <4> QED  BY <4>1, <4>2
    <3> QED  BY <3>1, <3>5, <3>7, <3>8

  \* The changes of the state of a process.  Its job is not touched otherwise.
  <2>OtherJobs.
    ASSUME IInv, NEW p \in Pids, NEW r \in Proc, r.job = procs[p].job,
           procs[p].pc = "dead" => r.pc = "dead", procs' = [procs EXCEPT ![p] = r],
           \A k \in Jobs : k # procs[p].job => file'[k] = file[k], UNCHANGED luxid
    PROVE  \A k \in Jobs \ {procs[p].job} : Untouched(k)
    <3> USE <2>OtherJobs
    <3> SUFFICES ASSUME NEW k \in Jobs, k # procs[p].job PROVE Untouched(k)
      OBVIOUS
    <3>1. /\ queue' = queue /\ start' = start /\ handler' = handler /\ mem' = mem /\ watch' = watch
      BY DEF luxid
    <3>2. /\ Pids' = Pids /\ procs'[p].job = procs[p].job
          /\ \A q \in Pids : q # p => procs'[q] = procs[q]
      BY <1>ProcChange
    <3> QED  BY <3>1, <3>2 DEF Untouched

  <2>ProcStep.
    ASSUME IInv, NEW p \in Pids, NEW j \in Jobs, procs[p].job = j,
           procs[p].pc \in AtWork \cup {"started"},
           NEW job \in JobOf(j), file' = [file EXCEPT ![j] = job],
           job.livelock = ProcLock(p), Regular(job.ops),
           Open(file[j].ops) \/ job = file[j],
           job.ops[1] \in {"running", "success"} => Met(j),
           NEW r \in Proc, procs' = [procs EXCEPT ![p] = r],
           r.job = j, r.pc \in AtWork \cup {"exiting"},
           r.pc \in AtWork =>
               /\ r.copy \in JobOf(j) /\ Regular(r.copy.ops) /\ r.copy.livelock = ProcLock(p)
               /\ Matches(job.ops, r.copy.ops)
               /\ Open(r.copy.ops) => j \in queue.running,
           r.pc \in {"waiting", "exec", "loop"} => Open(r.copy.ops),
           r.pc = "exec" => r.copy.ops[FindNextOpcode(r.copy)] = "running",
           UNCHANGED luxid
    PROVE  IInv' /\ Stable
    <3> USE <2>ProcStep
    <3>1. /\ queue' = queue /\ start' = start /\ handler' = handler /\ mem' = mem /\ watch' = watch
          /\ gen' = gen /\ poller' = poller
      BY DEF luxid
    <3>2. /\ Submitted(j) /\ start[j] = NotStarting /\ handler[j] = "none" /\ j \notin queue.enqueued
          /\ \A q \in Pids : procs[q].job = j => q = p
          /\ ~Finalized(j) => j \in queue.running
      BY <1>Alone
    <3>3. Finalized(j) => job.ops = file[j].ops
      BY <3>2, <1>FileTyped
    <3>4. /\ file' \in [Jobs -> Job] /\ \A i \in Jobs : file'[i] \in JobOf(i) \cup {NoJob}
          /\ file'[j] = job /\ Submitted(j)' /\ \A i \in Jobs : i # j => file'[i] = file[i]
          /\ Stable
      BY <3>3, <1>FileChange
    <3>5. procs[p].pc # "dead"
      BY DEF AtWork
    <3>6. /\ procs' \in Seq(Proc) /\ Pids' = Pids /\ procs'[p] = r
          /\ \A q \in Pids : q # p => procs'[q] = procs[q]
          /\ ProcsKept
      BY <3>5, <1>ProcChange
    <3>7. \A k \in Jobs \ {j} : Untouched(k)
      BY ZenonT(60), <3>4, <3>5, <2>OtherJobs
    <3>8. FileOk(j) /\ PlaceOk(j) /\ StartOk(j)
      BY DEF IInv, JobInv
    <3>9. Typed'
      BY <3>1, <3>4, <3>6 DEF IInv, Typed
    <3>10. PollerOk'
      BY <3>1, <3>4, <3>6, <1>Apart, <1>PollerKept
    <3>11. Limit'
      BY <3>1 DEF IInv, Limit
    <3>12. FileOk(j)'
      <4>1. LockOf(j, job.livelock)'
        BY <3>6 DEF LockOf
      <4>2. job.livelock # NoLock /\ job.livelock # LuxidLock(gen)
        BY ZenonT(60), <1>Locks
      <4>3. Finalized(j)' \/ ~jobStarted(job) \/ Held(j)'
        <5>1. CASE Finalized(j)
          BY <3>4, <5>1, <1>EndKept
        <5>2. CASE ~Finalized(j)
          BY <3>1, <3>2, <5>2 DEF Held
        <5> QED  BY <5>1, <5>2
      <4>4. \A d \in Deps[j] : Submitted(d)'
        BY <3>2, <3>4, <3>8, DepsAssumption DEF FileOk, Stable
      <4>5. job.ops[1] \in {"running", "success"} => Met(j)'
        BY <3>4, <1>MetKept
      <4> QED  BY <3>1, <3>4, <4>1, <4>2, <4>3, <4>4, <4>5 DEF FileOk
    <3>13. PlaceOk(j)'
      <4>1. \A v : Seen(j, v) => Seen(j, v)'
        BY <3>1, <3>4, <3>6, <1>SeenKept
      <4>2. (Held(j) => Seen(j, mem[j])) /\ (watch[j] # NoJob => Seen(j, watch[j]))
        BY <3>8 DEF PlaceOk
      <4>3. (Held(j) => Seen(j, mem[j])') /\ (watch[j] # NoJob => Seen(j, watch[j])')
        BY <3>1, <4>1, <4>2 DEF Seen, LockOf
      <4> QED  BY <3>1, <3>2, <3>4, <4>3 DEF PlaceOk, Held
    <3>14. StartOk(j)'
      BY <3>1, <3>2, <1>StartIdle
    <3>15. OnlyProc(j)'
      BY ZenonT(60), <3>2, <3>6 DEF OnlyProc
    <3>16. ASSUME NEW q \in Pids', procs'[q].job = j PROVE ProcOk(j, q)'
      <4>1. q = p
        BY <3>2, <3>6, <3>16
      <4>2. ProcOk(j, p)'
        BY <3>1, <3>4, <3>6 DEF ProcOk, AtWork
      <4> QED  BY <4>1, <4>2 DEF ProcOk
    <3>17. JobInv(j)'
      BY <3>12, <3>13, <3>14, <3>15, <3>16 DEF JobInv
    <3> QED  BY <3>1, <3>4, <3>6, <3>7, <3>9, <3>10, <3>11, <3>17, <1>Gather

  \* A process dies: in any state, and nobody else does anything.
  <2>KillStep.
    ASSUME IInv, NEW p \in Pids, NEW j \in Jobs, procs[p].job = j, Kill(p),
           UNCHANGED <<file, luxid>>
    PROVE  IInv' /\ Stable
    <3> USE <2>KillStep
    <3> DEFINE r == [procs[p] EXCEPT !.pc = "dead", !.copy = NoJob, !.cancel = FALSE]
    <3>1. /\ queue' = queue /\ start' = start /\ handler' = handler /\ mem' = mem /\ watch' = watch
          /\ gen' = gen /\ poller' = poller /\ file' = file
      BY DEF luxid
    <3>2. procs[p] \in Proc
      BY <1>ProcTyped
    <3>3. procs' = [procs EXCEPT ![p] = r]
      BY DEF Kill
    <3>4. r \in Proc /\ r.job = j /\ r.pc = "dead"
      BY <3>2 DEF Proc, Job
    <3> HIDE DEF r
    <3>5. /\ procs' \in Seq(Proc) /\ Pids' = Pids /\ procs'[p] = r
          /\ \A q \in Pids : q # p => procs'[q] = procs[q]
          /\ ProcsKept
      BY <3>3, <3>4, <1>ProcChange
    <3>6. Stable
      BY <3>1, <1>NothingChanges
    <3>7. \A k \in Jobs \ {j} : Untouched(k)
      BY <3>1, <3>3, <3>4, <2>OtherJobs
    <3>8. FileOk(j) /\ PlaceOk(j) /\ StartOk(j) /\ OnlyProc(j)
      BY <3>2 DEF IInv, JobInv
    <3>9. Typed'
      BY <3>1, <3>5 DEF IInv, Typed
    <3>10. PollerOk'
      BY <3>1, <3>5, <3>6, <1>Apart, <1>PollerKept
    <3>11. Limit'
      BY <3>1 DEF IInv, Limit
    <3>12. /\ Submitted(j)' <=> Submitted(j)
           /\ Finalized(j)' <=> Finalized(j)
           /\ NoProc(j)' <=> NoProc(j)
           /\ Fresh(j)' <=> Fresh(j)
           /\ Held(j)' <=> Held(j)
           /\ AllDead(j) => AllDead(j)'
           /\ \A q \in Pids : procs'[q].job = procs[q].job
      <4>1. \A q \in Pids : procs'[q].job = procs[q].job
        BY <3>5 DEF ProcsKept
      <4> QED  BY <3>1, <3>5, <4>1 DEF Submitted, Finalized, NoProc, Fresh, Held, AllDead, ProcsKept
    <3>13. FileOk(j)'
      <4> SUFFICES ASSUME Submitted(j) PROVE FileOk(j)'
        BY <3>12 DEF FileOk
      <4>1. /\ Regular(file[j].ops) /\ LockOf(j, file[j].livelock)
            /\ file[j].livelock = NoLock => Finalized(j) \/ Fresh(j)
            /\ file[j].livelock = LuxidLock(gen) => Finalized(j) \/ file[j].ops = NewJob(j).ops
            /\ Finalized(j) \/ ~jobStarted(file[j]) \/ Held(j)
            /\ \A d \in Deps[j] : Submitted(d)
            /\ file[j].ops[1] \in {"running", "success"} => Met(j)
        BY <3>8 DEF FileOk
      <4>2. LockOf(j, file[j].livelock)'
        BY <3>1, <3>5, <3>12, <4>1 DEF LockOf
      <4>3. \A d \in Deps[j] : Submitted(d)'
        BY <3>1, <4>1 DEF Submitted
      <4>4. file[j].ops[1] \in {"running", "success"} => Met(j)'
        BY <3>2, <3>6, <4>1, <1>MetKept
      <4> QED  BY <3>1, <3>12, <4>1, <4>2, <4>3, <4>4 DEF FileOk
    <3>14. PlaceOk(j)'
      <4>1. \A v : Seen(j, v) => Seen(j, v)'
        BY <3>1, <3>2, <3>5, <3>6, <1>SeenKept
      <4>2. (Held(j) => Seen(j, mem[j])) /\ (watch[j] # NoJob => Seen(j, watch[j]))
        BY <3>8 DEF PlaceOk
      <4>3. (Held(j) => Seen(j, mem[j])') /\ (watch[j] # NoJob => Seen(j, watch[j])')
        BY <3>1, <4>1, <4>2 DEF Seen, LockOf
      <4> QED  BY <3>1, <3>8, <3>12, <4>3 DEF PlaceOk
    <3>15. StartOk(j)'
      <4>1. start[j].pid # 0 => start[j].pid \in Pids' /\ procs'[start[j].pid].job = j
        BY <3>5, <3>8, <3>12 DEF StartOk
      <4>2. \A q \in Pids : procs'[q].pc = procs[q].pc \/ procs'[q].pc = "dead"
        BY <3>4, <3>5
      <4>3. start[j].pc \in {"spawned", "named"} =>
               /\ start[j].pid # 0 /\ procs'[start[j].pid].pc \in {"boot", "dead"}
               /\ procs'[start[j].pid].pc = "boot" => procs[start[j].pid].pc = "boot"
        BY <3>8, <4>2 DEF StartOk
      <4> QED  BY <3>1, <3>8, <3>12, <4>1, <4>3 DEF StartOk
    <3>16. OnlyProc(j)'
      BY <3>5, <3>8, <3>12 DEF OnlyProc
    <3>17. ASSUME NEW q \in Pids', procs'[q].job = j PROVE ProcOk(j, q)'
      <4>1. q = p
        BY <3>5, <3>8, <3>12, <3>17 DEF OnlyProc
      <4> QED  BY <3>4, <3>5, <4>1 DEF ProcOk, AtWork
    <3>18. JobInv(j)'
      BY <3>13, <3>14, <3>15, <3>16, <3>17 DEF JobInv
    <3>19. IInv'
      BY <3>1, <3>5, <3>6, <3>7, <3>9, <3>10, <3>11, <3>18, <1>Gather
    <3> QED  BY <3>6, <3>19

  \* The job is written, or not touched, and the process continues or ends.
  <2>WorkStep.
    ASSUME IInv, NEW p \in Pids, NEW j \in Jobs, procs[p].job = j,
           procs[p].pc \in AtWork \cup {"started"},
           NEW job \in JobOf(j), file' = [file EXCEPT ![j] = job],
           job.livelock = ProcLock(p), Regular(job.ops), Open(file[j].ops) \/ job = file[j],
           job.ops[1] \in {"running", "success"} => Met(j),
           NEW copy \in JobOf(j), Regular(copy.ops), copy.livelock = ProcLock(p),
           Matches(job.ops, copy.ops), Open(copy.ops) => j \in queue.running,
           NEW pc \in AtWork, Step(p, pc, copy),
           pc # "ready" => Open(copy.ops),
           pc = "exec" => copy.ops[FindNextOpcode(copy)] = "running",
           UNCHANGED luxid
    PROVE  IInv' /\ Stable
    <3> USE <2>WorkStep
    <3>1. copy \in Job /\ pc \in {"ready", "waiting", "exec", "loop", "exiting"}
      BY <1>JobIsThere DEF AtWork
    <3> DEFINE r == [procs[p] EXCEPT !.pc = pc, !.copy = copy]
    <3>2. procs \in [Pids -> Proc] /\ procs[p] \in Proc
      BY <1>ProcTyped
    <3>3. procs' = [procs EXCEPT ![p] = r]
      BY <3>2 DEF Step
    <3>4. r \in Proc /\ r.job = j /\ r.pc = pc /\ r.copy = copy
      BY <3>1, <3>2 DEF Proc
    <3> HIDE DEF r
    <3>5. r.pc \in AtWork \cup {"exiting"} /\ (r.pc \in {"waiting", "exec", "loop"} => r.pc # "ready")
      BY <3>4
    <3> QED  BY <3>3, <3>4, <3>5, <2>ProcStep

  <2>LeaveStep.
    ASSUME IInv, NEW p \in Pids, NEW j \in Jobs, procs[p].job = j, procs[p].pc \in AtWork,
           NEW job \in JobOf(j), file' = [file EXCEPT ![j] = job],
           job.livelock = ProcLock(p), Regular(job.ops), Open(file[j].ops) \/ job = file[j],
           job.ops[1] \in {"running", "success"} => Met(j),
           Step(p, "exiting", NoJob), UNCHANGED luxid
    PROVE  IInv' /\ Stable
    <3> USE <2>LeaveStep
    <3>1. NoJob \in Job /\ "exiting" \in {"ready", "waiting", "exec", "loop", "exiting"}
      BY DEF Job
    <3> DEFINE r == [procs[p] EXCEPT !.pc = "exiting", !.copy = NoJob]
    <3>2. procs \in [Pids -> Proc] /\ procs[p] \in Proc
      BY <1>ProcTyped
    <3>3. procs' = [procs EXCEPT ![p] = r]
      BY <3>2 DEF Step
    <3>4. r \in Proc /\ r.job = j /\ r.pc = "exiting"
      BY <3>1, <3>2 DEF Proc
    <3> HIDE DEF r
    <3>5. r.pc \in AtWork \cup {"exiting"} /\ r.pc \notin AtWork
          /\ r.pc # "exec" /\ r.pc \notin {"waiting", "exec", "loop"}
          /\ procs[p].pc \in AtWork \cup {"started"}
      BY <3>4 DEF AtWork
    <3> QED  BY <3>3, <3>4, <3>5, <2>ProcStep

  <2>FileSame.
    ASSUME IInv, NEW j \in Jobs, UNCHANGED file
    PROVE  file' = [file EXCEPT ![j] = file[j]]
    <3> USE <2>FileSame
    <3>1. file \in [Jobs -> Job]
      BY DEF IInv, Typed
    <3> QED  BY SMT, <3>1

  <2>FinishStep.
    ASSUME IInv, NEW p \in Pids, NEW j \in Jobs, procs[p].job = j, procs[p].pc \in AtWork,
           Open(procs[p].copy.ops), NEW status \in {"canceled", "error"},
           Finish(p, procs[p].copy, status), UNCHANGED luxid
    PROVE  IInv' /\ Stable
    <3> USE <2>FinishStep
    <3> DEFINE copy == procs[p].copy
               job == MarkUnfinishedOps(copy, status)
    <3>1. /\ copy \in JobOf(j) /\ Regular(copy.ops) /\ copy.livelock = ProcLock(p)
          /\ Open(file[j].ops) /\ (copy.ops[1] \in {"running", "success"} => Met(j))
      BY <1>Working
    <3>2. file' = [file EXCEPT ![j] = job] /\ Step(p, "exiting", NoJob)
      BY DEF Finish, Write
    <3>3. /\ job \in JobOf(j) /\ job.livelock = copy.livelock /\ Regular(job.ops)
          /\ job.ops[1] \in {status, "success"}
          /\ job.ops[1] = "success" => copy.ops[1] = "success"
      BY ZenonT(60), <3>1, <2>MarkedJob
    <3> HIDE DEF job, copy
    <3>4. job.ops[1] \in {"running", "success"} => Met(j)
      BY <3>1, <3>3
    <3>5. job.livelock = ProcLock(p)
      BY <3>1, <3>3
    <3> QED  BY <3>1, <3>2, <3>3, <3>4, <3>5, <2>LeaveStep

  <2>ChangedLock.
    ASSUME NEW j \in Jobs, NEW job \in JobOf(j), NEW i, NEW status
    PROVE  SetOp(job, i, status).livelock = job.livelock
    BY <2>ChangedLock DEF SetOp, JobOf

  <2>SameNext.
    ASSUME NEW j \in Jobs, NEW job \in JobOf(j), Regular(job.ops), Open(job.ops),
           NEW status \in {"waiting", "running"}
    PROVE  FindNextOpcode(SetOp(job, FindNextOpcode(job), status)) = FindNextOpcode(job)
    <3> USE <2>SameNext
    <3>1. status \in {"waiting", "running", "success"} /\ status # "success"
      OBVIOUS
    <3> QED  BY ZenonT(60), <3>1, <1>ChangedJob

  <2>MatchesItself.
    ASSUME NEW ops
    PROVE  Matches(ops, ops)
    BY <2>MatchesItself DEF Matches

  <2>LoadStep.
    ASSUME IInv, NEW p \in Pids, NEW j \in Jobs, procs[p].job = j, SafeLoadJobFromDisk(p)
    PROVE  IInv' /\ Stable
    <3> USE <2>LoadStep
    <3> DEFINE copy == [file[j] EXCEPT !.pid = p]
    <3>1. procs[p].pc = "started" /\ Step(p, "ready", copy) /\ UNCHANGED file /\ UNCHANGED luxid
      BY DEF SafeLoadJobFromDisk
    <3>2. /\ file[j] = [NewJob(j) EXCEPT !.livelock = ProcLock(p)] /\ j \in queue.running
      BY ZenonT(60), <3>1 DEF IInv, JobInv, ProcOk
    <3>3. Submitted(j)
      BY <3>1, <1>Alone
    <3>4. file[j] \in JobOf(j) /\ Regular(file[j].ops)
      BY <3>3, <1>FileTyped
    <3>5. /\ NewJob(j) \in JobOf(j) /\ NewJob(j).ops[1] = "queued"
      BY <1>NewJobIsQueued
    <3>6. file[j].livelock = ProcLock(p) /\ file[j].ops[1] = "queued"
      BY SMT, <3>2, <3>5 DEF JobOf
    <3>7. p \in Nat
      BY SMT, <1>ProcTyped
    <3>8. copy \in JobOf(j) /\ copy.ops = file[j].ops /\ copy.livelock = file[j].livelock
      BY <3>4, <3>7 DEF JobOf
    <3> HIDE DEF copy
    <3>9. Regular(copy.ops) /\ copy.livelock = ProcLock(p) /\ Matches(file[j].ops, copy.ops)
      BY <3>4, <3>6, <3>8, <2>MatchesItself
    <3>10. file' = [file EXCEPT ![j] = file[j]]
      BY <3>1, <2>FileSame
    <3>11. "ready" \in AtWork /\ procs[p].pc \in AtWork \cup {"started"}
      BY <3>1 DEF AtWork
    <3>12. ~(file[j].ops[1] \in {"running", "success"})
      BY <3>6
    <3> QED  BY <3>1, <3>2, <3>4, <3>6, <3>8, <3>9, <3>10, <3>11, <3>12, <2>WorkStep

  <2>MarkWaitlockStep.
    ASSUME IInv, NEW p \in Pids, NEW j \in Jobs, procs[p].job = j, MarkWaitlock(p)
    PROVE  IInv' /\ Stable
    <3> USE <2>MarkWaitlockStep
    <3> DEFINE copy == procs[p].copy
               next == FindNextOpcode(copy)
               todo == IF jobFinalized(copy) THEN "nothing" ELSE copy.ops[next]
               new == SetOp(copy, next, "waiting")
    <3>1. /\ procs[p].pc \in {"ready", "loop"} /\ UNCHANGED luxid
          /\ \/ todo \in {"nothing", "running"} /\ Step(p, "exiting", NoJob) /\ UNCHANGED file
             \/ todo = "canceling" /\ Finish(p, copy, "canceled")
             \/ todo = "queued" /\ Write(p, new) /\ Step(p, "waiting", new)
             \/ todo = "waiting" /\ Step(p, "waiting", copy) /\ UNCHANGED file
      BY DEF MarkWaitlock
    <3>2. procs[p].pc \in AtWork /\ "waiting" \in AtWork /\ procs[p].pc \in AtWork \cup {"started"}
      BY <3>1 DEF AtWork
    <3>3. /\ copy \in JobOf(j) /\ Regular(copy.ops) /\ copy.livelock = ProcLock(p)
          /\ file[j] \in JobOf(j) /\ Regular(file[j].ops) /\ file[j].livelock = ProcLock(p)
          /\ Matches(file[j].ops, copy.ops)
          /\ jobFinalized(copy) <=> ~Open(copy.ops)
          /\ Open(copy.ops) => Open(file[j].ops) /\ j \in queue.running
          /\ copy.ops[1] \in {"running", "success"} => Met(j)
          /\ file[j].ops[1] \in {"running", "success"} => Met(j)
      BY <3>2, <1>Working
    <3>4. todo # "nothing" => Open(copy.ops)
      BY <3>3
    <3>5. UNCHANGED file => file' = [file EXCEPT ![j] = file[j]]
      BY <2>FileSame
    <3>6. CASE Step(p, "exiting", NoJob) /\ UNCHANGED file
      BY <3>1, <3>2, <3>3, <3>5, <3>6, <2>LeaveStep
    <3>7. CASE todo = "canceling" /\ Finish(p, copy, "canceled")
      <4>1. Open(copy.ops) /\ "canceled" \in {"canceled", "error"}
        BY <3>4, <3>7
      <4> QED  BY <3>1, <3>2, <3>7, <4>1, <2>FinishStep
    <3>8. CASE todo = "queued" /\ Write(p, new) /\ Step(p, "waiting", new)
      <4>1. copy \in JobOf(j) /\ Regular(copy.ops) /\ Open(copy.ops)
        BY <3>3, <3>4, <3>8
      <4>2. file' = [file EXCEPT ![j] = new]
        BY <3>8 DEF Write
      <4>3. "waiting" \in {"waiting", "running", "success"} /\ "waiting" # "success"
        OBVIOUS
      <4>4. new \in JobOf(j) /\ new.livelock = copy.livelock
        <5> HIDE DEF copy
        <5>1. new \in JobOf(j)
          BY <4>1, <4>3, <1>ChangedJob
        <5>2. new.livelock = copy.livelock
          BY <4>1, <2>ChangedLock
        <5> QED  BY <5>1, <5>2
      <4>5. Regular(new.ops) /\ Open(new.ops)
        BY <4>1, <4>3, <1>ChangedJob
      <4>6. new.ops[1] \in {"running", "success"} => Met(j)
        <5>1. 1 \in 1..NumOps[j]
          BY <3>3, <1>JobIsThere
        <5>2. new.ops[next] = "waiting"
          BY <4>1, <4>3, <1>ChangedJob
        <5>3. \A i \in 1..NumOps[j] : i # next => new.ops[i] = copy.ops[i]
          BY <4>1, <4>3, <1>ChangedJob
        <5> HIDE DEF copy, next, new
        <5> QED  BY <3>3, <5>1, <5>2, <5>3
      <4>7. Matches(new.ops, new.ops) /\ new.livelock = ProcLock(p) /\ "waiting" # "exec"
        BY <3>3, <4>4, <2>MatchesItself
      <4> HIDE DEF copy, next, new, todo
      <4> QED  BY ZenonT(60), <3>1, <3>2, <3>3, <3>8, <4>1, <4>2, <4>4, <4>5, <4>6, <4>7, <2>WorkStep
    <3>9. CASE todo = "waiting" /\ Step(p, "waiting", copy) /\ UNCHANGED file
      <4>1. Open(copy.ops) /\ "waiting" # "exec"
        BY <3>4, <3>9
      <4> HIDE DEF copy, todo
      <4> QED  BY <3>1, <3>2, <3>3, <3>5, <3>9, <4>1, <2>WorkStep
    <3> HIDE DEF todo, new
    <3> QED  BY <3>1, <3>6, <3>7, <3>8, <3>9

  <2>CheckDependenciesStep.
    ASSUME IInv, NEW p \in Pids, NEW j \in Jobs, procs[p].job = j, CheckDependencies(p)
    PROVE  IInv' /\ Stable
    <3> USE <2>CheckDependenciesStep
    <3> DEFINE copy == procs[p].copy
    <3>1. /\ procs[p].pc = "waiting" /\ UNCHANGED luxid
          /\ \/ Step(p, "loop", copy) /\ UNCHANGED file
             \/ Finish(p, copy, "canceled") \/ Finish(p, copy, "error")
      BY DEF CheckDependencies
    <3>2. /\ procs[p].pc \in AtWork /\ "loop" \in AtWork /\ procs[p].pc \in AtWork \cup {"started"}
          /\ "loop" # "exec" /\ "canceled" \in {"canceled", "error"} /\ "error" \in {"canceled", "error"}
      BY <3>1 DEF AtWork
    <3>3. /\ copy \in JobOf(j) /\ Regular(copy.ops) /\ copy.livelock = ProcLock(p)
          /\ file[j] \in JobOf(j) /\ Regular(file[j].ops) /\ file[j].livelock = ProcLock(p)
          /\ Matches(file[j].ops, copy.ops)
          /\ Open(copy.ops) => j \in queue.running
          /\ file[j].ops[1] \in {"running", "success"} => Met(j)
      BY <3>2, <1>Working
    <3>4. Open(copy.ops)
      BY <3>1 DEF IInv, JobInv, ProcOk
    <3>5. UNCHANGED file => file' = [file EXCEPT ![j] = file[j]]
      BY <2>FileSame
    <3>6. CASE Step(p, "loop", copy) /\ UNCHANGED file
      <4> HIDE DEF copy
      <4> QED  BY <3>1, <3>2, <3>3, <3>4, <3>5, <3>6, <2>WorkStep
    <3>7. CASE Finish(p, copy, "canceled")
      BY <3>1, <3>2, <3>4, <3>7, <2>FinishStep
    <3>8. CASE Finish(p, copy, "error")
      BY <3>1, <3>2, <3>4, <3>8, <2>FinishStep
    <3> QED  BY <3>1, <3>6, <3>7, <3>8

  <2>LockAcquireTimeoutStep.
    ASSUME IInv, NEW p \in Pids, NEW j \in Jobs, procs[p].job = j, LockAcquireTimeout(p)
    PROVE  IInv' /\ Stable
    <3> USE <2>LockAcquireTimeoutStep
    <3> DEFINE copy == procs[p].copy
    <3>1. /\ procs[p].pc = "waiting" /\ UNCHANGED luxid /\ Step(p, "loop", copy)
          /\ file' = [file EXCEPT ![j] = copy] \/ UNCHANGED file
      BY DEF LockAcquireTimeout, Write
    <3>2. /\ procs[p].pc \in AtWork /\ "loop" \in AtWork /\ procs[p].pc \in AtWork \cup {"started"}
          /\ "loop" # "exec"
      BY <3>1 DEF AtWork
    <3>3. /\ copy \in JobOf(j) /\ Regular(copy.ops) /\ copy.livelock = ProcLock(p)
          /\ file[j] \in JobOf(j) /\ Regular(file[j].ops) /\ file[j].livelock = ProcLock(p)
          /\ Matches(file[j].ops, copy.ops)
          /\ Open(copy.ops) => Open(file[j].ops) /\ j \in queue.running
          /\ copy.ops[1] \in {"running", "success"} => Met(j)
          /\ file[j].ops[1] \in {"running", "success"} => Met(j)
      BY <3>2, <1>Working
    <3>4. Open(copy.ops) /\ Matches(copy.ops, copy.ops)
      BY <3>1, <2>MatchesItself DEF IInv, JobInv, ProcOk
    <3>5. UNCHANGED file => file' = [file EXCEPT ![j] = file[j]]
      BY <2>FileSame
    <3> HIDE DEF copy
    <3>6. CASE UNCHANGED file
      BY <3>1, <3>2, <3>3, <3>4, <3>5, <3>6, <2>WorkStep
    <3>7. CASE file' = [file EXCEPT ![j] = copy]
      BY <3>1, <3>2, <3>3, <3>4, <3>7, <2>WorkStep
    <3> QED  BY <3>1, <3>6, <3>7

  <2>NotifyStartStep.
    ASSUME IInv, NEW p \in Pids, NEW j \in Jobs, procs[p].job = j, NotifyStart(p)
    PROVE  IInv' /\ Stable
    <3> USE <2>NotifyStartStep
    <3> DEFINE copy == procs[p].copy
               next == FindNextOpcode(copy)
               new == SetOp(copy, next, "running")
    <3>1. /\ procs[p].pc = "waiting" /\ Unmet(p) = {} /\ UNCHANGED luxid
          /\ file' = [file EXCEPT ![j] = new] /\ Step(p, "exec", new)
      BY DEF NotifyStart, Write
    <3>2. procs[p].pc \in AtWork /\ "exec" \in AtWork /\ procs[p].pc \in AtWork \cup {"started"}
      BY <3>1 DEF AtWork
    <3>3. /\ copy \in JobOf(j) /\ Regular(copy.ops) /\ copy.livelock = ProcLock(p)
          /\ Open(copy.ops) => Open(file[j].ops) /\ j \in queue.running
          /\ copy.ops[1] \in {"running", "success"} => Met(j)
          /\ \A k \in Deps[j] : Submitted(k)
      BY <3>2, <1>Working
    <3>4. Open(copy.ops)
      BY <3>1 DEF IInv, JobInv, ProcOk
    <3>5. "running" \in {"waiting", "running", "success"} /\ "running" # "success"
      OBVIOUS
    <3>6. new \in JobOf(j) /\ new.livelock = copy.livelock
      <4> HIDE DEF copy
      <4>1. new \in JobOf(j)
        BY <3>3, <3>4, <3>5, <1>ChangedJob
      <4>2. new.livelock = copy.livelock
        BY <3>3, <2>ChangedLock
      <4> QED  BY <4>1, <4>2
    <3>7. Regular(new.ops) /\ Open(new.ops)
      BY <3>3, <3>4, <3>5, <1>ChangedJob
    <3>8. new.ops[next] = "running"
      BY <3>3, <3>4, <3>5, <1>ChangedJob
    <3>9. FindNextOpcode(new) = next
      <4>1. "running" \in {"waiting", "running"}
        OBVIOUS
      <4> HIDE DEF copy
      <4> QED  BY <3>3, <3>4, <4>1, <2>SameNext
    <3>10. next = 1 => Met(j)
      BY <3>1, <3>3 DEF Unmet, Met
    <3>11. next # 1 => copy.ops[1] = "success"
      BY <3>3, <3>4, <3>5, <1>ChangedJob
    <3> HIDE DEF copy, next, new
    <3>12. Met(j)
      BY <3>3, <3>10, <3>11
    <3>13. /\ Matches(new.ops, new.ops) /\ new.livelock = ProcLock(p) /\ "exec" # "ready"
           /\ new.ops[FindNextOpcode(new)] = "running"
      BY <3>3, <3>6, <3>8, <3>9, <2>MatchesItself
    <3> QED  BY <3>1, <3>2, <3>3, <3>4, <3>6, <3>7, <3>12, <3>13, <2>WorkStep

  <2>NotifyRetryStep.
    ASSUME IInv, NEW p \in Pids, NEW j \in Jobs, procs[p].job = j, NotifyRetry(p)
    PROVE  IInv' /\ Stable
    <3> USE <2>NotifyRetryStep
    <3> DEFINE copy == procs[p].copy
               next == FindNextOpcode(copy)
               new == SetOp(copy, next, "waiting")
    <3>1. procs[p].pc = "exec" /\ UNCHANGED luxid /\ UNCHANGED file /\ Step(p, "waiting", new)
      BY DEF NotifyRetry
    <3>2. /\ procs[p].pc \in AtWork /\ "waiting" \in AtWork /\ procs[p].pc \in AtWork \cup {"started"}
          /\ "waiting" # "exec"
      BY <3>1 DEF AtWork
    <3>3. /\ copy \in JobOf(j) /\ Regular(copy.ops)
          /\ Open(copy.ops) => Open(file[j].ops) /\ j \in queue.running
      BY <3>2, <1>Working
    <3>4. /\ file[j] \in JobOf(j) /\ Regular(file[j].ops) /\ file[j].livelock = ProcLock(p)
          /\ file[j].ops[1] \in {"running", "success"} => Met(j)
          /\ copy.livelock = ProcLock(p) /\ Matches(file[j].ops, copy.ops)
      BY <3>2, <1>Working
    <3>5. Open(copy.ops) /\ copy.ops[next] = "running"
      BY <3>1 DEF IInv, JobInv, ProcOk
    <3>6. "waiting" \in {"waiting", "running", "success"} /\ "waiting" # "success"
      OBVIOUS
    <3>7. new \in JobOf(j)
      BY <3>3, <3>5, <3>6, <1>ChangedJob
    <3>8. Regular(new.ops) /\ Open(new.ops)
      BY <3>3, <3>5, <3>6, <1>ChangedJob
    <3>9. new.livelock = ProcLock(p)
      BY ZenonT(60), <3>3, <3>4, <2>ChangedLock
    <3>10. Matches(file[j].ops, new.ops)
      <4>1. new.ops[next] = "waiting"
        BY <3>3, <3>5, <3>6, <1>ChangedJob
      <4>2. \A i \in 1..NumOps[j] : i # next => new.ops[i] = copy.ops[i]
        BY <3>3, <3>5, <3>6, <1>ChangedJob
      <4>3. DOMAIN new.ops = 1..NumOps[j] /\ DOMAIN copy.ops = 1..NumOps[j]
        BY <3>3, <3>7, <1>JobIsThere
      <4> HIDE DEF copy, next, new
      <4> QED  BY <3>4, <3>5, <4>1, <4>2, <4>3 DEF Matches
    <3>11. file' = [file EXCEPT ![j] = file[j]]
      BY <3>1, <2>FileSame
    <3> HIDE DEF copy, next, new
    <3> QED  BY ZenonT(60), <3>1, <3>2, <3>3, <3>4, <3>5, <3>7, <3>8, <3>9, <3>10, <3>11, <2>WorkStep

  <2>OpSuccessStep.
    ASSUME IInv, NEW p \in Pids, NEW j \in Jobs, procs[p].job = j, OpSuccess(p)
    PROVE  IInv' /\ Stable
    <3> USE <2>OpSuccessStep
    <3> DEFINE copy == procs[p].copy
               next == FindNextOpcode(copy)
               new == SetOp(copy, next, "success")
    <3>1. /\ procs[p].pc = "exec" /\ UNCHANGED luxid /\ file' = [file EXCEPT ![j] = new]
          /\ IF jobFinalized(new) THEN Step(p, "exiting", NoJob) ELSE Step(p, "loop", new)
      BY DEF OpSuccess, Write
    <3>2. /\ procs[p].pc \in AtWork /\ "loop" \in AtWork /\ procs[p].pc \in AtWork \cup {"started"}
          /\ "loop" # "exec"
      BY <3>1 DEF AtWork
    <3>3. /\ copy \in JobOf(j) /\ Regular(copy.ops)
          /\ Open(copy.ops) => Open(file[j].ops) /\ j \in queue.running
      BY <3>2, <1>Working
    <3>4. copy.livelock = ProcLock(p) /\ (copy.ops[1] \in {"running", "success"} => Met(j))
      BY <3>2, <1>Working
    <3>5. Open(copy.ops) /\ copy.ops[next] = "running"
      BY <3>1 DEF IInv, JobInv, ProcOk
    <3>6. "success" \in {"waiting", "running", "success"}
      OBVIOUS
    <3>7. new \in JobOf(j)
      BY <3>3, <3>5, <3>6, <1>ChangedJob
    <3>8. Regular(new.ops)
      BY <3>3, <3>5, <3>6, <1>ChangedJob
    <3>9. new.livelock = ProcLock(p)
      BY <3>3, <3>4, <2>ChangedLock
    <3>10. next # 1 => copy.ops[1] = "success"
      BY <3>3, <3>5, <3>6, <1>ChangedJob
    <3> HIDE DEF copy, next, new
    <3>11. Met(j)
      BY <3>4, <3>5, <3>10
    <3>12. jobFinalized(new) \/ Open(new.ops)
      BY <3>7, <3>8, <1>JobIsThere
    <3>13. CASE Step(p, "exiting", NoJob)
      BY <3>1, <3>2, <3>3, <3>5, <3>7, <3>8, <3>9, <3>11, <3>13, <2>LeaveStep
    <3>14. CASE Step(p, "loop", new) /\ Open(new.ops)
      <4>1. Matches(new.ops, new.ops)
        BY <2>MatchesItself
      <4> QED  BY <3>1, <3>2, <3>3, <3>5, <3>7, <3>8, <3>9, <3>11, <3>14, <4>1, <2>WorkStep
    <3> QED  BY <3>1, <3>12, <3>13, <3>14

  <2>OpErrorStep.
    ASSUME IInv, NEW p \in Pids, NEW j \in Jobs, procs[p].job = j, OpError(p)
    PROVE  IInv' /\ Stable
    <3> USE <2>OpErrorStep
    <3>1. /\ procs[p].pc \in {"exec", "waiting"} /\ UNCHANGED luxid
          /\ Finish(p, procs[p].copy, "error")
      BY DEF OpError
    <3>2. procs[p].pc \in AtWork /\ "error" \in {"canceled", "error"}
      BY <3>1 DEF AtWork
    <3>3. Open(procs[p].copy.ops)
      BY <3>1 DEF IInv, JobInv, ProcOk
    <3> QED  BY <3>1, <3>2, <3>3, <2>FinishStep

  <2>CancelledJob.
    ASSUME NEW j \in Jobs, NEW job \in JobOf(j), Regular(job.ops), Open(job.ops)
    PROVE  /\ Cancel(job) \in JobOf(j) /\ Cancel(job).livelock = job.livelock
           /\ Regular(Cancel(job).ops)
           /\ Cancel(job).ops[1] \in {"running", "success"} => job.ops[1] \in {"running", "success"}
    <3> USE <2>CancelledJob
    <3>1. \/ Cancel(job) = MarkUnfinishedOps(job, "canceled")
          \/ Cancel(job) = MarkUnfinishedOps(job, "canceling")
          \/ Cancel(job) = job
      BY DEF Cancel
    <3>2. ASSUME NEW status \in {"canceled", "error", "canceling"},
                 Cancel(job) = MarkUnfinishedOps(job, status)
          PROVE  /\ Cancel(job) \in JobOf(j) /\ Cancel(job).livelock = job.livelock
                 /\ Regular(Cancel(job).ops)
                 /\ Cancel(job).ops[1] \in {"running", "success"} => job.ops[1] = "success"
      <4> DEFINE new == MarkUnfinishedOps(job, status)
      <4>1. /\ new \in JobOf(j) /\ new.livelock = job.livelock /\ Regular(new.ops)
            /\ new.ops[1] \in {status, "success"}
            /\ new.ops[1] = "success" => job.ops[1] = "success"
        BY <2>MarkedJob
      <4> HIDE DEF new
      <4>2. Cancel(job) = new
        BY <3>2 DEF new
      <4> QED  BY <4>1, <4>2
    <3> QED  BY <3>1, <3>2

  <2>CancelJobStep.
    ASSUME IInv, NEW p \in Pids, NEW j \in Jobs, procs[p].job = j, CancelJob(p)
    PROVE  IInv' /\ Stable
    <3> USE <2>CancelJobStep
    <3> DEFINE job == Cancel(file[j])
               r == [procs[p] EXCEPT !.pc = "ready", !.cancel = FALSE, !.copy = job]
    <3>1. /\ procs[p].pc = "loop" /\ UNCHANGED luxid
          /\ file' = [file EXCEPT ![j] = job] /\ procs' = [procs EXCEPT ![p] = r]
      BY DEF CancelJob, Write
    <3>2. procs[p].pc \in AtWork /\ procs[p].pc \in AtWork \cup {"started"}
      BY <3>1 DEF AtWork
    <3>3. /\ file[j] \in JobOf(j) /\ Regular(file[j].ops) /\ file[j].livelock = ProcLock(p)
          /\ Open(procs[p].copy.ops) => Open(file[j].ops) /\ j \in queue.running
          /\ file[j].ops[1] \in {"running", "success"} => Met(j)
      BY <3>2, <1>Working
    <3>4. Open(procs[p].copy.ops)
      BY <3>1 DEF IInv, JobInv, ProcOk
    <3>5. /\ job \in JobOf(j) /\ job.livelock = file[j].livelock /\ Regular(job.ops)
          /\ job.ops[1] \in {"running", "success"} => file[j].ops[1] \in {"running", "success"}
      BY <3>3, <3>4, <2>CancelledJob
    <3> HIDE DEF job
    <3>6. job \in Job
      BY <3>5, <1>JobIsThere
    <3>7. procs[p] \in Proc
      BY <1>ProcTyped
    <3>8. r \in Proc /\ r.job = j /\ r.pc = "ready" /\ r.copy = job
      BY <3>6, <3>7 DEF Proc
    <3> HIDE DEF r
    <3>9. /\ r.pc \in AtWork \cup {"exiting"} /\ r.pc # "exec" /\ r.pc \notin {"waiting", "exec", "loop"}
          /\ job.livelock = ProcLock(p) /\ (job.ops[1] \in {"running", "success"} => Met(j))
      BY <3>3, <3>5, <3>8 DEF AtWork
    <3>10. /\ r.copy \in JobOf(j) /\ Regular(r.copy.ops) /\ r.copy.livelock = ProcLock(p)
           /\ Matches(job.ops, r.copy.ops) /\ j \in queue.running /\ Open(file[j].ops)
      BY <3>3, <3>4, <3>5, <3>8, <2>MatchesItself
    <3> QED  BY <3>1, <3>2, <3>5, <3>8, <3>9, <3>10, <2>ProcStep

  <2> SUFFICES ASSUME IInv, NEW p \in Pids, Process(p) \/ Crash(p) PROVE IInv' /\ Stable
    OBVIOUS
  <2>1. PICK j \in Jobs : procs[p].job = j
    BY <1>ProcTyped
  <2>2. CASE PipeBroken(p) \/ Exit(p) \/ Crash(p)
    <3>1. Kill(p) /\ UNCHANGED <<file, luxid>>
      BY <2>2 DEF PipeBroken, Exit, Crash
    <3> QED  BY <2>1, <3>1, <2>KillStep
  <2>3. CASE SafeLoadJobFromDisk(p) \/ MarkWaitlock(p) \/ CheckDependencies(p)
    BY <2>1, <2>3, <2>LoadStep, <2>MarkWaitlockStep, <2>CheckDependenciesStep
  <2>4. CASE LockAcquireTimeout(p) \/ NotifyStart(p) \/ NotifyRetry(p)
    BY <2>1, <2>4, <2>LockAcquireTimeoutStep, <2>NotifyStartStep, <2>NotifyRetryStep
  <2>5. CASE OpSuccess(p) \/ OpError(p) \/ CancelJob(p)
    BY <2>1, <2>5, <2>OpSuccessStep, <2>OpErrorStep, <2>CancelJobStep
  <2> QED  BY <2>2, <2>3, <2>4, <2>5 DEF Process

\* A step about one job that starts no process and leaves the running jobs.
<1>LuxidStep.
  ASSUME IInv, Stable, NEW j \in Jobs, Typed', JobInv(j)', \A k \in Jobs \ {j} : Untouched(k),
         procs' = procs, gen' = gen, poller' = poller,
         queue'.running = queue.running, queue'.manipulated = queue.manipulated
  PROVE  IInv'
  <2> USE <1>LuxidStep
  <2>1. ProcsKept /\ Pids' = Pids
    BY <1>NothingChanges
  <2>2. \A k \in queue.manipulated : k \notin queue'.running
    BY <1>Apart
  <2>3. PollerOk'
    BY <2>1, <2>2, <1>PollerKept
  <2>4. Limit'
    BY DEF IInv, Limit
  <2> QED  BY <2>1, <2>3, <2>4, <1>Gather

\* What a watcher read stays right.
<1>WatchKept.
  ASSUME IInv, Stable, ProcsKept, gen' = gen, NEW j \in Jobs, watch'[j] = watch[j]
  PROVE  watch'[j] # NoJob => Seen(j, watch[j])'
  <2> USE <1>WatchKept
  <2>1. watch[j] # NoJob => Seen(j, watch[j])
    BY DEF IInv, JobInv, PlaceOk
  <2>2. \A v : Seen(j, v) => Seen(j, v)'
    BY <1>SeenKept
  <2> QED  BY <2>1, <2>2 DEF Seen, LockOf

\* A job that was submitted and is not started yet.
<1>FreshJobInv.
  ASSUME NEW j \in Jobs, Fresh(j)', ~Held(j)', start'[j] = NotStarting,
         handler'[j] # "none" => j \notin queue'.enqueued,
         handler'[j] # "none" \/ j \in queue'.enqueued => mem'[j] = NewJob(j),
         watch'[j] # NoJob => Seen(j, watch[j])',
         \A k \in Deps[j] : Submitted(k)'
  PROVE  JobInv(j)'
  <2> USE <1>FreshJobInv
  <2>1. file'[j] = NewJob(j) /\ NoProc(j)'
    BY DEF Fresh
  <2>2. /\ NewJob(j) \in JobOf(j) /\ NewJob(j).livelock = NoLock /\ Regular(NewJob(j).ops)
        /\ calcJobStatus(NewJob(j).ops) = "queued" /\ NewJob(j).ops[1] = "queued"
    BY <1>NewJobIsQueued
  <2>3. Submitted(j)'
    BY <2>1, <2>2, <1>JobIsThere DEF Submitted
  <2>4. FileOk(j)'
    <3>1. LockOf(j, file[j].livelock)'
      BY <2>1, <2>2 DEF LockOf
    <3>2. ~jobStarted(file'[j]) /\ file'[j].ops[1] \notin {"running", "success"}
      BY <2>1, <2>2 DEF jobStarted
    <3>3. Regular(file'[j].ops) /\ file'[j].ops = NewJob(j).ops
      BY <2>1, <2>2
    <3> QED  BY <3>1, <3>2, <3>3 DEF FileOk
  <2>5. PlaceOk(j)'
    BY <2>3 DEF PlaceOk
  <2>6. StartOk(j)'
    BY <1>StartIdle
  <2>7. OnlyProc(j)' /\ \A p \in Pids' : procs'[p].job # j
    BY <2>1 DEF NoProc, OnlyProc
  <2> QED  BY <2>4, <2>5, <2>6, <2>7 DEF JobInv

\* Handlers that only move a job that is not started yet.
<1>QueuedJob.
  ASSUME IInv, NEW j \in Jobs, handler[j] # "none" \/ j \in queue.enqueued
  PROVE  /\ Submitted(j) /\ Fresh(j) /\ file[j] = NewJob(j) /\ mem[j] = NewJob(j) /\ NoProc(j)
         /\ start[j] = NotStarting /\ ~Held(j)
         /\ handler[j] # "none" => j \notin queue.enqueued
         /\ \A k \in Deps[j] : Submitted(k)
  <2> USE <1>QueuedJob
  <2>1. FileOk(j) /\ PlaceOk(j)
    BY DEF IInv, JobInv
  <2>2. Submitted(j) /\ Fresh(j) /\ mem[j] = NewJob(j) /\ start[j] = NotStarting /\ ~Held(j)
        /\ (handler[j] # "none" => j \notin queue.enqueued)
    BY <2>1 DEF PlaceOk
  <2> QED  BY <2>1, <2>2 DEF Fresh, FileOk

\* The jobs of the queue.
<1>QueueTyped.
  ASSUME IInv
  PROVE  queue.enqueued \subseteq Jobs /\ queue.running \subseteq Jobs /\ queue.manipulated \subseteq Jobs
  BY <1>QueueTyped DEF IInv, Typed

\* A job that ended and has no running process any more.
<1>EndedJobInv.
  ASSUME NEW j \in Jobs, Submitted(j)', Finalized(j)', Regular(file'[j].ops),
         file'[j].ops[1] \in {"error", "canceled"}, \A k \in Deps[j] : Submitted(k)',
         handler'[j] = "none", j \notin queue'.enqueued, StartOk(j)',
         Held(j)' => Seen(j, mem[j])', watch'[j] # NoJob => Seen(j, watch[j])',
         AllDead(j)', OnlyProc(j)'
  PROVE  JobInv(j)'
  <2> USE <1>EndedJobInv
  <2>1. FileOk(j)'
    <3>1. LockOf(j, file[j].livelock)'
      BY DEF LockOf
    <3> QED  BY <3>1 DEF FileOk
  <2>2. PlaceOk(j)'
    BY DEF PlaceOk
  <2>3. \A p \in Pids' : procs'[p].job = j => ProcOk(j, p)'
    BY DEF ProcOk, AllDead, AtWork
  <2> QED  BY <2>1, <2>2, <2>3 DEF JobInv

\* Every step of a request keeps the invariant, and what ended.
<1>RequestStep.
  \A j \in Jobs :
    /\ IInv
    /\ \/ SubmitJob(j) \/ CancelQueued(j) \/ cancelJob(j) \/ setJobPriority(j) \/ Handling(j)
    => IInv' /\ Stable
  <2>SubmitStep.
    ASSUME IInv, NEW j \in Jobs, SubmitJob(j)
    PROVE  IInv' /\ Stable
    <3> USE <2>SubmitStep
    <3>1. /\ ~Submitted(j) /\ \A k \in Deps[j] : Submitted(k)
          /\ file' = [file EXCEPT ![j] = NewJob(j)] /\ mem' = [mem EXCEPT ![j] = NewJob(j)]
          /\ handler' = [handler EXCEPT ![j] = "enqueue"]
      BY DEF SubmitJob
    <3>2. /\ queue' = queue /\ start' = start /\ poller' = poller /\ watch' = watch
          /\ gen' = gen /\ procs' = procs
      BY DEF SubmitJob
    <3>3. /\ NoProc(j) /\ start[j] = NotStarting /\ ~Held(j) /\ j \notin queue.enqueued
      BY <3>1 DEF IInv, JobInv, PlaceOk
    <3>4. NewJob(j) \in JobOf(j) /\ NewJob(j) \in Job
      BY <1>NewJobIsQueued, <1>JobIsThere
    <3>5. ~Finalized(j)
      BY <3>1 DEF Finalized
    <3>6. /\ file' \in [Jobs -> Job] /\ \A i \in Jobs : file'[i] \in JobOf(i) \cup {NoJob}
          /\ file'[j] = NewJob(j) /\ Submitted(j)' /\ \A i \in Jobs : i # j => file'[i] = file[i]
          /\ Stable
      BY <3>1, <3>4, <3>5, <1>FileChange
    <3>7. mem \in [Jobs -> Job \cup Sight] /\ handler \in [Jobs -> {"none", "enqueue", "cancel", "priority"}]
      BY DEF IInv, Typed
    <3>8. /\ mem' \in [Jobs -> Job \cup Sight] /\ mem'[j] = NewJob(j)
          /\ \A k \in Jobs : k # j => mem'[k] = mem[k]
      BY <3>1, <3>4, <3>7
    <3>9. /\ handler' \in [Jobs -> {"none", "enqueue", "cancel", "priority"}]
          /\ \A k \in Jobs : k # j => handler'[k] = handler[k]
      BY <3>1, <3>7
    <3>10. Typed'
      BY <3>2, <3>6, <3>8, <3>9 DEF IInv, Typed
    <3>11. \A k \in Jobs \ {j} : Untouched(k)
      BY <3>2, <3>6, <3>8, <3>9 DEF Untouched, Pids
    <3>12. JobInv(j)'
      <4>1. Fresh(j)' /\ ~Held(j)' /\ j \notin queue'.enqueued /\ start'[j] = NotStarting
        BY <3>2, <3>3, <3>6 DEF Fresh, NoProc, Held, Pids
      <4>2. watch'[j] # NoJob => Seen(j, watch[j])'
        BY <3>2, <3>6, <1>WatchKept, <1>NothingChanges
      <4>3. \A k \in Deps[j] : Submitted(k)'
        BY <3>1, <3>6, DepsAssumption DEF Stable
      <4> QED  BY <3>8, <4>1, <4>2, <4>3, <1>FreshJobInv
    <3> QED  BY <3>2, <3>6, <3>10, <3>11, <3>12, <1>LuxidStep

  <2>MoveStep.
    ASSUME IInv, NEW j \in Jobs, handler[j] # "none" \/ j \in queue.enqueued,
           file' = file, mem' = mem, start' = start, watch' = watch, poller' = poller,
           gen' = gen, procs' = procs,
           NEW h \in {"none", "enqueue", "cancel", "priority"}, handler' = [handler EXCEPT ![j] = h],
           NEW e \in SUBSET Jobs, queue' = [queue EXCEPT !.enqueued = e],
           \A k \in Jobs : k # j => (k \in e <=> k \in queue.enqueued), h # "none" => j \notin e
    PROVE  IInv' /\ Stable
    <3> USE <2>MoveStep
    <3>1. /\ handler \in [Jobs -> {"none", "enqueue", "cancel", "priority"}]
          /\ queue \in [enqueued : SUBSET Jobs, running : SUBSET Jobs, manipulated : SUBSET Jobs]
      BY DEF IInv, Typed
    <3>2. /\ handler' \in [Jobs -> {"none", "enqueue", "cancel", "priority"}]
          /\ handler'[j] = h /\ \A k \in Jobs : k # j => handler'[k] = handler[k]
      BY <3>1
    <3>3. /\ queue' \in [enqueued : SUBSET Jobs, running : SUBSET Jobs, manipulated : SUBSET Jobs]
          /\ queue'.enqueued = e
          /\ queue'.running = queue.running /\ queue'.manipulated = queue.manipulated
      BY <3>1
    <3>4. Stable /\ ProcsKept /\ Pids' = Pids
      BY <1>NothingChanges
    <3>5. Typed'
      BY <3>2, <3>3 DEF IInv, Typed
    <3>6. \A k \in Jobs \ {j} : Untouched(k)
      BY <3>2, <3>3, <3>4 DEF Untouched
    <3>7. JobInv(j)'
      <4>1. /\ Fresh(j) /\ mem[j] = NewJob(j) /\ start[j] = NotStarting /\ ~Held(j)
            /\ \A k \in Deps[j] : Submitted(k)
        BY <1>QueuedJob
      <4>2. Fresh(j)' /\ ~Held(j)'
        BY <3>3, <3>4, <4>1 DEF Fresh, NoProc, Held
      <4>3. watch'[j] # NoJob => Seen(j, watch[j])'
        BY <3>4, <1>WatchKept
      <4>4. \A k \in Deps[j] : Submitted(k)'
        BY <4>1 DEF Submitted
      <4> QED  BY <3>2, <3>3, <4>1, <4>2, <4>3, <4>4, <1>FreshJobInv
    <3> QED  BY <3>3, <3>4, <3>5, <3>6, <3>7, <1>LuxidStep

  <2>EnqueueStep.
    ASSUME IInv, NEW j \in Jobs, enqueueNewJobs(j)
    PROVE  IInv' /\ Stable
    <3> USE <2>EnqueueStep
    <3> DEFINE e == queue.enqueued \cup {j}
    <3>1. /\ handler[j] # "none" /\ handler' = [handler EXCEPT ![j] = "none"]
          /\ queue' = [queue EXCEPT !.enqueued = e]
          /\ file' = file /\ mem' = mem /\ start' = start /\ poller' = poller
          /\ watch' = watch /\ gen' = gen /\ procs' = procs
      BY DEF enqueueNewJobs
    <3>2. e \in SUBSET Jobs /\ \A k \in Jobs : k # j => (k \in e <=> k \in queue.enqueued)
      BY <1>QueueTyped
    <3>3. "none" \in {"none", "enqueue", "cancel", "priority"}
      OBVIOUS
    <3> HIDE DEF e
    <3> QED  BY <3>1, <3>2, <3>3, <2>MoveStep

  <2>RemoveStep.
    ASSUME IInv, NEW j \in Jobs, NEW why \in {"cancel", "priority"}, rmJob(j, why)
    PROVE  IInv' /\ Stable
    <3> USE <2>RemoveStep
    <3> DEFINE e == queue.enqueued \ {j}
    <3>1. /\ j \in queue.enqueued /\ handler' = [handler EXCEPT ![j] = why]
          /\ queue' = [queue EXCEPT !.enqueued = e]
          /\ file' = file /\ mem' = mem /\ start' = start /\ poller' = poller
          /\ watch' = watch /\ gen' = gen /\ procs' = procs
      BY DEF rmJob
    <3>2. /\ e \in SUBSET Jobs /\ \A k \in Jobs : k # j => (k \in e <=> k \in queue.enqueued)
          /\ j \notin e
      BY <1>QueueTyped
    <3>3. why \in {"none", "enqueue", "cancel", "priority"}
      OBVIOUS
    <3> HIDE DEF e
    <3> QED  BY <3>1, <3>2, <3>3, <2>MoveStep

  \* What is written is what was there: nobody else wrote the job since.
  <2>PriorityStep.
    ASSUME IInv, NEW j \in Jobs, PriorityWrite(j)
    PROVE  IInv' /\ Stable
    <3> USE <2>PriorityStep
    <3> DEFINE e == queue.enqueued
    <3>0. file' = [file EXCEPT ![j] = mem[j]] /\ queue' = queue
      BY DEF PriorityWrite
    <3>1. /\ handler[j] # "none" /\ handler' = [handler EXCEPT ![j] = "enqueue"]
          /\ mem' = mem /\ start' = start /\ poller' = poller
          /\ watch' = watch /\ gen' = gen /\ procs' = procs
      BY DEF PriorityWrite
    <3>2. file[j] = NewJob(j) /\ mem[j] = NewJob(j)
      BY <3>1, <1>QueuedJob
    <3>3. /\ file \in [Jobs -> Job]
          /\ queue \in [enqueued : SUBSET Jobs, running : SUBSET Jobs, manipulated : SUBSET Jobs]
      BY DEF IInv, Typed
    <3>4. file' = file
      BY SMT, <3>0, <3>2, <3>3
    <3>5. queue' = [queue EXCEPT !.enqueued = e]
      BY SMT, <3>0, <3>3
    <3>6. "enqueue" \in {"none", "enqueue", "cancel", "priority"} /\ e \in SUBSET Jobs /\ j \notin e
      BY <3>1, <1>QueueTyped, <1>QueuedJob
    <3> HIDE DEF e
    <3>7. \A k \in Jobs : k # j => (k \in e <=> k \in queue.enqueued)
      BY DEF e
    <3> QED  BY <3>1, <3>4, <3>5, <3>6, <3>7, <2>MoveStep

  <2>CancelWriteStep.
    ASSUME IInv, NEW j \in Jobs, CancelWrite(j)
    PROVE  IInv' /\ Stable
    <3> USE <2>CancelWriteStep
    <3> DEFINE job == cancelQueuedJob(file[j])
    <3>1. /\ handler[j] # "none" /\ handler' = [handler EXCEPT ![j] = "none"]
          /\ file' = [file EXCEPT ![j] = job] /\ mem' = [mem EXCEPT ![j] = NoJob]
          /\ queue' = queue /\ start' = start /\ poller' = poller
          /\ watch' = watch /\ gen' = gen /\ procs' = procs
      BY DEF CancelWrite
    <3>2. /\ file[j] = NewJob(j) /\ NoProc(j) /\ start[j] = NotStarting /\ ~Held(j)
          /\ j \notin queue.enqueued /\ Submitted(j) /\ \A k \in Deps[j] : Submitted(k)
      BY <3>1, <1>QueuedJob
    <3>3. /\ NewJob(j) \in JobOf(j) /\ Regular(NewJob(j).ops) /\ Open(NewJob(j).ops)
      BY <1>NewJobIsQueued
    <3>4. ~Finalized(j)
      BY <3>2, <3>3, <1>FileTyped
    <3>5. /\ job \in JobOf(j) /\ Regular(job.ops) /\ jobFinalized(job) /\ job.ops[1] = "canceled"
      BY ZenonT(60), <3>2, <3>3, <1>FailedJob
    <3> HIDE DEF job
    <3>6. /\ file' \in [Jobs -> Job] /\ \A i \in Jobs : file'[i] \in JobOf(i) \cup {NoJob}
          /\ file'[j] = job /\ Submitted(j)' /\ \A i \in Jobs : i # j => file'[i] = file[i]
          /\ Stable
      BY <3>1, <3>4, <3>5, <1>FileChange
    <3>7. /\ mem \in [Jobs -> Job \cup Sight] /\ NoJob \in Job
          /\ handler \in [Jobs -> {"none", "enqueue", "cancel", "priority"}]
      BY DEF IInv, Typed, Job
    <3>8. mem' \in [Jobs -> Job \cup Sight] /\ \A k \in Jobs : k # j => mem'[k] = mem[k]
      BY <3>1, <3>7
    <3>9. /\ handler' \in [Jobs -> {"none", "enqueue", "cancel", "priority"}]
          /\ handler'[j] = "none" /\ \A k \in Jobs : k # j => handler'[k] = handler[k]
      BY <3>1, <3>7
    <3>10. Typed'
      BY <3>1, <3>6, <3>8, <3>9 DEF IInv, Typed
    <3>11. \A k \in Jobs \ {j} : Untouched(k)
      BY <3>1, <3>6, <3>8, <3>9 DEF Untouched, Pids
    <3>12. JobInv(j)'
      <4>1. NoProc(j)' /\ ~Held(j)' /\ j \notin queue'.enqueued /\ start'[j] = NotStarting
        BY <3>1, <3>2 DEF NoProc, Held, Pids
      <4>2. watch'[j] # NoJob => Seen(j, watch[j])'
        BY <3>1, <3>6, <1>WatchKept, <1>NothingChanges
      <4>3. \A k \in Deps[j] : Submitted(k)'
        BY <3>2, <3>6, DepsAssumption DEF Stable
      <4>4. Finalized(j)' /\ Regular(file'[j].ops) /\ file'[j].ops[1] \in {"error", "canceled"}
        BY <3>5, <3>6 DEF Finalized
      <4>5. AllDead(j)' /\ OnlyProc(j)' /\ StartOk(j)'
        BY <4>1, <1>StartIdle DEF NoProc, AllDead, OnlyProc
      <4> QED  BY <3>6, <3>9, <4>1, <4>2, <4>3, <4>4, <4>5, <1>EndedJobInv
    <3> QED  BY <3>1, <3>6, <3>10, <3>11, <3>12, <1>LuxidStep

  \* The flag of a process is nobody's business but its own.
  <2>SignalStep.
    ASSUME IInv, NEW j \in Jobs, cancelJob(j)
    PROVE  IInv' /\ Stable
    <3> USE <2>SignalStep
    <3> DEFINE p == file[j].pid
               r == [procs[p] EXCEPT !.cancel = TRUE]
    <3>1. /\ p \in Pids /\ procs' = [procs EXCEPT ![p] = r] /\ file' = file
          /\ queue' = queue /\ start' = start /\ handler' = handler /\ mem' = mem
          /\ watch' = watch /\ gen' = gen /\ poller' = poller
      BY DEF cancelJob, luxid
    <3> HIDE DEF p
    <3>2. procs[p] \in Proc
      BY <3>1, <1>ProcTyped
    <3>3. /\ r \in Proc /\ r.job = procs[p].job /\ r.pc = procs[p].pc /\ r.copy = procs[p].copy
      BY <3>2 DEF Proc
    <3> HIDE DEF r
    <3>4. /\ procs' \in Seq(Proc) /\ Pids' = Pids /\ procs'[p] = r
          /\ \A q \in Pids : q # p => procs'[q] = procs[q]
          /\ ProcsKept
      BY <3>1, <3>3, <1>ProcChange
    <3>5. \A q \in Pids : /\ procs'[q].job = procs[q].job
                          /\ procs'[q].pc = procs[q].pc /\ procs'[q].copy = procs[q].copy
      BY <3>3, <3>4
    <3>6. \A k \in Jobs : Untouched(k)
      BY <3>1, <3>4, <3>5 DEF Untouched
    <3>7. Stable
      BY <3>1, <1>NothingChanges
    <3>8. \A k \in Jobs : JobInv(k)'
      BY <3>1, <3>4, <3>6, <3>7, <1>JobKept
    <3>9. Typed'
      BY <3>1, <3>4 DEF IInv, Typed
    <3>10. PollerOk'
      BY <3>1, <3>4, <3>7, <1>Apart, <1>PollerKept
    <3>11. Limit'
      BY <3>1 DEF IInv, Limit
    <3> QED  BY <3>7, <3>8, <3>9, <3>10, <3>11 DEF IInv

  <2> SUFFICES ASSUME IInv, NEW j \in Jobs,
                      \/ SubmitJob(j) \/ CancelQueued(j) \/ cancelJob(j) \/ setJobPriority(j)
                      \/ Handling(j)
               PROVE  IInv' /\ Stable
    OBVIOUS
  <2>1. CASE CancelQueued(j) \/ setJobPriority(j)
    <3>1. PICK why \in {"cancel", "priority"} : rmJob(j, why)
      BY <2>1 DEF CancelQueued, setJobPriority
    <3> QED  BY <3>1, <2>RemoveStep
  <2>2. CASE SubmitJob(j) \/ cancelJob(j)
    BY <2>2, <2>SubmitStep, <2>SignalStep
  <2>3. CASE Handling(j)
    BY <2>3, <2>EnqueueStep, <2>CancelWriteStep, <2>PriorityStep DEF Handling
  <2> QED  BY <2>1, <2>2, <2>3

\* A new job with the livelock of who starts it.
<1>LockedJob.
  ASSUME NEW j \in Jobs, NEW lock \in Lock
  PROVE  LET job == [NewJob(j) EXCEPT !.livelock = lock]
         IN  job \in JobOf(j) /\ job.ops = NewJob(j).ops /\ job.livelock = lock
  <2> USE <1>LockedJob
  <2>1. NewJob(j) \in JobOf(j)
    BY <1>NewJobIsQueued
  <2> QED  BY <2>1 DEF JobOf

\* What luxid remembers, and what the file says, stays right.
<1>MemKept.
  ASSUME IInv, Stable, ProcsKept, gen' = gen, NEW j \in Jobs, mem'[j] = mem[j], Held(j)
  PROVE  Seen(j, mem[j])'
  <2> USE <1>MemKept
  <2>1. Seen(j, mem[j])
    BY DEF IInv, JobInv, PlaceOk
  <2>2. \A v : Seen(j, v) => Seen(j, v)'
    BY <1>SeenKept
  <2> QED  BY <2>1, <2>2 DEF Seen, LockOf

<1>FileKept.
  ASSUME IInv, Stable, ProcsKept, gen' = gen, NEW j \in Jobs, file'[j] = file[j],
         NoProc(j) => NoProc(j)', Finalized(j) \/ ~jobStarted(file[j]) \/ Held(j)'
  PROVE  FileOk(j)'
  <2> USE <1>FileKept
  <2>1. FileOk(j)
    BY DEF IInv, JobInv
  <2>2. (Submitted(j)' <=> Submitted(j)) /\ (Finalized(j)' <=> Finalized(j))
    BY DEF Submitted, Finalized
  <2>3. Fresh(j) => Fresh(j)'
    BY DEF Fresh
  <2> SUFFICES ASSUME Submitted(j) PROVE FileOk(j)'
    BY <2>2 DEF FileOk
  <2>4. /\ Regular(file[j].ops) /\ LockOf(j, file[j].livelock)
        /\ file[j].livelock = NoLock => Finalized(j) \/ Fresh(j)
        /\ file[j].livelock = LuxidLock(gen) => Finalized(j) \/ file[j].ops = NewJob(j).ops
        /\ \A d \in Deps[j] : Submitted(d)
        /\ file[j].ops[1] \in {"running", "success"} => Met(j)
    BY <2>1 DEF FileOk
  <2>5. LockOf(j, file[j].livelock)'
    <3>1. \A lock : LockOf(j, lock) => LockOf(j, lock)'
      BY <1>LockKept
    <3> QED  BY <2>4, <3>1 DEF LockOf
  <2>6. \A d \in Deps[j] : Submitted(d)'
    BY <2>4, DepsAssumption DEF Stable
  <2>7. file'[j].ops[1] \in {"running", "success"} => Met(j)'
    BY <2>4, <1>MetKept
  <2>8. /\ file'[j].livelock = NoLock => Finalized(j)' \/ Fresh(j)'
        /\ file'[j].livelock = LuxidLock(gen') => Finalized(j)' \/ file'[j].ops = NewJob(j).ops
        /\ Finalized(j)' \/ ~jobStarted(file'[j]) \/ Held(j)'
    BY <2>2, <2>3, <2>4
  <2> QED  BY <2>4, <2>5, <2>6, <2>7, <2>8 DEF FileOk

\* The queue is finite.
<1>QueueFinite.
  ASSUME IInv
  PROVE  /\ IsFiniteSet(queue.enqueued) /\ IsFiniteSet(queue.running)
         /\ IsFiniteSet(queue.manipulated)
         /\ Cardinality(queue.running) \in Nat /\ Cardinality(queue.manipulated) \in Nat
  <2> USE <1>QueueFinite
  <2>1. /\ queue.enqueued \in SUBSET Jobs /\ queue.running \in SUBSET Jobs
        /\ queue.manipulated \in SUBSET Jobs
    BY <1>QueueTyped
  <2>2. /\ IsFiniteSet(queue.enqueued) /\ IsFiniteSet(queue.running)
        /\ IsFiniteSet(queue.manipulated)
    BY <2>1, JobsAssumption DEF Counting
  <2> QED  BY <2>2 DEF Counting

\* Every step of starting a job keeps the invariant, and what ended.
<1>StartingStep.
  \A j \in Jobs : IInv /\ Starting(j) => IInv' /\ Stable
  <2>StartedJob.
    ASSUME IInv, NEW j \in Jobs, start[j].pc # "none"
    PROVE  /\ Submitted(j) /\ handler[j] = "none" /\ j \notin queue.enqueued
           /\ start[j].job = NewJob(j) /\ \A k \in Deps[j] : Submitted(k)
    <3> USE <2>StartedJob
    <3>1. FileOk(j) /\ PlaceOk(j) /\ StartOk(j)
      BY DEF IInv, JobInv
    <3>2. NotStarting.pc = "none"
      BY DEF NotStarting
    <3>3. start[j] # NotStarting
      BY <3>2
    <3>4. Submitted(j) /\ handler[j] = "none" /\ j \notin queue.enqueued
      BY <3>1, <3>3 DEF PlaceOk
    <3> QED  BY <3>1, <3>4 DEF FileOk, StartOk

  <2>StartPc.
    ASSUME IInv, NEW j \in Jobs,
           NEW pc \in {"none", "chosen", "owned", "spawned", "named", "failed", "failing"},
           start' = [start EXCEPT ![j].pc = pc]
    PROVE  /\ start' \in [Jobs -> StartRun] /\ \A k \in Jobs : k # j => start'[k] = start[k]
           /\ start'[j].pc = pc /\ start'[j].job = start[j].job /\ start'[j].pid = start[j].pid
    <3> USE <2>StartPc
    <3>1. start \in [Jobs -> StartRun]
      BY DEF IInv, Typed
    <3>2. [start[j] EXCEPT !.pc = pc] \in StartRun
      BY <3>1 DEF StartRun
    <3> QED  BY <3>1, <3>2 DEF StartRun

  \* A file with the opcodes of a new job, and a livelock that is not gone.
  <2>LockedFile.
    ASSUME NEW j \in Jobs, Submitted(j)', file'[j].ops = NewJob(j).ops, LockOf(j, file[j].livelock)',
           file'[j].livelock # NoLock, \A k \in Deps[j] : Submitted(k)'
    PROVE  FileOk(j)'
    <3> USE <2>LockedFile
    <3>1. /\ Regular(NewJob(j).ops) /\ calcJobStatus(NewJob(j).ops) = "queued"
          /\ NewJob(j).ops[1] = "queued"
      BY <1>NewJobIsQueued
    <3>2. /\ Regular(file'[j].ops) /\ ~jobStarted(file'[j])
          /\ file'[j].ops[1] \notin {"running", "success"}
      BY <3>1 DEF jobStarted
    <3> QED  BY <3>2 DEF FileOk

  <2>StartJobStep.
    ASSUME IInv, NEW j \in Jobs, startJob(j)
    PROVE  IInv' /\ Stable
    <3> USE <2>StartJobStep
    <3> DEFINE lock == LuxidLock(gen)
               job == [NewJob(j) EXCEPT !.livelock = lock]
    <3>1. /\ start[j].pc = "chosen" /\ start' = [start EXCEPT ![j].pc = "owned"]
          /\ file' = [file EXCEPT ![j] = [start[j].job EXCEPT !.livelock = lock]]
          /\ queue' = queue /\ mem' = mem /\ handler' = handler /\ poller' = poller
          /\ watch' = watch /\ gen' = gen /\ procs' = procs
      BY DEF startJob, WriteLivelock
    <3>2. /\ Submitted(j) /\ handler[j] = "none" /\ j \notin queue.enqueued
          /\ start[j].job = NewJob(j) /\ \A k \in Deps[j] : Submitted(k)
      BY <3>1, <2>StartedJob
    <3>3. /\ file[j] = NewJob(j) /\ start[j].pid = 0 /\ NoProc(j) /\ j \in queue.running
      BY <3>1 DEF IInv, JobInv, StartOk
    <3>4. file' = [file EXCEPT ![j] = job]
      BY <3>1, <3>2
    <3>5. job \in JobOf(j) /\ job.ops = NewJob(j).ops /\ job.livelock = lock
      <4>1. lock \in Lock
        BY DEF IInv, Typed, Lock
      <4> QED  BY <4>1, <1>LockedJob
    <3>6. lock # NoLock
      BY <1>Locks
    <3> HIDE DEF job
    <3>7. Finalized(j) => job.ops = file[j].ops
      BY <3>3, <3>5
    <3>8. /\ file' \in [Jobs -> Job] /\ \A i \in Jobs : file'[i] \in JobOf(i) \cup {NoJob}
          /\ file'[j] = job /\ Submitted(j)' /\ \A i \in Jobs : i # j => file'[i] = file[i]
          /\ Stable
      BY <3>4, <3>5, <3>7, <1>FileChange
    <3>9. /\ start' \in [Jobs -> StartRun] /\ \A k \in Jobs : k # j => start'[k] = start[k]
          /\ start'[j].pc = "owned" /\ start'[j].job = start[j].job /\ start'[j].pid = start[j].pid
      BY <3>1, <2>StartPc
    <3>10. ProcsKept /\ Pids' = Pids
      BY <3>1, <1>NothingChanges
    <3>11. Typed'
      BY <3>1, <3>8, <3>9 DEF IInv, Typed
    <3>12. \A k \in Jobs \ {j} : Untouched(k)
      BY <3>1, <3>8, <3>9, <3>10 DEF Untouched
    <3>13. NoProc(j)' /\ Held(j)
      BY <3>1, <3>3, <3>10 DEF NoProc, Held
    <3>14. FileOk(j)'
      <4>1. LockOf(j, file[j].livelock)'
        BY <3>1, <3>5, <3>8 DEF LockOf
      <4>2. \A k \in Deps[j] : Submitted(k)'
        BY <3>2, <3>8, DepsAssumption DEF Stable
      <4>3. file'[j].ops = NewJob(j).ops /\ file'[j].livelock # NoLock
        BY <3>5, <3>6, <3>8
      <4> QED  BY <3>8, <4>1, <4>2, <4>3, <2>LockedFile
    <3>15. PlaceOk(j)'
      <4>1. watch'[j] # NoJob => Seen(j, watch[j])'
        BY <3>1, <3>8, <3>10, <1>WatchKept
      <4>2. Seen(j, mem[j])'
        BY <3>1, <3>8, <3>10, <3>13, <1>MemKept
      <4> QED  BY <3>1, <3>2, <3>8, <4>1, <4>2 DEF PlaceOk
    <3>16. StartOk(j)'
      <4>1. file'[j] = [NewJob(j) EXCEPT !.livelock = LuxidLock(gen')]
        BY <3>1, <3>8 DEF job
      <4> QED  BY <3>1, <3>2, <3>3, <3>9, <3>13, <4>1 DEF StartOk
    <3>17. JobInv(j)'
      BY <3>13, <3>14, <3>15, <3>16 DEF JobInv, NoProc, OnlyProc
    <3> QED  BY <3>1, <3>8, <3>11, <3>12, <3>17, <1>LuxidStep

  <2>SpawnStep.
    ASSUME IInv, NEW j \in Jobs, spawnJobProcess(j)
    PROVE  IInv' /\ Stable
    <3> USE <2>SpawnStep
    <3> DEFINE p == Len(procs) + 1
               r == [job |-> j, pc |-> "boot", copy |-> NoJob, cancel |-> FALSE]
               run == [start[j] EXCEPT !.pc = "spawned", !.pid = p]
    <3>1. /\ start[j].pc = "owned" /\ procs' = Append(procs, r)
          /\ start' = [start EXCEPT ![j].pc = "spawned", ![j].pid = p]
          /\ file' = file /\ queue' = queue /\ mem' = mem /\ handler' = handler /\ poller' = poller
          /\ watch' = watch /\ gen' = gen
      BY DEF spawnJobProcess
    <3>2. /\ Submitted(j) /\ handler[j] = "none" /\ j \notin queue.enqueued
          /\ start[j].job = NewJob(j) /\ \A k \in Deps[j] : Submitted(k)
      BY <3>1, <2>StartedJob
    <3>3. /\ file[j] = [NewJob(j) EXCEPT !.livelock = LuxidLock(gen)]
          /\ NoProc(j) /\ j \in queue.running
      BY <3>1 DEF IInv, JobInv, StartOk
    <3>4. /\ r \in Proc /\ r.job = j /\ r.pc = "boot"
      BY DEF Proc, Job
    <3> HIDE DEF r
    <3>5. /\ procs' \in Seq(Proc) /\ Len(procs') = p /\ procs'[p] = r
          /\ \A q \in 1..Len(procs) : procs'[q] = procs[q]
      <4>1. procs \in Seq(Proc)
        BY <1>ProcTyped
      <4>2. /\ Append(procs, r) \in Seq(Proc) /\ Len(Append(procs, r)) = Len(procs) + 1
            /\ \A q \in 1..Len(procs) : Append(procs, r)[q] = procs[q]
            /\ Append(procs, r)[Len(procs) + 1] = r
        BY SMT, <3>4, <4>1
      <4> QED  BY <3>1, <4>2
    <3>6. Pids = 1..Len(procs) /\ Pids' = 1..p /\ Len(procs) \in Nat
      BY SMT, <3>5, <1>ProcTyped DEF Pids
    <3>7. Pids' = Pids \cup {p} /\ p \in Nat /\ p # 0
      BY SMT, <3>6
    <3> HIDE DEF p
    <3>8. \A q \in Pids : procs'[q] = procs[q]
      BY <3>5, <3>6
    <3>9. ProcsKept /\ Stable
      BY <3>1, <3>7, <3>8, <1>NothingChanges DEF ProcsKept
    <3>10. start \in [Jobs -> StartRun]
      BY DEF IInv, Typed
    <3>11. start' = [start EXCEPT ![j] = run]
      BY <3>1, <3>10
    <3>12. run \in StartRun /\ run.pc = "spawned" /\ run.job = start[j].job /\ run.pid = p
      BY <3>7, <3>10 DEF StartRun
    <3> HIDE DEF run
    <3>13. /\ start' \in [Jobs -> StartRun] /\ start'[j] = run
           /\ \A k \in Jobs : k # j => start'[k] = start[k]
      BY <3>10, <3>11, <3>12
    <3>14. Typed'
      BY <3>1, <3>5, <3>13 DEF IInv, Typed
    <3>15. \A k \in Jobs \ {j} : Untouched(k)
      <4>1. \A q \in Pids' : procs'[q].job # j => q \in Pids
        BY <3>4, <3>5, <3>7
      <4>2. ASSUME NEW k \in Jobs, k # j, NEW q \in Pids', procs'[q].job = k
            PROVE  q \in Pids /\ procs[q].job = k
        BY <3>8, <4>1, <4>2
      <4> QED  BY <3>1, <3>8, <3>13, <4>2 DEF Untouched
    <3>16. PollerOk'
      <4>1. \A q \in Pids' \ Pids : procs'[q].job \notin queue.manipulated
        BY <3>3, <3>4, <3>5, <3>7, <1>Apart
      <4> QED  BY <3>1, <3>9, <4>1, <1>Apart, <1>PollerKept
    <3>17. Limit'
      BY <3>1 DEF IInv, Limit
    <3>18. /\ Submitted(j)' /\ \A k \in Deps[j] : Submitted(k)'
      BY <3>1, <3>2 DEF Submitted
    <3>19. file[j].ops = NewJob(j).ops /\ file[j].livelock = LuxidLock(gen)
      <4>1. LuxidLock(gen) \in Lock
        BY DEF IInv, Typed, Lock
      <4> DEFINE job == [NewJob(j) EXCEPT !.livelock = LuxidLock(gen)]
      <4>2. job.ops = NewJob(j).ops /\ job.livelock = LuxidLock(gen)
        BY <4>1, <1>LockedJob
      <4>3. file[j] = job
        BY <3>3
      <4> HIDE DEF job
      <4> QED  BY <4>2, <4>3
    <3>20. FileOk(j)'
      <4>1. LockOf(j, file[j].livelock)'
        BY <3>1, <3>19 DEF LockOf
      <4>2. file'[j].ops = NewJob(j).ops /\ file'[j].livelock # NoLock
        BY <3>1, <3>19, <1>Locks
      <4> QED  BY <3>18, <4>1, <4>2, <2>LockedFile
    <3>21. PlaceOk(j)'
      <4>1. watch'[j] # NoJob => Seen(j, watch[j])'
        BY <3>1, <3>9, <1>WatchKept
      <4>2. Seen(j, mem[j])'
        BY <3>1, <3>3, <3>9, <1>MemKept DEF Held
      <4> QED  BY <3>1, <3>2, <3>18, <4>1, <4>2 DEF PlaceOk
    <3>22. p \in Pids' /\ procs'[p].job = j /\ procs'[p].pc = "boot"
      BY <3>4, <3>5, <3>7
    <3>23. StartOk(j)'
      <4>1. start'[j].pc = "spawned" /\ start'[j].pid = p /\ start'[j].job = NewJob(j)
        BY <3>2, <3>12, <3>13
      <4> QED  BY <3>1, <3>3, <3>7, <3>19, <3>22, <4>1 DEF StartOk
    <3>24. \A q \in Pids' : procs'[q].job = j => q = p
      BY <3>3, <3>7, <3>8 DEF NoProc
    <3>25. ASSUME NEW q \in Pids', procs'[q].job = j PROVE ProcOk(j, q)'
      <4>1. procs'[q].pc = "boot" /\ start'[j].pid = q
        BY <3>12, <3>13, <3>22, <3>24, <3>25
      <4> QED  BY <4>1 DEF ProcOk, AtWork
    <3>26. JobInv(j)'
      BY <3>20, <3>21, <3>23, <3>24, <3>25 DEF JobInv, OnlyProc
    <3> QED  BY <3>1, <3>9, <3>14, <3>15, <3>16, <3>17, <3>26, <1>Gather

  \* The process of a job that is being started is waiting to be told so.
  <2>BootedJob.
    ASSUME IInv, NEW j \in Jobs, start[j].pc \in {"spawned", "named"},
           procs[start[j].pid].pc = "boot"
    PROVE  /\ start[j].pid \in Pids /\ procs[start[j].pid].job = j /\ j \in queue.running
           /\ file[j].ops = NewJob(j).ops
           /\ \A q \in Pids : procs[q].job = j => q = start[j].pid
           /\ ProcLock(start[j].pid) \in Lock
    <3> USE <2>BootedJob
    <3>1. StartOk(j) /\ OnlyProc(j)
      BY DEF IInv, JobInv
    <3>2. /\ start[j].pid \in Pids /\ procs[start[j].pid].job = j /\ j \in queue.running
          /\ file[j].ops = NewJob(j).ops
      BY <3>1 DEF StartOk
    <3>3. start[j].pid \in Nat
      BY DEF IInv, Typed, StartRun
    <3> QED  BY <3>1, <3>2, <3>3 DEF OnlyProc, Lock

  <2>SetLivelockStep.
    ASSUME IInv, NEW j \in Jobs, SetLivelock(j)
    PROVE  IInv' /\ Stable
    <3> USE <2>SetLivelockStep
    <3> DEFINE lock == ProcLock(start[j].pid)
               job == [NewJob(j) EXCEPT !.livelock = lock]
    <3>1. /\ start[j].pc = "spawned" /\ procs[start[j].pid].pc = "boot"
          /\ start' = [start EXCEPT ![j].pc = "named"]
          /\ file' = [file EXCEPT ![j] = [start[j].job EXCEPT !.livelock = lock]]
          /\ queue' = queue /\ mem' = mem /\ handler' = handler /\ poller' = poller
          /\ watch' = watch /\ gen' = gen /\ procs' = procs
      BY DEF SetLivelock, WriteLivelock
    <3>2. /\ Submitted(j) /\ handler[j] = "none" /\ j \notin queue.enqueued
          /\ start[j].job = NewJob(j) /\ \A k \in Deps[j] : Submitted(k)
      BY <3>1, <2>StartedJob
    <3>3. /\ start[j].pid \in Pids /\ procs[start[j].pid].job = j /\ j \in queue.running
          /\ file[j].ops = NewJob(j).ops
          /\ \A q \in Pids : procs[q].job = j => q = start[j].pid
          /\ lock \in Lock
      BY <3>1, <2>BootedJob
    <3>4. file' = [file EXCEPT ![j] = job]
      BY <3>1, <3>2
    <3>5. job \in JobOf(j) /\ job.ops = NewJob(j).ops /\ job.livelock = lock
      BY <3>3, <1>LockedJob
    <3>6. lock # NoLock
      BY <1>Locks
    <3> HIDE DEF job
    <3>7. Finalized(j) => job.ops = file[j].ops
      BY <3>3, <3>5
    <3>8. /\ file' \in [Jobs -> Job] /\ \A i \in Jobs : file'[i] \in JobOf(i) \cup {NoJob}
          /\ file'[j] = job /\ Submitted(j)' /\ \A i \in Jobs : i # j => file'[i] = file[i]
          /\ Stable
      BY <3>4, <3>5, <3>7, <1>FileChange
    <3>9. /\ start' \in [Jobs -> StartRun] /\ \A k \in Jobs : k # j => start'[k] = start[k]
          /\ start'[j].pc = "named" /\ start'[j].job = start[j].job /\ start'[j].pid = start[j].pid
      BY <3>1, <2>StartPc
    <3>10. ProcsKept /\ Pids' = Pids
      BY <3>1, <1>NothingChanges
    <3>11. Typed'
      BY <3>1, <3>8, <3>9 DEF IInv, Typed
    <3>12. \A k \in Jobs \ {j} : Untouched(k)
      BY <3>1, <3>8, <3>9, <3>10 DEF Untouched
    <3>13. Held(j)
      BY <3>3 DEF Held
    <3>14. FileOk(j)'
      <4>1. LockOf(j, file[j].livelock)'
        BY <3>1, <3>3, <3>5, <3>8, <3>10 DEF LockOf
      <4>2. \A k \in Deps[j] : Submitted(k)'
        BY <3>2, <3>8, DepsAssumption DEF Stable
      <4>3. file'[j].ops = NewJob(j).ops /\ file'[j].livelock # NoLock
        BY <3>5, <3>6, <3>8
      <4> QED  BY <3>8, <4>1, <4>2, <4>3, <2>LockedFile
    <3>15. PlaceOk(j)'
      <4>1. watch'[j] # NoJob => Seen(j, watch[j])'
        BY <3>1, <3>8, <3>10, <1>WatchKept
      <4>2. Seen(j, mem[j])'
        BY <3>1, <3>8, <3>10, <3>13, <1>MemKept
      <4> QED  BY <3>1, <3>2, <3>8, <4>1, <4>2 DEF PlaceOk
    <3>16. StartOk(j)'
      <4>1. /\ start'[j].pid \in Pids' /\ procs'[start'[j].pid].job = j
            /\ procs'[start'[j].pid].pc = "boot" /\ start'[j].pid # 0
        <5>1. start[j].pid # 0
          BY <3>3, <1>ProcTyped
        <5>2. start'[j].pid = start[j].pid /\ Pids' = Pids /\ procs' = procs
          BY <3>1, <3>9, <3>10
        <5>3. procs[start[j].pid].pc = "boot"
          BY <3>1
        <5> QED  BY <3>3, <5>1, <5>2, <5>3
      <4>2. file'[j] = [NewJob(j) EXCEPT !.livelock = ProcLock(start'[j].pid)]
        BY <3>8, <3>9 DEF job
      <4>3. file'[j].ops = NewJob(j).ops
        BY <3>5, <3>8
      <4> QED  BY <3>1, <3>2, <3>3, <3>9, <4>1, <4>2, <4>3 DEF StartOk
    <3>17. ASSUME NEW q \in Pids', procs'[q].job = j PROVE ProcOk(j, q)'
      <4>1. procs'[q].pc = "boot" /\ start'[j].pid = q
        BY <3>1, <3>3, <3>9, <3>10, <3>17
      <4> QED  BY <4>1 DEF ProcOk, AtWork
    <3>18. OnlyProc(j)'
      BY <3>1, <3>3, <3>10 DEF OnlyProc
    <3>19. JobInv(j)'
      BY <3>14, <3>15, <3>16, <3>17, <3>18 DEF JobInv
    <3> QED  BY <3>1, <3>8, <3>11, <3>12, <3>19, <1>LuxidStep

  <2>StartOver.
    ASSUME IInv, NEW j \in Jobs, start' = [start EXCEPT ![j] = NotStarting]
    PROVE  /\ start' \in [Jobs -> StartRun] /\ \A k \in Jobs : k # j => start'[k] = start[k]
           /\ start'[j] = NotStarting
    <3> USE <2>StartOver
    <3>1. start \in [Jobs -> StartRun]
      BY DEF IInv, Typed
    <3>2. NotStarting \in StartRun
      BY SMT DEF NotStarting, StartRun
    <3> QED  BY <3>1, <3>2

  <2>HandoverStep.
    ASSUME IInv, NEW j \in Jobs, Handover(j)
    PROVE  IInv' /\ Stable
    <3> USE <2>HandoverStep
    <3>1. /\ start[j].pc = "named" /\ procs[start[j].pid].pc = "boot"
          /\ start' = [start EXCEPT ![j] = NotStarting]
          /\ procs' = [procs EXCEPT ![start[j].pid].pc = "started"]
          /\ file' = file /\ queue' = queue /\ mem' = mem /\ handler' = handler /\ poller' = poller
          /\ watch' = watch /\ gen' = gen
      BY DEF Handover
    <3>2. /\ Submitted(j) /\ handler[j] = "none" /\ j \notin queue.enqueued
          /\ \A k \in Deps[j] : Submitted(k)
      BY <3>1, <2>StartedJob
    <3>3. PICK p \in Pids : p = start[j].pid
      BY <3>1, <2>BootedJob
    <3>4. /\ procs[p].job = j /\ j \in queue.running /\ procs[p].pc = "boot"
          /\ file[j].ops = NewJob(j).ops /\ ProcLock(p) \in Lock
          /\ \A q \in Pids : procs[q].job = j => q = p
      BY <3>1, <3>3, <2>BootedJob
    <3>5. file[j] = [NewJob(j) EXCEPT !.livelock = ProcLock(p)]
      BY <3>1, <3>3 DEF IInv, JobInv, StartOk
    <3>6. file[j].livelock = ProcLock(p)
      <4> DEFINE job == [NewJob(j) EXCEPT !.livelock = ProcLock(p)]
      <4>1. job.livelock = ProcLock(p) /\ file[j] = job
        BY <3>4, <3>5, <1>LockedJob
      <4> HIDE DEF job
      <4> QED  BY <4>1
    <3> DEFINE r == [procs[p] EXCEPT !.pc = "started"]
    <3>7. procs' = [procs EXCEPT ![p] = r] /\ procs[p] \in Proc
      BY <3>1, <3>3, <1>ProcTyped
    <3>8. r \in Proc /\ r.job = j /\ r.pc = "started"
      BY <3>4, <3>7 DEF Proc
    <3> HIDE DEF r
    <3>9. /\ procs' \in Seq(Proc) /\ Pids' = Pids /\ procs'[p] = r
          /\ \A q \in Pids : q # p => procs'[q] = procs[q]
          /\ ProcsKept
      BY <3>4, <3>7, <3>8, <1>ProcChange
    <3>10. /\ start' \in [Jobs -> StartRun] /\ \A k \in Jobs : k # j => start'[k] = start[k]
           /\ start'[j] = NotStarting
      BY <3>1, <2>StartOver
    <3>11. Stable
      BY <3>1, <1>NothingChanges
    <3>12. Typed'
      BY <3>1, <3>9, <3>10 DEF IInv, Typed
    <3>13. \A k \in Jobs \ {j} : Untouched(k)
      <4>1. \A q \in Pids : procs[q].job # j => procs'[q] = procs[q]
        BY <3>4, <3>9
      <4>2. \A q \in Pids : procs'[q].job = procs[q].job
        BY <3>9 DEF ProcsKept
      <4> QED  BY <3>1, <3>9, <3>10, <4>1, <4>2 DEF Untouched
    <3>14. PollerOk'
      BY <3>1, <3>9, <3>11, <1>Apart, <1>PollerKept
    <3>15. Limit'
      BY <3>1 DEF IInv, Limit
    <3>16. Submitted(j)' /\ \A k \in Deps[j] : Submitted(k)'
      BY <3>1, <3>2 DEF Submitted
    <3>17. \A q \in Pids' : procs'[q].job = j => q = p
      BY <3>4, <3>9 DEF ProcsKept
    <3>18. FileOk(j)'
      <4>1. LockOf(j, file[j].livelock)'
        BY <3>1, <3>6, <3>8, <3>9 DEF LockOf
      <4>2. file'[j].ops = NewJob(j).ops /\ file'[j].livelock # NoLock
        BY <3>1, <3>4, <3>6, <1>Locks
      <4> QED  BY <3>16, <4>1, <4>2, <2>LockedFile
    <3>19. PlaceOk(j)'
      <4>1. watch'[j] # NoJob => Seen(j, watch[j])'
        BY <3>1, <3>9, <3>11, <1>WatchKept
      <4>2. Seen(j, mem[j])'
        BY <3>1, <3>4, <3>9, <3>11, <1>MemKept DEF Held
      <4> QED  BY <3>1, <3>2, <3>16, <4>1, <4>2 DEF PlaceOk
    <3>20. StartOk(j)'
      BY <3>10, <1>StartIdle
    <3>21. ASSUME NEW q \in Pids', procs'[q].job = j PROVE ProcOk(j, q)'
      <4>1. procs'[q].pc = "started" /\ q = p
        BY <3>8, <3>9, <3>17, <3>21
      <4> QED  BY <3>1, <3>4, <3>5, <4>1 DEF ProcOk, AtWork
    <3>22. JobInv(j)'
      BY <3>17, <3>18, <3>19, <3>20, <3>21 DEF JobInv, OnlyProc
    <3> QED  BY ZenonT(60), <3>1, <3>9, <3>11, <3>12, <3>13, <3>14, <3>15, <3>22, <1>Gather

  \* What the file of a job says whose start failed.
  <2>FailedStart.
    ASSUME IInv, NEW j \in Jobs, start[j].pc \in {"owned", "spawned", "named", "failed", "failing"}
    PROVE  /\ file[j].ops \in {NewJob(j).ops, failQueuedJob(NewJob(j)).ops}
           /\ Finalized(j) \/ ~jobStarted(file[j])
           /\ Finalized(j) => file[j].ops = failQueuedJob(NewJob(j)).ops
    <3> USE <2>FailedStart
    <3>1. StartOk(j) /\ Submitted(j)
      BY <2>StartedJob DEF IInv, JobInv
    <3>2. file[j].ops \in {NewJob(j).ops, failQueuedJob(NewJob(j)).ops}
      <4>1. CASE start[j].pc = "owned"
        <5> DEFINE job == [NewJob(j) EXCEPT !.livelock = LuxidLock(gen)]
        <5>1. LuxidLock(gen) \in Lock
          BY DEF IInv, Typed, Lock
        <5>2. job.ops = NewJob(j).ops
          BY <5>1, <1>LockedJob
        <5>3. file[j] = job
          BY <3>1, <4>1 DEF StartOk
        <5> HIDE DEF job
        <5> QED  BY <5>2, <5>3
      <4>2. CASE start[j].pc # "owned"
        BY <3>1, <4>2 DEF StartOk
      <4> QED  BY <4>1, <4>2
    <3>3. NewJob(j) \in JobOf(j) /\ calcJobStatus(NewJob(j).ops) = "queued"
      BY <1>NewJobIsQueued
    <3>4. jobFinalized(failQueuedJob(NewJob(j)))
      BY <3>3, <1>FailedJob
    <3>5. CASE file[j].ops = NewJob(j).ops
      <4>1. ~jobStarted(file[j]) /\ ~jobFinalized(file[j])
        BY <3>3, <3>5 DEF jobStarted, jobFinalized, OpsFinalized
      <4> QED  BY <3>2, <4>1 DEF Finalized
    <3>6. CASE file[j].ops = failQueuedJob(NewJob(j)).ops
      BY <3>1, <3>2, <3>4, <3>6 DEF Finalized, jobFinalized
    <3> QED  BY <3>2, <3>5, <3>6

  \* The processes of a job are dead, and its start failed.
  <2>FailedJobInv.
    ASSUME NEW j \in Jobs, FileOk(j)', Submitted(j)', handler'[j] = "none", j \notin queue'.enqueued,
           Held(j)' => Seen(j, mem[j])', watch'[j] # NoJob => Seen(j, watch[j])',
           OnlyProc(j)', AllDead(j)', start'[j].pc \in {"failed", "failing"},
           start'[j].job = NewJob(j),
           start'[j].pid # 0 => start'[j].pid \in Pids' /\ procs'[start'[j].pid].job = j,
           file'[j].ops \in {NewJob(j).ops, failQueuedJob(NewJob(j)).ops}
    PROVE  JobInv(j)'
    <3> USE <2>FailedJobInv
    <3>1. PlaceOk(j)'
      BY DEF PlaceOk
    <3>2. StartOk(j)'
      BY DEF StartOk
    <3>3. \A p \in Pids' : procs'[p].job = j => ProcOk(j, p)'
      BY DEF ProcOk, AllDead, AtWork
    <3> QED  BY <3>1, <3>2, <3>3 DEF JobInv

  <2>KilledProc.
    ASSUME IInv, NEW p \in Pids, Kill(p)
    PROVE  /\ procs' \in Seq(Proc) /\ Pids' = Pids /\ ProcsKept /\ procs'[p].pc = "dead"
           /\ \A q \in Pids : q # p => procs'[q] = procs[q]
    <3> USE <2>KilledProc
    <3> DEFINE r == [procs[p] EXCEPT !.pc = "dead", !.copy = NoJob, !.cancel = FALSE]
    <3>1. procs[p] \in Proc
      BY <1>ProcTyped
    <3>2. procs' = [procs EXCEPT ![p] = r]
      BY DEF Kill
    <3>3. r \in Proc /\ r.job = procs[p].job /\ r.pc = "dead"
      BY <3>1 DEF Proc, Job
    <3> HIDE DEF r
    <3> QED  BY <3>2, <3>3, <1>ProcChange

  <2>OnlyKept.
    ASSUME NEW j, OnlyProc(j), Pids' = Pids, \A q \in Pids : procs'[q].job = procs[q].job
    PROVE  OnlyProc(j)'
    BY ZenonT(60), <2>OnlyKept DEF OnlyProc

  <2>StartFailsStep.
    ASSUME IInv, NEW j \in Jobs, StartFails(j)
    PROVE  IInv' /\ Stable
    <3> USE <2>StartFailsStep
    <3>1. /\ start[j].pc \in {"owned", "spawned", "named"} /\ start' = [start EXCEPT ![j].pc = "failed"]
          /\ \/ start[j].pid \in Pids /\ procs[start[j].pid].pc = "dead" /\ procs' = procs
             \/ IF start[j].pid \in Pids THEN Kill(start[j].pid) ELSE procs' = procs
          /\ file' = file /\ queue' = queue /\ mem' = mem /\ handler' = handler /\ poller' = poller
          /\ watch' = watch /\ gen' = gen
      BY DEF StartFails
    <3>2. /\ Submitted(j) /\ handler[j] = "none" /\ j \notin queue.enqueued /\ start[j].job = NewJob(j)
      BY <3>1, <2>StartedJob
    <3>3. StartOk(j) /\ OnlyProc(j)
      BY DEF IInv, JobInv
    <3>4. /\ procs' \in Seq(Proc) /\ Pids' = Pids /\ ProcsKept
          /\ \A q \in Pids : q # start[j].pid => procs'[q] = procs[q]
          /\ start[j].pid \in Pids => procs'[start[j].pid].pc = "dead"
      <4>1. CASE procs' = procs /\ (start[j].pid \in Pids => procs[start[j].pid].pc = "dead")
        BY <4>1, <1>ProcTyped, <1>NothingChanges
      <4>2. CASE start[j].pid \in Pids /\ Kill(start[j].pid)
        BY <4>2, <2>KilledProc
      <4> QED  BY <3>1, <4>1, <4>2
    <3>5. start[j].pid # 0 => start[j].pid \in Pids /\ procs[start[j].pid].job = j
      BY <3>3 DEF StartOk
    <3>6. \A q \in Pids : procs'[q].job = procs[q].job
      BY <3>4 DEF ProcsKept
    <3>7. \A q \in Pids : procs[q].job # j => procs'[q] = procs[q]
      BY <3>4, <3>5, <1>ProcTyped
    <3>8. AllDead(j)'
      <4>1. CASE start[j].pc = "owned"
        BY ZenonT(60), <3>3, <3>4, <3>6, <4>1 DEF StartOk, NoProc, AllDead
      <4>2. CASE start[j].pc \in {"spawned", "named"}
        <5>1. start[j].pid \in Pids /\ procs[start[j].pid].job = j
          BY <3>3, <4>2 DEF StartOk
        <5>2. \A q \in Pids : procs[q].job = j => q = start[j].pid
          BY <3>3, <5>1 DEF OnlyProc
        <5> QED  BY <3>4, <3>6, <5>1, <5>2 DEF AllDead
      <4> QED  BY <3>1, <4>1, <4>2
    <3>9. /\ start' \in [Jobs -> StartRun] /\ \A k \in Jobs : k # j => start'[k] = start[k]
          /\ start'[j].pc = "failed" /\ start'[j].job = start[j].job /\ start'[j].pid = start[j].pid
      BY <3>1, <2>StartPc
    <3>10. Stable
      BY <3>1, <1>NothingChanges
    <3>11. Typed'
      BY <3>1, <3>4, <3>9 DEF IInv, Typed
    <3>12. \A k \in Jobs \ {j} : Untouched(k)
      BY ZenonT(60), <3>1, <3>4, <3>6, <3>7, <3>9 DEF Untouched
    <3>13. PollerOk'
      BY <3>1, <3>4, <3>10, <1>Apart, <1>PollerKept
    <3>14. Limit'
      BY <3>1 DEF IInv, Limit
    <3>15. /\ file[j].ops \in {NewJob(j).ops, failQueuedJob(NewJob(j)).ops}
           /\ Finalized(j) \/ ~jobStarted(file[j])
      BY <3>1, <2>FailedStart
    <3>16. FileOk(j)'
      <4>1. NoProc(j) => NoProc(j)'
        BY <3>4, <3>6 DEF NoProc
      <4> QED  BY <3>1, <3>4, <3>10, <3>15, <4>1, <1>FileKept
    <3>17. JobInv(j)'
      <4>1. watch'[j] # NoJob => Seen(j, watch[j])'
        BY <3>1, <3>4, <3>10, <1>WatchKept
      <4>2. Held(j)' => Seen(j, mem[j])'
        BY <3>1, <3>4, <3>10, <1>MemKept DEF Held
      <4>3. OnlyProc(j)'
        BY <3>3, <3>4, <3>6, <2>OnlyKept
      <4>4. start'[j].pid # 0 => start'[j].pid \in Pids' /\ procs'[start'[j].pid].job = j
        <5>1. start[j].pid # 0 => start[j].pid \in Pids' /\ procs'[start[j].pid].job = j
          BY <3>4, <3>5, <3>6
        <5> QED  BY <3>9, <5>1
      <4>5. /\ Submitted(j)' /\ handler'[j] = "none" /\ j \notin queue'.enqueued
            /\ file'[j].ops \in {NewJob(j).ops, failQueuedJob(NewJob(j)).ops}
            /\ start'[j].pc \in {"failed", "failing"} /\ start'[j].job = NewJob(j)
        BY <3>1, <3>2, <3>9, <3>15 DEF Submitted
      <4> QED  BY <3>8, <3>16, <4>1, <4>2, <4>3, <4>4, <4>5, <2>FailedJobInv
    <3> QED  BY <3>1, <3>4, <3>10, <3>11, <3>12, <3>13, <3>14, <3>17, <1>Gather

  <2>FailJobsStep.
    ASSUME IInv, NEW j \in Jobs, failJobs(j)
    PROVE  IInv' /\ Stable
    <3> USE <2>FailJobsStep
    <3>1. /\ start[j].pc = "failed" /\ start' = [start EXCEPT ![j].pc = "failing"]
          /\ queue' = [queue EXCEPT !.running = queue.running \ {j}]
          /\ mem' = IF j \in queue.running THEN [mem EXCEPT ![j] = NoJob] ELSE mem
          /\ file' = file /\ handler' = handler /\ poller' = poller
          /\ watch' = watch /\ gen' = gen /\ procs' = procs
      BY DEF failJobs
    <3>2. /\ Submitted(j) /\ handler[j] = "none" /\ j \notin queue.enqueued /\ start[j].job = NewJob(j)
      BY <3>1, <2>StartedJob
    <3>3. /\ queue \in [enqueued : SUBSET Jobs, running : SUBSET Jobs, manipulated : SUBSET Jobs]
          /\ mem \in [Jobs -> Job \cup Sight] /\ NoJob \in Job
      BY DEF IInv, Typed, Job
    <3>4. queue.running \ {j} \in SUBSET Jobs
      BY <1>QueueTyped
    <3>5. /\ queue' \in [enqueued : SUBSET Jobs, running : SUBSET Jobs, manipulated : SUBSET Jobs]
          /\ queue'.enqueued = queue.enqueued /\ queue'.running = queue.running \ {j}
          /\ queue'.manipulated = queue.manipulated
      BY <3>1, <3>3, <3>4
    <3>6. /\ mem' \in [Jobs -> Job \cup Sight] /\ \A k \in Jobs : k # j => mem'[k] = mem[k]
          /\ j \notin queue.running => mem'[j] = mem[j]
      BY <3>1, <3>3
    <3>7. /\ start' \in [Jobs -> StartRun] /\ \A k \in Jobs : k # j => start'[k] = start[k]
          /\ start'[j].pc = "failing" /\ start'[j].job = start[j].job /\ start'[j].pid = start[j].pid
      BY <3>1, <2>StartPc
    <3>8. Stable /\ ProcsKept /\ Pids' = Pids
      BY <3>1, <1>NothingChanges
    <3>9. Typed'
      BY <3>1, <3>5, <3>6, <3>7 DEF IInv, Typed
    <3>10. \A k \in Jobs \ {j} : Untouched(k)
      BY <3>1, <3>5, <3>6, <3>7, <3>8 DEF Untouched
    <3>11. PollerOk'
      <4>1. \A k \in queue.manipulated : k \notin queue'.running
        BY <3>5, <1>Apart
      <4> QED  BY <3>1, <3>5, <3>8, <4>1, <1>PollerKept
    <3>12. Limit'
      <4>1. queue'.running \in SUBSET queue.running
        BY <3>5
      <4>2. Cardinality(queue'.running) <= Cardinality(queue.running) /\ IsFiniteSet(queue'.running)
        BY <4>1, <1>QueueFinite DEF Counting
      <4>3. Cardinality(queue'.running) \in Nat
        BY <4>2 DEF Counting
      <4>4. Cardinality(queue.running) + Cardinality(queue.manipulated) <= MaxRunning
        BY DEF IInv, Limit
      <4>5. Cardinality(queue'.running) + Cardinality(queue.manipulated) <= MaxRunning
        BY SMTT(30), <4>2, <4>3, <4>4, <1>QueueFinite, LimitAssumption
      <4> QED  BY <3>5, <4>5 DEF Limit
    <3>13. /\ file[j].ops \in {NewJob(j).ops, failQueuedJob(NewJob(j)).ops}
           /\ Finalized(j) \/ ~jobStarted(file[j])
      BY <3>1, <2>FailedStart
    <3>14. FileOk(j)'
      <4>1. NoProc(j) => NoProc(j)'
        BY <3>1, <3>8 DEF NoProc
      <4> QED  BY <3>1, <3>8, <3>13, <4>1, <1>FileKept
    <3>15. StartOk(j) /\ OnlyProc(j)
      BY DEF IInv, JobInv
    <3>16. JobInv(j)'
      <4>1. watch'[j] # NoJob => Seen(j, watch[j])'
        BY <3>1, <3>8, <1>WatchKept
      <4>2. Held(j)' => Held(j) /\ mem'[j] = mem[j]
        BY <3>5, <3>6, <1>Apart DEF Held
      <4>3. Held(j)' => Seen(j, mem[j])'
        BY <3>1, <3>8, <4>2, <1>MemKept
      <4>4. OnlyProc(j)' /\ AllDead(j)'
        BY <3>1, <3>8, <3>15 DEF StartOk, OnlyProc, AllDead
      <4>5. start'[j].pid # 0 => start'[j].pid \in Pids' /\ procs'[start'[j].pid].job = j
        <5>1. start[j].pid # 0 => start[j].pid \in Pids' /\ procs'[start[j].pid].job = j
          BY <3>1, <3>8, <3>15 DEF StartOk
        <5> QED  BY <3>7, <5>1
      <4>6. /\ Submitted(j)' /\ handler'[j] = "none" /\ j \notin queue'.enqueued
            /\ file'[j].ops \in {NewJob(j).ops, failQueuedJob(NewJob(j)).ops}
            /\ start'[j].pc \in {"failed", "failing"} /\ start'[j].job = NewJob(j)
        BY <3>1, <3>2, <3>5, <3>7, <3>13 DEF Submitted
      <4> QED  BY <3>14, <4>1, <4>3, <4>4, <4>5, <4>6, <2>FailedJobInv
    <3> QED  BY <3>1, <3>8, <3>9, <3>10, <3>11, <3>12, <3>16, <1>Gather

  \* The outcome of a job whose start failed is the one it has already, if it
  \* was the poller who noticed.
  <2>FailWriteStep.
    ASSUME IInv, NEW j \in Jobs, FailWrite(j)
    PROVE  IInv' /\ Stable
    <3> USE <2>FailWriteStep
    <3> DEFINE job == failQueuedJob(NewJob(j))
    <3>1. /\ start[j].pc = "failing" /\ start' = [start EXCEPT ![j] = NotStarting]
          /\ file' = [file EXCEPT ![j] = failQueuedJob(start[j].job)]
          /\ queue' = queue /\ mem' = mem /\ handler' = handler /\ poller' = poller
          /\ watch' = watch /\ gen' = gen /\ procs' = procs
      BY DEF FailWrite
    <3>2. /\ Submitted(j) /\ handler[j] = "none" /\ j \notin queue.enqueued
          /\ start[j].job = NewJob(j) /\ \A k \in Deps[j] : Submitted(k)
      BY <3>1, <2>StartedJob
    <3>3. NewJob(j) \in JobOf(j)
      BY <1>NewJobIsQueued
    <3>4. /\ job \in JobOf(j) /\ Regular(job.ops) /\ jobFinalized(job) /\ job.ops[1] = "error"
      BY <3>3, <1>FailedJob
    <3>5. Finalized(j) => job.ops = file[j].ops
      BY <3>1, <2>FailedStart
    <3>6. file' = [file EXCEPT ![j] = job]
      BY <3>1, <3>2
    <3> HIDE DEF job
    <3>7. /\ file' \in [Jobs -> Job] /\ \A i \in Jobs : file'[i] \in JobOf(i) \cup {NoJob}
          /\ file'[j] = job /\ Submitted(j)' /\ \A i \in Jobs : i # j => file'[i] = file[i]
          /\ Stable
      BY <3>4, <3>5, <3>6, <1>FileChange
    <3>8. /\ start' \in [Jobs -> StartRun] /\ \A k \in Jobs : k # j => start'[k] = start[k]
          /\ start'[j] = NotStarting
      BY <3>1, <2>StartOver
    <3>9. ProcsKept /\ Pids' = Pids
      BY <3>1, <1>NothingChanges
    <3>10. Typed'
      BY <3>1, <3>7, <3>8 DEF IInv, Typed
    <3>11. \A k \in Jobs \ {j} : Untouched(k)
      BY <3>1, <3>7, <3>8, <3>9 DEF Untouched
    <3>12. JobInv(j)'
      <4>1. StartOk(j) /\ OnlyProc(j)
        BY DEF IInv, JobInv
      <4>2. watch'[j] # NoJob => Seen(j, watch[j])'
        BY <3>1, <3>7, <3>9, <1>WatchKept
      <4>3. Held(j)' => Seen(j, mem[j])'
        BY <3>1, <3>7, <3>9, <1>MemKept DEF Held
      <4>4. \A k \in Deps[j] : Submitted(k)'
        BY <3>2, <3>7, DepsAssumption DEF Stable
      <4>5. Finalized(j)' /\ Regular(file'[j].ops) /\ file'[j].ops[1] \in {"error", "canceled"}
        BY <3>4, <3>7 DEF Finalized
      <4>6. AllDead(j)' /\ OnlyProc(j)'
        BY ZenonT(60), <3>1, <3>9, <4>1 DEF StartOk, OnlyProc, AllDead
      <4>7. StartOk(j)' /\ handler'[j] = "none" /\ j \notin queue'.enqueued
        BY <3>1, <3>2, <3>8, <1>StartIdle
      <4> QED  BY ZenonT(60), <3>7, <4>2, <4>3, <4>4, <4>5, <4>6, <4>7, <1>EndedJobInv
    <3> QED  BY <3>1, <3>7, <3>10, <3>11, <3>12, <1>LuxidStep

  <2> SUFFICES ASSUME IInv, NEW j \in Jobs, Starting(j) PROVE IInv' /\ Stable
    OBVIOUS
  <2>1. CASE startJob(j) \/ spawnJobProcess(j) \/ SetLivelock(j) \/ Handover(j)
    BY <2>1, <2>StartJobStep, <2>SpawnStep, <2>SetLivelockStep, <2>HandoverStep
  <2>2. CASE StartFails(j) \/ failJobs(j) \/ FailWrite(j)
    BY <2>2, <2>StartFailsStep, <2>FailJobsStep, <2>FailWriteStep
  <2> QED  BY <2>1, <2>2 DEF Starting

\* What is read from the file now.
<1>SeenNow.
  ASSUME IInv, NEW j \in Jobs, Submitted(j)
  PROVE  Seen(j, View(file[j])) /\ View(file[j]) # NoJob
  <2> USE <1>SeenNow
  <2>1. file[j] \in JobOf(j)
    BY <1>FileTyped
  <2>2. file[j].livelock \in Lock
    BY <2>1, <1>JobIsThere
  <2>3. LockOf(j, file[j].livelock)
    BY DEF IInv, JobInv, FileOk
  <2> DEFINE seen == IF jobFinalized(file[j]) THEN <<"success">> ELSE <<"running">>
  <2>4. View(file[j]) = [ops |-> seen, livelock |-> file[j].livelock, pid |-> 0]
    BY DEF View
  <2>5. seen \in {<<"success">>, <<"running">>} /\ (~jobFinalized(file[j]) => seen = <<"running">>)
    OBVIOUS
  <2> HIDE DEF seen
  <2>6. /\ View(file[j]) \in Sight /\ View(file[j]).livelock = file[j].livelock
        /\ View(file[j]).ops = seen
    BY SMT, <2>2, <2>4, <2>5 DEF Sight
  <2>7. <<"success">> # <<"running">> /\ <<"success">> # <<>> /\ <<"running">> # <<>>
    BY SMT
  <2>8. View(file[j]).ops = <<"success">> => Finalized(j)
    BY <2>5, <2>6, <2>7 DEF Finalized
  <2>9. NoJob.ops = <<>>
    BY DEF NoJob
  <2>10. View(file[j]) # NoJob
    BY <2>5, <2>6, <2>7, <2>9
  <2> QED  BY <2>3, <2>6, <2>8, <2>10 DEF Seen

\* A job with the opcodes of a new one has not ended.
<1>NewIsOpen.
  ASSUME NEW j \in Jobs, file[j].ops = NewJob(j).ops
  PROVE  ~Finalized(j)
  <2> USE <1>NewIsOpen
  <2>1. calcJobStatus(NewJob(j).ops) = "queued"
    BY <1>NewJobIsQueued
  <2> QED  BY <2>1 DEF Finalized, jobFinalized, OpsFinalized

\* Where a job is that nobody works on any more.
<1>DoneJob.
  ASSUME IInv, NEW j \in Jobs, Done(j)
  PROVE  /\ Submitted(j) /\ handler[j] = "none" /\ j \notin queue.enqueued
         /\ start[j].pc \notin {"chosen", "owned"}
         /\ start[j].pc \in {"spawned", "named"} => procs[start[j].pid].pc # "boot"
         /\ \A p \in Pids : procs[p].job = j =>
                /\ procs[p].pc # "started"
                /\ procs[p].pc \in AtWork => ~Open(procs[p].copy.ops)
  <2> USE <1>DoneJob
  <2>1. FileOk(j) /\ PlaceOk(j) /\ StartOk(j)
    BY DEF IInv, JobInv
  <2>2. ~Fresh(j)
    BY <1>NewIsOpen DEF Done, Fresh
  <2>3. Submitted(j)
    BY <2>1 DEF Done, Finalized, PlaceOk
  <2>4. handler[j] = "none" /\ j \notin queue.enqueued
    BY <2>1, <2>2 DEF PlaceOk
  <2>5. start[j].pc \notin {"chosen", "owned"}
    <3> SUFFICES ASSUME start[j].pc \in {"chosen", "owned"} PROVE FALSE  OBVIOUS
    <3>1. NoProc(j)
      BY <2>1 DEF StartOk
    <3>2. Finalized(j)
      BY <3>1 DEF Done
    <3>3. start[j].pc # "chosen"
      BY <2>1, <3>2, <1>NewIsOpen DEF StartOk
    <3>4. start[j].pc # "owned"
      <4> DEFINE job == [NewJob(j) EXCEPT !.livelock = LuxidLock(gen)]
      <4>1. LuxidLock(gen) \in Lock
        BY DEF IInv, Typed, Lock
      <4>2. job.ops = NewJob(j).ops
        BY <4>1, <1>LockedJob
      <4>3. start[j].pc = "owned" => file[j] = job
        BY <2>1 DEF StartOk
      <4> HIDE DEF job
      <4> QED  BY <3>2, <4>2, <4>3, <1>NewIsOpen
    <3> QED  BY <3>3, <3>4
  <2>6. ASSUME start[j].pc \in {"spawned", "named"}, procs[start[j].pid].pc = "boot" PROVE FALSE
    <3>1. /\ start[j].pid \in Pids /\ procs[start[j].pid].job = j
          /\ file[j].ops = NewJob(j).ops
      BY <2>1, <2>6 DEF StartOk
    <3>2. ~AllDead(j)
      BY <2>6, <3>1 DEF AllDead
    <3> QED  BY <3>1, <3>2, <1>NewIsOpen DEF Done
  <2>7. ASSUME NEW p \in Pids, procs[p].job = j
        PROVE  procs[p].pc # "started" /\ (procs[p].pc \in AtWork => ~Open(procs[p].copy.ops))
    <3>1. ProcOk(j, p)
      BY <2>7 DEF IInv, JobInv
    <3>2. procs[p].pc # "dead" => Finalized(j)
      BY <2>7 DEF Done, AllDead
    <3>3. procs[p].pc # "started"
      <4> SUFFICES ASSUME procs[p].pc = "started" PROVE FALSE  OBVIOUS
      <4> DEFINE job == [NewJob(j) EXCEPT !.livelock = ProcLock(p)]
      <4>1. ProcLock(p) \in Lock
        <5>1. p \in 1..Len(procs) /\ Len(procs) \in Nat
          BY <1>ProcTyped
        <5>2. p \in Nat
          BY SMT, <5>1
        <5> QED  BY <5>2 DEF Lock
      <4>2. job.ops = NewJob(j).ops
        BY <4>1, <1>LockedJob
      <4>3. file[j] = job
        BY <3>1 DEF ProcOk
      <4> HIDE DEF job
      <4>4. Finalized(j)
        BY <3>2
      <4> QED  BY <4>2, <4>3, <4>4, <1>NewIsOpen
    <3>4. ASSUME procs[p].pc \in AtWork PROVE ~Open(procs[p].copy.ops)
      <4>1. Finalized(j)
        BY <3>2, <3>4 DEF AtWork
      <4>2. ~Open(file[j].ops)
        BY <2>3, <4>1, <1>FileTyped
      <4> QED  BY <2>7, <3>4, <4>2, <1>Working
    <3> QED  BY <3>3, <3>4
  <2> QED  BY <2>3, <2>4, <2>5, <2>6, <2>7

\* Such a job may be taken from the running ones, or be forgotten if it ended.
<1>LetGo.
  ASSUME IInv, NEW j \in Jobs, Done(j), file' = file, procs' = procs, gen' = gen,
         start'[j] = start[j], handler'[j] = handler[j], j \notin queue'.enqueued,
         Finalized(j) \/ Held(j)', Held(j)' => Seen(j, mem[j])',
         watch'[j] # NoJob => Seen(j, watch[j])'
  PROVE  JobInv(j)'
  <2> USE <1>LetGo
  <2>1. Stable /\ ProcsKept /\ Pids' = Pids
    BY <1>NothingChanges
  <2>2. /\ Submitted(j) /\ handler[j] = "none" /\ j \notin queue.enqueued
        /\ start[j].pc \notin {"chosen", "owned"}
        /\ start[j].pc \in {"spawned", "named"} => procs[start[j].pid].pc # "boot"
        /\ \A p \in Pids : procs[p].job = j =>
               /\ procs[p].pc # "started"
               /\ procs[p].pc \in AtWork => ~Open(procs[p].copy.ops)
    BY <1>DoneJob
  <2>3. StartOk(j) /\ OnlyProc(j)
    BY DEF IInv, JobInv
  <2>4. FileOk(j)'
    <3>1. NoProc(j) => NoProc(j)'
      BY <2>1 DEF NoProc
    <3> QED  BY <2>1, <3>1, <1>FileKept
  <2>5. PlaceOk(j)'
    BY <2>2 DEF PlaceOk, Submitted
  <2>6. StartOk(j)'
    BY <2>1, <2>2, <2>3 DEF StartOk, AllDead
  <2>7. OnlyProc(j)'
    BY <2>1, <2>3 DEF OnlyProc
  <2>8. ASSUME NEW p \in Pids', procs'[p].job = j PROVE ProcOk(j, p)'
    <3>1. p \in Pids /\ procs[p].job = j
      BY <2>1, <2>8
    <3>2. ProcOk(j, p)
      BY <3>1 DEF IInv, JobInv
    <3>3. procs[p].pc # "started" /\ (procs[p].pc \in AtWork => ~Open(procs[p].copy.ops))
      BY <2>2, <3>1
    <3> QED  BY <3>2, <3>3 DEF ProcOk
  <2> QED  BY <2>4, <2>5, <2>6, <2>7, <2>8 DEF JobInv

\* The poller goes on to something else than manipulating a job.
<1>PollerTo.
  ASSUME IInv, Stable, ProcsKept, gen' = gen, queue'.manipulated = {},
         NEW phase, NEW todo, NEW job, NEW got, phase # "manipulate",
         poller' = [phase |-> phase, todo |-> todo, job |-> job, got |-> got],
         \A j \in DOMAIN todo : j \in Jobs /\ Submitted(j) /\ LockOf(j, todo[j].livelock),
         phase = "insert" => job \in Jobs /\ Seen(job, got)
  PROVE  PollerOk'
  <2> USE <1>PollerTo
  <2>1. poller'.phase = phase /\ poller'.todo = todo /\ poller'.job = job /\ poller'.got = got
    OBVIOUS
  <2>2. \A j \in DOMAIN todo : j \in Jobs /\ Submitted(j)' /\ LockOf(j, todo[j].livelock)'
    BY <1>LockKept DEF Stable
  <2>3. phase = "insert" => job \in Jobs /\ Seen(job, got)'
    BY <1>SeenKept
  <2> QED  BY <2>1, <2>2, <2>3 DEF PollerOk, LockOf, Seen

\* The same, if no file is written and no process is started.
<1>PollerSet.
  ASSUME IInv, file' = file, procs' = procs, gen' = gen, queue'.manipulated = {},
         NEW phase, NEW todo, NEW job, NEW got, phase # "manipulate",
         poller' = [phase |-> phase, todo |-> todo, job |-> job, got |-> got],
         \A j \in DOMAIN todo : j \in Jobs /\ Submitted(j) /\ LockOf(j, todo[j].livelock),
         phase = "insert" => job \in Jobs /\ Seen(job, got)
  PROVE  PollerOk'
  <2> USE <1>PollerSet
  <2>1. Stable /\ ProcsKept
    BY <1>NothingChanges
  <2> QED  BY <2>1, <1>PollerTo

\* Nothing but the poller changes.
<1>QuietStep.
  ASSUME IInv, file' = file, queue' = queue, mem' = mem, handler' = handler,
         start' = start, watch' = watch, procs' = procs, gen' = gen, PollerOk'
  PROVE  IInv' /\ Stable
  <2> USE <1>QuietStep
  <2>1. Stable /\ ProcsKept /\ Pids' = Pids
    BY <1>NothingChanges
  <2>2. \A k \in Jobs : Untouched(k)
    BY <2>1 DEF Untouched
  <2>3. \A k \in Jobs : JobInv(k)'
    BY <2>1, <2>2, <1>JobKept
  <2>4. Typed' /\ Limit'
    BY DEF IInv, Typed, Limit
  <2> QED  BY <2>1, <2>3, <2>4 DEF IInv

\* What luxid does when it notices a change, or a death, keeps the invariant and
\* what ended.
<1>NoticeStep.
  /\ IInv
  /\ \/ \E j \in Jobs : WatchRead(j) \/ WatchUpdate(j) \/ checkForDeath(j) \/ readJobStatus(j)
     \/ PollBegin \/ ManipulateDead \/ PollUpdates \/ updateJob
  => IInv' /\ Stable
  <2>RecordOf.
    ASSUME NEW r, NEW a, NEW b, NEW c, NEW d, r \in [phase : {a}, todo : {b}, job : {c}, got : {d}]
    PROVE  r = [phase |-> a, todo |-> b, job |-> c, got |-> d]
    BY <2>RecordOf, SMT

  <2>PollerRecord.
    ASSUME NEW r, r = [phase |-> r.phase, todo |-> r.todo, job |-> r.job, got |-> r.got],
           NEW a, NEW b, NEW c
    PROVE  /\ [r EXCEPT !.phase = a, !.todo = b]
                = [phase |-> a, todo |-> b, job |-> r.job, got |-> r.got]
           /\ [r EXCEPT !.todo = b]
                = [phase |-> r.phase, todo |-> b, job |-> r.job, got |-> r.got]
           /\ [r EXCEPT !.phase = a, !.job = b]
                = [phase |-> a, todo |-> r.todo, job |-> b, got |-> r.got]
           /\ [r EXCEPT !.phase = a, !.job = b, !.got = c]
                = [phase |-> a, todo |-> r.todo, job |-> b, got |-> c]
           /\ [r EXCEPT !.phase = a, !.todo = b, !.job = c]
                = [phase |-> a, todo |-> b, job |-> c, got |-> r.got]
    <3> USE <2>PollerRecord
    <3>1. r \in [phase : {r.phase}, todo : {r.todo}, job : {r.job}, got : {r.got}]
      BY SMT
    <3>2. [r EXCEPT !.phase = a, !.todo = b]
            = [phase |-> a, todo |-> b, job |-> r.job, got |-> r.got]
      <4> DEFINE new == [r EXCEPT !.phase = a, !.todo = b]
      <4>1. new \in [phase : {a}, todo : {b}, job : {r.job}, got : {r.got}]
        BY <3>1
      <4> HIDE DEF new
      <4>2. new = [phase |-> a, todo |-> b, job |-> r.job, got |-> r.got]
        BY <4>1, <2>RecordOf
      <4> QED  BY <4>2 DEF new
    <3>3. [r EXCEPT !.todo = b]
            = [phase |-> r.phase, todo |-> b, job |-> r.job, got |-> r.got]
      <4> DEFINE new == [r EXCEPT !.todo = b]
      <4>1. new \in [phase : {r.phase}, todo : {b}, job : {r.job}, got : {r.got}]
        BY <3>1
      <4> HIDE DEF new
      <4>2. new = [phase |-> r.phase, todo |-> b, job |-> r.job, got |-> r.got]
        BY <4>1, <2>RecordOf
      <4> QED  BY <4>2 DEF new
    <3>4. [r EXCEPT !.phase = a, !.job = b]
            = [phase |-> a, todo |-> r.todo, job |-> b, got |-> r.got]
      <4> DEFINE new == [r EXCEPT !.phase = a, !.job = b]
      <4>1. new \in [phase : {a}, todo : {r.todo}, job : {b}, got : {r.got}]
        BY <3>1
      <4> HIDE DEF new
      <4>2. new = [phase |-> a, todo |-> r.todo, job |-> b, got |-> r.got]
        BY <4>1, <2>RecordOf
      <4> QED  BY <4>2 DEF new
    <3>5. [r EXCEPT !.phase = a, !.job = b, !.got = c]
            = [phase |-> a, todo |-> r.todo, job |-> b, got |-> c]
      <4> DEFINE new == [r EXCEPT !.phase = a, !.job = b, !.got = c]
      <4>1. new \in [phase : {a}, todo : {r.todo}, job : {b}, got : {c}]
        BY <3>1
      <4> HIDE DEF new
      <4>2. new = [phase |-> a, todo |-> r.todo, job |-> b, got |-> c]
        BY <4>1, <2>RecordOf
      <4> QED  BY <4>2 DEF new
    <3>6. [r EXCEPT !.phase = a, !.todo = b, !.job = c]
            = [phase |-> a, todo |-> b, job |-> c, got |-> r.got]
      <4> DEFINE new == [r EXCEPT !.phase = a, !.todo = b, !.job = c]
      <4>1. new \in [phase : {a}, todo : {b}, job : {c}, got : {r.got}]
        BY <3>1
      <4> HIDE DEF new
      <4>2. new = [phase |-> a, todo |-> b, job |-> c, got |-> r.got]
        BY <4>1, <2>RecordOf
      <4> QED  BY <4>2 DEF new
    <3> QED  BY <3>2, <3>3, <3>4, <3>5, <3>6

  \* What luxid remembers of a job changes, and nothing else but the poller.
  <2>NoteStep.
    ASSUME IInv, NEW j \in Jobs, file' = file, queue' = queue, handler' = handler,
           start' = start, procs' = procs, gen' = gen,
           mem' \in [Jobs -> Job \cup Sight], watch' \in [Jobs -> {NoJob} \cup Sight],
           \A k \in Jobs : k # j => mem'[k] = mem[k] /\ watch'[k] = watch[k],
           mem'[j] = mem[j] \/ (j \in queue.running /\ Seen(j, mem[j])'),
           watch'[j] # NoJob => Seen(j, watch[j])', PollerOk'
    PROVE  IInv' /\ Stable
    <3> USE <2>NoteStep
    <3>1. Stable /\ ProcsKept /\ Pids' = Pids
      BY <1>NothingChanges
    <3>2. Typed'
      BY DEF IInv, Typed
    <3>3. Limit'
      BY DEF IInv, Limit
    <3>4. \A k \in Jobs \ {j} : Untouched(k)
      BY <3>1 DEF Untouched
    <3>5. PlaceOk(j) /\ StartOk(j) /\ OnlyProc(j)
      BY DEF IInv, JobInv
    <3>6. (NoProc(j)' <=> NoProc(j)) /\ (AllDead(j)' <=> AllDead(j)) /\ (Held(j)' <=> Held(j))
      BY <3>1 DEF NoProc, AllDead, Held
    <3>7. FileOk(j)'
      <4>1. FileOk(j)
        BY DEF IInv, JobInv
      <4>2. CASE ~Submitted(j)
        BY <4>2 DEF FileOk, Submitted
      <4>3. CASE Submitted(j)
        <5>1. Finalized(j) \/ ~jobStarted(file[j]) \/ Held(j)
          BY <4>1, <4>3 DEF FileOk
        <5> QED  BY <3>1, <3>6, <5>1, <1>FileKept
      <4> QED  BY <4>2, <4>3
    <3>8. PlaceOk(j)'
      <4>1. CASE mem'[j] = mem[j]
        <5>1. Held(j)' => Seen(j, mem[j])'
          BY <3>1, <3>6, <4>1, <1>MemKept
        <5>2. Fresh(j)' <=> Fresh(j)
          BY <3>6 DEF Fresh
        <5>3. Submitted(j)' <=> Submitted(j)
          BY DEF Submitted
        <5> QED  BY <3>5, <3>6, <4>1, <5>1, <5>2, <5>3 DEF PlaceOk
      <4>2. CASE j \in queue.running /\ Seen(j, mem[j])'
        <5>1. Held(j)
          BY <4>2 DEF Held
        <5>2. Submitted(j) /\ handler[j] = "none" /\ j \notin queue.enqueued
          BY <3>5, <5>1 DEF PlaceOk
        <5> QED  BY <4>2, <5>2 DEF PlaceOk, Submitted
      <4> QED  BY <4>1, <4>2
    <3>9. StartOk(j)'
      BY <3>1, <3>5, <3>6 DEF StartOk
    <3>10. OnlyProc(j)'
      BY <3>1, <3>5 DEF OnlyProc
    <3>11. ASSUME NEW p \in Pids', procs'[p].job = j PROVE ProcOk(j, p)'
      <4>1. ProcOk(j, p)
        BY <3>1, <3>11 DEF IInv, JobInv
      <4> QED  BY <4>1 DEF ProcOk
    <3>12. JobInv(j)'
      BY <3>7, <3>8, <3>9, <3>10, <3>11 DEF JobInv
    <3> QED  BY <3>1, <3>2, <3>3, <3>4, <3>12, <1>Gather

  <2>SnapshotOk.
    ASSUME IInv
    PROVE  \A j \in DOMAIN Snapshot : j \in Jobs /\ Submitted(j) /\ LockOf(j, Snapshot[j].livelock)
    <3> USE <2>SnapshotOk
    <3> SUFFICES ASSUME NEW j \in queue.running
                 PROVE  j \in Jobs /\ Submitted(j) /\ LockOf(j, mem[j].livelock)
      BY DEF Snapshot
    <3>1. j \in Jobs
      BY <1>QueueTyped
    <3>2. Held(j) /\ PlaceOk(j)
      BY <3>1 DEF Held, IInv, JobInv
    <3> QED  BY <3>1, <3>2 DEF PlaceOk, Seen

  <2>DropOk.
    ASSUME IInv, NEW i
    PROVE  \A j \in DOMAIN Drop(poller.todo, i) :
               j \in Jobs /\ Submitted(j) /\ LockOf(j, Drop(poller.todo, i)[j].livelock)
    BY <2>DropOk DEF Drop, IInv, PollerOk

  <2>WatchReadStep.
    ASSUME IInv, NEW j \in Jobs, WatchRead(j)
    PROVE  IInv' /\ Stable
    <3> USE <2>WatchReadStep
    <3>1. /\ j \in queue.running /\ watch' = [watch EXCEPT ![j] = View(file[j])]
          /\ file' = file /\ queue' = queue /\ mem' = mem /\ handler' = handler /\ start' = start
          /\ poller' = poller /\ gen' = gen /\ procs' = procs
      BY DEF WatchRead
    <3>2. Submitted(j)
      BY <3>1 DEF IInv, JobInv, PlaceOk, Held
    <3>3. Seen(j, View(file[j]))
      BY <3>2, <1>SeenNow
    <3>4. watch \in [Jobs -> {NoJob} \cup Sight] /\ mem \in [Jobs -> Job \cup Sight]
      BY DEF IInv, Typed
    <3>5. Stable /\ ProcsKept
      BY <3>1, <1>NothingChanges
    <3> DEFINE v == View(file[j])
    <3>6. watch'[j] = v
      BY <3>1, <3>4
    <3>7. Seen(j, watch[j])'
      <4>1. \A w : Seen(j, w) => Seen(j, w)'
        BY <3>1, <3>5, <1>SeenKept
      <4> QED  BY <3>1, <3>3, <3>6, <4>1 DEF Seen, LockOf
    <3>8. watch' \in [Jobs -> {NoJob} \cup Sight] /\ \A k \in Jobs : k # j => watch'[k] = watch[k]
      BY <3>1, <3>3, <3>4 DEF Seen
    <3>9. PollerOk'
      BY <3>1, <3>5, <1>Apart, <1>PollerKept, <1>NothingChanges
    <3>10. mem' \in [Jobs -> Job \cup Sight] /\ mem'[j] = mem[j] /\ \A k \in Jobs : mem'[k] = mem[k]
      BY <3>1, <3>4
    <3> QED  BY <3>1, <3>7, <3>8, <3>9, <3>10, <2>NoteStep

  \* Something that was read before, by whatever thread, is put into the queue.
  <2>UpdateMem.
    ASSUME IInv, file' = file, procs' = procs, gen' = gen, NEW j \in Jobs, NEW v, Seen(j, v),
           updateJobStatus(j, v)
    PROVE  /\ mem' \in [Jobs -> Job \cup Sight] /\ \A k \in Jobs : k # j => mem'[k] = mem[k]
           /\ mem'[j] = mem[j] \/ (j \in queue.running /\ Seen(j, mem[j])')
    <3> USE <2>UpdateMem
    <3>1. mem \in [Jobs -> Job \cup Sight] /\ v \in Sight
      BY DEF IInv, Typed, Seen
    <3>2. mem' = IF j \in queue.running THEN [mem EXCEPT ![j] = v] ELSE mem
      BY DEF updateJobStatus
    <3>3. Stable /\ ProcsKept
      BY <1>NothingChanges
    <3>4. CASE j \notin queue.running
      BY <3>1, <3>2, <3>4
    <3>5. CASE j \in queue.running
      <4>1. mem'[j] = v
        BY <3>1, <3>2, <3>5
      <4>2. Seen(j, v)'
        BY <3>3, <1>SeenKept
      <4>3. Seen(j, mem[j])'
        BY <4>1, <4>2 DEF Seen
      <4> QED  BY <3>1, <3>2, <3>5, <4>3
    <3> QED  BY <3>4, <3>5

  <2>WatchUpdateStep.
    ASSUME IInv, NEW j \in Jobs, WatchUpdate(j)
    PROVE  IInv' /\ Stable
    <3> USE <2>WatchUpdateStep
    <3>1. /\ watch[j] # NoJob /\ updateJobStatus(j, watch[j]) /\ watch' = [watch EXCEPT ![j] = NoJob]
          /\ file' = file /\ queue' = queue /\ handler' = handler /\ start' = start
          /\ poller' = poller /\ gen' = gen /\ procs' = procs
      BY DEF WatchUpdate
    <3>2. Seen(j, watch[j])
      BY <3>1 DEF IInv, JobInv, PlaceOk
    <3>3. /\ mem' \in [Jobs -> Job \cup Sight] /\ \A k \in Jobs : k # j => mem'[k] = mem[k]
          /\ mem'[j] = mem[j] \/ (j \in queue.running /\ Seen(j, mem[j])')
      BY <3>1, <3>2, <2>UpdateMem
    <3>4. watch \in [Jobs -> {NoJob} \cup Sight]
      BY DEF IInv, Typed
    <3>5. /\ watch' \in [Jobs -> {NoJob} \cup Sight] /\ watch'[j] = NoJob
          /\ \A k \in Jobs : k # j => watch'[k] = watch[k]
      BY <3>1, <3>4
    <3>6. PollerOk'
      <4>1. Stable /\ ProcsKept /\ Pids' = Pids
        BY <3>1, <1>NothingChanges
      <4> QED  BY <3>1, <4>1, <1>Apart, <1>PollerKept
    <3> QED  BY <3>1, <3>3, <3>5, <3>6, <2>NoteStep

  <2>PollBeginStep.
    ASSUME IInv, PollBegin
    PROVE  IInv' /\ Stable
    <3> USE <2>PollBeginStep
    <3>1. /\ poller.phase = "idle" /\ poller' = [poller EXCEPT !.phase = "death", !.todo = Snapshot]
          /\ file' = file /\ queue' = queue /\ mem' = mem /\ handler' = handler /\ start' = start
          /\ watch' = watch /\ gen' = gen /\ procs' = procs
      BY DEF PollBegin
    <3>2. PollerOk
      BY DEF IInv
    <3>3. queue.manipulated = {}
      BY <3>1, <3>2 DEF PollerOk
    <3>4. poller' = [phase |-> "death", todo |-> Snapshot, job |-> poller.job, got |-> poller.got]
      BY <3>1, <3>2, <2>PollerRecord DEF PollerOk
    <3>5. PollerOk'
      BY <3>1, <3>3, <3>4, <2>SnapshotOk, <1>PollerSet
    <3> QED  BY <3>1, <3>5, <1>QuietStep

  <2>PollUpdatesStep.
    ASSUME IInv, PollUpdates
    PROVE  IInv' /\ Stable
    <3> USE <2>PollUpdatesStep
    <3>1. /\ poller.phase = "death" /\ poller' = [poller EXCEPT !.phase = "update", !.todo = Snapshot]
          /\ file' = file /\ queue' = queue /\ mem' = mem /\ handler' = handler /\ start' = start
          /\ watch' = watch /\ gen' = gen /\ procs' = procs
      BY DEF PollUpdates
    <3>2. PollerOk
      BY DEF IInv
    <3>3. queue.manipulated = {}
      BY <3>1, <3>2 DEF PollerOk
    <3>4. poller' = [phase |-> "update", todo |-> Snapshot, job |-> poller.job, got |-> poller.got]
      BY <3>1, <3>2, <2>PollerRecord DEF PollerOk
    <3>5. PollerOk'
      BY <3>1, <3>3, <3>4, <2>SnapshotOk, <1>PollerSet
    <3> QED  BY <3>1, <3>5, <1>QuietStep

  <2>ReadStep.
    ASSUME IInv, NEW j \in Jobs, readJobStatus(j)
    PROVE  IInv' /\ Stable
    <3> USE <2>ReadStep
    <3>1. /\ poller.phase = "update" /\ j \in DOMAIN poller.todo
          /\ poller' = [poller EXCEPT !.phase = "insert", !.job = j, !.got = View(file[j])]
          /\ file' = file /\ queue' = queue /\ mem' = mem /\ handler' = handler /\ start' = start
          /\ watch' = watch /\ gen' = gen /\ procs' = procs
      BY DEF readJobStatus
    <3>2. PollerOk
      BY DEF IInv
    <3>3. /\ queue.manipulated = {} /\ Submitted(j)
          /\ \A i \in DOMAIN poller.todo :
                 i \in Jobs /\ Submitted(i) /\ LockOf(i, poller.todo[i].livelock)
      BY <3>1, <3>2 DEF PollerOk
    <3> DEFINE v == View(file[j])
    <3>4. Seen(j, v)
      BY <3>3, <1>SeenNow
    <3>5. poller' = [poller EXCEPT !.phase = "insert", !.job = j, !.got = v]
      BY <3>1
    <3> HIDE DEF v
    <3>6. poller' = [phase |-> "insert", todo |-> poller.todo, job |-> j, got |-> v]
      BY <3>2, <3>5, <2>PollerRecord DEF PollerOk
    <3>7. PollerOk'
      BY <3>1, <3>3, <3>4, <3>6, <1>PollerSet
    <3> QED  BY <3>1, <3>7, <1>QuietStep

  <2>UpdateStep.
    ASSUME IInv, updateJob
    PROVE  IInv' /\ Stable
    <3> USE <2>UpdateStep
    <3>1. /\ poller.phase = "insert" /\ updateJobStatus(poller.job, poller.got)
          /\ poller' = [phase |-> "update", todo |-> Drop(poller.todo, poller.job),
                        job |-> 0, got |-> NoJob]
          /\ file' = file /\ queue' = queue /\ handler' = handler /\ start' = start
          /\ watch' = watch /\ gen' = gen /\ procs' = procs
      BY DEF updateJob
    <3>2. PollerOk
      BY DEF IInv
    <3>3. queue.manipulated = {} /\ poller.job \in Jobs /\ Seen(poller.job, poller.got)
      BY <3>1, <3>2 DEF PollerOk
    <3>4. PICK j \in Jobs : j = poller.job
      BY <3>3
    <3>5. Seen(j, poller.got) /\ updateJobStatus(j, poller.got)
      BY <3>1, <3>3, <3>4
    <3>6. /\ mem' \in [Jobs -> Job \cup Sight] /\ \A k \in Jobs : k # j => mem'[k] = mem[k]
          /\ mem'[j] = mem[j] \/ (j \in queue.running /\ Seen(j, mem[j])')
      BY <3>1, <3>5, <2>UpdateMem
    <3>7. watch' \in [Jobs -> {NoJob} \cup Sight]
      BY <3>1 DEF IInv, Typed
    <3>8. watch'[j] # NoJob => Seen(j, watch[j])'
      BY <3>1, <1>WatchKept, <1>NothingChanges
    <3>9. PollerOk'
      <4> DEFINE todo == Drop(poller.todo, poller.job)
      <4>1. \A i \in DOMAIN todo : i \in Jobs /\ Submitted(i) /\ LockOf(i, todo[i].livelock)
        BY <2>DropOk
      <4>2. poller' = [phase |-> "update", todo |-> todo, job |-> 0, got |-> NoJob]
        BY <3>1
      <4>3. file' = file /\ procs' = procs /\ gen' = gen /\ queue'.manipulated = {}
        BY <3>1, <3>3
      <4> HIDE DEF todo
      <4>4. "update" # "manipulate" /\ "update" # "insert"
        OBVIOUS
      <4> QED  BY <4>1, <4>2, <4>3, <4>4, <1>PollerSet
    <3> QED  BY <3>1, <3>6, <3>7, <3>8, <3>9, <2>NoteStep

  \* A dead livelock that was or is in the file of a job.
  <2>DeadLock.
    ASSUME IInv, NEW j \in Jobs, NEW lock, LockOf(j, lock), isDead(lock)
    PROVE  Done(j)
    <3> USE <2>DeadLock
    <3>1. lock # NoLock /\ lock # LuxidLock(gen)
      BY <1>Locks
    <3>2. ASSUME NEW p \in Pids, procs[p].job = j, lock = ProcLock(p) PROVE Done(j)
      <4>1. procs[p].pc = "dead"
        BY <3>2, <1>Locks
      <4>2. OnlyProc(j)
        BY DEF IInv, JobInv
      <4> QED  BY <3>2, <4>1, <4>2 DEF OnlyProc, Done, AllDead, NoProc
    <3> QED  BY <3>1, <3>2 DEF LockOf, Done

  \* From the running jobs to the ones in manipulation, and back.
  <2>LimitMoved.
    ASSUME IInv, NEW j \in Jobs,
           \/ /\ queue.manipulated = {} /\ j \in queue.running
              /\ queue'.running = queue.running \ {j} /\ queue'.manipulated = {j}
           \/ /\ queue.manipulated = {j} /\ j \notin queue.running
              /\ queue'.running = queue.running \cup {j} /\ queue'.manipulated = {}
    PROVE  Limit'
    <3> USE <2>LimitMoved
    <3> DEFINE r == Cardinality(queue.running)
               m == Cardinality(queue.manipulated)
    <3>1. /\ r \in Nat /\ m \in Nat /\ r + m <= MaxRunning /\ IsFiniteSet(queue.running)
      BY <1>QueueFinite DEF IInv, Limit
    <3>2. Cardinality({j}) = 1 /\ Cardinality({}) = 0
      BY DEF Counting
    <3>3. CASE /\ queue.manipulated = {} /\ j \in queue.running
               /\ queue'.running = queue.running \ {j} /\ queue'.manipulated = {j}
      <4>0. Cardinality(queue.running \ {j})
              = IF j \in queue.running THEN Cardinality(queue.running) - 1 ELSE Cardinality(queue.running)
        BY <1>QueueFinite DEF Counting
      <4>1. Cardinality(queue'.running) = r - 1
        BY <3>3, <4>0
      <4>2. Cardinality(queue'.manipulated) = 1 /\ m = 0
        BY <3>2, <3>3
      <4> HIDE DEF r, m
      <4>3. Cardinality(queue'.running) + Cardinality(queue'.manipulated) <= MaxRunning
        BY SMTT(30), <3>1, <4>1, <4>2
      <4> QED  BY <4>3 DEF Limit
    <3>4. CASE /\ queue.manipulated = {j} /\ j \notin queue.running
               /\ queue'.running = queue.running \cup {j} /\ queue'.manipulated = {}
      <4>0. Cardinality(queue.running \cup {j})
              = IF j \in queue.running THEN Cardinality(queue.running) ELSE Cardinality(queue.running) + 1
        BY <1>QueueFinite DEF Counting
      <4>1. Cardinality(queue'.running) = r + 1
        BY <3>4, <4>0
      <4>2. Cardinality(queue'.manipulated) = 0 /\ m = 1
        BY <3>2, <3>4
      <4> HIDE DEF r, m
      <4>3. Cardinality(queue'.running) + Cardinality(queue'.manipulated) <= MaxRunning
        BY SMTT(30), <3>1, <4>1, <4>2
      <4> QED  BY <4>3 DEF Limit
    <3> QED  BY <3>3, <3>4

  <2>QueueMoved.
    ASSUME IInv, NEW r \in SUBSET Jobs, NEW m \in SUBSET Jobs,
           queue' = [queue EXCEPT !.running = r, !.manipulated = m]
    PROVE  /\ queue' \in [enqueued : SUBSET Jobs, running : SUBSET Jobs, manipulated : SUBSET Jobs]
           /\ queue'.enqueued = queue.enqueued /\ queue'.running = r /\ queue'.manipulated = m
    <3> USE <2>QueueMoved
    <3>1. queue \in [enqueued : SUBSET Jobs, running : SUBSET Jobs, manipulated : SUBSET Jobs]
      BY DEF IInv, Typed
    <3> QED  BY <3>1

  <2>DeathStep.
    ASSUME IInv, NEW j \in Jobs, checkForDeath(j)
    PROVE  IInv' /\ Stable
    <3> USE <2>DeathStep
    <3>1. /\ poller.phase = "death" /\ j \in DOMAIN poller.todo
          /\ file' = file /\ mem' = mem /\ handler' = handler /\ start' = start
          /\ watch' = watch /\ gen' = gen /\ procs' = procs
      BY DEF checkForDeath
    <3>2. PollerOk
      BY DEF IInv
    <3>3. /\ queue.manipulated = {} /\ Submitted(j) /\ LockOf(j, poller.todo[j].livelock)
          /\ \A i \in DOMAIN poller.todo :
                 i \in Jobs /\ Submitted(i) /\ LockOf(i, poller.todo[i].livelock)
      BY <3>1, <3>2 DEF PollerOk
    <3>4. CASE queue' = queue /\ poller' = [poller EXCEPT !.todo = Drop(poller.todo, j)]
      <4> DEFINE todo == Drop(poller.todo, j)
      <4>1. \A i \in DOMAIN todo : i \in Jobs /\ Submitted(i) /\ LockOf(i, todo[i].livelock)
        BY <2>DropOk
      <4>2. poller' = [poller EXCEPT !.todo = todo]
        BY <3>4
      <4>3. queue'.manipulated = {} /\ queue' = queue
        BY <3>3, <3>4
      <4> HIDE DEF todo
      <4>4. poller' = [phase |-> poller.phase, todo |-> todo, job |-> poller.job, got |-> poller.got]
        BY <3>2, <4>2, <2>PollerRecord DEF PollerOk
      <4>5. poller.phase # "manipulate" /\ poller.phase # "insert"
        BY <3>1
      <4>6. PollerOk'
        BY <3>1, <4>1, <4>3, <4>4, <4>5, <1>PollerSet
      <4> QED  BY <3>1, <4>3, <4>6, <1>QuietStep
    <3>5. CASE /\ isDead(poller.todo[j].livelock) /\ j \in queue.running
               /\ queue' = [queue EXCEPT !.running = queue.running \ {j},
                                         !.manipulated = queue.manipulated \cup {j}]
               /\ poller' = [poller EXCEPT !.phase = "manipulate", !.job = j]
      <4>1. Done(j)
        BY <3>3, <3>5, <2>DeadLock
      <4>2. queue.running \ {j} \in SUBSET Jobs /\ queue.manipulated \cup {j} = {j} /\ {j} \in SUBSET Jobs
        BY <3>3, <1>QueueTyped
      <4>3. /\ queue' \in [enqueued : SUBSET Jobs, running : SUBSET Jobs, manipulated : SUBSET Jobs]
            /\ queue'.enqueued = queue.enqueued
            /\ queue'.running = queue.running \ {j} /\ queue'.manipulated = {j}
        BY <3>5, <4>2, <2>QueueMoved
      <4>4. Stable /\ ProcsKept /\ Pids' = Pids
        BY <3>1, <1>NothingChanges
      <4>5. Typed'
        BY <3>1, <4>3 DEF IInv, Typed
      <4>6. Limit'
        BY <3>3, <3>5, <4>3, <2>LimitMoved
      <4>7. \A k \in Jobs \ {j} : Untouched(k)
        BY <3>1, <3>3, <4>3, <4>4 DEF Untouched
      <4>8. JobInv(j)'
        <5>1. Held(j) /\ Held(j)'
          BY <3>5, <4>3 DEF Held
        <5>2. Seen(j, mem[j])'
          BY <3>1, <4>4, <5>1, <1>MemKept
        <5>3. watch'[j] # NoJob => Seen(j, watch[j])'
          BY <3>1, <4>4, <1>WatchKept
        <5>4. j \notin queue'.enqueued
          BY <4>1, <4>3, <1>DoneJob
        <5> QED  BY <3>1, <4>1, <5>1, <5>2, <5>3, <5>4, <1>LetGo
      <4>9. poller' = [phase |-> "manipulate", todo |-> poller.todo, job |-> j, got |-> poller.got]
        BY <3>2, <3>5, <2>PollerRecord DEF PollerOk
      <4>10. PollerOk'
        <5>1. /\ poller'.phase = "manipulate" /\ poller'.todo = poller.todo /\ poller'.job = j
              /\ poller'.got = poller.got
          BY <4>9
        <5>2. Finalized(j)' \/ AllDead(j)'
          BY <3>1, <4>1, <4>4 DEF Done, Finalized, Submitted, AllDead
        <5>3. j \in Jobs \ queue'.running /\ queue'.manipulated = {j}
          BY <4>3
        <5>4. \A i \in DOMAIN poller.todo :
                  i \in Jobs /\ Submitted(i)' /\ LockOf(i, poller.todo[i].livelock)'
          <6> SUFFICES ASSUME NEW i \in DOMAIN poller.todo
                       PROVE  i \in Jobs /\ Submitted(i)' /\ LockOf(i, poller.todo[i].livelock)'
            BY SMT
          <6>1. i \in Jobs /\ Submitted(i) /\ LockOf(i, poller.todo[i].livelock)
            BY <3>3
          <6>2. \A lock : LockOf(i, lock) => LockOf(i, lock)'
            BY <3>1, <4>4, <6>1, <1>LockKept
          <6> QED  BY <3>1, <5>1, <6>1, <6>2 DEF LockOf, Submitted
        <5>5. AllDead(j)' => AllDead(poller.job)'
          BY <5>1 DEF AllDead
        <5>6. Finalized(j)' => Finalized(poller.job)'
          BY <5>1 DEF Finalized, Submitted
        <5> QED  BY <4>9, <5>1, <5>2, <5>3, <5>4, <5>5, <5>6 DEF PollerOk
      <4> QED  BY <3>1, <4>4, <4>5, <4>6, <4>7, <4>8, <4>10, <1>Gather
    <3> QED  BY <3>4, <3>5 DEF checkForDeath

  \* A job that ended meanwhile keeps its outcome; the process of one that did not
  \* is dead.
  <2>ManipulateStep.
    ASSUME IInv, ManipulateDead
    PROVE  IInv' /\ Stable
    <3> USE <2>ManipulateStep
    <3>0. PollerOk
      BY DEF IInv
    <3>1. /\ poller.phase = "manipulate"
          /\ file' = IF jobFinalized(file[poller.job]) THEN file
                     ELSE [file EXCEPT ![poller.job] = failQueuedJob(file[poller.job])]
          /\ queue' = [queue EXCEPT !.running = queue.running \cup {poller.job},
                                    !.manipulated = queue.manipulated \ {poller.job}]
          /\ poller' = [poller EXCEPT !.phase = "death", !.todo = Drop(poller.todo, poller.job), !.job = 0]
          /\ mem' = mem /\ handler' = handler /\ start' = start
          /\ watch' = watch /\ gen' = gen /\ procs' = procs
      BY DEF ManipulateDead
    <3>2. /\ poller.job \in Jobs \ queue.running /\ queue.manipulated = {poller.job}
          /\ Finalized(poller.job) \/ AllDead(poller.job)
      BY <3>0, <3>1 DEF PollerOk
    <3>3. PICK j \in Jobs : j = poller.job
      BY <3>2
    <3>4. /\ j \notin queue.running /\ queue.manipulated = {j}
          /\ Finalized(j) \/ AllDead(j)
          /\ file' = IF jobFinalized(file[j]) THEN file ELSE [file EXCEPT ![j] = failQueuedJob(file[j])]
      BY <3>1, <3>2, <3>3
    <3>5. queue' = [queue EXCEPT !.running = queue.running \cup {j}, !.manipulated = {}]
      <4>1. queue.manipulated \ {poller.job} = {}
        BY <3>2
      <4> QED  BY <3>1, <3>3, <4>1
    <3>6. /\ queue' \in [enqueued : SUBSET Jobs, running : SUBSET Jobs, manipulated : SUBSET Jobs]
          /\ queue'.enqueued = queue.enqueued
          /\ queue'.running = queue.running \cup {j} /\ queue'.manipulated = {}
      <4>1. queue.running \cup {j} \in SUBSET Jobs /\ {} \in SUBSET Jobs
        BY <1>QueueTyped
      <4> QED  BY <3>5, <4>1, <2>QueueMoved
    <3>7. Held(j) /\ Held(j)'
      BY <3>4, <3>6 DEF Held
    <3>8. FileOk(j) /\ PlaceOk(j) /\ StartOk(j) /\ OnlyProc(j)
      BY DEF IInv, JobInv
    <3>9. /\ Submitted(j) /\ handler[j] = "none" /\ j \notin queue.enqueued
          /\ \A k \in Deps[j] : Submitted(k)
      BY <3>7, <3>8 DEF PlaceOk, FileOk
    <3>10. ProcsKept /\ Pids' = Pids
      BY <3>1, <1>NothingChanges
    <3>11. Limit'
      BY <3>4, <3>6, <2>LimitMoved
    <3>12. ASSUME Stable PROVE PollerOk'
      <4> DEFINE todo == Drop(poller.todo, poller.job)
      <4>1. \A i \in DOMAIN todo : i \in Jobs /\ Submitted(i) /\ LockOf(i, todo[i].livelock)
        BY <2>DropOk
      <4>2. poller' = [poller EXCEPT !.phase = "death", !.todo = todo, !.job = 0]
        BY <3>1
      <4> HIDE DEF todo
      <4>3. poller' = [phase |-> "death", todo |-> todo, job |-> 0, got |-> poller.got]
        BY <3>0, <4>2, <2>PollerRecord DEF PollerOk
      <4>4. "death" # "manipulate" /\ "death" # "insert" /\ gen' = gen /\ queue'.manipulated = {}
        BY <3>1, <3>6
      <4> QED  BY ZenonT(60), <3>10, <3>12, <4>1, <4>3, <4>4, <1>PollerTo
    <3>13. ASSUME NEW k \in Jobs, k # j, file'[k] = file[k] PROVE Untouched(k)
      BY <3>1, <3>4, <3>6, <3>10, <3>13 DEF Untouched
    <3>14. CASE Finalized(j)
      <4>1. file' = file
        BY <3>4, <3>14 DEF Finalized
      <4>2. Stable
        BY <4>1, <1>NothingChanges
      <4>3. Typed'
        BY <3>1, <3>6, <4>1 DEF IInv, Typed
      <4>4. JobInv(j)'
        <5>1. Done(j)
          BY <3>14 DEF Done
        <5>2. Seen(j, mem[j])'
          BY <3>1, <3>7, <3>10, <4>2, <1>MemKept
        <5>3. watch'[j] # NoJob => Seen(j, watch[j])'
          BY <3>1, <3>10, <4>2, <1>WatchKept
        <5>4. j \notin queue'.enqueued /\ start'[j] = start[j] /\ handler'[j] = handler[j]
          BY <3>1, <3>6, <3>9
        <5>5. procs' = procs /\ gen' = gen
          BY <3>1
        <5> QED  BY ZenonT(60), <3>14, <4>1, <5>1, <5>2, <5>3, <5>4, <5>5, <1>LetGo
      <4>5. \A k \in Jobs \ {j} : Untouched(k)
        BY <3>13, <4>1
      <4>6. gen' = gen
        BY <3>1
      <4> QED  BY ZenonT(60), <3>10, <3>11, <3>12, <4>2, <4>3, <4>4, <4>5, <4>6, <1>Gather
    <3>15. CASE ~Finalized(j)
      <4> DEFINE job == failQueuedJob(file[j])
      <4>1. AllDead(j) /\ file' = [file EXCEPT ![j] = job]
        BY <3>4, <3>9, <3>15 DEF Finalized
      <4>2. file[j] \in JobOf(j) /\ NewJob(j) \in JobOf(j)
        BY <3>9, <1>FileTyped, <1>NewJobIsQueued
      <4>3. /\ job \in JobOf(j) /\ Regular(job.ops) /\ jobFinalized(job) /\ job.ops[1] = "error"
        BY <4>2, <1>FailedJob
      <4>4. job.ops = failQueuedJob(NewJob(j)).ops
        <5>1. failQueuedJob(file[j]).ops = [i \in 1..NumOps[j] |-> "error"]
          BY <4>2, <1>FailedJob
        <5>2. failQueuedJob(NewJob(j)).ops = [i \in 1..NumOps[j] |-> "error"]
          BY <4>2, <1>FailedJob
        <5> QED  BY <5>1, <5>2
      <4> HIDE DEF job
      <4>5. /\ file' \in [Jobs -> Job] /\ \A i \in Jobs : file'[i] \in JobOf(i) \cup {NoJob}
            /\ file'[j] = job /\ Submitted(j)' /\ \A i \in Jobs : i # j => file'[i] = file[i]
            /\ Stable
        BY <3>15, <4>1, <4>3, <1>FileChange
      <4>6. Typed'
        BY <3>1, <3>6, <4>5 DEF IInv, Typed
      <4>7. \A k \in Jobs \ {j} : Untouched(k)
        BY <3>13, <4>5
      <4>8. AllDead(j)' /\ OnlyProc(j)'
        BY <3>1, <3>8, <3>10, <4>1 DEF AllDead, OnlyProc
      <4>9. StartOk(j)'
        <5>1. start[j].pc \notin {"chosen", "owned"}
          BY <3>4, <3>8 DEF StartOk
        <5>2. start[j].pid # 0 => start[j].pid \in Pids' /\ procs'[start[j].pid].job = j
          BY <3>1, <3>8, <3>10 DEF StartOk
        <5>3. start[j].pc \in {"spawned", "named"} =>
                  start[j].pid # 0 /\ procs'[start[j].pid].pc = "dead"
          BY <3>8, <4>8, <5>2 DEF StartOk, AllDead
        <5>4. file'[j].ops = failQueuedJob(NewJob(j)).ops
          BY <4>4, <4>5
        <5>5. /\ start[j].pc = "none" => start[j] = NotStarting
              /\ start[j].pc # "none" => start[j].job = NewJob(j)
          BY <3>8 DEF StartOk
        <5>6. start'[j] = start[j]
          BY <3>1
        <5> QED  BY ZenonT(60), <4>8, <5>1, <5>2, <5>3, <5>4, <5>5, <5>6 DEF StartOk
      <4>10. JobInv(j)'
        <5>1. Seen(j, mem[j])'
          BY <3>1, <3>7, <3>10, <4>5, <1>MemKept
        <5>2. watch'[j] # NoJob => Seen(j, watch[j])'
          BY <3>1, <3>10, <4>5, <1>WatchKept
        <5>3. j \notin queue'.enqueued /\ handler'[j] = "none"
          BY <3>1, <3>6, <3>9
        <5>4. \A k \in Deps[j] : Submitted(k)'
          BY <3>9, <4>5, DepsAssumption DEF Stable
        <5>5. Finalized(j)' /\ Regular(file'[j].ops) /\ file'[j].ops[1] \in {"error", "canceled"}
          BY <4>3, <4>5 DEF Finalized
        <5> QED  BY ZenonT(60), <4>5, <4>8, <4>9, <5>1, <5>2, <5>3, <5>4, <5>5, <1>EndedJobInv
      <4>11. gen' = gen
        BY <3>1
      <4> QED  BY ZenonT(60), <3>10, <3>11, <3>12, <4>5, <4>6, <4>7, <4>10, <4>11, <1>Gather
    <3> QED  BY <3>14, <3>15

  <2>1. ASSUME IInv, NEW j \in Jobs, WatchRead(j) \/ WatchUpdate(j)
        PROVE  IInv' /\ Stable
    BY <2>1, <2>WatchReadStep, <2>WatchUpdateStep
  <2>2. ASSUME IInv, NEW j \in Jobs, checkForDeath(j) \/ readJobStatus(j)
        PROVE  IInv' /\ Stable
    BY <2>2, <2>DeathStep, <2>ReadStep
  <2> QED  BY <2>1, <2>2, <2>PollBeginStep, <2>ManipulateStep, <2>PollUpdatesStep, <2>UpdateStep

\* Jobs that ended are forgotten and others started, with the invariant kept.
<1>SchedulerStep.
  IInv /\ (PollEnd \/ Cleanup \/ Schedule) => IInv' /\ Stable
  \* What counts as ended of what was read.
  <2>SeenEnd.
    ASSUME NEW v \in Sight
    PROVE  jobFinalized(v) => v.ops = <<"success">>
    <3> USE <2>SeenEnd
    <3> SUFFICES ASSUME v.ops = <<"running">> PROVE ~jobFinalized(v)
      BY DEF Sight
    <3> DEFINE ops == <<"running">>
    <3>1. ops \in [1..1 -> OpStatus] /\ DOMAIN ops = 1..1 /\ 1 \in 1..1 /\ ops[1] = "running"
      BY SMT DEF OpStatus
    <3>2. \A i \in 1..1 : i = 1
      BY SMT
    <3> HIDE DEF ops
    <3>3. Open(ops) /\ Regular(ops)
      BY <3>1, <3>2 DEF Open, Regular, OpsFinalized
    <3>4. 1 \in Nat
      BY SMT
    <3>5. calcJobStatus(ops) \notin OpsFinalized
      BY <3>1, <3>3, <3>4, <1>StatusOpen
    <3> QED  BY <3>5 DEF jobFinalized, ops

  <2>ChosenJob.
    ASSUME IInv, NEW j \in Jobs, j \in queue.enqueued, file' = file, procs' = procs, gen' = gen,
           handler'[j] = handler[j], watch'[j] = watch[j], mem'[j] = View(file[j]),
           start'[j] = [pc |-> "chosen", job |-> NewJob(j), pid |-> 0],
           j \in queue'.running, j \notin queue'.enqueued
    PROVE  JobInv(j)'
    <3> USE <2>ChosenJob
    <3>1. /\ Submitted(j) /\ file[j] = NewJob(j) /\ NoProc(j) /\ handler[j] = "none"
      BY <1>QueuedJob
    <3>2. Stable /\ ProcsKept /\ Pids' = Pids
      BY <1>NothingChanges
    <3>3. NoProc(j)' /\ Held(j)'
      BY <3>1, <3>2 DEF NoProc, Held
    <3>4. FileOk(j)'
      BY <3>2, <3>3, <1>FileKept
    <3>5. Seen(j, mem[j])'
      <4>1. Seen(j, View(file[j]))
        BY <3>1, <1>SeenNow
      <4>2. \A v : Seen(j, v) => Seen(j, v)'
        BY <3>2, <1>SeenKept
      <4> QED  BY <4>1, <4>2 DEF Seen, LockOf
    <3>6. watch'[j] # NoJob => Seen(j, watch[j])'
      BY <3>2, <1>WatchKept
    <3>7. PlaceOk(j)'
      BY <3>1, <3>5, <3>6 DEF PlaceOk, Submitted
    <3>8. StartOk(j)'
      <4> DEFINE new == [pc |-> "chosen", job |-> NewJob(j), pid |-> 0]
      <4>0. new.pc = "chosen" /\ new.job = NewJob(j) /\ new.pid = 0 /\ start'[j] = new
        OBVIOUS
      <4> HIDE DEF new
      <4>1. start'[j].pc = "chosen" /\ start'[j].job = NewJob(j) /\ start'[j].pid = 0
        BY <4>0
      <4>2. file'[j] = NewJob(j)
        BY <3>1
      <4> QED  BY <3>3, <4>1, <4>2 DEF StartOk
    <3>9. OnlyProc(j)' /\ \A p \in Pids' : procs'[p].job # j
      BY <3>3 DEF NoProc, OnlyProc
    <3> QED  BY <3>4, <3>7, <3>8, <3>9 DEF JobInv

  \* There are never more jobs than places.
  <2>RoomForChosen.
    ASSUME IInv, NEW q, q.enqueued \in SUBSET Jobs, q.running \in SUBSET queue.running,
           q.manipulated = queue.manipulated, NEW chosen \in selectJobsToRun(q)
    PROVE  /\ chosen \in SUBSET q.enqueued
           /\ Cardinality(q.running \cup chosen) + Cardinality(queue.manipulated) <= MaxRunning
    <3> USE <2>RoomForChosen
    <3> DEFINE eligible == {j \in q.enqueued : jobEligible(q, j)}
               r == Cardinality(q.running)
               m == Cardinality(q.manipulated)
               e == Cardinality(eligible)
               n == IF r + m >= MaxRunning THEN 0 ELSE Min({MaxRunning - (r + m), e})
    <3>1. chosen \in SUBSET eligible /\ Cardinality(chosen) = n
      BY DEF selectJobsToRun
    <3>2. chosen \in SUBSET q.enqueued /\ eligible \in SUBSET Jobs
      BY <3>1
    <3>3. IsFiniteSet(eligible) /\ IsFiniteSet(chosen) /\ IsFiniteSet(q.running)
          /\ r <= Cardinality(queue.running)
      <4>1. chosen \in SUBSET Jobs
        BY <3>2
      <4> HIDE DEF eligible
      <4> QED  BY <3>2, <4>1, JobsAssumption, <1>QueueFinite DEF Counting
    <3>4. e \in Nat /\ r \in Nat /\ m \in Nat /\ Cardinality(queue.running) \in Nat
          /\ Cardinality(chosen) \in Nat /\ Cardinality(queue.running) + m <= MaxRunning
      <4> HIDE DEF eligible
      <4> QED  BY <3>3, <1>QueueFinite DEF Counting, IInv, Limit
    <3> DEFINE both == q.running \cap chosen
               all == q.running \cup chosen
    <3>5. Cardinality(all) = r + Cardinality(chosen) - Cardinality(both)
      <4>1. \A S, R : IsFiniteSet(S) /\ IsFiniteSet(R) =>
            /\ IsFiniteSet(S \cup R)
            /\ Cardinality(S \cup R) = Cardinality(S) + Cardinality(R) - Cardinality(S \cap R)
        BY DEF Counting
      <4> QED  BY <3>3, <4>1
    <3>6. Cardinality(both) \in Nat
      <4>1. both \in SUBSET chosen
        OBVIOUS
      <4> HIDE DEF both
      <4> QED  BY <3>3, <4>1 DEF Counting
    <3>7. CASE r + m >= MaxRunning
      <4>1. Cardinality(chosen) = 0
        BY <3>1, <3>7
      <4> HIDE DEF eligible, r, m, e, n, both, all
      <4>2. Cardinality(all) + m <= MaxRunning
        BY SMT, <3>3, <3>4, <3>5, <3>6, <4>1, LimitAssumption
      <4> QED  BY <3>2, <4>2 DEF m, all
    <3>8. CASE ~(r + m >= MaxRunning)
      <4> DEFINE S == {MaxRunning - (r + m), e}
      <4>1. Cardinality(chosen) = Min(S)
        BY <3>1, <3>8
      <4>2. MaxRunning - (r + m) \in Nat
        <5> HIDE DEF eligible, r, m, e, n, both, all
        <5> QED  BY SMT, <3>4, <3>8, LimitAssumption
      <4>3. S \subseteq Nat /\ S # {} /\ MaxRunning - (r + m) \in S
        BY <3>4, <4>2
      <4>4. Min(S) <= MaxRunning - (r + m)
        <5> HIDE DEF S
        <5> QED  BY <4>3, <1>MinExists
      <4>5. Cardinality(chosen) <= MaxRunning - (r + m)
        BY <4>1, <4>4
      <4> HIDE DEF eligible, r, m, e, n, both, all, S
      <4>6. Cardinality(all) + m <= MaxRunning
        BY SMTT(30), <3>4, <3>5, <3>6, <4>5, LimitAssumption
      <4> QED  BY <3>2, <4>6 DEF m, all
    <3> QED  BY <3>7, <3>8

  \* The jobs in fin, which ended, are forgotten, and others take their places.
  <2>SchedulingStep.
    ASSUME IInv, NEW fin \in SUBSET queue.running, \A j \in fin : Finalized(j),
           NEW q \in [enqueued : SUBSET Jobs, running : SUBSET Jobs, manipulated : SUBSET Jobs],
           q.enqueued = queue.enqueued, q.running = queue.running \ fin,
           q.manipulated = queue.manipulated,
           NEW jobs \in [Jobs -> Job \cup Sight],
           \A k \in Jobs : jobs[k] = IF k \in fin THEN NoJob ELSE mem[k],
           scheduleSomeJobs(q, jobs),
           watch' \in [Jobs -> {NoJob} \cup Sight],
           \A k \in Jobs : watch'[k] = IF k \in fin THEN NoJob ELSE watch[k],
           file' = file, handler' = handler, gen' = gen, procs' = procs,
           \/ poller' = poller
           \/ poller.phase # "manipulate" /\ poller' = Resting
    PROVE  IInv' /\ Stable
    <3> USE <2>SchedulingStep
    <3>1. PICK chosen \in selectJobsToRun(q) :
            /\ queue' = [q EXCEPT !.enqueued = q.enqueued \ chosen, !.running = q.running \cup chosen]
            /\ mem' = [j \in Jobs |-> IF j \in chosen THEN View(jobs[j]) ELSE jobs[j]]
            /\ start' = [j \in Jobs |->
                            IF j \in chosen THEN [pc |-> "chosen", job |-> jobs[j], pid |-> 0]
                            ELSE start[j]]
      BY DEF scheduleSomeJobs
    <3>2. /\ chosen \in SUBSET queue.enqueued
          /\ Cardinality(q.running \cup chosen) + Cardinality(queue.manipulated) <= MaxRunning
      <4>1. q.enqueued \in SUBSET Jobs /\ q.running \in SUBSET queue.running
        BY <1>QueueTyped
      <4>2. /\ chosen \in SUBSET q.enqueued
            /\ Cardinality(q.running \cup chosen) + Cardinality(queue.manipulated) <= MaxRunning
        BY <4>1, <2>RoomForChosen
      <4> QED  BY <4>2
    <3>3. /\ queue' \in [enqueued : SUBSET Jobs, running : SUBSET Jobs, manipulated : SUBSET Jobs]
          /\ queue'.enqueued = queue.enqueued \ chosen /\ queue'.running = q.running \cup chosen
          /\ queue'.manipulated = queue.manipulated
      <4>1. queue.enqueued \ chosen \in SUBSET Jobs /\ q.running \cup chosen \in SUBSET Jobs
        BY <3>2, <1>QueueTyped
      <4> QED  BY <3>1, <4>1
    <3>4. Stable /\ ProcsKept /\ Pids' = Pids
      BY <1>NothingChanges
    <3>5. ASSUME NEW j \in chosen
          PROVE  /\ j \in Jobs /\ j \notin queue.running /\ j \notin queue.manipulated /\ j \notin fin
                 /\ jobs[j] = NewJob(j) /\ file[j] = NewJob(j) /\ Submitted(j)
                 /\ start'[j] = [pc |-> "chosen", job |-> NewJob(j), pid |-> 0]
                 /\ mem'[j] = View(file[j])
      <4>1. j \in Jobs /\ j \in queue.enqueued
        BY <3>2, <1>QueueTyped
      <4>2. mem[j] = NewJob(j) /\ file[j] = NewJob(j) /\ ~Held(j) /\ Submitted(j)
        BY <4>1, <1>QueuedJob
      <4>3. j \notin queue.running /\ j \notin queue.manipulated /\ j \notin fin
        BY <4>2 DEF Held
      <4>4. jobs[j] = NewJob(j)
        BY <4>1, <4>2, <4>3
      <4>5. start'[j] = [pc |-> "chosen", job |-> jobs[j], pid |-> 0] /\ mem'[j] = View(jobs[j])
        BY <3>1, <4>1
      <4> QED  BY <4>1, <4>2, <4>3, <4>4, <4>5
    <3>6. ASSUME NEW j \in Jobs, j \notin chosen
          PROVE  start'[j] = start[j] /\ mem'[j] = IF j \in fin THEN NoJob ELSE mem[j]
      BY <3>1, <3>6
    <3>7. Limit'
      BY <3>2, <3>3 DEF Limit
    <3>8. PollerOk'
      <4>1. CASE poller' = poller
        <5>1. \A k \in queue.manipulated : k \notin queue'.running
          BY <3>3, <3>5, <1>Apart
        <5> QED  BY <3>3, <3>4, <4>1, <5>1, <1>PollerKept
      <4>2. CASE poller.phase # "manipulate" /\ poller' = Resting
        <5> DEFINE todo == <<>>
        <5>1. queue'.manipulated = {}
          BY <3>3, <4>2 DEF IInv, PollerOk
        <5>2. DOMAIN todo = {}
          BY SMT
        <5>3. poller' = [phase |-> "idle", todo |-> todo, job |-> 0, got |-> NoJob]
          BY <4>2 DEF Resting
        <5> HIDE DEF todo
        <5>4. \A j \in DOMAIN todo : j \in Jobs /\ Submitted(j) /\ LockOf(j, todo[j].livelock)
          BY <5>2
        <5>5. "idle" # "manipulate" /\ "idle" # "insert"
          OBVIOUS
        <5> QED  BY <5>1, <5>3, <5>4, <5>5, <1>PollerSet
      <4> QED  BY <4>1, <4>2
    <3>9. Typed'
      <4>1. mem' \in [Jobs -> Job \cup Sight]
        <5>1. \A j \in Jobs : mem'[j] \in Job \cup Sight
          <6> SUFFICES ASSUME NEW j \in Jobs PROVE mem'[j] \in Job \cup Sight  OBVIOUS
          <6>1. CASE j \in chosen
            <7>1. Submitted(j) /\ mem'[j] = View(file[j])
              BY <3>5, <6>1
            <7>2. Seen(j, View(file[j]))
              BY <7>1, <1>SeenNow
            <7>3. View(file[j]) \in Sight
              BY <7>2 DEF Seen
            <7> QED  BY <7>1, <7>3
          <6>2. CASE j \notin chosen
            <7>1. mem[j] \in Job \cup Sight /\ NoJob \in Job
              BY DEF IInv, Typed, Job
            <7> QED  BY <3>6, <6>2, <7>1
          <6> QED  BY <6>1, <6>2
        <5> QED  BY <3>1, <5>1
      <4>2. start' \in [Jobs -> StartRun]
        <5>1. \A j \in Jobs : start'[j] \in StartRun
          <6> SUFFICES ASSUME NEW j \in Jobs PROVE start'[j] \in StartRun  OBVIOUS
          <6>1. CASE j \in chosen
            <7>1. 0 \in Nat
              BY SMT
            <7>2. [pc |-> "chosen", job |-> NewJob(j), pid |-> 0] \in StartRun
              BY <7>1 DEF StartRun
            <7> QED  BY <3>5, <6>1, <7>2
          <6>2. CASE j \notin chosen
            BY <3>6, <6>2 DEF IInv, Typed
          <6> QED  BY <6>1, <6>2
        <5> QED  BY <3>1, <5>1
      <4> QED  BY <3>3, <4>1, <4>2 DEF IInv, Typed
    <3>10. ASSUME NEW j \in Jobs PROVE JobInv(j)'
      <4>1. CASE j \in chosen
        <5>1. /\ watch'[j] = watch[j] /\ handler'[j] = handler[j] /\ mem'[j] = View(file[j])
              /\ start'[j] = [pc |-> "chosen", job |-> NewJob(j), pid |-> 0]
          BY <3>5, <4>1
        <5>2. j \in queue.enqueued /\ j \in queue'.running /\ j \notin queue'.enqueued
          BY <3>2, <3>3, <4>1
        <5> QED  BY <5>1, <5>2, <2>ChosenJob
      <4>2. CASE j \in fin
        <5>1. Finalized(j) /\ Done(j)
          BY <4>2 DEF Done
        <5>2. j \notin queue.enqueued
          BY <5>1, <1>DoneJob
        <5>3. j \notin chosen /\ j \notin queue'.enqueued
          BY <3>2, <3>3, <5>2
        <5>4. ~Held(j)'
          BY <3>3, <4>2, <5>3, <1>Apart DEF Held
        <5>5. watch'[j] = NoJob /\ start'[j] = start[j] /\ handler'[j] = handler[j]
          BY <3>6, <4>2, <5>3
        <5> QED  BY <5>1, <5>3, <5>4, <5>5, <1>LetGo
      <4>3. CASE j \notin chosen /\ j \notin fin
        <5>1. start'[j] = start[j] /\ mem'[j] = mem[j] /\ watch'[j] = watch[j]
          BY <3>6, <4>3
        <5>2. /\ j \in queue'.enqueued <=> j \in queue.enqueued
              /\ j \in queue'.running <=> j \in queue.running
              /\ j \in queue'.manipulated <=> j \in queue.manipulated
          BY <3>3, <4>3
        <5>3. Untouched(j)
          BY <3>4, <5>1, <5>2 DEF Untouched
        <5> QED  BY <3>4, <5>3, <1>JobKept
      <4> QED  BY <4>1, <4>2, <4>3
    <3> QED  BY <3>4, <3>7, <3>8, <3>9, <3>10 DEF IInv

  <2>CleanupStep.
    ASSUME IInv, cleanupFinishedJobs,
           file' = file, handler' = handler, gen' = gen, procs' = procs,
           \/ poller' = poller
           \/ poller.phase # "manipulate" /\ poller' = Resting
    PROVE  IInv' /\ Stable
    <3> USE <2>CleanupStep
    <3> DEFINE fin == sortoutFinishedJobs
               q == [queue EXCEPT !.running = queue.running \ fin]
               jobs == [j \in Jobs |-> IF j \in fin THEN NoJob ELSE mem[j]]
    <3>1. scheduleSomeJobs(q, jobs) /\ watch' = [j \in Jobs |-> IF j \in fin THEN NoJob ELSE watch[j]]
      BY DEF cleanupFinishedJobs
    <3>2. fin \in SUBSET queue.running /\ \A j \in fin : jobFinalized(mem[j])
      BY DEF sortoutFinishedJobs
    <3> HIDE DEF fin
    <3>3. ASSUME NEW j \in fin PROVE Finalized(j)
      <4>1. j \in Jobs /\ j \in queue.running
        BY <3>2, <1>QueueTyped
      <4>2. Seen(j, mem[j])
        BY <4>1 DEF IInv, JobInv, PlaceOk, Held
      <4>3. mem[j] \in Sight /\ (mem[j].ops = <<"success">> => Finalized(j))
        BY <4>2 DEF Seen
      <4>4. mem[j].ops = <<"success">>
        BY <3>2, <4>3, <2>SeenEnd
      <4> QED  BY <4>3, <4>4
    <3>4. queue \in [enqueued : SUBSET Jobs, running : SUBSET Jobs, manipulated : SUBSET Jobs]
      BY DEF IInv, Typed
    <3>5. queue.running \ fin \in SUBSET Jobs
      BY <1>QueueTyped
    <3>6. /\ q \in [enqueued : SUBSET Jobs, running : SUBSET Jobs, manipulated : SUBSET Jobs]
          /\ q.enqueued = queue.enqueued /\ q.running = queue.running \ fin
          /\ q.manipulated = queue.manipulated
      BY <3>4, <3>5
    <3>7. mem \in [Jobs -> Job \cup Sight] /\ NoJob \in Job /\ watch \in [Jobs -> {NoJob} \cup Sight]
      BY DEF IInv, Typed, Job
    <3>8. /\ jobs \in [Jobs -> Job \cup Sight]
          /\ \A k \in Jobs : jobs[k] = IF k \in fin THEN NoJob ELSE mem[k]
      BY <3>7
    <3>9. /\ watch' \in [Jobs -> {NoJob} \cup Sight]
          /\ \A k \in Jobs : watch'[k] = IF k \in fin THEN NoJob ELSE watch[k]
      BY <3>1, <3>7
    <3>10. scheduleSomeJobs(q, jobs)
      BY <3>1
    <3> HIDE DEF q, jobs
    <3> QED  BY <3>2, <3>3, <3>6, <3>8, <3>9, <3>10, <2>SchedulingStep

  <2>ScheduleStep.
    ASSUME IInv, Schedule
    PROVE  IInv' /\ Stable
    <3> USE <2>ScheduleStep
    <3> DEFINE fin == {}
    <3>1. /\ scheduleSomeJobs(queue, mem) /\ file' = file /\ handler' = handler /\ poller' = poller
          /\ watch' = watch /\ gen' = gen /\ procs' = procs
      BY DEF Schedule
    <3>2. /\ queue \in [enqueued : SUBSET Jobs, running : SUBSET Jobs, manipulated : SUBSET Jobs]
          /\ mem \in [Jobs -> Job \cup Sight] /\ watch \in [Jobs -> {NoJob} \cup Sight]
      BY DEF IInv, Typed
    <3>3. /\ fin \in SUBSET queue.running /\ \A j \in fin : Finalized(j)
          /\ queue.running = queue.running \ fin
          /\ \A k \in Jobs : mem[k] = IF k \in fin THEN NoJob ELSE mem[k]
          /\ \A k \in Jobs : watch'[k] = IF k \in fin THEN NoJob ELSE watch[k]
      BY <3>1
    <3> HIDE DEF fin
    <3>4. watch' \in [Jobs -> {NoJob} \cup Sight]
      BY <3>1, <3>2
    <3>5. file' = file /\ handler' = handler /\ poller' = poller /\ gen' = gen /\ procs' = procs
      BY <3>1
    <3>6. PICK q : q = queue
      OBVIOUS
    <3>7. /\ q \in [enqueued : SUBSET Jobs, running : SUBSET Jobs, manipulated : SUBSET Jobs]
          /\ q.enqueued = queue.enqueued /\ q.running = queue.running \ fin
          /\ q.manipulated = queue.manipulated
          /\ scheduleSomeJobs(q, mem)
      BY <3>1, <3>2, <3>3, <3>6
    <3> QED  BY <3>2, <3>3, <3>4, <3>5, <3>7, <2>SchedulingStep

  <2> SUFFICES ASSUME IInv, PollEnd \/ Cleanup \/ Schedule PROVE IInv' /\ Stable
    OBVIOUS
  <2>1. CASE PollEnd
    <3>1. /\ poller.phase = "update" /\ cleanupFinishedJobs /\ poller' = Resting
          /\ file' = file /\ handler' = handler /\ gen' = gen /\ procs' = procs
      BY <2>1 DEF PollEnd
    <3>2. poller.phase # "manipulate"
      BY <3>1
    <3> QED  BY <3>1, <3>2, <2>CleanupStep
  <2>2. CASE Cleanup
    <3>1. cleanupFinishedJobs /\ file' = file /\ handler' = handler /\ poller' = poller
          /\ gen' = gen /\ procs' = procs
      BY <2>2 DEF Cleanup
    <3> QED  BY <3>1, <2>CleanupStep
  <2> QED  BY <2>1, <2>2, <2>ScheduleStep

\* A restart keeps the invariant and what ended, unless a job that has a process
\* is queued according to its file.
<1>RestartStep.
  IInv /\ Restart /\ Restartable => IInv' /\ Stable
  \* What the file says is queued was not begun to be started.
  <2>RestartQueued.
    ASSUME IInv, Restartable, NEW j \in Jobs, Submitted(j), ~jobStarted(file[j])
    PROVE  Fresh(j) /\ ~Finalized(j)
    <3> USE <2>RestartQueued
    <3>1. calcJobStatus(file[j].ops) = "queued"
      BY DEF jobStarted
    <3>2. file[j].livelock = NoLock
      BY <3>1 DEF Restartable
    <3>3. ~Finalized(j)
      BY <3>1 DEF Finalized, jobFinalized, OpsFinalized
    <3>4. FileOk(j)
      BY DEF IInv, JobInv
    <3> QED  BY <3>2, <3>3, <3>4 DEF FileOk

  <2>RestartLeaves.
    ASSUME IInv, Restartable, NEW j \in Jobs, NEW p \in Pids, procs[p].job = j
    PROVE  /\ Submitted(j) /\ jobStarted(file[j])
           /\ procs[p].pc \notin {"boot", "started"}
    <3> USE <2>RestartLeaves
    <3>1. PlaceOk(j) /\ StartOk(j) /\ ProcOk(j, p)
      BY DEF IInv, JobInv
    <3>2. ~NoProc(j) /\ ~Fresh(j)
      BY DEF NoProc, Fresh
    <3>3. Submitted(j)
      BY <3>1, <3>2 DEF PlaceOk
    <3>4. jobStarted(file[j])
      BY <3>2, <3>3, <2>RestartQueued
    <3>5. file[j].ops # NewJob(j).ops
      <4>1. calcJobStatus(NewJob(j).ops) = "queued"
        BY <1>NewJobIsQueued
      <4> QED  BY <3>4, <4>1 DEF jobStarted
    <3>6. procs[p].pc # "started"
      <4> SUFFICES ASSUME procs[p].pc = "started" PROVE FALSE  OBVIOUS
      <4> DEFINE job == [NewJob(j) EXCEPT !.livelock = ProcLock(p)]
      <4>1. ProcLock(p) \in Lock
        <5>1. p \in 1..Len(procs) /\ Len(procs) \in Nat
          BY <1>ProcTyped
        <5>2. p \in Nat
          BY SMT, <5>1
        <5> QED  BY <5>2 DEF Lock
      <4>2. job.ops = NewJob(j).ops
        BY ZenonT(60), <4>1, <1>LockedJob
      <4>3. file[j] = job
        BY <3>1 DEF ProcOk
      <4> HIDE DEF job
      <4> QED  BY <3>5, <4>2, <4>3
    <3>7. procs[p].pc # "boot"
      <4> SUFFICES ASSUME procs[p].pc = "boot" PROVE FALSE  OBVIOUS
      <4>1. start[j].pid = p /\ p # 0
        BY <3>1, <1>ProcTyped DEF ProcOk
      <4>2. ~AllDead(j)
        BY DEF AllDead
      <4>3. NotStarting.pid = 0
        BY DEF NotStarting
      <4>4. start[j].pc \notin {"none", "chosen", "owned", "failed", "failing"}
        BY <3>1, <4>1, <4>2, <4>3 DEF StartOk
      <4>5. start[j].pc \in {"spawned", "named"}
        BY <4>4 DEF IInv, Typed, StartRun
      <4> QED  BY <3>1, <3>5, <4>1, <4>5 DEF StartOk
    <3> QED  BY <3>3, <3>4, <3>6, <3>7

  <2>RestartProcs.
    ASSUME IInv, Restartable, NEW j \in Jobs, file' = file, procs' = procs,
           Submitted(j) /\ ~Finalized(j) /\ jobStarted(file[j]) => j \in queue'.running
    PROVE  OnlyProc(j)' /\ \A p \in Pids' : procs'[p].job = j => ProcOk(j, p)'
    <3> USE <2>RestartProcs
    <3>1. Pids' = Pids
      BY <1>NothingChanges
    <3>2. OnlyProc(j)'
      BY ZenonT(60), <3>1 DEF IInv, JobInv, OnlyProc
    <3>3. ASSUME NEW p \in Pids', procs'[p].job = j PROVE ProcOk(j, p)'
      <4>1. p \in Pids /\ procs[p].job = j
        BY <3>1, <3>3
      <4>2. ProcOk(j, p)
        BY <4>1 DEF IInv, JobInv
      <4>3. Submitted(j) /\ jobStarted(file[j]) /\ procs[p].pc \notin {"boot", "started"}
        BY <4>1, <2>RestartLeaves
      <4>4. ASSUME procs[p].pc \in AtWork, Open(procs[p].copy.ops) PROVE j \in queue'.running
        <5>1. Open(file[j].ops)
          BY <4>1, <4>4, <1>Working
        <5>2. ~Finalized(j)
          BY <4>3, <5>1, <1>FileTyped
        <5> QED  BY <4>3, <5>2
      <4> QED  BY <4>2, <4>3, <4>4 DEF ProcOk
    <3> QED  BY <3>2, <3>3

  <2>RestartFile.
    ASSUME IInv, NEW j \in Jobs, Submitted(j), file' = file, procs' = procs, gen' = gen + 1,
           jobStarted(file[j]), Finalized(j) \/ Held(j)'
    PROVE  FileOk(j)' /\ LockOf(j, file[j].livelock)'
    <3> USE <2>RestartFile
    <3>1. /\ Regular(file[j].ops) /\ LockOf(j, file[j].livelock)
          /\ file[j].livelock = NoLock => Finalized(j) \/ Fresh(j)
          /\ file[j].livelock = LuxidLock(gen) => Finalized(j) \/ file[j].ops = NewJob(j).ops
          /\ \A d \in Deps[j] : Submitted(d)
          /\ file[j].ops[1] \in {"running", "success"} => Met(j)
      BY DEF IInv, JobInv, FileOk
    <3>2. (Submitted(j)' <=> Submitted(j)) /\ (Finalized(j)' <=> Finalized(j)) /\ Pids' = Pids
      BY <1>NothingChanges DEF Submitted, Finalized
    <3>3. calcJobStatus(NewJob(j).ops) = "queued"
      BY <1>NewJobIsQueued
    <3>4. file[j].livelock = LuxidLock(gen) => Finalized(j)
      BY <3>1, <3>3 DEF jobStarted
    <3>5. LockOf(j, file[j].livelock)'
      BY <3>1, <3>2, <3>4 DEF LockOf
    <3>6. file[j].livelock = LuxidLock(gen') => Finalized(j)
      <4>1. gen \in Nat
        BY DEF IInv, Typed
      <4>2. gen' # gen
        BY SMT, <4>1
      <4> QED  BY <3>1, <4>2, <1>Locks DEF LockOf
    <3>7. Fresh(j) => Fresh(j)'
      BY <3>2 DEF Fresh, NoProc
    <3>8. \A d \in Deps[j] : Submitted(d)'
      BY <3>1 DEF Submitted
    <3>9. Met(j) => Met(j)'
      BY <1>MetKept, <1>NothingChanges
    <3>10. FileOk(j)'
      BY <3>1, <3>2, <3>5, <3>6, <3>7, <3>8, <3>9 DEF FileOk
    <3> QED  BY <3>5, <3>10

  <2>RestartLimit.
    ASSUME IInv, NEW run \in SUBSET Jobs, \A j \in run : Held(j),
           queue'.running = run, queue'.manipulated = {}
    PROVE  Limit'
    <3> USE <2>RestartLimit
    <3> DEFINE all == queue.running \cup queue.manipulated
               both == queue.running \cap queue.manipulated
    <3>1. run \in SUBSET all
      BY DEF Held
    <3>2. /\ IsFiniteSet(all)
          /\ Cardinality(all) = Cardinality(queue.running) + Cardinality(queue.manipulated)
                                    - Cardinality(both)
      <4>1. \A S, R : IsFiniteSet(S) /\ IsFiniteSet(R) =>
            /\ IsFiniteSet(S \cup R)
            /\ Cardinality(S \cup R) = Cardinality(S) + Cardinality(R) - Cardinality(S \cap R)
        BY DEF Counting
      <4> QED  BY <1>QueueFinite, <4>1
    <3>3. Cardinality(both) \in Nat
      <4>1. both \in SUBSET queue.running
        OBVIOUS
      <4> HIDE DEF both
      <4> QED  BY <4>1, <1>QueueFinite DEF Counting
    <3> HIDE DEF all, both
    <3>4. IsFiniteSet(run) /\ Cardinality(run) <= Cardinality(all)
      BY <3>1, <3>2 DEF Counting
    <3>5. Cardinality(run) \in Nat /\ Cardinality(all) \in Nat /\ Cardinality({}) = 0
      BY <3>2, <3>4 DEF Counting
    <3>6. /\ Cardinality(queue.running) \in Nat /\ Cardinality(queue.manipulated) \in Nat
          /\ Cardinality(queue.running) + Cardinality(queue.manipulated) <= MaxRunning
      BY <1>QueueFinite DEF IInv, Limit
    <3>7. Cardinality(run) + 0 <= MaxRunning
      BY SMT, <3>2, <3>3, <3>4, <3>5, <3>6, LimitAssumption
    <3> QED  BY <3>5, <3>7 DEF Limit

  <2> SUFFICES ASSUME IInv, Restart, Restartable PROVE IInv' /\ Stable
    OBVIOUS
  <2> DEFINE open == {j \in Jobs : Submitted(j) /\ ~Finalized(j)}
             run  == {j \in open : jobStarted(file[j])}
  <2>1. /\ gen' = gen + 1 /\ file' = file /\ procs' = procs /\ poller' = Resting
        /\ queue' = [enqueued |-> open \ run, running |-> run, manipulated |-> {}]
        /\ mem' = [j \in Jobs |-> IF j \in run THEN View(file[j])
                                  ELSE IF j \in open THEN file[j] ELSE NoJob]
        /\ handler' = [j \in Jobs |-> "none"] /\ start' = [j \in Jobs |-> NotStarting]
        /\ watch' = [j \in Jobs |-> NoJob]
    BY DEF Restart, initJQScheduler
  <2>2. Stable /\ Pids' = Pids
    BY <2>1, <1>NothingChanges
  <2>3. open \in SUBSET Jobs /\ run \in SUBSET Jobs /\ open \ run \in SUBSET Jobs
    OBVIOUS
  <2>4. /\ \A j \in Jobs : j \in open <=> Submitted(j) /\ ~Finalized(j)
        /\ \A j \in Jobs : j \in run <=> Submitted(j) /\ ~Finalized(j) /\ jobStarted(file[j])
    OBVIOUS
  <2> HIDE DEF open, run
  <2>5. queue'.enqueued = open \ run /\ queue'.running = run /\ queue'.manipulated = {}
    BY <2>1
  <2>6. ASSUME NEW j \in Jobs
        PROVE  /\ handler'[j] = "none" /\ start'[j] = NotStarting /\ watch'[j] = NoJob
               /\ j \in run => mem'[j] = View(file[j])
               /\ j \in open \ run => mem'[j] = file[j]
    BY <2>1
  <2>7. Typed'
    <3>1. queue' \in [enqueued : SUBSET Jobs, running : SUBSET Jobs, manipulated : SUBSET Jobs]
      BY <2>1, <2>3
    <3>2. mem' \in [Jobs -> Job \cup Sight]
      <4>1. \A j \in Jobs : mem'[j] \in Job \cup Sight
        <5> SUFFICES ASSUME NEW j \in Jobs PROVE mem'[j] \in Job \cup Sight  OBVIOUS
        <5>1. CASE j \in run
          <6>1. Seen(j, View(file[j]))
            BY <2>4, <5>1, <1>SeenNow
          <6> QED  BY <2>6, <5>1, <6>1 DEF Seen
        <5>2. CASE j \notin run
          <6>1. file[j] \in Job /\ NoJob \in Job
            BY DEF IInv, Typed, Job
          <6>2. mem'[j] = file[j] \/ mem'[j] = NoJob
            BY <2>1, <5>2
          <6> QED  BY <6>1, <6>2
        <5> QED  BY <5>1, <5>2
      <4> QED  BY <2>1, <4>1
    <3>3. handler' \in [Jobs -> {"none", "enqueue", "cancel", "priority"}]
      BY <2>1
    <3>4. start' \in [Jobs -> StartRun] /\ watch' \in [Jobs -> {NoJob} \cup Sight]
      <4>1. 0 \in Nat
        BY SMT
      <4>2. NotStarting \in StartRun
        BY <4>1 DEF NotStarting, StartRun
      <4> QED  BY <2>1, <4>2
    <3>5. gen' \in Nat
      <4>1. gen \in Nat
        BY DEF IInv, Typed
      <4>2. gen + 1 \in Nat
        BY SMT, <4>1
      <4> QED  BY <2>1, <4>2
    <3> QED  BY <2>1, <3>1, <3>2, <3>3, <3>4, <3>5 DEF IInv, Typed
  <2>8. Limit'
    <3>1. \A j \in run : Held(j)
      <4> SUFFICES ASSUME NEW j \in run PROVE Held(j)  OBVIOUS
      <4>1. j \in Jobs /\ Submitted(j) /\ ~Finalized(j) /\ jobStarted(file[j])
        BY <2>3, <2>4
      <4> QED  BY <4>1 DEF IInv, JobInv, FileOk
    <3> QED  BY <2>3, <2>5, <3>1, <2>RestartLimit
  <2>9. PollerOk'
    <3> DEFINE todo == <<>>
    <3>1. DOMAIN todo = {}
      BY SMT
    <3>2. poller' = [phase |-> "idle", todo |-> todo, job |-> 0, got |-> NoJob]
      BY <2>1 DEF Resting
    <3> HIDE DEF todo
    <3>3. poller'.phase = "idle" /\ poller'.todo = todo /\ poller'.job = 0 /\ poller'.got = NoJob
      BY <3>2
    <3>4. \A j \in DOMAIN poller'.todo : FALSE
      BY <3>1, <3>3
    <3> QED  BY <2>5, <3>2, <3>3, <3>4 DEF PollerOk
  <2>10. ASSUME NEW j \in Jobs PROVE JobInv(j)'
    <3>1. /\ OnlyProc(j)' /\ \A p \in Pids' : procs'[p].job = j => ProcOk(j, p)'
      BY <2>1, <2>4, <2>5, <2>RestartProcs
    <3>2. StartOk(j)'
      BY <2>6, <1>StartIdle
    <3>3. CASE ~Submitted(j)
      <4>1. j \notin run /\ j \notin open /\ ~Submitted(j)'
        BY <2>1, <2>4, <3>3 DEF Submitted
      <4>2. ~Held(j)' /\ j \notin queue'.enqueued
        BY <2>5, <4>1 DEF Held
      <4>3. NoProc(j)'
        BY <2>1, <2>2, <3>3 DEF IInv, JobInv, PlaceOk, NoProc
      <4>4. PlaceOk(j)' /\ FileOk(j)'
        BY <2>6, <4>1, <4>2, <4>3 DEF PlaceOk, FileOk
      <4> QED  BY <3>1, <3>2, <4>4 DEF JobInv
    <3>4. CASE Submitted(j) /\ ~jobStarted(file[j])
      <4>1. Fresh(j) /\ ~Finalized(j)
        BY <3>4, <2>RestartQueued
      <4>2. j \in open \ run /\ j \notin run
        BY <2>4, <3>4, <4>1
      <4>3. Fresh(j)' /\ ~Held(j)' /\ mem'[j] = NewJob(j)
        BY <2>1, <2>2, <2>5, <2>6, <4>1, <4>2 DEF Fresh, NoProc, Held
      <4>4. \A k \in Deps[j] : Submitted(k)'
        BY <2>1, <3>4 DEF IInv, JobInv, FileOk, Submitted
      <4>5. start'[j] = NotStarting /\ handler'[j] = "none" /\ watch'[j] = NoJob
        BY <2>6
      <4> QED  BY <4>3, <4>4, <4>5, <1>FreshJobInv
    <3>5. CASE Submitted(j) /\ jobStarted(file[j])
      <4>1. j \in run <=> ~Finalized(j)
        BY <2>4, <3>5
      <4>2. Held(j)' <=> ~Finalized(j)
        BY <2>5, <4>1 DEF Held
      <4>3. FileOk(j)' /\ LockOf(j, file[j].livelock)'
        BY <2>1, <3>5, <4>2, <2>RestartFile
      <4>4. ASSUME Held(j)' PROVE Seen(j, mem[j])'
        <5>1. mem'[j] = View(file[j])
          BY <2>6, <4>1, <4>2, <4>4
        <5>2. Seen(j, View(file[j]))
          BY <3>5, <1>SeenNow
        <5>3. View(file[j]).livelock = file[j].livelock
          BY DEF View
        <5>4. Finalized(j) => Finalized(j)'
          BY <2>1 DEF Finalized, Submitted
        <5>5. View(file[j]) \in Sight /\ (View(file[j]).ops = <<"success">> => Finalized(j))
          BY <5>2 DEF Seen
        <5>6. mem'[j].livelock = file'[j].livelock
          BY <2>1, <5>1, <5>3
        <5>7. LockOf(j, mem[j].livelock)'
          BY <4>3, <5>6 DEF LockOf
        <5> QED  BY <5>1, <5>4, <5>5, <5>7 DEF Seen
      <4>5. j \notin queue'.enqueued
        BY <2>4, <2>5, <4>1
      <4>6. Submitted(j)' /\ handler'[j] = "none" /\ watch'[j] = NoJob
        BY <2>1, <2>6, <3>5 DEF Submitted
      <4>7. PlaceOk(j)'
        BY <4>4, <4>5, <4>6 DEF PlaceOk
      <4> QED  BY <3>1, <3>2, <4>3, <4>7 DEF JobInv
    <3> QED  BY <3>3, <3>4, <3>5
  <2> QED  BY <2>2, <2>7, <2>8, <2>9, <2>10 DEF IInv

\* The invariant holds at the start, and every step keeps it.
<1>InitIInv.
  ASSUME Init
  PROVE  IInv
  <2> USE <1>InitIInv
  <2>1. /\ file = [j \in Jobs |-> NoJob]
        /\ queue = [enqueued |-> {}, running |-> {}, manipulated |-> {}]
        /\ mem = [j \in Jobs |-> NoJob] /\ handler = [j \in Jobs |-> "none"]
        /\ start = [j \in Jobs |-> NotStarting] /\ poller = Resting
        /\ watch = [j \in Jobs |-> NoJob] /\ gen = 1 /\ procs = <<>>
    BY DEF Init
  <2>2. procs \in Seq(Proc) /\ DOMAIN procs = {} /\ gen \in Nat /\ 0 \in Nat
    BY SMT, <2>1
  <2>3. Pids = {}
    BY <2>2 DEF Pids
  <2>4. queue.enqueued = {} /\ queue.running = {} /\ queue.manipulated = {}
    BY <2>1
  <2>5. NoJob \in Job /\ NotStarting \in StartRun
    BY <2>2 DEF Job, NotStarting, StartRun
  <2>6. Typed
    <3>1. file \in [Jobs -> Job] /\ \A j \in Jobs : file[j] \in JobOf(j) \cup {NoJob}
      BY <2>1, <2>5
    <3>2. queue \in [enqueued : SUBSET Jobs, running : SUBSET Jobs, manipulated : SUBSET Jobs]
      BY <2>1
    <3>3. /\ mem \in [Jobs -> Job \cup Sight]
          /\ handler \in [Jobs -> {"none", "enqueue", "cancel", "priority"}]
          /\ start \in [Jobs -> StartRun] /\ watch \in [Jobs -> {NoJob} \cup Sight]
      BY <2>1, <2>5
    <3> QED  BY <2>2, <3>1, <3>2, <3>3 DEF Typed
  <2>7. Limit
    <3>1. Cardinality({}) = 0
      BY DEF Counting
    <3>2. 0 + 0 <= MaxRunning
      BY SMT, LimitAssumption
    <3> QED  BY <2>4, <3>1, <3>2 DEF Limit
  <2>8. PollerOk
    <3> DEFINE todo == <<>>
    <3>1. DOMAIN todo = {}
      BY SMT
    <3>2. poller = [phase |-> "idle", todo |-> todo, job |-> 0, got |-> NoJob]
      BY <2>1 DEF Resting
    <3> HIDE DEF todo
    <3>3. poller.phase = "idle" /\ poller.todo = todo /\ poller.job = 0 /\ poller.got = NoJob
      BY <3>2
    <3>4. \A j \in DOMAIN poller.todo : FALSE
      BY <3>1, <3>3
    <3> QED  BY <2>4, <3>2, <3>3, <3>4 DEF PollerOk
  <2>9. ASSUME NEW j \in Jobs PROVE JobInv(j)
    <3>1. /\ file[j] = NoJob /\ start[j] = NotStarting /\ handler[j] = "none" /\ watch[j] = NoJob
      BY <2>1
    <3>2. ~Submitted(j) /\ ~Held(j) /\ j \notin queue.enqueued /\ NoProc(j)
      BY <2>3, <2>4, <3>1 DEF Submitted, Held, NoProc
    <3>3. FileOk(j) /\ PlaceOk(j)
      BY <3>1, <3>2 DEF FileOk, PlaceOk
    <3>4. StartOk(j)
      <4>1. NotStarting.pc = "none" /\ NotStarting.pid = 0
        BY DEF NotStarting
      <4>2. start[j].pc = "none" /\ start[j].pid = 0
        BY <3>1, <4>1
      <4> QED  BY <3>1, <4>2 DEF StartOk
    <3> QED  BY <2>3, <3>3, <3>4 DEF JobInv, OnlyProc
  <2> QED  BY <2>6, <2>7, <2>8, <2>9 DEF IInv

<1>NextStep.
  ASSUME RestartAnywhere = FALSE, IInv, [Next]_vars
  PROVE  IInv' /\ Stable
  <2> USE <1>NextStep
  <2>1. CASE UNCHANGED vars
    <3>1. /\ file' = file /\ queue' = queue /\ mem' = mem /\ handler' = handler /\ start' = start
          /\ poller' = poller /\ watch' = watch /\ procs' = procs /\ gen' = gen
      BY <2>1 DEF vars, luxid
    <3>2. Stable /\ ProcsKept /\ Pids' = Pids
      BY <3>1, <1>NothingChanges
    <3>3. PollerOk'
      BY <3>1, <3>2, <1>Apart, <1>PollerKept
    <3> QED  BY <3>1, <3>3, <1>QuietStep
  <2>2. CASE \E j \in Jobs : \/ SubmitJob(j) \/ CancelQueued(j) \/ cancelJob(j)
                            \/ setJobPriority(j) \/ Handling(j)
    BY <2>2, <1>RequestStep
  <2>3. CASE \E j \in Jobs : Starting(j)
    BY <2>3, <1>StartingStep
  <2>4. CASE \E j \in Jobs : WatchRead(j) \/ WatchUpdate(j)
    BY <2>4, <1>NoticeStep
  <2>5. CASE Poll
    BY <2>5, <1>NoticeStep, <1>SchedulerStep DEF Poll
  <2>6. CASE Cleanup \/ Schedule
    BY <2>6, <1>SchedulerStep
  <2>7. CASE \E p \in Pids : Process(p) \/ Crash(p)
    BY <2>7, <1>ProcessStep
  <2>8. CASE Restart
    <3>1. Restartable
      BY <2>8 DEF Restart
    <3> QED  BY <2>8, <3>1, <1>RestartStep
  <2> QED  BY <2>1, <2>2, <2>3, <2>4, <2>5, <2>6, <2>7, <2>8 DEF Next

\* A process that executes a job is its only one, and the job is running.
<1>Executor.
  ASSUME IInv, NEW p \in Pids, NEW j \in Jobs, procs[p].job = j, Executing(p)
  PROVE  /\ procs[p].pc \in AtWork \cup {"started"}
         /\ start[j] = NotStarting /\ handler[j] = "none" /\ Submitted(j)
         /\ j \notin queue.enqueued /\ j \in queue.running
         /\ \A q \in Pids : procs[q].job = j => q = p
  <2> USE <1>Executor
  <2>1. procs[p].pc \in AtWork \cup {"started"}
    BY DEF Executing, AtWork
  <2>2. /\ start[j] = NotStarting /\ handler[j] = "none" /\ Submitted(j) /\ j \notin queue.enqueued
        /\ \A q \in Pids : procs[q].job = j => q = p
    BY <2>1, <1>Alone
  <2>3. j \in queue.running
    <3>1. CASE procs[p].pc = "started"
      BY <3>1 DEF IInv, JobInv, ProcOk
    <3>2. CASE procs[p].pc # "started"
      <4>1. procs[p].pc \in AtWork /\ ~jobFinalized(procs[p].copy)
        BY <3>2 DEF Executing, AtWork
      <4> QED  BY <4>1, <1>Working
    <3> QED  BY <3>1, <3>2
  <2> QED  BY <2>1, <2>2, <2>3

<1>OneAtATime.
  ASSUME IInv
  PROVE  OneExecutor
  <2> USE <1>OneAtATime
  <2> SUFFICES ASSUME NEW j \in Jobs
               PROVE  /\ Cardinality(Executors(j)) <= 1
                      /\ j \in queue.enqueued => Executors(j) = {}
    BY DEF OneExecutor
  <2>1. CASE Executors(j) = {}
    <3>1. Cardinality({}) = 0
      BY DEF Counting
    <3>2. 0 <= 1
      BY SMT
    <3> QED  BY <2>1, <3>1, <3>2
  <2>2. CASE Executors(j) # {}
    <3>1. PICK p \in Executors(j) : TRUE
      BY <2>2
    <3>2. p \in Pids /\ procs[p].job = j /\ Executing(p)
      BY <3>1 DEF Executors
    <3>3. j \notin queue.enqueued /\ \A q \in Pids : procs[q].job = j => q = p
      BY <3>2, <1>Executor
    <3>4. Executors(j) = {p}
      BY <3>1, <3>3 DEF Executors
    <3>5. Cardinality({p}) = 1
      BY DEF Counting
    <3>6. 1 <= 1
      BY SMT
    <3> QED  BY <3>3, <3>4, <3>5, <3>6
  <2> QED  BY <2>1, <2>2

<1>NotTooMany.
  ASSUME IInv
  PROVE  ExecutionLimit
  <2> USE <1>NotTooMany
  <2> DEFINE S == {p \in Pids : Executing(p)}
             f == [p \in S |-> procs[p].job]
  <2>1. \A p \in S : p \in Pids /\ Executing(p) /\ procs[p].job \in Jobs
    BY <1>ProcTyped
  <2>2. \A p \in S : procs[p].job \in queue.running
    BY <2>1, <1>Executor
  <2>3. \A p, q \in S : procs[p].job = procs[q].job => p = q
    <3> SUFFICES ASSUME NEW p \in S, NEW q \in S, procs[p].job = procs[q].job PROVE p = q
      OBVIOUS
    <3>1. PICK j \in Jobs : j = procs[q].job
      BY <2>1
    <3>2. q \in Pids /\ Executing(q) /\ p \in Pids
      OBVIOUS
    <3>3. \A r \in Pids : procs[r].job = j => r = q
      BY <3>1, <3>2, <1>Executor
    <3> QED  BY <3>1, <3>2, <3>3
  <2>4. f \in Injection(S, queue.running)
    BY <2>2, <2>3 DEF Injection, IsInjective
  <2>5. IsFiniteSet(queue.running) /\ Cardinality(queue.running) \in Nat
        /\ Cardinality(queue.manipulated) \in Nat
        /\ Cardinality(queue.running) + Cardinality(queue.manipulated) <= MaxRunning
    BY <1>QueueFinite DEF IInv, Limit
  <2> HIDE DEF S, f
  <2>6. IsFiniteSet(S) /\ Cardinality(S) <= Cardinality(queue.running)
    BY <2>4, <2>5 DEF Counting
  <2>7. Cardinality(S) \in Nat
    BY <2>6 DEF Counting
  <2>8. Cardinality(S) <= MaxRunning
    BY SMTT(30), <2>5, <2>6, <2>7, LimitAssumption
  <2> QED  BY <2>8 DEF ExecutionLimit, S

<1>DepsMet.
  ASSUME IInv
  PROVE  DependenciesMet
  <2> USE <1>DepsMet
  <2> SUFFICES ASSUME NEW p \in Pids, procs[p].pc = "exec", NEW k \in Deps[procs[p].job]
               PROVE  calcJobStatus(file[k].ops) = "success"
    BY DEF DependenciesMet
  <2>1. PICK j \in Jobs : procs[p].job = j
    BY <1>ProcTyped
  <2> DEFINE copy == procs[p].copy
  <2>2. procs[p].pc \in AtWork
    BY DEF AtWork
  <2>3. /\ copy \in JobOf(j) /\ Regular(copy.ops)
        /\ copy.ops[1] \in {"running", "success"} => Met(j)
    BY <2>1, <2>2, <1>Working
  <2>4. Open(copy.ops) /\ copy.ops[FindNextOpcode(copy)] = "running"
    BY <2>1 DEF IInv, JobInv, ProcOk
  <2> HIDE DEF copy
  <2>5. "running" \in {"waiting", "running", "success"}
    OBVIOUS
  <2>6. FindNextOpcode(copy) # 1 => copy.ops[1] = "success"
    BY <2>3, <2>4, <2>5, <1>ChangedJob
  <2>7. Met(j)
    BY <2>3, <2>4, <2>6
  <2> QED  BY <2>1, <2>7 DEF Met

\* Who writes a job in the hands of luxid.
<1>WritesRight.
  IInv /\ Next => \A j \in Jobs : LuxidWrites(j) => Executors(j) = {}
  <2>StepPc.
    ASSUME IInv, NEW p \in Pids, NEW pc, NEW copy, Step(p, pc, copy), procs' = procs
    PROVE  procs[p].pc = pc
    <3> USE <2>StepPc
    <3> DEFINE r == [procs[p] EXCEPT !.pc = pc, !.copy = copy]
    <3>1. procs \in [Pids -> Proc] /\ procs[p] \in Proc
      BY <1>ProcTyped
    <3>2. procs' = [procs EXCEPT ![p] = r]
      BY <3>1 DEF Step
    <3>3. r.pc = pc
      BY <3>1 DEF Proc
    <3> HIDE DEF r
    <3>4. procs'[p] = r
      BY <3>1, <3>2
    <3> QED  BY <3>3, <3>4

  \* A process that writes its job goes on to another state.
  <2>ProcessWrites.
    ASSUME IInv, NEW p \in Pids, Process(p) \/ Crash(p), procs' = procs
    PROVE  file' = file
    <3> USE <2>ProcessWrites
    <3>1. CASE PipeBroken(p) \/ SafeLoadJobFromDisk(p) \/ NotifyRetry(p) \/ Exit(p) \/ Crash(p)
      BY <3>1 DEF PipeBroken, SafeLoadJobFromDisk, NotifyRetry, Exit, Crash
    <3>2. ASSUME NEW job, NEW status, Finish(p, job, status), procs[p].pc \in AtWork PROVE FALSE
      <4>1. procs[p].pc = "exiting"
        BY <3>2, <2>StepPc DEF Finish
      <4> QED  BY <3>2, <4>1 DEF AtWork
    <3>3. ASSUME NEW pc, NEW copy, Step(p, pc, copy) PROVE procs[p].pc = pc
      BY <3>3, <2>StepPc
    <3>4. CASE MarkWaitlock(p)
      <4>1. procs[p].pc \in {"ready", "loop"} /\ procs[p].pc \in AtWork
        BY <3>4 DEF MarkWaitlock, AtWork
      <4> QED  BY <3>2, <3>3, <3>4, <4>1 DEF MarkWaitlock
    <3>5. CASE CheckDependencies(p)
      <4>1. procs[p].pc \in AtWork
        BY <3>5 DEF CheckDependencies, AtWork
      <4> QED  BY <3>2, <3>5, <4>1 DEF CheckDependencies
    <3>6. CASE LockAcquireTimeout(p)
      <4>1. procs[p].pc = "waiting" /\ Step(p, "loop", procs[p].copy)
        BY <3>6 DEF LockAcquireTimeout
      <4>2. procs[p].pc = "loop"
        BY <3>3, <4>1
      <4> QED  BY <4>1, <4>2
    <3>7. CASE NotifyStart(p)
      <4>1. procs[p].pc = "waiting" /\ \E copy : Step(p, "exec", copy)
        BY <3>7 DEF NotifyStart
      <4>2. procs[p].pc = "exec"
        BY <3>3, <4>1
      <4> QED  BY <4>1, <4>2
    <3>8. CASE OpSuccess(p)
      <4>1. procs[p].pc = "exec" /\ \E copy : Step(p, "exiting", copy) \/ Step(p, "loop", copy)
        BY <3>8 DEF OpSuccess
      <4>2. procs[p].pc \in {"exiting", "loop"}
        BY <3>3, <4>1
      <4> QED  BY <4>1, <4>2
    <3>9. CASE OpError(p)
      <4>1. procs[p].pc \in AtWork /\ Finish(p, procs[p].copy, "error")
        BY <3>9 DEF OpError, AtWork
      <4> QED  BY <3>2, <4>1
    <3>10. CASE CancelJob(p)
      <4> DEFINE job == Cancel(file[procs[p].job])
                 r == [procs[p] EXCEPT !.pc = "ready", !.cancel = FALSE, !.copy = job]
      <4>1. procs[p].pc = "loop" /\ procs' = [procs EXCEPT ![p] = r]
        BY <3>10 DEF CancelJob
      <4>2. procs \in [Pids -> Proc] /\ procs[p] \in Proc
        BY <1>ProcTyped
      <4> HIDE DEF job
      <4>3. r.pc = "ready"
        BY <4>2 DEF Proc
      <4> HIDE DEF r
      <4>4. procs'[p] = r
        BY <4>1, <4>2
      <4> QED  BY <4>1, <4>3, <4>4
    <3> QED  BY <3>1, <3>4, <3>5, <3>6, <3>7, <3>8, <3>9, <3>10 DEF Process

  <2>FileElsewhere.
    ASSUME IInv, NEW i \in Jobs, NEW job, file' = [file EXCEPT ![i] = job],
           NEW j \in Jobs, file'[j] # file[j]
    PROVE  j = i
    <3> USE <2>FileElsewhere
    <3>1. file \in [Jobs -> Job]
      BY DEF IInv, Typed
    <3> QED  BY <3>1

  \* A job that luxid has in its hands is not executed.
  <2>NotExecuted.
    ASSUME IInv, NEW j \in Jobs,
           \/ ~Submitted(j) \/ handler[j] # "none" \/ start[j].pc # "none"
           \/ AllDead(j)
    PROVE  Executors(j) = {}
    <3> USE <2>NotExecuted
    <3> SUFFICES ASSUME NEW p \in Executors(j) PROVE FALSE
      OBVIOUS
    <3>1. p \in Pids /\ procs[p].job = j /\ Executing(p)
      BY DEF Executors
    <3>2. /\ procs[p].pc \in AtWork \cup {"started"}
          /\ start[j] = NotStarting /\ handler[j] = "none" /\ Submitted(j)
      BY ZenonT(60), <3>1, <1>Executor
    <3>3. NotStarting.pc = "none"
      BY DEF NotStarting
    <3>4. start[j].pc = "none"
      BY <3>2, <3>3
    <3> QED  BY <3>1, <3>2, <3>4 DEF AllDead, AtWork

  <2>LuxidWritesRight.
    ASSUME IInv, Next, NEW j \in Jobs, file'[j] # file[j], procs' = procs
    PROVE  Executors(j) = {}
    <3> USE <2>LuxidWritesRight
    <3>1. ASSUME NEW i \in Jobs,
                 \/ SubmitJob(i) \/ CancelQueued(i) \/ cancelJob(i) \/ setJobPriority(i)
                 \/ Handling(i) \/ Starting(i) \/ WatchRead(i) \/ WatchUpdate(i)
          PROVE  Executors(j) = {}
      <4>1. CASE SubmitJob(i)
        <5>1. ~Submitted(i) /\ file' = [file EXCEPT ![i] = NewJob(i)]
          BY <4>1 DEF SubmitJob
        <5>2. j = i
          BY <5>1, <2>FileElsewhere
        <5> QED  BY <5>1, <5>2, <2>NotExecuted
      <4>2. CASE CancelWrite(i) \/ PriorityWrite(i)
        <5>1. handler[i] # "none" /\ \E job : file' = [file EXCEPT ![i] = job]
          BY <4>2 DEF CancelWrite, PriorityWrite
        <5>2. j = i
          BY <5>1, <2>FileElsewhere
        <5> QED  BY <5>1, <5>2, <2>NotExecuted
      <4>3. CASE startJob(i) \/ SetLivelock(i) \/ FailWrite(i)
        <5>1. start[i].pc # "none" /\ \E job : file' = [file EXCEPT ![i] = job]
          BY <4>3 DEF startJob, SetLivelock, FailWrite, WriteLivelock
        <5>2. j = i
          BY <5>1, <2>FileElsewhere
        <5> QED  BY <5>1, <5>2, <2>NotExecuted
      <4>4. CASE \/ CancelQueued(i) \/ cancelJob(i) \/ setJobPriority(i) \/ enqueueNewJobs(i)
                 \/ WatchRead(i) \/ WatchUpdate(i)
        BY <4>4 DEF CancelQueued, cancelJob, setJobPriority, rmJob, enqueueNewJobs,
                           WatchRead, WatchUpdate
      <4>5. CASE spawnJobProcess(i) \/ Handover(i) \/ StartFails(i) \/ failJobs(i)
        BY <4>5 DEF spawnJobProcess, Handover, StartFails, failJobs
      <4> QED  BY <3>1, <4>1, <4>2, <4>3, <4>4, <4>5 DEF Handling, Starting
    <3>2. CASE ManipulateDead
      <4>1. /\ poller.phase = "manipulate"
            /\ file' = IF jobFinalized(file[poller.job]) THEN file
                       ELSE [file EXCEPT ![poller.job] = failQueuedJob(file[poller.job])]
        BY <3>2 DEF ManipulateDead
      <4>2. poller.job \in Jobs /\ (Finalized(poller.job) \/ AllDead(poller.job))
        BY <4>1 DEF IInv, PollerOk
      <4>3. PICK i \in Jobs : i = poller.job
        BY <4>2
      <4>4. ~jobFinalized(file[i]) /\ file' = [file EXCEPT ![i] = failQueuedJob(file[i])]
        BY <4>1, <4>3
      <4>5. j = i
        BY <4>4, <2>FileElsewhere
      <4>6. AllDead(i)
        BY <4>2, <4>3, <4>4 DEF Finalized
      <4> QED  BY <4>5, <4>6, <2>NotExecuted
    <3>3. CASE \/ PollBegin \/ PollUpdates \/ updateJob \/ PollEnd
               \/ \E i \in Jobs : checkForDeath(i) \/ readJobStatus(i)
      BY <3>3 DEF PollBegin, PollUpdates, updateJob, PollEnd, checkForDeath, readJobStatus
    <3>4. CASE Cleanup \/ Schedule \/ Restart
      BY <3>4 DEF Cleanup, Schedule, Restart
    <3>5. CASE \E p \in Pids : Process(p) \/ Crash(p)
      BY <3>5, <2>ProcessWrites
    <3> QED  BY <3>1, <3>2, <3>3, <3>4, <3>5 DEF Next, Poll

  <2> QED  BY <2>LuxidWritesRight DEF LuxidWrites

<1> QED  BY <1>InitIInv, <1>NextStep, <1>OneAtATime, <1>NotTooMany, <1>DepsMet, <1>WritesRight

-----------------------------------------------------------------------------
(* The theorems.                                                           *)

INSTANCE FiniteSetTheorems

\* What lemma Core assumes of the natural numbers.
LEMMA NatWellOrdered == WellOrdered
<1> SUFFICES ASSUME NEW S, S \subseteq Nat, S # {}
             PROVE  \E x \in S : \A y \in S : x <= y
  BY DEF WellOrdered
<1> DEFINE Less == {r \in Nat \X Nat : r[1] < r[2]}
<1>1. IsWellFoundedOn(Less, Nat)
  BY SMT, NatLessThanWellFounded DEF OpToRel
<1>2. PICK x \in S : \A y \in S : ~(<<y, x>> \in Less)
  BY <1>1, WFMin
<1>3. \A y \in S : x <= y
  <2> SUFFICES ASSUME NEW y \in S PROVE x <= y  OBVIOUS
  <2>1. ~(<<y, x>> \in Less) /\ x \in Nat /\ y \in Nat
    BY <1>2
  <2>2. ~(y < x)
    BY SMT, <2>1
  <2> QED  BY SMT, <2>1, <2>2
<1> QED  BY <1>3

\* What lemma Core assumes of finite sets.
LEMMA FiniteCounting == Counting
<1>1. \A S : IsFiniteSet(S) => Cardinality(S) \in Nat
  BY FS_CardinalityType
<1>2. Cardinality({}) = 0 /\ \A x : Cardinality({x}) = 1
  BY FS_EmptySet, FS_Singleton
<1>3. \A S : IsFiniteSet(S) =>
        \A R \in SUBSET S : IsFiniteSet(R) /\ Cardinality(R) <= Cardinality(S)
  BY FS_Subset
<1>4. \A S, R : IsFiniteSet(S) /\ IsFiniteSet(R) =>
        /\ IsFiniteSet(S \cup R)
        /\ Cardinality(S \cup R) = Cardinality(S) + Cardinality(R) - Cardinality(S \cap R)
  BY FS_Union
<1>5. \A S, x : IsFiniteSet(S) =>
        /\ Cardinality(S \cup {x}) = IF x \in S THEN Cardinality(S) ELSE Cardinality(S) + 1
        /\ Cardinality(S \ {x}) = IF x \in S THEN Cardinality(S) - 1 ELSE Cardinality(S)
  BY FS_AddElement, FS_RemoveElement
<1>6. \A S, R : IsFiniteSet(R) => \A f \in Injection(S, R) :
        IsFiniteSet(S) /\ Cardinality(S) <= Cardinality(R)
  BY FS_Injection
<1> QED  BY <1>1, <1>2, <1>3, <1>4, <1>5, <1>6 DEF Counting

\* The inductive invariant holds, unless luxid is restarted while the file of a
\* job that has a process says that it is queued.
THEOREM Invariance ==
  ASSUME RestartAnywhere = FALSE
  PROVE  Spec => []IInv
<1>1. Init => IInv
  BY NatWellOrdered, FiniteCounting, Core
<1>2. IInv /\ [Next]_vars => IInv'
  BY NatWellOrdered, FiniteCounting, Core
<1> QED  BY <1>1, <1>2, PTL DEF Spec

\* However requests, threads of luxid, crashes and restarts interleave, a job has
\* never two processes that execute it, and none while it is in the queue: the
\* livelock in its file keeps a second one from being started.
THEOREM SingleExecutor ==
  ASSUME RestartAnywhere = FALSE
  PROVE  Spec => []OneExecutor
<1>1. IInv => OneExecutor
  BY NatWellOrdered, FiniteCounting, Core
<1>2. Spec => []IInv
  BY Invariance
<1> QED  BY <1>1, <1>2, PTL

\* The limit of the cluster holds for what is really executed, not just for what
\* luxid remembers: each process that executes a job stands for a running one.
THEOREM LimitKept ==
  ASSUME RestartAnywhere = FALSE
  PROVE  Spec => []ExecutionLimit
<1>1. IInv => ExecutionLimit
  BY NatWellOrdered, FiniteCounting, Core
<1>2. Spec => []IInv
  BY Invariance
<1> QED  BY <1>1, <1>2, PTL

\* No opcode runs before the jobs its job depends on were successful, although
\* the scheduler may start the job before they ended: the process looks at their
\* files before it marks its first opcode as running.
THEOREM DependenciesFirst ==
  ASSUME RestartAnywhere = FALSE
  PROVE  Spec => []DependenciesMet
<1>1. IInv => DependenciesMet
  BY NatWellOrdered, FiniteCounting, Core
<1>2. Spec => []IInv
  BY Invariance
<1> QED  BY <1>1, <1>2, PTL

\* Once the file of a job says that it ended, no write of any of the parties that
\* write job files changes the outcome.
THEOREM OutcomeKept ==
  ASSUME RestartAnywhere = FALSE
  PROVE  Spec => OutcomeStable
<1>1. IInv /\ [Next]_vars => [\A j \in Jobs : Finalized(j) => file'[j].ops = file[j].ops]_vars
  <2>1. IInv /\ [Next]_vars => Stable
    BY NatWellOrdered, FiniteCounting, Core
  <2> QED  BY <2>1 DEF Stable
<1>2. Spec => []IInv
  BY Invariance
<1> QED  BY <1>1, <1>2, PTL DEF Spec, OutcomeStable

\* luxid writes the file of a job only while nobody executes it.  So what death
\* detection, a failed start, a cancellation or a change of priority writes never
\* overwrites the progress of a process.
THEOREM FileLeftAlone ==
  ASSUME RestartAnywhere = FALSE
  PROVE  Spec => HandsOff
<1>1. IInv /\ [Next]_vars => [\A j \in Jobs : LuxidWrites(j) => Executors(j) = {}]_vars
  BY NatWellOrdered, FiniteCounting, Core
<1>2. Spec => []IInv
  BY Invariance
<1> QED  BY <1>1, <1>2, PTL DEF Spec, HandsOff

=============================================================================
