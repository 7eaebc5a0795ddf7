---------------------------- MODULE WConfdProofs ----------------------------
(***************************************************************************)
(* The threads that WConfd keeps running beside the RPCs it serves: the    *)
(* death detection (Livelock), a worker that writes state to disk          *)
(* (AsyncWorker), and the workers that save and distribute the             *)
(* configuration (ConfigDistribution).  They share no state here; the      *)
(* module holds the theorems about the three of them, one after the other. *)
(***************************************************************************)
EXTENDS Livelock, AsyncWorker, ConfigDistribution, TLAPS

(***************************************************************************)
(* Death detection releases nothing of a process that managed to lock its  *)
(* file, whatever the processes and however many there are.                *)
(***************************************************************************)
LivelockInv == TypeOK /\ Evidence /\ CleanupJustified /\ SelfAlive

\* The invariant holds initially.
LEMMA LivelockInit == Init => LivelockInv
<1> SUFFICES ASSUME Init PROVE LivelockInv
  BY Zenon
<1>1. TypeOK
  BY Zenon, ProcAssumption DEF Init, TypeOK
<1>2. Evidence /\ CleanupJustified
  BY Zenon, ProcAssumption DEF Init, Evidence, CleanupJustified
<1>3. SelfAlive
  BY Zenon, ProcAssumption DEF Init, SelfAlive
<1> QED  BY Zenon, <1>1, <1>2, <1>3 DEF LivelockInv

\* Every step of a process preserves the invariant.
LEMMA ProcessStep ==
  ASSUME LivelockInv, NEW p \in Proc, Process(p)
  PROVE  LivelockInv'
<1> USE ProcAssumption
<1> USE DEF LivelockInv, TypeOK, Evidence, CleanupJustified, SelfAlive, cleaner
<1>1. CASE Create(p)
  BY <1>1 DEF Create
<1>2. CASE Lock(p)
  BY <1>2 DEF Lock, ProbeHolds
<1>3. CASE LockFails(p)
  BY ZenonT(60), <1>3 DEF LockFails, ProbeHolds
<1>4. CASE Acquire(p)
  BY <1>4 DEF Acquire
<1>5. CASE Free(p)
  BY <1>5 DEF Free
<1>6. CASE Exit(p)
  BY <1>6 DEF Exit
<1>7. CASE Die(p)
  BY <1>7 DEF Die
<1>8. QED
  BY Zenon, <1>1, <1>2, <1>3, <1>4, <1>5, <1>6, <1>7 DEF Process

\* Every step of the death detection thread preserves the invariant.
LEMMA DetectStep ==
  ASSUME LivelockInv, Detect
  PROVE  LivelockInv'
<1> USE ProcAssumption
<1> USE DEF LivelockInv, TypeOK, Evidence, CleanupJustified, SelfAlive
<1>1. CASE NextPhase
  BY Zenon, <1>1 DEF NextPhase
<1>2. CASE Pick
  BY Zenon, <1>2 DEF Pick
<1>3. CASE DoesFileExist
  BY Zenon, <1>3 DEF DoesFileExist, died
<1>4. CASE OpenAndLock
  BY Zenon, <1>4 DEF OpenAndLock
<1>5. CASE Close
  BY ZenonT(60), <1>5 DEF Close, died
<1>6. CASE Cleanup
  BY Zenon, <1>6 DEF Cleanup
<1>7. CASE RemoveFile
  BY <1>7 DEF RemoveFile
<1>8. QED
  BY Zenon, <1>1, <1>2, <1>3, <1>4, <1>5, <1>6, <1>7 DEF Detect

\* The evidence about processes is right in every reachable state.
THEOREM LivelockInvariant == Spec => []LivelockInv
<1>1. LivelockInv /\ [Next]_vars => LivelockInv'
  <2> SUFFICES ASSUME LivelockInv, [Next]_vars PROVE LivelockInv'
    BY Zenon
  <2>1. CASE UNCHANGED vars
    BY Zenon, <2>1 DEF vars, cleaner, LivelockInv, TypeOK, Evidence, CleanupJustified,
                SelfAlive
  <2>2. QED
    BY Zenon, <2>1, ProcessStep, DetectStep DEF Next
<1>2. QED
  BY <1>1, LivelockInit, PTL DEF Spec

(***************************************************************************)
(* WConfd releases the locks of a process only if the process is dead or   *)
(* exiting, or if its file was removed before it was locked.               *)
(***************************************************************************)
THEOREM ReleasesJustified == Spec => []CleanupJustified
<1>1. LivelockInv => CleanupJustified
  BY Zenon DEF LivelockInv
<1>2. QED
  BY <1>1, LivelockInvariant, PTL

\* WConfd never drops the lock on its own livelock file.
THEOREM SelfStaysAlive == Spec => []SelfAlive
<1>1. LivelockInv => SelfAlive
  BY Zenon DEF LivelockInv
<1>2. QED
  BY <1>1, LivelockInvariant, PTL

-----------------------------------------------------------------------------
(***************************************************************************)
(* Safety of the worker for any set of clients and any number of changes.  *)
(***************************************************************************)
WorkerInv == WorkerTypeOK /\ NoLostTrigger /\ WaiterServed /\ RunCovers /\ Durable

(***************************************************************************)
(* Every step of a client or of the worker preserves the invariant.        *)
(***************************************************************************)
LEMMA WorkerStep == WorkerInv /\ [WorkerNext]_workerVars => WorkerInv'
<1> SUFFICES ASSUME WorkerInv, [WorkerNext]_workerVars
             PROVE  WorkerInv'
  BY Zenon
<1> USE DEF WorkerInv, WorkerTypeOK
<1>1. ASSUME NEW c \in Client, Modify(c) PROVE WorkerInv'
  BY <1>1 DEF Modify, NoLostTrigger, WaiterServed, RunCovers, Durable
<1>2. ASSUME NEW c \in Client, TriggerWithResult(c) PROVE WorkerInv'
  <2>1. /\ ref' \in TriggerState
        /\ ref'.kind = "Pending"
        /\ ref'.input = ref.input \cup {c}
        /\ ref'.recipients = ref.recipients \cup {c}
    BY <1>2 DEF TriggerWithResult, addTrigger, TriggerState, Idle
  <2>2. WorkerTypeOK'
    BY Zenon, <1>2, <2>1 DEF TriggerWithResult
  <2>3. NoLostTrigger'
    BY Zenon, <1>2, <2>1 DEF TriggerWithResult, NoLostTrigger
  <2>4. WaiterServed'
    BY Zenon, <1>2, <2>1 DEF TriggerWithResult, WaiterServed, RunCovers
  <2>5. RunCovers'
    BY ZenonT(60), <1>2, <2>1 DEF TriggerWithResult, RunCovers, WaiterServed, Durable
  <2>6. Durable'
    BY Zenon, <1>2, <2>1 DEF TriggerWithResult, Durable, RunCovers
  <2>7. QED
    BY Zenon, <2>2, <2>3, <2>4, <2>5, <2>6
<1>3. ASSUME NEW c \in Client, Trigger(c) PROVE WorkerInv'
  <2>1. /\ ref' \in TriggerState
        /\ ref'.kind = "Pending"
        /\ ref'.input = ref.input \cup {c}
        /\ ref'.recipients = ref.recipients
    BY <1>3 DEF Trigger, addTrigger, TriggerState, Idle
  <2>2. WorkerTypeOK'
    BY Zenon, <1>3, <2>1 DEF Trigger
  <2>3. NoLostTrigger'
    BY Zenon, <1>3, <2>1 DEF Trigger, NoLostTrigger
  <2>4. WaiterServed'
    BY Zenon, <1>3, <2>1 DEF Trigger, WaiterServed, RunCovers
  <2>5. RunCovers'
    BY Zenon, <1>3, <2>1 DEF Trigger, RunCovers, WaiterServed, Durable
  <2>6. Durable'
    BY Zenon, <1>3, <2>1 DEF Trigger, Durable, RunCovers
  <2>7. QED
    BY Zenon, <2>2, <2>3, <2>4, <2>5, <2>6
<1>4. ASSUME NEW c \in Client, TryPut(c) PROVE WorkerInv'
  BY <1>4 DEF TryPut, NoLostTrigger, WaiterServed, RunCovers, Durable
<1>5. ASSUME NEW c \in Client, Wait(c) PROVE WorkerInv'
  BY <1>5 DEF Wait, NoLostTrigger, WaiterServed, RunCovers, Durable
<1>6. ASSUME TakeTrig PROVE WorkerInv'
  BY Zenon, <1>6 DEF TakeTrig, NoLostTrigger, WaiterServed, RunCovers, Durable
<1>7. ASSUME SwapRef PROVE WorkerInv'
  BY ZenonT(60), <1>7 DEF SwapRef, NoLostTrigger, WaiterServed, RunCovers, Durable,
              TriggerState, Idle
<1>8. ASSUME ReadState PROVE WorkerInv'
  BY <1>8 DEF ReadState, NoLostTrigger, WaiterServed, RunCovers, Durable
<1>9. ASSUME WriteState PROVE WorkerInv'
  BY <1>9 DEF WriteState, NoLostTrigger, WaiterServed, RunCovers, Durable
<1>10. ASSUME WriteFails PROVE WorkerInv'
  BY <1>10 DEF WriteFails, NoLostTrigger, WaiterServed, RunCovers, Durable,
               TriggerState, Idle
<1>11. ASSUME Answer PROVE WorkerInv'
  <2>1. CASE run.recipients = {} /\ run' = Idle /\ wpc' = "take" /\ UNCHANGED result
    BY Zenon, <1>11, <2>1 DEF Answer, NoLostTrigger, WaiterServed, RunCovers, Durable,
                       TriggerState, Idle
  <2>2. ASSUME NEW c \in run.recipients,
               result' = [result EXCEPT ![c] = TRUE],
               run' = [run EXCEPT !.recipients = @ \ {c}],
               wpc' = wpc
        PROVE  WorkerInv'
    <3>1. /\ run' \in TriggerState
          /\ run'.input = run.input
          /\ run'.recipients = run.recipients \ {c}
          /\ c \in Client
      BY <2>2 DEF TriggerState, Idle
    <3>2. WorkerTypeOK'
      BY Zenon, <1>11, <2>2, <3>1 DEF Answer
    <3>3. NoLostTrigger'
      BY Zenon, <1>11, <2>2 DEF Answer, NoLostTrigger
    <3>4. WaiterServed'
      BY <1>11, <2>2, <3>1 DEF Answer, WaiterServed
    <3>5. RunCovers'
      BY <1>11, <2>2, <3>1 DEF Answer, RunCovers
    <3>6. Durable'
      BY <1>11, <2>2, <3>1 DEF Answer, Durable, RunCovers
    <3>7. QED
      BY Zenon, <3>2, <3>3, <3>4, <3>5, <3>6
  <2>3. QED
    BY Zenon, <1>11, <2>1, <2>2 DEF Answer
<1>12. CASE UNCHANGED workerVars
  BY Zenon, <1>12 DEF workerVars, NoLostTrigger, WaiterServed, RunCovers, Durable
<1>13. QED
  BY Zenon, <1>1, <1>2, <1>3, <1>4, <1>5, <1>6, <1>7, <1>8, <1>9, <1>10, <1>11,
     <1>12 DEF WorkerNext, Worker, ClientStep

\* The invariant holds initially.
LEMMA WorkerInitially == WorkerInit => WorkerInv
  BY
     DEF WorkerInit, WorkerInv, WorkerTypeOK, NoLostTrigger, WaiterServed, RunCovers, Durable,
         TriggerState, Idle

\* Types and the bookkeeping of requests are right in every reachable state.
THEOREM WorkerInvariant == WorkerSpec => []WorkerInv
  BY WorkerInitially, WorkerStep, PTL DEF WorkerSpec

(***************************************************************************)
(* When triggerAndWait returns, the caller's change is on disk, unless     *)
(* writing failed.                                                         *)
(***************************************************************************)
THEOREM Durability == WorkerSpec => []Durable
<1>1. WorkerInv => Durable
  BY Zenon DEF WorkerInv
<1>2. QED
  BY <1>1, WorkerInvariant, PTL

\* Pending triggers always have somebody who makes the worker look at them.
THEOREM TriggersSurvive == WorkerSpec => []NoLostTrigger
<1>1. WorkerInv => NoLostTrigger
  BY Zenon DEF WorkerInv
<1>2. QED
  BY <1>1, WorkerInvariant, PTL

\* Whoever waits for a result is on the list of a pending or current run.
THEOREM WaitersListed == WorkerSpec => []WaiterServed
<1>1. WorkerInv => WaiterServed
  BY Zenon DEF WorkerInv
<1>2. QED
  BY <1>1, WorkerInvariant, PTL

\* The state on disk never gets older.
THEOREM NeverOlder == WorkerSpec => DiskMonotone
<1>1. WorkerInv /\ [WorkerNext]_workerVars => [disk <= disk']_workerVars
  <2> SUFFICES ASSUME WorkerInv, WorkerNext PROVE disk <= disk'
    BY Zenon DEF workerVars
  <2>1. CASE WriteState
    BY Zenon, <2>1 DEF WriteState, WorkerInv, RunCovers
  <2>2. CASE UNCHANGED disk
    BY <2>2 DEF WorkerInv, WorkerTypeOK
  <2>3. QED
    BY Zenon, <2>1, <2>2 DEF WorkerNext, Worker, ClientStep, TakeTrig, SwapRef, ReadState,
                      WriteFails, Answer, Modify, TriggerWithResult, Trigger,
                      TryPut, Wait
<1>2. QED
  BY <1>1, WorkerInvariant, PTL DEF WorkerSpec, DiskMonotone


-----------------------------------------------------------------------------
(***************************************************************************)
(* What a call that changes the configuration may rely on when it returns, *)
(* for any number of callers, node groups, changes and failures.           *)
(*                                                                         *)
(* The argument follows a call through the chain of workers.  Each of its  *)
(* stages is tied to a serial number: the one in memory, then the one the  *)
(* save worker has read, the one in the file, the one a distribution       *)
(* worker has read, and at last the ones on the nodes.  None of them ever  *)
(* decreases, because a stage is only ever written from the one before it. *)
(***************************************************************************)

Request(S) == [on : BOOLEAN, flush : BOOLEAN, target : SUBSET Group, waiters : SUBSET S]

SaveRun == [step : {"idle", "read", "write", "distribute", "wait", "answer"},
            req : Request(Caller), read : Nat, await : SUBSET Kind]
DistRun == [step : {"idle", "read", "rpc", "answer"}, req : Request({"save"}), read : Nat]

Typed ==
  /\ config \in Nat /\ file \in Nat /\ oldssc \in Int
  /\ node \in [Kind -> [Group -> Nat]]
  /\ saveRef \in Request(Caller)
  /\ save \in SaveRun /\ dist \in [Kind -> DistRun]
  /\ distRef \in [Kind -> Request({"save"})]
  /\ pc \in [Caller -> {"idle", "modified", "waiting", "returned"}]
  /\ wanted \in [Caller -> Nat] /\ everywhere \in [Caller -> BOOLEAN]

\* What a distribution worker reads.
Source(k) == IF k = "mcs" THEN file ELSE config

\* The save worker holds nothing newer than memory, nor older than the file.
Ordered ==
  /\ file <= config /\ oldssc <= config
  /\ save.step = "write" => file <= save.read /\ save.read <= config
  /\ \A c \in Caller : wanted[c] <= config

\* A distribution worker holds nothing newer than its source, nor older than
\* what it has distributed.
Flows(k) ==
  /\ \A g \in Group : node[k][g] <= Source(k)
  /\ dist[k].step = "rpc" =>
       /\ dist[k].read <= Source(k)
       /\ \A g \in Group : node[k][g] <= dist[k].read
       /\ k = "ssconf" => oldssc <= dist[k].read

\* Who waits is in one request of the worker, and only who waits is.
Listed(c) ==
  /\ pc[c] = "waiting" <=> c \in saveRef.waiters \cup save.req.waiters
  /\ c \notin saveRef.waiters \cap save.req.waiters

Awaited(k) ==
  /\ k \in save.await <=> "save" \in distRef[k].waiters \cup dist[k].req.waiters
  /\ "save" \notin distRef[k].waiters \cap dist[k].req.waiters
  /\ dist[k].step = "idle" => dist[k].req = NoRequest
  /\ distRef[k].on \/ distRef[k] = NoRequest

Resting ==
  /\ save.step = "idle" => save.req = NoRequest
  /\ save.await # {} => save.step = "wait"
  /\ saveRef.on \/ saveRef = NoRequest

\* The request of who asked for all nodes covers all nodes.
Covers(r, c) == c \in r.waiters /\ everywhere[c] => r.flush /\ r.target = Group

\* The worker for k has done its part for c.
Done(k, c) ==
  \A g \in Group : wanted[c] <= node[k][g] \/ (k = "ssconf" /\ wanted[c] <= oldssc)

\* How far the save worker has come with the call of c, and how far the
\* distribution worker for k has.
Saved(c) ==
  /\ c \in save.req.waiters =>
       /\ save.step = "write" => wanted[c] <= save.read
       /\ save.step \in {"distribute", "wait", "answer"} => wanted[c] <= file
       /\ save.step \in {"wait", "answer"} /\ everywhere[c]
            => \A k \in Kind \ save.await : Done(k, c)
  /\ pc[c] = "returned" =>
       wanted[c] <= file /\ (everywhere[c] => \A k \in Kind : Done(k, c))

Sent(k, c) ==
  k \in save.await /\ c \in save.req.waiters /\ everywhere[c] =>
    /\ "save" \in distRef[k].waiters => distRef[k].target = Group
    /\ "save" \in dist[k].req.waiters =>
         /\ dist[k].req.target = Group
         /\ dist[k].step = "rpc" => wanted[c] <= dist[k].read
         /\ dist[k].step = "answer" => Done(k, c)

DistInv ==
  /\ Typed /\ Ordered /\ Resting
  /\ \A k \in Kind : Flows(k) /\ Awaited(k)
  /\ \A c \in Caller : Listed(c) /\ Covers(saveRef, c) /\ Covers(save.req, c)
  /\ \A c \in Caller \ excused : Saved(c) /\ \A k \in Kind : Sent(k, c)

-----------------------------------------------------------------------------
LEMMA NoRequestTyped ==
  /\ \A S : NoRequest \in Request(S)
  /\ NoRequest.waiters = {} /\ ~NoRequest.flush
BY Zenon DEF NoRequest, Request

LEMMA Numbers ==
  ASSUME Typed
  PROVE  /\ config \in Nat /\ file \in Nat /\ oldssc \in Int /\ save.read \in Nat
         /\ \A c \in Caller : wanted[c] \in Nat
         /\ \A k \in Kind : dist[k].read \in Nat /\ \A g \in Group : node[k][g] \in Nat
BY ZenonT(60) DEF Typed, SaveRun, DistRun

LEMMA DistInitially == DistInit => DistInv
<1> SUFFICES ASSUME DistInit PROVE DistInv  BY Zenon
<1>1. Typed
  BY NoRequestTyped DEF DistInit, Typed, SaveRun, DistRun
<1>2. Ordered /\ Resting
  BY NoRequestTyped DEF DistInit, Ordered, Resting
<1>3. \A k \in Kind : Flows(k) /\ Awaited(k)
  BY NoRequestTyped DEF DistInit, Flows, Awaited, Source
<1>4. \A c \in Caller : Listed(c) /\ Covers(saveRef, c) /\ Covers(save.req, c)
  BY Zenon, NoRequestTyped DEF DistInit, Listed, Covers
<1>5. \A c \in Caller \ excused : Saved(c) /\ \A k \in Kind : Sent(k, c)
  BY Zenon, NoRequestTyped DEF DistInit, Saved, Sent
<1> QED  BY Zenon, <1>1, <1>2, <1>3, <1>4, <1>5 DEF DistInv

\* What was done for a client stays done, as the numbers only grow.
LEMMA DoneKept ==
  ASSUME Typed, Typed', NEW c \in Caller, NEW k \in Kind, wanted'[c] = wanted[c],
         \A g \in Group : node[k][g] <= node'[k][g], oldssc <= oldssc', Done(k, c)
  PROVE  Done(k, c)'
<1> SUFFICES ASSUME NEW g \in Group
             PROVE  wanted'[c] <= node'[k][g] \/ (k = "ssconf" /\ wanted'[c] <= oldssc')
  BY Zenon DEF Done
<1>1. wanted[c] <= node[k][g] \/ (k = "ssconf" /\ wanted[c] <= oldssc)
  BY Zenon DEF Done
<1>2. /\ wanted[c] \in Nat /\ node[k][g] \in Nat /\ node'[k][g] \in Nat
      /\ oldssc \in Int /\ oldssc' \in Int
  BY ZenonT(60) DEF Typed
<1> QED  BY <1>1, <1>2

\* A step of other clients only.
LEMMA CallKept ==
  ASSUME NEW c \in Caller, Saved(c), \A k \in Kind : Sent(k, c),
         pc'[c] = pc[c], wanted'[c] = wanted[c], everywhere'[c] = everywhere[c],
         file' = file, node' = node, oldssc' = oldssc,
         save' = save, distRef' = distRef, dist' = dist
  PROVE  Saved(c)' /\ \A k \in Kind : Sent(k, c)'
<1>1. \A k \in Kind : Done(k, c)' <=> Done(k, c)
  BY Zenon DEF Done
<1>2. Saved(c)'
  BY Zenon, <1>1 DEF Saved
<1>3. \A k \in Kind : Sent(k, c)'
  BY Zenon, <1>1 DEF Sent
<1> QED  BY Zenon, <1>2, <1>3

LEMMA ModifyStep ==
  ASSUME DistInv, NEW d \in Caller, modifyConfigState(d)
  PROVE  DistInv'
<1>0. Typed
  BY Zenon DEF DistInv
<1>1. /\ pc[d] = "idle" /\ config' = config + 1
      /\ wanted' = [wanted EXCEPT ![d] = config + 1]
      /\ pc' = [pc EXCEPT ![d] = "modified"]
      /\ file' = file /\ node' = node /\ saveRef' = saveRef /\ save' = save
      /\ distRef' = distRef /\ dist' = dist /\ oldssc' = oldssc
      /\ everywhere' = everywhere /\ excused' = excused
  BY Zenon DEF modifyConfigState
<1>2. /\ config' \in Nat /\ config <= config'
      /\ wanted' \in [Caller -> Nat] /\ wanted'[d] = config'
      /\ pc' \in [Caller -> {"idle", "modified", "waiting", "returned"}]
      /\ pc'[d] = "modified"
      /\ \A c \in Caller \ {d} : pc'[c] = pc[c] /\ wanted'[c] = wanted[c]
  BY <1>1 DEF DistInv, Typed
<1>3. Typed'
  BY Zenon, <1>1, <1>2 DEF DistInv, Typed
<1>4. Ordered'
  <2>1. Ordered
    BY Zenon DEF DistInv
  <2> QED  BY <1>1, <1>2, <2>1, <1>0, Numbers DEF Ordered
<1>5. Resting'
  BY Zenon, <1>1 DEF DistInv, Resting
<1>6. \A k \in Kind : Flows(k)'
  <2>1. ASSUME NEW k \in Kind PROVE Flows(k)
    BY Zenon DEF DistInv
  <2> QED  BY <1>1, <1>2, <2>1, <1>0, Numbers DEF Flows, Source
<1>7. \A k \in Kind : Awaited(k)'
  BY Zenon, <1>1 DEF DistInv, Awaited
<1>8. \A c \in Caller : Listed(c)' /\ Covers(saveRef, c)' /\ Covers(save.req, c)'
  BY Zenon, <1>1, <1>2 DEF DistInv, Listed, Covers
<1>9. ASSUME NEW c \in Caller \ excused'
      PROVE  Saved(c)' /\ \A k \in Kind : Sent(k, c)'
  <2>1. CASE c = d
    BY Zenon, <1>1, <1>2, <2>1 DEF DistInv, Listed, Saved, Sent
  <2>2. CASE c # d
    <3>1. Saved(c) /\ \A k \in Kind : Sent(k, c)
      BY Zenon, <1>1, <1>9 DEF DistInv
    <3> QED  BY Zenon, <1>1, <1>2, <1>9, <2>2, <3>1, CallKept
  <2> QED  BY Zenon, <2>1, <2>2
<1> QED  BY Zenon, <1>3, <1>4, <1>5, <1>6, <1>7, <1>8, <1>9 DEF DistInv

LEMMA TriggerStep ==
  ASSUME DistInv, NEW d \in Caller, pc[d] \in {"idle", "modified"},
         NEW flush \in BOOLEAN, NEW target \in SUBSET Group, TriggerSave(d, flush, target),
         wanted' \in [Caller -> Nat], wanted'[d] <= config,
         \A c \in Caller \ {d} : wanted'[c] = wanted[c]
  PROVE  DistInv'
<1>1. /\ saveRef' = addRequest(saveRef, flush, target, {d})
      /\ pc' = [pc EXCEPT ![d] = "waiting"]
      /\ everywhere' = [everywhere EXCEPT ![d] = flush /\ target = Group]
      /\ excused' = excused \ {d} /\ config' = config /\ file' = file /\ node' = node
      /\ save' = save /\ distRef' = distRef /\ dist' = dist /\ oldssc' = oldssc
  BY Zenon DEF TriggerSave
<1>2. /\ Typed /\ Ordered /\ Resting /\ Listed(d)
  BY Zenon DEF DistInv
<1>3. /\ pc' \in [Caller -> {"idle", "modified", "waiting", "returned"}]
      /\ pc'[d] = "waiting" /\ \A c \in Caller \ {d} : pc'[c] = pc[c]
  BY Zenon, <1>1, <1>2 DEF Typed
<1>4. /\ everywhere' \in [Caller -> BOOLEAN]
      /\ everywhere'[d] => flush /\ target = Group
      /\ \A c \in Caller \ {d} : everywhere'[c] = everywhere[c]
  BY Zenon, <1>1, <1>2 DEF Typed
<1>5. /\ saveRef' \in Request(Caller) /\ saveRef'.on
      /\ saveRef'.flush = (saveRef.flush \/ flush)
      /\ saveRef'.target = saveRef.target \cup target
      /\ saveRef'.waiters = saveRef.waiters \cup {d}
  <2>1. saveRef \in Request(Caller) /\ {d} \in SUBSET Caller
    BY Zenon, <1>2 DEF Typed
  <2>2. saveRef' = addRequest(saveRef, flush, target, {d})
    BY Zenon, <1>1
  <2> QED  BY Zenon, <2>1, <2>2 DEF addRequest, Request
<1>6. Typed'
  BY Zenon, <1>1, <1>2, <1>3, <1>4, <1>5 DEF Typed
<1>7. Ordered' /\ Resting'
  BY Zenon, <1>1, <1>2, <1>5 DEF Ordered, Resting
<1>8. \A k \in Kind : Flows(k)' /\ Awaited(k)'
  BY Zenon, <1>1 DEF DistInv, Flows, Awaited, Source
<1>9. \A c \in Caller : Listed(c)'
  BY ZenonT(60), <1>1, <1>2, <1>3, <1>5 DEF DistInv, Listed
<1>10. saveRef'.target \subseteq Group
  BY Zenon, <1>6 DEF Typed, Request
<1>11. \A c \in Caller : Covers(saveRef, c)' /\ Covers(save.req, c)'
  <2>1. \A c \in Caller \ {d} : c \in saveRef'.waiters <=> c \in saveRef.waiters
    BY Zenon, <1>5
  <2>2. \A c \in Caller \ {d} : Covers(saveRef, c)' /\ Covers(save.req, c)'
    BY ZenonT(60), <1>1, <1>4, <1>5, <1>10, <2>1 DEF DistInv, Covers
  <2>3. Covers(saveRef, d)'
    BY Zenon, <1>4, <1>5, <1>10 DEF Covers
  <2>4. d \notin save'.req.waiters
    BY Zenon, <1>1, <1>2 DEF Listed
  <2> QED  BY Zenon, <2>2, <2>3, <2>4 DEF Covers
<1>12. ASSUME NEW c \in Caller \ excused'
       PROVE  Saved(c)' /\ \A k \in Kind : Sent(k, c)'
  <2>1. CASE c = d
    BY Zenon, <1>1, <1>2, <1>3, <2>1 DEF Listed, Saved, Sent
  <2>2. CASE c # d
    <3>1. Saved(c) /\ \A k \in Kind : Sent(k, c)
      BY Zenon, <1>1, <1>12, <2>2 DEF DistInv
    <3> QED  BY Zenon, <1>1, <1>3, <1>4, <1>12, <2>2, <3>1, CallKept
  <2> QED  BY Zenon, <2>1, <2>2
<1> QED  BY Zenon, <1>6, <1>7, <1>8, <1>9, <1>11, <1>12 DEF DistInv

LEMMA ReturnStep ==
  ASSUME DistInv, NEW d \in Caller, Return(d)
  PROVE  DistInv'
<1>1. /\ pc[d] = "returned" /\ pc' = [pc EXCEPT ![d] = "idle"]
      /\ wanted' = [wanted EXCEPT ![d] = 0]
      /\ everywhere' = [everywhere EXCEPT ![d] = FALSE] /\ excused' = excused \ {d}
      /\ config' = config /\ file' = file /\ node' = node /\ saveRef' = saveRef
      /\ save' = save /\ distRef' = distRef /\ dist' = dist /\ oldssc' = oldssc
  BY Zenon DEF Return
<1>2. Typed /\ Ordered /\ Listed(d)
  BY Zenon DEF DistInv
<1>3. /\ pc' \in [Caller -> {"idle", "modified", "waiting", "returned"}]
      /\ pc'[d] = "idle" /\ \A c \in Caller \ {d} : pc'[c] = pc[c]
  BY Zenon, <1>1, <1>2 DEF Typed
<1>4. /\ everywhere' \in [Caller -> BOOLEAN] /\ ~everywhere'[d]
      /\ \A c \in Caller \ {d} : everywhere'[c] = everywhere[c]
  BY Zenon, <1>1, <1>2 DEF Typed
<1>5. /\ wanted' \in [Caller -> Nat] /\ wanted'[d] = 0
      /\ \A c \in Caller \ {d} : wanted'[c] = wanted[c]
  BY ZenonT(60), <1>1, <1>2 DEF Typed
<1>6. Typed'
  BY Zenon, <1>1, <1>2, <1>3, <1>4, <1>5 DEF Typed
<1>7. Ordered'
  BY <1>1, <1>2, <1>5 DEF Typed, Ordered
<1>8. Resting' /\ \A k \in Kind : Flows(k)' /\ Awaited(k)'
  BY Zenon, <1>1 DEF DistInv, Resting, Flows, Awaited, Source
<1>9. \A c \in Caller : Listed(c)' /\ Covers(saveRef, c)' /\ Covers(save.req, c)'
  BY ZenonT(60), <1>1, <1>3, <1>4 DEF DistInv, Listed, Covers
<1>10. ASSUME NEW c \in Caller \ excused'
       PROVE  Saved(c)' /\ \A k \in Kind : Sent(k, c)'
  <2>1. CASE c = d
    BY Zenon, <1>1, <1>2, <1>3, <2>1 DEF Listed, Saved, Sent
  <2>2. CASE c # d
    <3>1. Saved(c) /\ \A k \in Kind : Sent(k, c)
      BY Zenon, <1>1, <1>10, <2>2 DEF DistInv
    <3> QED  BY Zenon, <1>1, <1>3, <1>4, <1>5, <1>10, <2>2, <3>1, CallKept
  <2> QED  BY Zenon, <2>1, <2>2
<1> QED  BY Zenon, <1>6, <1>7, <1>8, <1>9, <1>10 DEF DistInv

LEMMA SaveTakeStep ==
  ASSUME DistInv, SaveTake
  PROVE  DistInv'
<1>1. /\ save.step = "idle" /\ save' = [save EXCEPT !.step = "read", !.req = saveRef]
      /\ saveRef' = NoRequest
      /\ config' = config /\ file' = file /\ node' = node /\ distRef' = distRef
      /\ dist' = dist /\ oldssc' = oldssc /\ pc' = pc /\ wanted' = wanted
      /\ everywhere' = everywhere /\ excused' = excused
  BY Zenon DEF SaveTake
<1>2. Typed /\ Ordered /\ Resting
  BY Zenon DEF DistInv
<1>3. /\ save' \in SaveRun /\ save'.step = "read" /\ save'.req = saveRef
      /\ save'.await = save.await
  BY Zenon, <1>1, <1>2 DEF Typed, SaveRun
<1>4. save.req.waiters = {} /\ save.await = {}
  BY Zenon, <1>1, <1>2, NoRequestTyped DEF Resting
<1>5. Typed'
  BY Zenon, <1>1, <1>2, <1>3, NoRequestTyped DEF Typed
<1>6. Ordered' /\ Resting'
  BY Zenon, <1>1, <1>2, <1>3, <1>4 DEF Ordered, Resting
<1>7. \A k \in Kind : Flows(k)' /\ Awaited(k)'
  BY Zenon, <1>1, <1>3 DEF DistInv, Flows, Awaited, Source
<1>8. \A c \in Caller : Listed(c)' /\ Covers(saveRef, c)' /\ Covers(save.req, c)'
  BY Zenon, <1>1, <1>3, <1>4, NoRequestTyped DEF DistInv, Listed, Covers
<1>9. ASSUME NEW c \in Caller \ excused'
      PROVE  Saved(c)' /\ \A k \in Kind : Sent(k, c)'
  <2>1. Saved(c)
    BY Zenon, <1>1, <1>9 DEF DistInv
  <2>2. \A k \in Kind : Done(k, c)' <=> Done(k, c)
    BY Zenon, <1>1 DEF Done
  <2>3. Saved(c)'
    BY Zenon, <1>1, <1>3, <2>1, <2>2 DEF Saved
  <2> QED  BY Zenon, <1>3, <1>4, <2>3 DEF Sent
<1> QED  BY Zenon, <1>5, <1>6, <1>7, <1>8, <1>9 DEF DistInv

LEMMA SaveReadStep ==
  ASSUME DistInv, SaveRead
  PROVE  DistInv'
<1>1. /\ save.step = "read" /\ save' = [save EXCEPT !.step = "write", !.read = config]
      /\ config' = config /\ file' = file /\ node' = node /\ saveRef' = saveRef
      /\ distRef' = distRef /\ dist' = dist /\ oldssc' = oldssc /\ pc' = pc
      /\ wanted' = wanted /\ everywhere' = everywhere /\ excused' = excused
  BY Zenon DEF SaveRead
<1>2. Typed /\ Ordered /\ Resting
  BY Zenon DEF DistInv
<1>3. /\ save' \in SaveRun /\ save'.step = "write" /\ save'.req = save.req
      /\ save'.read = config /\ save'.await = save.await
  BY Zenon, <1>1, <1>2 DEF Typed, SaveRun
<1>4. save.await = {}
  BY Zenon, <1>1, <1>2 DEF Resting
<1>5. Typed'
  BY Zenon, <1>1, <1>2, <1>3 DEF Typed
<1>6. Ordered'
  BY <1>1, <1>2, <1>3 DEF Typed, Ordered
<1>7. Resting' /\ \A k \in Kind : Flows(k)' /\ Awaited(k)'
  BY ZenonT(60), <1>1, <1>3, <1>4 DEF DistInv, Resting, Flows, Awaited, Source
<1>8. \A c \in Caller : Listed(c)' /\ Covers(saveRef, c)' /\ Covers(save.req, c)'
  BY Zenon, <1>1, <1>3 DEF DistInv, Listed, Covers
<1>9. ASSUME NEW c \in Caller \ excused'
      PROVE  Saved(c)' /\ \A k \in Kind : Sent(k, c)'
  <2>1. Saved(c) /\ wanted[c] <= config
    BY Zenon, <1>1, <1>2, <1>9 DEF DistInv, Ordered
  <2>2. \A k \in Kind : Done(k, c)' <=> Done(k, c)
    BY Zenon, <1>1 DEF Done
  <2>3. Saved(c)'
    BY Zenon, <1>1, <1>3, <2>1, <2>2 DEF Saved
  <2> QED  BY Zenon, <1>3, <1>4, <2>3 DEF Sent
<1> QED  BY Zenon, <1>5, <1>6, <1>7, <1>8, <1>9 DEF DistInv

LEMMA SaveWriteStep ==
  ASSUME DistInv, SaveWrite
  PROVE  DistInv'
<1>1. /\ save.step = "write" /\ file' = save.read
      /\ save' = [save EXCEPT !.step = "distribute", !.read = 0]
      /\ config' = config /\ node' = node /\ saveRef' = saveRef
      /\ distRef' = distRef /\ dist' = dist /\ oldssc' = oldssc /\ pc' = pc
      /\ wanted' = wanted /\ everywhere' = everywhere /\ excused' = excused
  BY Zenon DEF SaveWrite
<1>2. Typed /\ Ordered /\ Resting
  BY Zenon DEF DistInv
<1>3. /\ save' \in SaveRun /\ save'.step = "distribute" /\ save'.req = save.req
      /\ save'.await = save.await
  BY Zenon, <1>1, <1>2 DEF Typed, SaveRun
<1>4. save.await = {}
  BY Zenon, <1>1, <1>2 DEF Resting
<1>5. file \in Nat /\ file' \in Nat /\ file <= file' /\ file' <= config
  BY Zenon, <1>1, <1>2 DEF Typed, SaveRun, Ordered
<1>6. Typed'
  BY Zenon, <1>1, <1>2, <1>3, <1>5 DEF Typed
<1>7. Ordered' /\ Resting'
  BY Zenon, <1>1, <1>2, <1>3, <1>4, <1>5 DEF Ordered, Resting
<1>8. \A k \in Kind : Flows(k)'
  BY <1>1, <1>2, <1>5 DEF DistInv, Typed, DistRun, Flows, Source
<1>9. \A k \in Kind : Awaited(k)'
  BY Zenon, <1>1, <1>3 DEF DistInv, Awaited
<1>10. \A c \in Caller : Listed(c)' /\ Covers(saveRef, c)' /\ Covers(save.req, c)'
  BY Zenon, <1>1, <1>3 DEF DistInv, Listed, Covers
<1>11. ASSUME NEW c \in Caller \ excused'
       PROVE  Saved(c)' /\ \A k \in Kind : Sent(k, c)'
  <2>1. Saved(c) /\ wanted[c] \in Nat
    BY Zenon, <1>1, <1>2, <1>11 DEF DistInv, Typed
  <2>2. \A k \in Kind : Done(k, c)' <=> Done(k, c)
    BY Zenon, <1>1 DEF Done
  <2>3. wanted[c] <= file => wanted[c] <= file'
    BY <1>5, <2>1
  <2>4. Saved(c)'
    BY Zenon, <1>1, <1>3, <2>1, <2>2, <2>3 DEF Saved
  <2> QED  BY Zenon, <1>3, <1>4, <2>4 DEF Sent
<1> QED  BY Zenon, <1>6, <1>7, <1>8, <1>9, <1>10, <1>11 DEF DistInv

LEMMA SaveFailsStep ==
  ASSUME DistInv, SaveFails
  PROVE  DistInv'
<1>1. /\ save.step = "write" /\ save' = [save EXCEPT !.step = "answer"]
      /\ excused' = excused \cup save.req.waiters
      /\ config' = config /\ file' = file /\ node' = node /\ saveRef' = saveRef
      /\ distRef' = distRef /\ dist' = dist /\ oldssc' = oldssc /\ pc' = pc
      /\ wanted' = wanted /\ everywhere' = everywhere
  BY Zenon DEF SaveFails
<1>2. Typed /\ Ordered /\ Resting
  BY Zenon DEF DistInv
<1>3. /\ save' \in SaveRun /\ save'.step = "answer" /\ save'.req = save.req
      /\ save'.await = save.await
  BY Zenon, <1>1, <1>2 DEF Typed, SaveRun
<1>4. save.await = {}
  BY Zenon, <1>1, <1>2 DEF Resting
<1>5. Typed' /\ Ordered' /\ Resting'
  BY Zenon, <1>1, <1>2, <1>3, <1>4 DEF Typed, Ordered, Resting
<1>6. \A k \in Kind : Flows(k)' /\ Awaited(k)'
  BY Zenon, <1>1, <1>3 DEF DistInv, Flows, Awaited, Source
<1>7. \A c \in Caller : Listed(c)' /\ Covers(saveRef, c)' /\ Covers(save.req, c)'
  BY Zenon, <1>1, <1>3 DEF DistInv, Listed, Covers
<1>8. ASSUME NEW c \in Caller \ excused'
      PROVE  Saved(c)' /\ \A k \in Kind : Sent(k, c)'
  <2>1. Saved(c) /\ c \notin save'.req.waiters
    BY Zenon, <1>1, <1>3, <1>8 DEF DistInv
  <2>2. \A k \in Kind : Done(k, c)' <=> Done(k, c)
    BY Zenon, <1>1 DEF Done
  <2>3. Saved(c)'
    BY Zenon, <1>1, <2>1, <2>2 DEF Saved
  <2> QED  BY Zenon, <2>1, <2>3 DEF Sent
<1> QED  BY Zenon, <1>5, <1>6, <1>7, <1>8 DEF DistInv

LEMMA SaveDistributeStep ==
  ASSUME DistInv, SaveDistribute
  PROVE  DistInv'
<1> DEFINE waiter == IF save.req.flush THEN {"save"} ELSE {}
<1>1. /\ save.step = "distribute"
      /\ distRef' = [k \in Kind |-> addRequest(distRef[k], FALSE, save.req.target, waiter)]
      /\ save' = IF save.req.flush THEN [save EXCEPT !.step = "wait", !.await = Kind]
                                   ELSE [save EXCEPT !.step = "answer"]
      /\ config' = config /\ file' = file /\ node' = node /\ saveRef' = saveRef
      /\ dist' = dist /\ oldssc' = oldssc /\ pc' = pc
      /\ wanted' = wanted /\ everywhere' = everywhere /\ excused' = excused
  BY Zenon DEF SaveDistribute
<1>2. /\ Typed /\ Ordered /\ Resting
      /\ \A k \in Kind : Flows(k) /\ Awaited(k)
  BY Zenon DEF DistInv
<1>3. save.await = {}
  BY Zenon, <1>1, <1>2 DEF Resting
<1>4. /\ save' \in SaveRun /\ save'.req = save.req
      /\ save'.step = IF save.req.flush THEN "wait" ELSE "answer"
      /\ save'.await = IF save.req.flush THEN Kind ELSE {}
  <2>1. CASE save.req.flush
    BY Zenon, <1>1, <1>2, <2>1 DEF Typed, SaveRun
  <2>2. CASE ~save.req.flush
    BY Zenon, <1>1, <1>2, <1>3, <2>2 DEF Typed, SaveRun
  <2> QED  BY Zenon, <2>1, <2>2
<1>5. /\ waiter \in SUBSET {"save"} /\ save.req.target \in SUBSET Group
      /\ \A k \in Kind : distRef[k] \in Request({"save"})
  BY Zenon, <1>2 DEF Typed, SaveRun, Request
<1> HIDE DEF waiter
<1>6. ASSUME NEW k \in Kind
      PROVE  /\ distRef'[k] \in Request({"save"}) /\ distRef'[k].on
             /\ distRef'[k].target = distRef[k].target \cup save.req.target
             /\ distRef'[k].waiters = distRef[k].waiters \cup waiter
  <2>1. distRef'[k] = addRequest(distRef[k], FALSE, save.req.target, waiter)
    BY Zenon, <1>1, <1>6
  <2>2. distRef[k] \in Request({"save"})
    BY Zenon, <1>5, <1>6
  <2>3. /\ distRef[k].target \cup save.req.target \in SUBSET Group
        /\ distRef[k].waiters \cup waiter \in SUBSET {"save"}
        /\ (distRef[k].flush \/ FALSE) \in BOOLEAN
    BY Zenon, <1>5, <2>2 DEF Request
  <2> QED  BY <2>1, <2>3 DEF addRequest, Request
<1>7. distRef' \in [Kind -> Request({"save"})]
  <2>1. distRef' = [k \in Kind |-> distRef'[k]]
    BY Zenon, <1>1
  <2> QED  BY Zenon, <2>1, <1>6
<1>8. Typed' /\ Ordered' /\ Resting'
  <2>1. Typed'
    BY Zenon, <1>1, <1>2, <1>4, <1>7 DEF Typed
  <2>2. save'.step \in {"wait", "answer"} /\ (save'.await # {} => save'.step = "wait")
    BY Zenon, <1>4
  <2>3. Ordered' /\ Resting'
    BY Zenon, <1>1, <1>2, <2>2 DEF Ordered, Resting
  <2> QED  BY Zenon, <2>1, <2>3
<1>9. ASSUME NEW k \in Kind PROVE Flows(k)' /\ Awaited(k)'
  <2>1. "save" \notin distRef[k].waiters /\ "save" \notin dist[k].req.waiters
    BY Zenon, <1>2, <1>3, <1>9 DEF Awaited
  <2>2. k \in save'.await <=> "save" \in distRef'[k].waiters
    BY Zenon, <1>4, <1>6, <1>9, <2>1 DEF waiter
  <2> QED  BY Zenon, <1>1, <1>2, <1>6, <1>9, <2>1, <2>2 DEF Flows, Awaited, Source
<1>10. \A c \in Caller : Listed(c)' /\ Covers(saveRef, c)' /\ Covers(save.req, c)'
  BY Zenon, <1>1, <1>4 DEF DistInv, Listed, Covers
<1>11. ASSUME NEW c \in Caller \ excused'
       PROVE  Saved(c)' /\ \A k \in Kind : Sent(k, c)'
  <2>1. Saved(c) /\ Covers(save.req, c)
    BY Zenon, <1>1, <1>11 DEF DistInv
  <2>2. \A k \in Kind : Done(k, c)' <=> Done(k, c)
    BY Zenon, <1>1 DEF Done
  <2>3. Saved(c)'
    <3>1. c \in save.req.waiters => wanted[c] <= file
      BY Zenon, <1>1, <2>1 DEF Saved
    <3>2. c \in save.req.waiters /\ everywhere[c] => save'.await = Kind
      BY Zenon, <1>4, <2>1 DEF Covers
    <3>3. save'.step # "write"
      BY Zenon, <1>4
    <3> QED  BY Zenon, <1>1, <1>4, <2>1, <2>2, <3>1, <3>2, <3>3 DEF Saved
  <2>4. ASSUME NEW k \in Kind PROVE Sent(k, c)'
    <3>1. "save" \notin dist[k].req.waiters /\ distRef[k].target \subseteq Group
      BY Zenon, <1>2, <1>3, <1>5, <2>4 DEF Awaited, Request
    <3>2. c \in save'.req.waiters /\ everywhere'[c] => distRef'[k].target = Group
      <4>1. distRef'[k].target = distRef[k].target \cup save.req.target
        BY Zenon, <1>6, <2>4
      <4>2. c \in save.req.waiters /\ everywhere[c] => save.req.target = Group
        BY Zenon, <2>1 DEF Covers
      <4> QED  BY Zenon, <1>1, <1>4, <3>1, <4>1, <4>2
    <3> QED  BY Zenon, <1>1, <3>1, <3>2 DEF Sent
  <2> QED  BY Zenon, <2>3, <2>4
<1> QED  BY Zenon, <1>8, <1>9, <1>10, <1>11 DEF DistInv

LEMMA SaveWaitStep ==
  ASSUME DistInv, SaveWait
  PROVE  DistInv'
<1>1. /\ save.step = "wait" /\ save.await = {} /\ save' = [save EXCEPT !.step = "answer"]
      /\ config' = config /\ file' = file /\ node' = node /\ saveRef' = saveRef
      /\ distRef' = distRef /\ dist' = dist /\ oldssc' = oldssc /\ pc' = pc
      /\ wanted' = wanted /\ everywhere' = everywhere /\ excused' = excused
  BY Zenon DEF SaveWait
<1>2. Typed /\ Ordered /\ Resting
  BY Zenon DEF DistInv
<1>3. /\ save' \in SaveRun /\ save'.step = "answer" /\ save'.req = save.req
      /\ save'.await = save.await
  BY Zenon, <1>1, <1>2 DEF Typed, SaveRun
<1>4. Typed' /\ Ordered' /\ Resting'
  BY Zenon, <1>1, <1>2, <1>3 DEF Typed, Ordered, Resting
<1>5. \A k \in Kind : Flows(k)' /\ Awaited(k)'
  BY ZenonT(60), <1>1, <1>3 DEF DistInv, Flows, Awaited, Source
<1>6. \A c \in Caller : Listed(c)' /\ Covers(saveRef, c)' /\ Covers(save.req, c)'
  BY Zenon, <1>1, <1>3 DEF DistInv, Listed, Covers
<1>7. ASSUME NEW c \in Caller \ excused'
      PROVE  Saved(c)' /\ \A k \in Kind : Sent(k, c)'
  <2>1. Saved(c)
    BY Zenon, <1>1, <1>7 DEF DistInv
  <2>2. \A k \in Kind : Done(k, c)' <=> Done(k, c)
    BY Zenon, <1>1 DEF Done
  <2>3. Saved(c)'
    BY Zenon, <1>1, <1>3, <2>1, <2>2 DEF Saved
  <2> QED  BY Zenon, <1>1, <1>3, <2>3 DEF Sent
<1> QED  BY Zenon, <1>4, <1>5, <1>6, <1>7 DEF DistInv

LEMMA SaveAnswerStep ==
  ASSUME DistInv, SaveAnswer
  PROVE  DistInv'
<1>1. /\ save.step = "answer"
      /\ pc' = [c \in Caller |-> IF c \in save.req.waiters THEN "returned" ELSE pc[c]]
      /\ save' = [save EXCEPT !.step = "idle", !.req = NoRequest]
      /\ config' = config /\ file' = file /\ node' = node /\ saveRef' = saveRef
      /\ distRef' = distRef /\ dist' = dist /\ oldssc' = oldssc
      /\ wanted' = wanted /\ everywhere' = everywhere /\ excused' = excused
  BY Zenon DEF SaveAnswer
<1>2. Typed /\ Ordered /\ Resting
  BY Zenon DEF DistInv
<1>3. /\ save' \in SaveRun /\ save'.step = "idle" /\ save'.req = NoRequest
      /\ save'.await = save.await
  BY Zenon, <1>1, <1>2, NoRequestTyped DEF Typed, SaveRun
<1>4. save.await = {}
  BY Zenon, <1>1, <1>2 DEF Resting
<1>5. /\ pc' \in [Caller -> {"idle", "modified", "waiting", "returned"}]
      /\ \A c \in Caller : pc'[c] = IF c \in save.req.waiters THEN "returned" ELSE pc[c]
  BY Zenon, <1>1, <1>2 DEF Typed
<1>6. Typed' /\ Ordered' /\ Resting'
  BY Zenon, <1>1, <1>2, <1>3, <1>4, <1>5 DEF Typed, Ordered, Resting
<1>7. \A k \in Kind : Flows(k)' /\ Awaited(k)'
  BY ZenonT(60), <1>1, <1>3 DEF DistInv, Flows, Awaited, Source
<1>8. \A c \in Caller : Listed(c)' /\ Covers(saveRef, c)' /\ Covers(save.req, c)'
  BY Zenon, <1>1, <1>3, <1>5, NoRequestTyped DEF DistInv, Listed, Covers
<1>9. ASSUME NEW c \in Caller \ excused'
      PROVE  Saved(c)' /\ \A k \in Kind : Sent(k, c)'
  <2>1. Saved(c)
    BY Zenon, <1>1, <1>9 DEF DistInv
  <2>2. \A k \in Kind : Done(k, c)' <=> Done(k, c)
    BY Zenon, <1>1 DEF Done
  <2>3. Saved(c)'
    BY Zenon, <1>1, <1>3, <1>4, <1>5, <2>1, <2>2, NoRequestTyped DEF Saved
  <2> QED  BY Zenon, <1>3, <1>4, <2>3 DEF Sent
<1> QED  BY Zenon, <1>6, <1>7, <1>8, <1>9 DEF DistInv

\* A step of the worker for k that leaves the other one alone.
LEMMA OtherKept ==
  ASSUME NEW k \in Kind, NEW l \in Kind \ {k}, Flows(l), Awaited(l),
         config' = config, file' = file, node'[l] = node[l],
         l = "ssconf" => oldssc' = oldssc,
         distRef'[l] = distRef[l], dist'[l] = dist[l], wanted' = wanted,
         everywhere' = everywhere, save'.req = save.req,
         l \in save'.await <=> l \in save.await
  PROVE  /\ Flows(l)' /\ Awaited(l)'
         /\ \A c \in Caller : Done(l, c)' <=> Done(l, c)
         /\ \A c \in Caller : Sent(l, c) => Sent(l, c)'
<1>1. Flows(l)' /\ Awaited(l)'
  BY Zenon DEF Flows, Awaited, Source
<1>2. \A c \in Caller : Done(l, c)' <=> Done(l, c)
  BY Zenon DEF Done
<1> QED  BY Zenon, <1>1, <1>2 DEF Sent

LEMMA DistTakeStep ==
  ASSUME DistInv, NEW k \in Kind, DistTake(k)
  PROVE  DistInv'
<1>1. /\ dist[k].step = "idle"
      /\ dist' = [dist EXCEPT ![k].step = "read", ![k].req = distRef[k]]
      /\ distRef' = [distRef EXCEPT ![k] = NoRequest]
      /\ config' = config /\ file' = file /\ node' = node /\ saveRef' = saveRef
      /\ save' = save /\ oldssc' = oldssc /\ pc' = pc /\ wanted' = wanted
      /\ everywhere' = everywhere /\ excused' = excused
  BY Zenon DEF DistTake
<1>2. Typed /\ Flows(k) /\ Awaited(k)
  BY Zenon DEF DistInv
<1>3. /\ dist' \in [Kind -> DistRun] /\ dist'[k].step = "read"
      /\ dist'[k].req = distRef[k]
      /\ \A l \in Kind \ {k} : dist'[l] = dist[l]
  BY ZenonT(60), <1>1, <1>2 DEF Typed, DistRun
<1>4. /\ distRef' \in [Kind -> Request({"save"})] /\ distRef'[k] = NoRequest
      /\ \A l \in Kind \ {k} : distRef'[l] = distRef[l]
  BY Zenon, <1>1, <1>2, NoRequestTyped DEF Typed
<1>5. dist[k].req = NoRequest
  BY Zenon, <1>1, <1>2 DEF Awaited
<1>6. Typed' /\ Ordered' /\ Resting'
  BY Zenon, <1>1, <1>3, <1>4 DEF DistInv, Typed, Ordered, Resting
<1>7. ASSUME NEW l \in Kind \ {k}
      PROVE  /\ Flows(l)' /\ Awaited(l)'
             /\ \A c \in Caller : Sent(l, c) => Sent(l, c)'
  <2>1. Flows(l) /\ Awaited(l)
    BY Zenon, <1>7 DEF DistInv
  <2> QED  BY Zenon, <1>1, <1>3, <1>4, <1>7, <2>1, OtherKept
<1>8. Flows(k)' /\ Awaited(k)'
  BY Zenon, <1>1, <1>2, <1>3, <1>4, <1>5, NoRequestTyped DEF Flows, Awaited, Source
<1>9. \A c \in Caller : Listed(c)' /\ Covers(saveRef, c)' /\ Covers(save.req, c)'
  BY Zenon, <1>1 DEF DistInv, Listed, Covers
<1>10. ASSUME NEW c \in Caller \ excused'
       PROVE  Saved(c)' /\ \A l \in Kind : Sent(l, c)'
  <2>1. Saved(c) /\ \A l \in Kind : Sent(l, c)
    BY Zenon, <1>1, <1>10 DEF DistInv
  <2>2. \A l \in Kind : Done(l, c)' <=> Done(l, c)
    BY Zenon, <1>1 DEF Done
  <2>3. Saved(c)'
    BY Zenon, <1>1, <2>1, <2>2 DEF Saved
  <2>4. Sent(k, c)'
    <3>1. Sent(k, c) /\ distRef'[k].waiters = {} /\ dist'[k].step = "read"
      BY Zenon, <1>3, <1>4, <2>1, NoRequestTyped
    <3> QED  BY Zenon, <1>1, <1>3, <3>1 DEF Sent
  <2> QED  BY Zenon, <1>7, <1>10, <2>1, <2>3, <2>4
<1> QED  BY Zenon, <1>6, <1>7, <1>8, <1>9, <1>10 DEF DistInv

LEMMA DistReadStep ==
  ASSUME DistInv, NEW k \in Kind, DistRead(k)
  PROVE  DistInv'
<1>1. /\ dist[k].step = "read"
      /\ dist' = [dist EXCEPT ![k].read = IF k = "mcs" THEN file ELSE config,
                              ![k].step = IF k = "ssconf" /\ config = oldssc
                                            THEN "answer" ELSE "rpc"]
      /\ config' = config /\ file' = file /\ node' = node /\ saveRef' = saveRef
      /\ save' = save /\ distRef' = distRef /\ oldssc' = oldssc /\ pc' = pc
      /\ wanted' = wanted /\ everywhere' = everywhere /\ excused' = excused
  BY Zenon DEF DistRead
<1>2. Typed /\ Ordered /\ Resting /\ Flows(k) /\ Awaited(k)
  BY Zenon DEF DistInv
<1>3. /\ dist' \in [Kind -> DistRun] /\ dist'[k].req = dist[k].req
      /\ dist'[k].read = Source(k)
      /\ dist'[k].step = IF k = "ssconf" /\ config = oldssc THEN "answer" ELSE "rpc"
      /\ \A l \in Kind \ {k} : dist'[l] = dist[l]
  BY ZenonT(60), <1>1, <1>2 DEF Typed, DistRun, Source
<1>4. Typed' /\ Ordered' /\ Resting'
  BY Zenon, <1>1, <1>2, <1>3 DEF Typed, Ordered, Resting
<1>5. ASSUME NEW l \in Kind \ {k}
      PROVE  /\ Flows(l)' /\ Awaited(l)'
             /\ \A c \in Caller : Sent(l, c) => Sent(l, c)'
  <2>1. Flows(l) /\ Awaited(l)
    BY Zenon, <1>5 DEF DistInv
  <2> QED  BY Zenon, <1>1, <1>3, <1>5, <2>1, OtherKept
<1>6. Awaited(k)'
  <2>1. dist'[k].step # "idle" /\ dist'[k].req = dist[k].req
    BY Zenon, <1>3
  <2> QED  BY Zenon, <1>1, <1>2, <2>1 DEF Awaited
<1>7. Source(k) \in Nat /\ Source(k)' = Source(k)
  BY Zenon, <1>1, <1>2 DEF Typed, Source
<1>8. Flows(k)'
  <2>1. k = "ssconf" => oldssc <= Source(k)
    BY Zenon, <1>2 DEF Ordered, Source
  <2>2. \A g \in Group : node[k][g] <= Source(k)
    BY Zenon, <1>2 DEF Flows
  <2>3. Source(k) <= Source(k)
    BY <1>7
  <2> QED  BY ZenonT(60), <1>1, <1>3, <1>7, <2>1, <2>2, <2>3 DEF Flows
<1>9. \A c \in Caller : Listed(c)' /\ Covers(saveRef, c)' /\ Covers(save.req, c)'
  BY Zenon, <1>1 DEF DistInv, Listed, Covers
<1>10. ASSUME NEW c \in Caller \ excused'
       PROVE  Saved(c)' /\ \A l \in Kind : Sent(l, c)'
  <2>1. Saved(c) /\ (\A l \in Kind : Sent(l, c)) /\ wanted[c] <= config
    BY Zenon, <1>1, <1>2, <1>10 DEF DistInv, Ordered
  <2>2. \A l \in Kind : Done(l, c)' <=> Done(l, c)
    BY Zenon, <1>1 DEF Done
  <2>3. Saved(c)'
    BY Zenon, <1>1, <2>1, <2>2 DEF Saved
  <2>4. ASSUME k \in save.await, c \in save.req.waiters
        PROVE  wanted[c] <= Source(k)
    BY Zenon, <1>2, <2>1, <2>4 DEF Resting, Saved, Source
  <2>5. k = "ssconf" /\ config = oldssc => Done(k, c)
    BY Zenon, <2>1 DEF Done
  <2>6. Sent(k, c)'
    <3>1. dist'[k].step = "answer" => Done(k, c)'
      BY Zenon, <1>3, <2>2, <2>5
    <3>2. Sent(k, c) /\ dist'[k].req = dist[k].req /\ dist'[k].read = Source(k)
      BY Zenon, <1>3, <2>1
    <3> QED  BY Zenon, <1>1, <2>4, <3>1, <3>2 DEF Sent
  <2> QED  BY Zenon, <1>5, <1>10, <2>1, <2>3, <2>6
<1> QED  BY Zenon, <1>4, <1>5, <1>6, <1>8, <1>9, <1>10 DEF DistInv

\* What an RPC run of the worker for k does to the nodes: nothing decreases.
LEMMA RpcGrows ==
  ASSUME DistInv, NEW k \in Kind, DistRpc(k)
  PROVE  /\ node' \in [Kind -> [Group -> Nat]] /\ oldssc' \in Int
         /\ \A l \in Kind \ {k} : node'[l] = node[l]
         /\ \A g \in Group : node[k][g] <= node'[k][g] /\ node'[k][g] <= Source(k)
         /\ oldssc <= oldssc' /\ oldssc' <= config
         /\ k # "ssconf" => oldssc' = oldssc
<1>1. PICK ok \in SUBSET dist[k].req.target :
        /\ node' = [node EXCEPT ![k] = [g \in Group |->
                      IF g \in ok THEN dist[k].read ELSE node[k][g]]]
        /\ \/ oldssc' = IF k = "ssconf" THEN dist[k].read ELSE oldssc
           \/ oldssc' = oldssc
  BY Zenon DEF DistRpc
<1>2. /\ Typed /\ Ordered /\ Flows(k) /\ dist[k].step = "rpc"
  BY Zenon DEF DistInv, DistRpc
<1>3. /\ dist[k].read \in Nat /\ dist[k].read <= Source(k) /\ Source(k) \in Nat
      /\ \A g \in Group : /\ node[k][g] \in Nat /\ node[k][g] <= dist[k].read
                          /\ node[k][g] <= Source(k)
      /\ k = "ssconf" => oldssc <= dist[k].read
  BY Zenon, <1>2, Numbers DEF Flows, Source
<1> DEFINE row == [g \in Group |-> IF g \in ok THEN dist[k].read ELSE node[k][g]]
<1>4. row \in [Group -> Nat]
  BY Zenon, <1>3
<1>5. /\ \A g \in Group : row[g] = dist[k].read \/ row[g] = node[k][g]
      /\ node' = [node EXCEPT ![k] = row]
  BY Zenon, <1>1
<1> HIDE DEF row
<1>6. /\ node' \in [Kind -> [Group -> Nat]] /\ node'[k] = row
      /\ \A l \in Kind \ {k} : node'[l] = node[l]
  BY Zenon, <1>2, <1>4, <1>5 DEF Typed
<1>7. \A g \in Group : node[k][g] <= node[k][g]
  BY <1>3
<1>8. \A g \in Group : node[k][g] <= node'[k][g] /\ node'[k][g] <= Source(k)
  BY Zenon, <1>3, <1>5, <1>6, <1>7
<1>9. oldssc \in Int /\ oldssc <= config /\ (k = "ssconf" => Source(k) = config)
  BY Zenon, <1>2 DEF Typed, Ordered, Source
<1>10. /\ oldssc' \in Int /\ oldssc <= oldssc' /\ oldssc' <= config
       /\ k # "ssconf" => oldssc' = oldssc
  BY <1>1, <1>3, <1>9
<1> QED  BY Zenon, <1>6, <1>8, <1>10

LEMMA DistRpcStep ==
  ASSUME DistInv, NEW k \in Kind, DistRpc(k)
  PROVE  DistInv'
<1>1. /\ dist[k].step = "rpc"
      /\ dist' = [dist EXCEPT ![k].step = "answer", ![k].read = 0]
      /\ config' = config /\ file' = file /\ saveRef' = saveRef /\ save' = save
      /\ distRef' = distRef /\ pc' = pc /\ wanted' = wanted /\ everywhere' = everywhere
  BY Zenon DEF DistRpc
<1>2. Typed /\ Ordered /\ Resting /\ Flows(k) /\ Awaited(k)
  BY Zenon DEF DistInv
<1>3. /\ dist' \in [Kind -> DistRun] /\ dist'[k].step = "answer"
      /\ dist'[k].req = dist[k].req
      /\ \A l \in Kind \ {k} : dist'[l] = dist[l]
  BY ZenonT(60), <1>1, <1>2 DEF Typed, DistRun
<1>4. Typed'
  BY Zenon, <1>1, <1>2, <1>3, RpcGrows DEF Typed
<1>5. Ordered' /\ Resting'
  BY Zenon, <1>1, <1>2, RpcGrows DEF Ordered, Resting
<1>6. ASSUME NEW l \in Kind \ {k}
      PROVE  /\ Flows(l)' /\ Awaited(l)'
             /\ \A c \in Caller : Sent(l, c) => Sent(l, c)'
  <2>1. Flows(l) /\ Awaited(l) /\ node'[l] = node[l] /\ (l = "ssconf" => oldssc' = oldssc)
    BY Zenon, <1>6, RpcGrows DEF DistInv
  <2> QED  BY Zenon, <1>1, <1>3, <1>6, <2>1, OtherKept
<1>7. Flows(k)' /\ Awaited(k)'
  <2>1. Source(k)' = Source(k) /\ \A g \in Group : node'[k][g] <= Source(k)
    BY Zenon, <1>1, RpcGrows DEF Source
  <2> QED  BY ZenonT(60), <1>1, <1>2, <1>3, <2>1 DEF Flows, Awaited
<1>8. \A c \in Caller : Listed(c)' /\ Covers(saveRef, c)' /\ Covers(save.req, c)'
  BY Zenon, <1>1 DEF DistInv, Listed, Covers
<1>9. ASSUME NEW c \in Caller, NEW l \in Kind, Done(l, c) PROVE Done(l, c)'
  <2>1. \A g \in Group : node[l][g] <= node'[l][g]
    <3>1. CASE l = k
      BY Zenon, <3>1, RpcGrows
    <3>2. CASE l # k
      BY <1>2, <3>2, RpcGrows, Numbers
    <3> QED  BY Zenon, <3>1, <3>2
  <2>2. oldssc <= oldssc' /\ wanted'[c] = wanted[c]
    BY Zenon, <1>1, RpcGrows
  <2> QED  BY Zenon, <1>2, <1>4, <1>9, <2>1, <2>2, DoneKept
<1>10. ASSUME NEW c \in Caller \ excused'
       PROVE  Saved(c)' /\ \A l \in Kind : Sent(l, c)'
  <2>1. PICK ok \in SUBSET dist[k].req.target :
          /\ node' = [node EXCEPT ![k] = [g \in Group |->
                        IF g \in ok THEN dist[k].read ELSE node[k][g]]]
          /\ \/ ok = dist[k].req.target /\ excused' = excused
             \/ /\ ok # dist[k].req.target
                /\ excused' = IF dist[k].req.waiters = {} THEN excused
                                ELSE excused \cup save.req.waiters
    BY Zenon DEF DistRpc
  <2>2. Saved(c) /\ \A l \in Kind : Sent(l, c)
    BY Zenon, <1>10, <2>1 DEF DistInv
  <2>3. Saved(c)'
    BY Zenon, <1>1, <1>9, <1>10, <2>2 DEF Saved
  <2>4. ASSUME k \in save.await, c \in save.req.waiters, everywhere[c],
               "save" \in dist[k].req.waiters
        PROVE  Done(k, c)'
    <3>1. wanted[c] <= dist[k].read /\ dist[k].req.target = Group
      BY Zenon, <1>1, <2>2, <2>4 DEF Sent
    <3>2. ok = Group
      BY Zenon, <1>10, <2>1, <2>4, <3>1
    <3>3. \A g \in Group : node'[k][g] = dist[k].read
      BY Zenon, <1>2, <2>1, <3>2 DEF Typed
    <3> QED  BY Zenon, <1>1, <3>1, <3>3 DEF Done
  <2>5. Sent(k, c)'
    <3>1. Sent(k, c)
      BY Zenon, <2>2
    <3> QED  BY Zenon, <1>1, <1>3, <2>4, <3>1 DEF Sent
  <2> QED  BY Zenon, <1>6, <1>10, <2>2, <2>3, <2>5
<1> QED  BY Zenon, <1>4, <1>5, <1>6, <1>7, <1>8, <1>10 DEF DistInv

LEMMA DistAnswerStep ==
  ASSUME DistInv, NEW k \in Kind, DistAnswer(k)
  PROVE  DistInv'
<1>1. /\ dist[k].step = "answer"
      /\ save' = [save EXCEPT !.await = IF dist[k].req.waiters = {} THEN @ ELSE @ \ {k}]
      /\ dist' = [dist EXCEPT ![k].step = "idle", ![k].req = NoRequest]
      /\ config' = config /\ file' = file /\ node' = node /\ saveRef' = saveRef
      /\ distRef' = distRef /\ oldssc' = oldssc /\ pc' = pc /\ wanted' = wanted
      /\ everywhere' = everywhere /\ excused' = excused
  BY Zenon DEF DistAnswer
<1>2. Typed /\ Ordered /\ Resting /\ Flows(k) /\ Awaited(k)
  BY Zenon DEF DistInv
<1>3. /\ dist' \in [Kind -> DistRun] /\ dist'[k].step = "idle"
      /\ dist'[k].req = NoRequest
      /\ \A l \in Kind \ {k} : dist'[l] = dist[l]
  BY ZenonT(60), <1>1, <1>2, NoRequestTyped DEF Typed, DistRun
<1>4. dist[k].req.waiters # {} <=> "save" \in dist[k].req.waiters
  <2>1. dist[k].req.waiters \subseteq {"save"}
    BY Zenon, <1>2 DEF Typed, DistRun, Request
  <2> QED  BY Zenon, <2>1
<1>5. /\ save' \in SaveRun /\ save'.step = save.step /\ save'.req = save.req
      /\ save'.read = save.read
      /\ save'.await = IF "save" \in dist[k].req.waiters THEN save.await \ {k}
                                                         ELSE save.await
  BY Zenon, <1>1, <1>2, <1>4 DEF Typed, SaveRun
<1>6. save'.await \subseteq save.await /\ save.await \subseteq save'.await \cup {k}
  BY Zenon, <1>5
<1>7. Typed' /\ Ordered' /\ Resting'
  BY Zenon, <1>1, <1>2, <1>3, <1>5, <1>6 DEF Typed, Ordered, Resting
<1>8. ASSUME NEW l \in Kind \ {k}
      PROVE  /\ Flows(l)' /\ Awaited(l)'
             /\ \A c \in Caller : Sent(l, c) => Sent(l, c)'
  <2>1. Flows(l) /\ Awaited(l) /\ (l \in save'.await <=> l \in save.await)
    BY Zenon, <1>6, <1>8 DEF DistInv
  <2> QED  BY Zenon, <1>1, <1>3, <1>5, <1>8, <2>1, OtherKept
<1>9. Flows(k)'
  BY Zenon, <1>1, <1>2, <1>3 DEF Flows, Source
<1>10. Awaited(k)' /\ "save" \notin dist'[k].req.waiters
  <2>1. dist'[k].req.waiters = {}
    BY Zenon, <1>3, NoRequestTyped
  <2>2. k \in save'.await <=> "save" \in distRef[k].waiters
    BY Zenon, <1>2, <1>5 DEF Awaited
  <2> QED  BY Zenon, <1>1, <1>2, <1>3, <2>1, <2>2 DEF Awaited
<1>11. \A c \in Caller : Listed(c)' /\ Covers(saveRef, c)' /\ Covers(save.req, c)'
  BY Zenon, <1>1, <1>5 DEF DistInv, Listed, Covers
<1>12. ASSUME NEW c \in Caller \ excused'
       PROVE  Saved(c)' /\ \A l \in Kind : Sent(l, c)'
  <2>1. Saved(c) /\ \A l \in Kind : Sent(l, c)
    BY Zenon, <1>1, <1>12 DEF DistInv
  <2>2. \A l \in Kind : Done(l, c)' <=> Done(l, c)
    BY Zenon, <1>1 DEF Done
  <2>3. Saved(c)'
    <3>1. ASSUME NEW l \in Kind \ save'.await, c \in save.req.waiters, everywhere[c],
                 save.step \in {"wait", "answer"}
          PROVE  Done(l, c)
      <4>1. CASE l \in save.await
        <5>1. l = k /\ "save" \in dist[k].req.waiters
          BY Zenon, <1>5, <3>1, <4>1
        <5> QED  BY Zenon, <1>1, <2>1, <3>1, <4>1, <5>1 DEF Sent
      <4>2. CASE l \notin save.await
        BY Zenon, <2>1, <3>1, <4>2 DEF Saved
      <4> QED  BY Zenon, <4>1, <4>2
    <3> QED  BY Zenon, <1>1, <1>5, <2>1, <2>2, <3>1 DEF Saved
  <2>4. Sent(k, c)'
    <3>1. Sent(k, c)
      BY Zenon, <2>1
    <3> QED  BY Zenon, <1>1, <1>5, <1>6, <1>10, <3>1 DEF Sent
  <2> QED  BY Zenon, <1>8, <1>12, <2>1, <2>3, <2>4
<1> QED  BY Zenon, <1>7, <1>8, <1>9, <1>10, <1>11, <1>12 DEF DistInv

-----------------------------------------------------------------------------
LEMMA DistStep == DistInv /\ [DistNext]_distVars => DistInv'
<1> SUFFICES ASSUME DistInv, [DistNext]_distVars PROVE DistInv'  OBVIOUS
<1>1. CASE SaveWorker
  BY Zenon, <1>1, SaveTakeStep, SaveReadStep, SaveWriteStep, SaveFailsStep,
     SaveDistributeStep, SaveWaitStep, SaveAnswerStep DEF SaveWorker
<1>2. CASE \E k \in Kind : DistWorker(k)
  BY Zenon, <1>2, DistTakeStep, DistReadStep, DistRpcStep, DistAnswerStep
     DEF DistWorker
<1>3. ASSUME NEW c \in Caller, modifyConfigTrigger(c) PROVE DistInv'
  <2>1. PICK distSync \in BOOLEAN : TriggerSave(c, distSync, Group)
    BY Zenon, <1>3 DEF modifyConfigTrigger
  <2>2. pc[c] = "modified" /\ wanted' = wanted
    BY Zenon, <1>3 DEF modifyConfigTrigger
  <2>3. wanted \in [Caller -> Nat] /\ wanted[c] <= config
    BY Zenon DEF DistInv, Typed, Ordered
  <2> QED  BY Zenon, <2>1, <2>2, <2>3, TriggerStep
<1>4. ASSUME NEW c \in Caller, forceConfigStateDistribution(c) PROVE DistInv'
  <2>1. PICK target \in {Group} \cup {{g} : g \in Group} : TriggerSave(c, TRUE, target)
    BY Zenon, <1>4 DEF forceConfigStateDistribution
  <2>2. target \in SUBSET Group
    BY Zenon
  <2>3. pc[c] = "idle" /\ wanted' = [wanted EXCEPT ![c] = config]
    BY Zenon, <1>4 DEF forceConfigStateDistribution
  <2>4. wanted \in [Caller -> Nat] /\ config \in Nat
    BY Zenon DEF DistInv, Typed
  <2>5. /\ wanted' \in [Caller -> Nat] /\ wanted'[c] = config
        /\ \A d \in Caller \ {c} : wanted'[d] = wanted[d]
    BY Zenon, <2>3, <2>4
  <2>6. wanted'[c] <= config
    BY <2>4, <2>5
  <2> QED  BY Zenon, <2>1, <2>2, <2>3, <2>5, <2>6, TriggerStep
<1>5. CASE \E c \in Caller : \/ modifyConfigState(c) \/ modifyConfigTrigger(c)
                             \/ forceConfigStateDistribution(c) \/ Return(c)
  BY Zenon, <1>3, <1>4, <1>5, ModifyStep, ReturnStep
<1>6. CASE UNCHANGED distVars
  <2>1. /\ config' = config /\ file' = file /\ node' = node /\ saveRef' = saveRef
        /\ save' = save /\ distRef' = distRef /\ dist' = dist /\ oldssc' = oldssc
        /\ pc' = pc /\ wanted' = wanted /\ everywhere' = everywhere /\ excused' = excused
    BY Zenon, <1>6 DEF distVars
  <2>2. (Typed <=> Typed') /\ (Ordered <=> Ordered') /\ (Resting <=> Resting')
    BY Zenon, <2>1 DEF Typed, Ordered, Resting
  <2>3. \A k \in Kind : (Flows(k) <=> Flows(k)') /\ (Awaited(k) <=> Awaited(k)')
    BY Zenon, <2>1 DEF Flows, Source, Awaited
  <2>4. \A c \in Caller : /\ Listed(c) <=> Listed(c)'
                          /\ Covers(saveRef, c) <=> Covers(saveRef, c)'
                          /\ Covers(save.req, c) <=> Covers(save.req, c)'
    BY Zenon, <2>1 DEF Listed, Covers
  <2>5. \A c \in Caller : /\ Saved(c) <=> Saved(c)'
                          /\ \A k \in Kind : Sent(k, c) <=> Sent(k, c)'
    <3>1. \A c \in Caller : \A k \in Kind : Done(k, c) <=> Done(k, c)'
      BY Zenon, <2>1 DEF Done
    <3>2. \A c \in Caller : Saved(c) <=> Saved(c)'
      BY Zenon, <2>1, <3>1 DEF Saved
    <3> QED  BY ZenonT(60), <2>1, <3>1, <3>2 DEF Sent
  <2> QED  BY Zenon, <2>1, <2>2, <2>3, <2>4, <2>5 DEF DistInv
<1> QED  BY Zenon, <1>1, <1>2, <1>5, <1>6 DEF DistNext

LEMMA DistInvariant == DistSpec => []DistInv
<1>1. DistInit => DistInv
  BY Zenon, DistInitially
<1>2. DistInv /\ [DistNext]_distVars => DistInv'
  BY Zenon, DistStep
<1> QED  BY <1>1, <1>2, PTL DEF DistSpec

(***************************************************************************)
(* A call of WConfd that changes or flushes the configuration and returns  *)
(* without a failure finds its serial number in the configuration file,    *)
(* and if it asked for the distribution, on the nodes of every group       *)
(* (triggerAndWait of the save worker in modifyConfigStateErrWithImmediate *)
(* and forceConfigStateDistribution, and the chain of workers behind it),  *)
(* however the requests of other callers are combined with its own.        *)
(***************************************************************************)
THEOREM ReturnedCallsReplicated == DistSpec => []Replicated
<1>1. DistInv => Replicated
  BY Zenon DEF DistInv, Saved, Done, Replicated, Kind
<1> QED  BY <1>1, DistInvariant, PTL

(***************************************************************************)
(* No caller of the save worker and no run of it that waits for the        *)
(* distribution workers is dropped from their requests (addRequest and     *)
(* mkStatefulAsyncTask), so the worker it waits for has work to do.        *)
(***************************************************************************)
THEOREM AnswersOwed == DistSpec => []NobodyForgotten
<1>1. DistInv => NobodyForgotten
  <2> SUFFICES ASSUME DistInv PROVE NobodyForgotten  OBVIOUS
  <2>1. /\ Typed /\ Resting /\ \A k \in Kind : Awaited(k)
        /\ \A c \in Caller : Listed(c)
    BY Zenon DEF DistInv
  <2>2. \A c \in Caller : pc[c] = "waiting" => c \in saveRef.waiters \cup save.req.waiters
    BY Zenon, <2>1 DEF Listed
  <2>3. save.await \subseteq Kind
    BY Zenon, <2>1 DEF Typed, SaveRun
  <2>4. \A k \in save.await : "save" \in distRef[k].waiters \cup dist[k].req.waiters
    BY Zenon, <2>1, <2>3 DEF Awaited
  <2>5. \A k \in Kind : /\ dist[k].step = "idle" => dist[k].req = NoRequest
                        /\ distRef[k].on \/ distRef[k] = NoRequest
    BY Zenon, <2>1 DEF Awaited
  <2> QED  BY Zenon, <2>1, <2>2, <2>4, <2>5 DEF Resting, NobodyForgotten
<1> QED  BY <1>1, DistInvariant, PTL

(***************************************************************************)
(* The RPCs of the distribution workers never replace what a node has by   *)
(* something older, although a run may use a serial number it has read     *)
(* before the configuration changed again.                                 *)
(***************************************************************************)
THEOREM DistributionMonotone == DistSpec => NodesMonotone
<1>1. ASSUME DistInv, [DistNext]_distVars
      PROVE  \A k \in Kind : \A g \in Group : node[k][g] <= node'[k][g]
  <2>1. \A k \in Kind : \A g \in Group : node[k][g] \in Nat
    BY Zenon, <1>1, Numbers DEF DistInv
  <2>2. CASE node' = node
    BY <2>1, <2>2
  <2>3. ASSUME NEW l \in Kind, DistRpc(l)
        PROVE  \A k \in Kind : \A g \in Group : node[k][g] <= node'[k][g]
    BY <1>1, <2>1, <2>3, RpcGrows
  <2>4. node' = node \/ \E l \in Kind : DistRpc(l)
    <3>1. CASE SaveWorker
      BY Zenon, <3>1 DEF SaveWorker, SaveTake, SaveRead, SaveWrite, SaveFails,
         SaveDistribute, SaveWait, SaveAnswer
    <3>2. CASE \E k \in Kind : DistWorker(k)
      BY Zenon, <3>2 DEF DistWorker, DistTake, DistRead, DistAnswer
    <3>3. CASE \E c \in Caller : \/ modifyConfigState(c) \/ modifyConfigTrigger(c)
                                 \/ forceConfigStateDistribution(c) \/ Return(c)
      BY Zenon, <3>3 DEF modifyConfigState, modifyConfigTrigger,
         forceConfigStateDistribution, TriggerSave, Return
    <3>4. CASE UNCHANGED distVars
      BY Zenon, <3>4 DEF distVars
    <3> QED  BY Zenon, <1>1, <3>1, <3>2, <3>3, <3>4 DEF DistNext
  <2> QED  BY Zenon, <2>2, <2>3, <2>4
<1>2. [DistNext]_distVars /\ DistInv
        => [\A k \in Kind : \A g \in Group : node[k][g] <= node'[k][g]]_distVars
  BY Zenon, <1>1
<1> QED  BY <1>2, DistInvariant, PTL DEF DistSpec, NodesMonotone


=============================================================================
