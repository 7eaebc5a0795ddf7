----------------------------- MODULE AsyncWorker ----------------------------
(***************************************************************************)
(* Asynchronous workers (src/Ganeti/Utils/AsyncWorker.hs), in the way      *)
(* WConfd uses them to write its state to disk: clients modify the state   *)
(* in memory, trigger the worker and wait for the result; the worker's     *)
(* action reads the state and writes it out (writePersistentAsyncTask in   *)
(* src/Ganeti/WConfd/Persistent.hs).                                       *)
(*                                                                         *)
(* The worker and the clients share an IORef with the pending triggers and *)
(* an MVar that wakes up the worker.  Triggers that arrive while the       *)
(* action runs are collected for the next run, so a run may answer many    *)
(* triggers and a wakeup may find nothing to do.                           *)
(*                                                                         *)
(* The state in memory and on disk is the number of modifications it       *)
(* reflects.  A trigger's input is the client, inputs are combined by      *)
(* union.                                                                  *)
(***************************************************************************)
EXTENDS Integers

CONSTANTS Client,
          MaxVersion     \* bound on the number of modifications

ASSUME VersionAssumption == MaxVersion \in Nat

VARIABLES ref,      \* IORef (TriggerState i a)
          trig,     \* MVar (): is it full?
          wpc,      \* the next step of the worker
          run,      \* the pending requests the worker has taken
          read,     \* the state its action has read
          memory,   \* the state in memory
          disk,     \* the state on disk
          cpc,      \* the next step of each client
          want,     \* the state in memory right after the client's change
          result,   \* MVar a of the client: is it full?
          failed    \* the clients answered by a run that could not write

workerVars == <<ref, trig, wpc, run, read, memory, disk, cpc, want, result, failed>>

Idle == [kind |-> "Idle", input |-> {}, recipients |-> {}]

TriggerState ==
  {Idle} \cup [kind : {"Pending"},
               input : SUBSET Client, recipients : SUBSET Client]

\* The result is always Pending; mmvar is {} or the client to answer.
addTrigger(i, mmvar, ts) ==
  [kind |-> "Pending", input |-> ts.input \cup i,
   recipients |-> ts.recipients \cup mmvar]

WorkerInit ==
  /\ ref = Idle /\ trig = TRUE
  /\ wpc = "take" /\ run = Idle /\ read = 0
  /\ memory = 0 /\ disk = 0
  /\ cpc = [c \in Client |-> "modify"]
  /\ want = [c \in Client |-> 0]
  /\ result = [c \in Client |-> FALSE]
  /\ failed = {}

-----------------------------------------------------------------------------
(***************************************************************************)
(* The clients.  After the atomic modification a client calls either       *)
(* triggerAndWait or trigger; both add to the IORef first, and then fill   *)
(* the MVar unless it is full already (tryPutMVar).                        *)
(***************************************************************************)
Modify(c) ==
  /\ cpc[c] = "modify"
  /\ memory < MaxVersion
  /\ memory' = memory + 1
  /\ want' = [want EXCEPT ![c] = memory + 1]
  /\ cpc' = [cpc EXCEPT ![c] = "trigger"]
  /\ UNCHANGED <<ref, trig, wpc, run, read, disk, result, failed>>

TriggerWithResult(c) ==
  /\ cpc[c] = "trigger"
  /\ result' = [result EXCEPT ![c] = FALSE]
  /\ ref' = addTrigger({c}, {c}, ref)
  /\ cpc' = [cpc EXCEPT ![c] = "put"]
  /\ failed' = failed \ {c}
  /\ UNCHANGED <<trig, wpc, run, read, memory, disk, want>>

\* Mutant: trigger does not wake up the worker.
TriggerNoPut(c) ==
  /\ cpc[c] = "trigger"
  /\ ref' = addTrigger({c}, {}, ref)
  /\ cpc' = [cpc EXCEPT ![c] = "modify"]
  /\ UNCHANGED <<trig, wpc, run, read, memory, disk, want, result, failed>>

Trigger(c) ==
  /\ cpc[c] = "trigger"
  /\ ref' = addTrigger({c}, {}, ref)
  /\ cpc' = [cpc EXCEPT ![c] = "putOnly"]
  /\ UNCHANGED <<trig, wpc, run, read, memory, disk, want, result, failed>>

\* Mutant: no need to wake up a worker that is running.
TryPutIfAsleep(c) ==
  /\ cpc[c] \in {"put", "putOnly"}
  /\ trig' = (trig \/ wpc = "take")
  /\ cpc' = [cpc EXCEPT ![c] = IF @ = "put" THEN "wait" ELSE "modify"]
  /\ UNCHANGED <<ref, wpc, run, read, memory, disk, want, result, failed>>

TryPut(c) ==
  /\ cpc[c] \in {"put", "putOnly"}
  /\ trig' = TRUE
  /\ cpc' = [cpc EXCEPT ![c] = IF @ = "put" THEN "wait" ELSE "modify"]
  /\ UNCHANGED <<ref, wpc, run, read, memory, disk, want, result, failed>>

Wait(c) ==
  /\ cpc[c] = "wait"
  /\ result[c]
  /\ cpc' = [cpc EXCEPT ![c] = "modify"]
  /\ UNCHANGED <<ref, trig, wpc, run, read, memory, disk, want, result, failed>>

-----------------------------------------------------------------------------
(***************************************************************************)
(* The worker: take the MVar, swap the IORef, run the action if there were *)
(* requests, put the result into the recipients' MVars.                    *)
(***************************************************************************)
TakeTrig ==
  /\ wpc = "take" /\ trig
  /\ trig' = FALSE
  /\ wpc' = "swap"
  /\ UNCHANGED <<ref, run, read, memory, disk, cpc, want, result, failed>>

SwapRef ==
  /\ wpc = "swap"
  /\ run' = ref
  /\ ref' = Idle
  /\ wpc' = IF ref.kind = "Idle" THEN "take" ELSE "read"
  /\ UNCHANGED <<trig, read, memory, disk, cpc, want, result, failed>>

ReadState ==
  /\ wpc = "read"
  /\ read' = memory
  /\ wpc' = "write"
  /\ UNCHANGED <<ref, trig, run, memory, disk, cpc, want, result, failed>>

\* Mutant: the requests are taken after the action has run, not before.
WriteStateThenSwap ==
  /\ wpc = "write"
  /\ disk' = read
  /\ run' = addTrigger(ref.input, ref.recipients, run)
  /\ ref' = Idle
  /\ wpc' = "answer"
  /\ UNCHANGED <<trig, read, memory, cpc, want, result, failed>>

WriteState ==
  /\ wpc = "write"
  /\ disk' = read
  /\ wpc' = "answer"
  /\ UNCHANGED <<ref, trig, run, read, memory, cpc, want, result, failed>>

\* The error is logged; the recipients are answered all the same.
WriteFails ==
  /\ wpc = "write"
  /\ failed' = failed \cup run.recipients
  /\ wpc' = "answer"
  /\ UNCHANGED <<ref, trig, run, read, memory, disk, cpc, want, result>>

Answer ==
  /\ wpc = "answer"
  /\ \/ \E c \in run.recipients :
          /\ result' = [result EXCEPT ![c] = TRUE]
          /\ run' = [run EXCEPT !.recipients = @ \ {c}]
          /\ wpc' = wpc
     \/ /\ run.recipients = {}
        /\ run' = Idle
        /\ wpc' = "take"
        /\ UNCHANGED result
  /\ UNCHANGED <<ref, trig, read, memory, disk, cpc, want, failed>>

Worker == \/ TakeTrig \/ SwapRef \/ ReadState \/ WriteState \/ WriteFails
          \/ Answer

ClientStep(c) == \/ Modify(c) \/ TriggerWithResult(c) \/ Trigger(c)
                 \/ TryPut(c) \/ Wait(c)

WorkerNext == Worker \/ \E c \in Client : ClientStep(c)

WorkerSpec == WorkerInit /\ [][WorkerNext]_workerVars

(***************************************************************************)
(* Threads are scheduled fairly; a client thread does not stop in the      *)
(* middle of a call.  Whether clients make further changes is up to them.  *)
(***************************************************************************)
WorkerFairSpec ==
  /\ WorkerSpec
  /\ WF_workerVars(Worker)
  /\ \A c \in Client :
       WF_workerVars(TriggerWithResult(c) \/ Trigger(c) \/ TryPut(c) \/ Wait(c))

-----------------------------------------------------------------------------
\* Type correctness of the worker, its IORef and the clients.
WorkerTypeOK ==
  /\ ref \in TriggerState /\ run \in TriggerState
  /\ trig \in BOOLEAN
  /\ wpc \in {"take", "swap", "read", "write", "answer"}
  /\ memory \in Nat /\ disk \in Nat /\ read \in Nat
  /\ cpc \in [Client -> {"modify", "trigger", "put", "putOnly", "wait"}]
  /\ want \in [Client -> Nat]
  /\ result \in [Client -> BOOLEAN]
  /\ failed \in SUBSET Client

(***************************************************************************)
(* Durability: when triggerAndWait returns, the change its caller made     *)
(* before the call is on disk, unless writing failed.  modifyLockWaiting   *)
(* relies on this before it answers a client.                              *)
(***************************************************************************)
Durable ==
  \A c \in Client :
    cpc[c] \in {"put", "wait"} /\ result[c] /\ c \notin failed
      => want[c] <= disk

(***************************************************************************)
(* No trigger is lost: as long as triggers are pending, the worker is      *)
(* about to look at them, or the MVar is full, or some client is about to  *)
(* fill it.                                                                *)
(***************************************************************************)
NoLostTrigger ==
  ref.kind = "Pending" => \/ trig
                          \/ wpc = "swap"
                          \/ \E c \in Client : cpc[c] \in {"put", "putOnly"}

(***************************************************************************)
(* Nobody waits in vain: a client that waits for a result has the result,  *)
(* or is a recipient of the pending triggers or of the current run, and    *)
(* then its input is part of the input of that run.                        *)
(***************************************************************************)
WaiterServed ==
  \A c \in Client :
    cpc[c] \in {"put", "wait"} /\ ~result[c]
      => \E ts \in {ref, run} : c \in ts.recipients \cap ts.input

\* What is on disk never gets older.
DiskMonotone == [][disk <= disk']_workerVars

(***************************************************************************)
(* The inductive invariant behind the above: the worker answers only       *)
(* clients that are waiting and have no answer yet, each of them once; a   *)
(* state read during a run is at least as new as the changes the run has   *)
(* to write.                                                               *)
(***************************************************************************)
RunCovers ==
  /\ disk <= memory
  /\ wpc = "write" => disk <= read /\ read <= memory
  /\ wpc \in {"take", "swap"} => run = Idle
  /\ \A c \in Client :
       /\ want[c] <= memory
       /\ c \in run.recipients /\ wpc = "write" => want[c] <= read
       /\ c \in run.recipients /\ wpc = "answer" /\ c \notin failed
            => want[c] <= disk
       /\ c \in ref.recipients \cup run.recipients
            => cpc[c] \in {"put", "wait"} /\ ~result[c]
       /\ c \notin ref.recipients \cap run.recipients

\* Every call of triggerAndWait returns.
CallsReturn == \A c \in Client : cpc[c] = "wait" ~> cpc[c] = "modify"

=============================================================================
