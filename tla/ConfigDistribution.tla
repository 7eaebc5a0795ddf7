------------------------- MODULE ConfigDistribution -------------------------
(***************************************************************************)
(* How WConfd writes and distributes the configuration                     *)
(* (src/Ganeti/WConfd/ConfigWriter.hs, and the functions that trigger it   *)
(* in src/Ganeti/WConfd/Monad.hs).  A worker saves the configuration to    *)
(* the master's file and then triggers, or triggers and waits for, two     *)
(* more workers: one uploads the file to the master candidates, one sends  *)
(* the values derived from the configuration (ssconf) to all nodes.        *)
(*                                                                         *)
(* The workers are those of AsyncWorker: requests that arrive during a run *)
(* are combined into one further run.  As no trigger gets lost there, the  *)
(* wakeup of a worker is left out here.  A configuration is its serial     *)
(* number; every change is taken to change ssconf too.  A node group       *)
(* stands for its nodes, and Everywhere for all groups.                    *)
(***************************************************************************)
EXTENDS Integers, FiniteSets

CONSTANTS Caller, Group,
          MaxSerial, MaxCalls, MaxFailures    \* bounds

Kind == {"mcs", "ssconf"}

VARIABLES config,    \* serial number of the configuration in memory
          file,      \* ... and in the configuration file
          node,      \* ... and on the nodes: [Kind -> [Group -> Nat]]
          saveRef, save,    \* pending requests and run of the save worker
          distRef, dist,    \* the same for the distribution workers
          oldssc,    \* what the ssconf worker has distributed last
          pc, wanted, everywhere,   \* of each caller: where it is, the serial
                     \* number it waits for, did it ask for all of the nodes
                     \* to be up to date when the call returns
          excused,   \* callers for which something failed
          count      \* counters for the bounds

distVars == <<config, file, node, saveRef, save, distRef, dist, oldssc,
          pc, wanted, everywhere, excused, count>>

\* (Any flush, target) with the callers to answer; mempty, and the monoid.
NoRequest == [on |-> FALSE, flush |-> FALSE, target |-> {}, waiters |-> {}]

\* Mutant: a further request replaces those that wait for an answer.
addRequestReplaces(r, flush, target, waiters) ==
  [on |-> TRUE, flush |-> r.flush \/ flush, target |-> r.target \cup target,
   waiters |-> waiters]

addRequest(r, flush, target, waiters) ==
  [on |-> TRUE, flush |-> r.flush \/ flush, target |-> r.target \cup target,
   waiters |-> r.waiters \cup waiters]

DistInit ==
  /\ config = 0 /\ file = 0
  /\ node = [k \in Kind |-> [g \in Group |-> 0]]
  /\ saveRef = NoRequest /\ distRef = [k \in Kind |-> NoRequest]
  /\ save = [step |-> "idle", req |-> NoRequest, read |-> 0, await |-> {}]
  /\ dist = [k \in Kind |-> [step |-> "idle", req |-> NoRequest, read |-> 0]]
  /\ oldssc = -1     \* emptySSConf
  /\ pc = [c \in Caller |-> "idle"]
  /\ wanted = [c \in Caller |-> 0]
  /\ everywhere = [c \in Caller |-> FALSE]
  /\ excused = {}
  /\ count = [calls |-> 0, failures |-> 0]

-----------------------------------------------------------------------------
(***************************************************************************)
(* Calls: changing the configuration (the change in memory and the trigger *)
(* are two steps; a change that needs it is distributed synchronously),    *)
(* and flushing it to all nodes or to a group.                             *)
(***************************************************************************)
modifyConfigState(c) ==
  /\ pc[c] = "idle"
  /\ config < MaxSerial
  /\ config' = config + 1
  /\ wanted' = [wanted EXCEPT ![c] = config + 1]
  /\ pc' = [pc EXCEPT ![c] = "modified"]
  /\ UNCHANGED <<file, node, saveRef, save, distRef, dist, oldssc, everywhere,
                 excused, count>>

TriggerSave(c, flush, target) ==
  /\ saveRef' = addRequest(saveRef, flush, target, {c})
  /\ pc' = [pc EXCEPT ![c] = "waiting"]
  /\ everywhere' = [everywhere EXCEPT ![c] = flush /\ target = Group]
  /\ excused' = excused \ {c}
  /\ UNCHANGED <<config, file, node, save, distRef, dist, oldssc>>

modifyConfigTrigger(c) ==
  /\ pc[c] = "modified"
  /\ \E distSync \in BOOLEAN : TriggerSave(c, distSync, Group)
  /\ UNCHANGED <<wanted, count>>

forceConfigStateDistribution(c) ==
  /\ pc[c] = "idle"
  /\ count.calls < MaxCalls
  /\ count' = [count EXCEPT !.calls = @ + 1]
  /\ wanted' = [wanted EXCEPT ![c] = config]
  /\ \E target \in {Group} \cup {{g} : g \in Group} : TriggerSave(c, TRUE, target)

-----------------------------------------------------------------------------
(***************************************************************************)
(* The save worker.  If writing fails, the error is logged, nothing is     *)
(* distributed, and the callers are answered.                              *)
(***************************************************************************)
SaveTake ==
  /\ save.step = "idle" /\ saveRef.on
  /\ save' = [save EXCEPT !.step = "read", !.req = saveRef]
  /\ saveRef' = NoRequest
  /\ UNCHANGED <<config, file, node, distRef, dist, oldssc, pc, wanted,
                 everywhere, excused, count>>

SaveRead ==
  /\ save.step = "read"
  /\ save' = [save EXCEPT !.step = "write", !.read = config]
  /\ UNCHANGED <<config, file, node, saveRef, distRef, dist, oldssc, pc, wanted,
                 everywhere, excused, count>>

SaveWrite ==
  /\ save.step = "write"
  /\ file' = save.read
  /\ save' = [save EXCEPT !.step = "distribute", !.read = 0]
  /\ UNCHANGED <<config, node, saveRef, distRef, dist, oldssc, pc, wanted,
                 everywhere, excused, count>>

\* Mutant: a write that fails leaves a truncated file behind.
SaveFailsTruncates ==
  /\ save.step = "write"
  /\ count.failures < MaxFailures
  /\ count' = [count EXCEPT !.failures = @ + 1]
  /\ save' = [save EXCEPT !.step = "answer"]
  /\ excused' = excused \cup save.req.waiters
  /\ file' = 0
  /\ UNCHANGED <<config, node, saveRef, distRef, dist, oldssc, pc, wanted,
                 everywhere>>

SaveFails ==
  /\ save.step = "write"
  /\ count.failures < MaxFailures
  /\ count' = [count EXCEPT !.failures = @ + 1]
  /\ save' = [save EXCEPT !.step = "answer"]
  /\ excused' = excused \cup save.req.waiters
  /\ UNCHANGED <<config, file, node, saveRef, distRef, dist, oldssc, pc, wanted,
                 everywhere>>

\* Mutant: the workers are triggered synchronously, but nobody waits.
SaveDistributeAsync ==
  /\ save.step = "distribute"
  /\ distRef' = [k \in Kind |-> addRequest(distRef[k], FALSE, save.req.target, {})]
  /\ save' = [save EXCEPT !.step = "answer"]
  /\ UNCHANGED <<config, file, node, saveRef, dist, oldssc, pc, wanted,
                 everywhere, excused, count>>

SaveDistribute ==
  /\ save.step = "distribute"
  /\ distRef' = [k \in Kind |->
                   addRequest(distRef[k], FALSE, save.req.target,
                              IF save.req.flush THEN {"save"} ELSE {})]
  /\ save' = IF save.req.flush
               THEN [save EXCEPT !.step = "wait", !.await = Kind]
               ELSE [save EXCEPT !.step = "answer"]
  /\ UNCHANGED <<config, file, node, saveRef, dist, oldssc, pc, wanted,
                 everywhere, excused, count>>

SaveWait ==
  /\ save.step = "wait" /\ save.await = {}
  /\ save' = [save EXCEPT !.step = "answer"]
  /\ UNCHANGED <<config, file, node, saveRef, distRef, dist, oldssc, pc, wanted,
                 everywhere, excused, count>>

SaveAnswer ==
  /\ save.step = "answer"
  /\ pc' = [c \in Caller |-> IF c \in save.req.waiters THEN "returned" ELSE pc[c]]
  /\ save' = [save EXCEPT !.step = "idle", !.req = NoRequest]
  /\ UNCHANGED <<config, file, node, saveRef, distRef, dist, oldssc, wanted,
                 everywhere, excused, count>>

Return(c) ==
  /\ pc[c] = "returned"
  /\ pc' = [pc EXCEPT ![c] = "idle"]
  /\ wanted' = [wanted EXCEPT ![c] = 0]
  /\ everywhere' = [everywhere EXCEPT ![c] = FALSE]
  /\ excused' = excused \ {c}
  /\ UNCHANGED <<config, file, node, saveRef, save, distRef, dist, oldssc, count>>

-----------------------------------------------------------------------------
(***************************************************************************)
(* The distribution workers.  The first one uploads the file as it is now, *)
(* the second one what it computes from the configuration in memory,       *)
(* unless that is what it has distributed last.  The RPCs go to the nodes  *)
(* of the target; if any of them fails, so does the run.                   *)
(***************************************************************************)
DistTake(k) ==
  /\ dist[k].step = "idle" /\ distRef[k].on
  /\ dist' = [dist EXCEPT ![k].step = "read", ![k].req = distRef[k]]
  /\ distRef' = [distRef EXCEPT ![k] = NoRequest]
  /\ UNCHANGED <<config, file, node, saveRef, save, oldssc, pc, wanted,
                 everywhere, excused, count>>

DistRead(k) ==
  /\ dist[k].step = "read"
  /\ dist' = [dist EXCEPT ![k].read = IF k = "mcs" THEN file ELSE config,
                          ![k].step = IF k = "ssconf" /\ config = oldssc
                                        THEN "answer" ELSE "rpc"]
  /\ UNCHANGED <<config, file, node, saveRef, save, distRef, oldssc, pc, wanted,
                 everywhere, excused, count>>

DistRpc(k) ==
  /\ dist[k].step = "rpc"
  /\ \E ok \in SUBSET dist[k].req.target :
       /\ node' = [node EXCEPT ![k] = [g \in Group |->
                     IF g \in ok THEN dist[k].read ELSE node[k][g]]]
       /\ \/ /\ ok = dist[k].req.target
             /\ oldssc' = IF k = "ssconf" THEN dist[k].read ELSE oldssc
             /\ UNCHANGED <<excused, count>>
          \/ /\ ok # dist[k].req.target
             /\ count.failures < MaxFailures
             /\ count' = [count EXCEPT !.failures = @ + 1]
             /\ excused' = IF dist[k].req.waiters = {} THEN excused
                             ELSE excused \cup save.req.waiters
             /\ UNCHANGED oldssc
  /\ dist' = [dist EXCEPT ![k].step = "answer", ![k].read = 0]
  /\ UNCHANGED <<config, file, saveRef, save, distRef, pc, wanted, everywhere>>

DistAnswer(k) ==
  /\ dist[k].step = "answer"
  /\ save' = [save EXCEPT !.await = IF dist[k].req.waiters = {} THEN @
                                                               ELSE @ \ {k}]
  /\ dist' = [dist EXCEPT ![k].step = "idle", ![k].req = NoRequest]
  /\ UNCHANGED <<config, file, node, saveRef, distRef, oldssc, pc, wanted,
                 everywhere, excused, count>>

SaveWorker == \/ SaveTake \/ SaveRead \/ SaveWrite \/ SaveFails
              \/ SaveDistribute \/ SaveWait \/ SaveAnswer

DistWorker(k) == DistTake(k) \/ DistRead(k) \/ DistRpc(k) \/ DistAnswer(k)

DistNext ==
  \/ SaveWorker
  \/ \E k \in Kind : DistWorker(k)
  \/ \E c \in Caller : \/ modifyConfigState(c) \/ modifyConfigTrigger(c)
                       \/ forceConfigStateDistribution(c) \/ Return(c)

DistSpec == DistInit /\ [][DistNext]_distVars

-----------------------------------------------------------------------------
(***************************************************************************)
(* A change or a flush that returns was written, and if it asked for the   *)
(* distribution and nothing failed, the master candidates have it ("Return *)
(* only after replication is finished", modifyConfigStateErrWithImmediate  *)
(* in src/Ganeti/WConfd/Monad.hs).  All nodes have the ssconf as well,     *)
(* unless the ssconf worker takes it for distributed: it remembers what it *)
(* has sent last, also if that went to one node group only.                *)
(***************************************************************************)
Replicated ==
  \A c \in Caller \ excused : pc[c] = "returned" =>
    /\ wanted[c] <= file
    /\ everywhere[c] => \A g \in Group :
         /\ wanted[c] <= node["mcs"][g]
         /\ wanted[c] <= node["ssconf"][g] \/ wanted[c] <= oldssc

\* No node ever gets an older configuration or ssconf than it has.
NodesMonotone ==
  [][\A k \in Kind : \A g \in Group : node[k][g] <= node'[k][g]]_distVars

(***************************************************************************)
(* No answer gets lost between the chained workers: who waits for an       *)
(* answer of a worker is listed in its pending or its current request, so  *)
(* nobody waits for a worker that has nothing to do.                       *)
(***************************************************************************)
NobodyForgotten ==
  /\ \A c \in Caller : pc[c] = "waiting"
       => c \in saveRef.waiters \cup save.req.waiters
  /\ \A k \in save.await : "save" \in distRef[k].waiters \cup dist[k].req.waiters
  /\ save.step = "idle" => save.req = NoRequest
  /\ \A k \in Kind : dist[k].step = "idle" => dist[k].req = NoRequest
  /\ saveRef.on \/ saveRef = NoRequest
  /\ \A k \in Kind : distRef[k].on \/ distRef[k] = NoRequest

=============================================================================
