--------------------------- MODULE MasterFailover ---------------------------
(***************************************************************************)
(* The master role: who may run the master daemons, and how the role moves *)
(* (MasterFailover, _GatherMasterVotes and MajorityHealthy in              *)
(* lib/bootstrap.py, MasterFailover in lib/client/gnt_cluster.py, the vote *)
(* of src/Ganeti/Daemon/Utils.hs, ensureNode in src/Ganeti/Daemon.hs).     *)
(*                                                                         *)
(* Every node has a name of the master in its ssconf files; a master       *)
(* candidate also has a copy of the configuration.  The daemons of the     *)
(* master (WConfd and luxid, one process here) load that copy when they    *)
(* start, and write it only if nobody else wrote it since (the file's      *)
(* fstat); a write is uploaded to the candidates and, if the name of the   *)
(* master is new, to the ssconf files of the nodes.  Uploads are executed  *)
(* node by node, and any of them may fail.                                 *)
(***************************************************************************)
EXTENDS Naturals, FiniteSets

CONSTANTS
  Nodes,          \* all nodes of the configuration
  Candidates,     \* the master candidates
  Offline,        \* the nodes marked offline in the configuration
  Founder,        \* the master at the start
  IgnoreOffline,  \* failovers are run with --ignore-offline-nodes
  Unvoted,        \* the nodes on which they are run with --no-voting
  MaxChanges,     \* bound: changes of the configuration
  MaxFailovers,   \* bound: failovers that pass their checks
  MaxFaults       \* bound: crashes, lost calls

ASSUME Cluster ==
  /\ IsFiniteSet(Nodes)
  /\ Founder \in Candidates /\ Candidates \subseteq Nodes
  /\ Offline \subseteq Nodes \ {Founder}
  /\ IgnoreOffline \in BOOLEAN /\ Unvoted \subseteq Nodes
  /\ MaxChanges \in Nat /\ MaxFailovers \in Nat /\ MaxFaults \in Nat

VARIABLES
  up,      \* up[n]: n and its node daemon run
  ss,      \* ss[n]: the master according to the ssconf files of n
  cfg,     \* cfg[n]: the configuration file of candidate n
  run,     \* run[n]: "no", "forced" (only WConfd, by a failover), "elected"
           \* (the daemons won the vote, and did not load yet) or "yes"
  mem,     \* mem[n]: the configuration WConfd of n works with
  clean,   \* clean[n]: the file of n is what its WConfd last read or wrote
  told,    \* told[n]: WConfd of n sent the name of the master everywhere
  dist,    \* dist[n]: the upload in progress: the nodes left, what is sent
  fo,      \* fo[n]: the "gnt-cluster master-failover" run on n: its step
           \* and the old master
  missed,  \* <<n, m>>: a configuration written by n did not reach m
  calm,    \* nobody else wrote since a writer began
  sure,    \* the failovers that nothing disturbed since their checks
  kept,    \* the changes known to be on every candidate
  count    \* changes, failovers and faults so far

files == <<ss, cfg>>
daemon == <<run, mem, clean, told>>
vars == <<up, files, daemon, dist, fo, missed, calm, sure, kept, count>>

First == [master |-> Founder, changes |-> {}]
Quiet == [todo |-> {}, load |-> First, names |-> FALSE, failed |-> FALSE]
NoFailover == [pc |-> "idle", old |-> Founder]

\* n writes or uploads, or works on a copy it loaded in order to write it.
Busy(n) == dist[n].todo # {} \/ run[n] = "forced"
Contention == \E n, m \in Nodes : n # m /\ Busy(n) /\ Busy(m)

\* Mutant: the file is not sent along with new ssconf files.
GetsFileOrName(n, m) ==
  m \in Candidates \ (Offline \cup {dist[n].load.master}) /\ ~dist[n].names

\* upload_file goes to the candidates, not to the master.
GetsFile(n, m) ==
  m \in Candidates \ (Offline \cup {dist[n].load.master})

\* The step ends the upload of n, which named n, and no call of it failed.
Completed(n) == /\ dist[n].todo # {} /\ dist'[n].todo = {}
                /\ ~dist[n].failed /\ up'[n] /\ dist[n].load.master = n
                /\ \A m \in dist[n].todo : GetsFile(n, m) => cfg'[m] = dist[n].load

\* Nobody else is about to change the configuration or the master.
Undisturbed(n) == \A m \in Nodes \ {n} : fo[m] = NoFailover /\ dist[m] = Quiet

\* What an onlooker knows after a step.  The changes of an upload that reached
\* every candidate are kept, if nobody else was about to write; a failover is
\* sure to succeed if nothing happened since its checks.
Observe ==
  /\ sure' = IF count' = count THEN sure
             ELSE {n \in Nodes : fo[n] # fo'[n] /\ fo'[n].pc = "wconfd"
                                  /\ Undisturbed(n)}
  /\ calm' = \/ ~Contention' /\ calm
             \/ \A n \in Nodes : ~Busy(n)'
  /\ kept' = IF ~calm' THEN {}
             ELSE kept \cup UNION {dist[n].load.changes : n \in
                    {m \in Nodes : /\ calm /\ Completed(m)}}

Faulty == count.faults < MaxFaults
Spent == [count EXCEPT !.faults = @ + 1]
-----------------------------------------------------------------------------
(***************************************************************************)
(* Votes.                                                                  *)
(***************************************************************************)
\* The nodes of S that answer: those that are up, but an answer may be lost.
Answers(S) ==
  LET all == {m \in S : up[m]}
  IN  {[from |-> all, count |-> count]} \cup
      {[from |-> all \ {m}, count |-> Spent] : m \in IF Faulty THEN all ELSE {}}

Votes(V, m) == Cardinality({v \in V : ss[v] = m})

Majority(k, S) == 2 * k > Cardinality(S)

\* verifyMasterVotes: offline nodes are not asked, but counted as voters.
Wins(V, n) == Majority(Votes(V, n), Nodes)

\* MajorityHealthy.
Electorate == IF IgnoreOffline THEN Nodes \ Offline ELSE Nodes
MajorityHealthy(V) == Majority(Cardinality(V \cap Electorate), Electorate)

\* The votes agree with n: its master leads the list of _GatherMasterVotes.
Confirmed(V, n) == \A m \in Nodes : Votes(V, m) <= Votes(V, ss[n])
-----------------------------------------------------------------------------
(***************************************************************************)
(* The daemons of the master.                                              *)
(***************************************************************************)
Loaded(n, as) ==
  /\ run' = [run EXCEPT ![n] = as]
  /\ mem' = [mem EXCEPT ![n] = cfg[n]]
  /\ clean' = [clean EXCEPT ![n] = TRUE]
  /\ told' = [told EXCEPT ![n] = FALSE]

\* The daemons of the nodes in S stop.
Stopped(S) ==
  /\ run' = [n \in Nodes |-> IF n \in S THEN "no" ELSE run[n]]
  /\ mem' = [n \in Nodes |-> IF n \in S THEN First ELSE mem[n]]
  /\ clean' = [n \in Nodes |-> n \in S \/ clean[n]]
  /\ told' = [n \in Nodes |-> n \notin S /\ told[n]]

Working(n) == run[n] \in {"forced", "yes"}

\* The daemons are started (at boot, by an operator, by a failover): they
\* exit unless the node thinks that it is the master and the vote is won.
Elect(n) ==
  /\ up[n] /\ run[n] = "no" /\ n \in Candidates
  /\ fo[n].pc = "idle" \/ (fo[n].pc = "start" /\ n \notin Unvoted)
  /\ ss[n] = n
  /\ Wins({m \in Nodes \ Offline : up[m]}, n)
  /\ run' = [run EXCEPT ![n] = "elected"]
  /\ UNCHANGED <<up, files, mem, clean, told, dist, fo, missed, count>>

Load(n) ==
  /\ run[n] = "elected" /\ dist[n].todo = {}
  /\ Loaded(n, "yes")
  /\ fo' = [fo EXCEPT ![n] = IF @.pc = "start" THEN NoFailover ELSE @]
  /\ UNCHANGED <<up, files, dist, missed, count>>

\* Mutant: ssconf is not regenerated.
UploadFiles(n, c, names) ==
  dist' = [dist EXCEPT ![n] =
             [todo |-> Candidates \ ({c.master} \cup Offline),
              load |-> c, names |-> FALSE, failed |-> FALSE]]

\* The uploads that follow a write of configuration c on n: to the other
\* candidates, and to all nodes if ssconf changed.
Upload(n, c, names) ==
  dist' = [dist EXCEPT ![n] =
             [todo |-> IF names THEN Nodes \ Offline
                                ELSE Candidates \ ({c.master} \cup Offline),
              load |-> c, names |-> names, failed |-> FALSE]]

\* Mutant: the configuration is written without a look at the file.
SaveAlways(n, c) ==
  /\ mem' = [mem EXCEPT ![n] = c]
  /\ cfg' = [cfg EXCEPT ![n] = c]
  /\ clean' = [clean EXCEPT ![n] = TRUE]
  /\ Upload(n, c, ~told[n])

\* WConfd changes its configuration to c.  If another process wrote the file
\* the write fails; that is only logged, and nothing is uploaded.
Save(n, c) ==
  /\ mem' = [mem EXCEPT ![n] = c]
  /\ \/ /\ clean[n]
        /\ cfg' = [cfg EXCEPT ![n] = c]
        /\ Upload(n, c, ~told[n])
     \/ ~clean[n] /\ UNCHANGED <<cfg, dist>>
  /\ UNCHANGED clean

\* A job on master n changes the configuration.
Change(n) ==
  /\ run[n] = "yes" /\ dist[n].todo = {}
  /\ count.changes < MaxChanges
  /\ count' = [count EXCEPT !.changes = @ + 1]
  /\ Save(n, [mem[n] EXCEPT !.changes = @ \cup {count.changes + 1}])
  /\ UNCHANGED <<up, ss, run, told, fo, missed>>

(***************************************************************************)
(* The calls of an upload of n to m are executed: upload_file if m is a    *)
(* candidate, write_ssconf_files if ssconf changed.  Either may fail.      *)
(***************************************************************************)
Deliver(n, m) ==
  /\ m \in dist[n].todo
  /\ UNCHANGED <<up, run, mem, fo>>
  /\ \E file, name \in BOOLEAN :
       LET d == [dist[n] EXCEPT !.todo = @ \ {m},
                   !.failed = @ \/ (GetsFile(n, m) /\ ~file)
                                \/ (dist[n].names /\ ~name)]
       IN
       /\ (file => GetsFile(n, m)) /\ (name => dist[n].names)
       /\ up[m] \/ (~file /\ ~name)
       /\ \/ /\ ~up[m] \/ (file = GetsFile(n, m) /\ name = dist[n].names)
             /\ count' = count
          \/ /\ up[m] /\ (file # GetsFile(n, m) \/ name # dist[n].names)
             /\ Faulty /\ count' = Spent
       /\ cfg' = IF file THEN [cfg EXCEPT ![m] = dist[n].load] ELSE cfg
       /\ clean' = IF file THEN [clean EXCEPT ![m] = ~Working(m)] ELSE clean
       /\ ss' = IF name THEN [ss EXCEPT ![m] = dist[n].load.master] ELSE ss
       /\ missed' = IF GetsFile(n, m) /\ ~file THEN missed \cup {<<n, m>>}
                                              ELSE missed
       /\ dist' = [dist EXCEPT ![n] = IF d.todo = {} THEN Quiet ELSE d]
       /\ told' = [told EXCEPT ![n] = @ \/ (run[n] # "no" /\ d.todo = {}
                                            /\ d.names /\ ~d.failed)]
-----------------------------------------------------------------------------
(***************************************************************************)
(* gnt-cluster master-failover on node n.                                  *)
(***************************************************************************)
FailoverCheck(n) ==
  /\ up[n] /\ fo[n].pc = "idle" /\ run[n] = "no"
  /\ ss[n] # n /\ n \in Candidates
  /\ count.failovers < MaxFailovers
  /\ \/ n \in Unvoted /\ count' = [count EXCEPT !.failovers = @ + 1]
     \/ /\ n \notin Unvoted
        /\ \E a \in Answers(Nodes) :
             /\ MajorityHealthy(a.from) /\ Confirmed(a.from, n)
             /\ count' = [a.count EXCEPT !.failovers = @ + 1]
  /\ fo' = [fo EXCEPT ![n] = [pc |-> "wconfd", old |-> ss[n]]]
  /\ UNCHANGED <<up, files, daemon, dist, missed>>

StartWConfd(n) ==
  /\ fo[n].pc = "wconfd" /\ run[n] = "no" /\ dist[n].todo = {}
  /\ Loaded(n, "forced")
  /\ fo' = [fo EXCEPT ![n].pc = "update"]
  /\ UNCHANGED <<up, files, dist, missed, count>>

\* cfg.Update returns when the configuration has been distributed.
Update(n) ==
  /\ fo[n].pc = "update"
  /\ Save(n, [mem[n] EXCEPT !.master = n])
  /\ fo' = [fo EXCEPT ![n].pc = "stop"]
  /\ UNCHANGED <<up, ss, run, told, missed, count>>

\* The old master is told to stop its daemons; a failure is only a warning.
StopOldMaster(n) ==
  /\ fo[n].pc = "stop" /\ dist[n].todo = {}
  /\ \/ /\ up[fo[n].old] /\ count' = count
        /\ Stopped({n} \cup {m \in {fo[n].old} : run[m] = "yes"})
     \/ /\ IF up[fo[n].old] THEN Faulty /\ count' = Spent ELSE count' = count
        /\ Stopped({n})
  /\ fo' = [fo EXCEPT ![n].pc = "start"]
  /\ UNCHANGED <<up, files, dist, missed>>

\* call_node_start_master_daemons with --no-voting; with a vote: Elect, Load.
StartUnvoted(n) ==
  /\ fo[n].pc = "start" /\ n \in Unvoted
  /\ ss[n] = n /\ run[n] = "no"
  /\ Loaded(n, "yes")
  /\ fo' = [fo EXCEPT ![n] = NoFailover]
  /\ UNCHANGED <<up, files, dist, missed, count>>

\* The daemons could not be started: the vote is lost, or not for this node.
StartFails(n) ==
  /\ fo[n].pc = "start" /\ run[n] = "no"
  /\ \/ ss[n] # n
     \/ /\ n \notin Unvoted
        /\ \E a \in Answers(Nodes \ Offline) :
             ~Wins(a.from, n) /\ count' = a.count
  /\ ss[n] # n => count' = count
  /\ fo' = [fo EXCEPT ![n] = NoFailover]
  /\ UNCHANGED <<up, files, daemon, dist, missed>>

FailoverStep(n) == \/ StartWConfd(n) \/ Update(n) \/ StopOldMaster(n)
                   \/ StartUnvoted(n) \/ StartFails(n)
-----------------------------------------------------------------------------
(***************************************************************************)
(* Faults.                                                                 *)
(***************************************************************************)
Crash(n) ==
  /\ up[n] /\ Faulty /\ count' = Spent
  /\ up' = [up EXCEPT ![n] = FALSE]
  /\ Stopped({n})
  /\ fo' = [fo EXCEPT ![n] = NoFailover]
  /\ missed' = missed \cup {<<n, m>> : m \in {k \in dist[n].todo : GetsFile(n, k)}}
  /\ dist' = [dist EXCEPT ![n] = Quiet]
  /\ UNCHANGED files

\* A node marked offline is down until it is added again.
Boot(n) == /\ ~up[n] /\ n \notin Offline
           /\ up' = [up EXCEPT ![n] = TRUE]
           /\ UNCHANGED <<files, daemon, dist, fo, missed, count>>

\* The daemons of the master stop: killed, or stopped by an operator.
DaemonsDie(n) ==
  /\ run[n] \in {"yes", "elected"} /\ Faulty /\ count' = Spent
  /\ Stopped({n})
  /\ UNCHANGED <<up, files, dist, fo, missed>>
-----------------------------------------------------------------------------
Init ==
  /\ up = [n \in Nodes |-> n \notin Offline]
  /\ ss = [n \in Nodes |-> Founder]
  /\ cfg = [n \in Nodes |-> First]
  /\ run = [n \in Nodes |-> IF n = Founder THEN "yes" ELSE "no"]
  /\ mem = [n \in Nodes |-> First]
  /\ clean = [n \in Nodes |-> TRUE]
  /\ told = [n \in Nodes |-> FALSE]
  /\ dist = [n \in Nodes |-> Quiet]
  /\ fo = [n \in Nodes |-> NoFailover]
  /\ missed = {} /\ calm = TRUE /\ sure = {} /\ kept = {}
  /\ count = [changes |-> 0, failovers |-> 0, faults |-> 0]

Step(n) == Elect(n) \/ Load(n) \/ FailoverStep(n) \/ \E m \in Nodes : Deliver(n, m)

Next == /\ \E n \in Nodes : \/ Step(n) \/ Change(n) \/ FailoverCheck(n)
                            \/ Crash(n) \/ Boot(n) \/ DaemonsDie(n)
        /\ Observe

Spec == Init /\ [][Next]_vars /\ \A n \in Nodes : WF_vars(Step(n) /\ Observe)
-----------------------------------------------------------------------------
\* n runs the master daemons, on a configuration that names n as the master,
\* and can still write it.
Leader(n) == run[n] = "yes" /\ clean[n] /\ mem[n].master = n

(***************************************************************************)
(* "if cfg.Update worked, then it means the old master daemon won't be     *)
(* able now to write its own config file" (MasterFailover in               *)
(* lib/bootstrap.py): two nodes lead only if the configuration of one of   *)
(* them did not reach the other.                                           *)
(***************************************************************************)
OneLeader ==
  \A n, m \in Nodes : n # m /\ Leader(n) /\ Leader(m)
                        => <<n, m>> \in missed \/ <<m, n>> \in missed

(***************************************************************************)
(* "To avoid situations with daemons not starting up on the new master,    *)
(* master-failover without the --no-voting option verifies a healthy       *)
(* majority of nodes" (man/gnt-cluster.rst): if a failover passed its      *)
(* checks, and nothing else happened meanwhile, the new master starts.     *)
(***************************************************************************)
NoVainFailover ==
  [][\A n \in Nodes \ Unvoted :
       fo[n].pc = "start" /\ fo'[n].pc = "idle" /\ n \in sure'
         => run'[n] = "yes"]_vars

(***************************************************************************)
(* A change that was uploaded to every candidate, with nobody else writing *)
(* at the time, is in the configuration of whoever leads later.            *)
(***************************************************************************)
ChangesKept ==
  \A n \in Nodes : Leader(n) => kept \subseteq mem[n].changes

=============================================================================
