----------------------------- MODULE NodeRoles -----------------------------
(***************************************************************************)
(* The roles of the nodes and the pool of master candidates                *)
(* (lib/cmdlib/node.py, the candidate functions of lib/cmdlib/common.py    *)
(* and lib/config/__init__.py, and the pool size in                        *)
(* lib/cmdlib/cluster/__init__.py).                                        *)
(*                                                                         *)
(* Jobs add, re-add, remove and modify nodes, and change the pool size.    *)
(* What a candidate has besides its flag in the configuration is granted   *)
(* and revoked by further steps of the same job: its certificate in the    *)
(* list of candidates (certs), its SSH key on the other nodes (keys) and   *)
(* its copy of the configuration (copy), which WConfd uploads.  A job is   *)
(* the sequence of steps it still has to do; other jobs run between two    *)
(* steps, as far as the locks of both allow.                               *)
(*                                                                         *)
(* owed records what a failure has left undone: <<what, node>> is added    *)
(* when a job fails before the step that would see to it, and removed by   *)
(* the next step that does.                                                *)
(***************************************************************************)
EXTENDS Integers, FiniteSets, Sequences, Functions

CONSTANTS Nodes, Master,
          Requests,              \* arguments of LUNodeSetParams
          Founders, PoolSize,    \* the candidates and pool size at the start
          PoolSizes,             \* arguments of LUClusterSetParams
          Jobs,                  \* how many jobs may run at once
          MaxJobs, MaxFaults     \* bounds

Flags == {"candidate", "drained", "offline"}
Roles == Flags \cup {"regular"}
Change == {"yes", "no", "keep"}

ASSUME Cluster ==
  /\ Master \in Founders /\ Founders \subseteq Nodes
  /\ Requests \subseteq [Flags \cup {"capable"} -> Change]
  /\ {PoolSize} \cup PoolSizes \subseteq Nat \ {0}
  /\ IsFiniteSet(Nodes) /\ {MaxJobs, MaxFaults} \subseteq Nat

VARIABLES role, capable, size,    \* the configuration; role "absent": no node
          certs, keys, copy,      \* the nodes that have each
          dirty, upload,          \* WConfd's distribution: is a run due, and
                                  \* the nodes the present run has still to do
          job,                    \* [Jobs -> ...]
          owed, count

vars == <<role, capable, size, certs, keys, copy, dirty, upload, job, owed,
          count>>

conf == <<role, capable, size>>
wconfd == <<copy, dirty, upload>>

\* The cluster object as a job has read it.
Nothing == [pool |-> 0, certs |-> {}]

NoJob == [op |-> "none", node |-> Master, lock |-> "none", todo |-> <<>>,
          wait |-> "no", adjusts |-> FALSE, read |-> Nothing, fresh |-> FALSE]

Candidates == {n \in Nodes : role[n] = "candidate"}

(* The candidate pool. *)

\* The nodes counted by _UnlockedGetMasterCandidateStats as possible.
Possible == {n \in Nodes : role[n] \in {"candidate", "regular"} /\ capable[n]}

Min2(a, b) == IF a < b THEN a ELSE b

mc_now(exceptions) == Cardinality(Candidates \ exceptions)
mc_should(exceptions) == Min2(Cardinality(Possible \ exceptions), size)

DecideSelfPromotion(exceptions) ==
  mc_now(exceptions) < Min2(mc_should(exceptions) + 1, size)

\* The nodes MaintainCandidatePool may promote, in their order: it goes through
\* the nodes in random order until there are enough candidates.
Promotions(exceptions) ==
  LET eligible == (Possible \ Candidates) \ exceptions
      missing  == mc_should(exceptions) - mc_now(exceptions)
  IN  Injection(1..Min2(missing, Cardinality(eligible)), eligible)

(* Locks. *)

\* Mutant: an auto-promotion locks no more than its own node.
ConflictOwn(x, y) ==
  \/ "bgl" \in {x.lock, y.lock}
  \/ "shared" \in {x.lock, y.lock} /\ {x.lock, y.lock} \cap {"own", "all"} # {}
  \/ {x.lock, y.lock} \subseteq {"own", "all"} /\ x.node = y.node

\* Do two jobs exclude each other?  A job has the lock of its node, all the
\* node locks, all of them shared, the big cluster lock, or none of them.
Conflict(x, y) ==
  \/ "bgl" \in {x.lock, y.lock}
  \/ "all" \in {x.lock, y.lock} /\ "none" \notin {x.lock, y.lock}
  \/ {x.lock, y.lock} = {"own", "shared"}
  \/ x.lock = "own" /\ y.lock = "own" /\ x.node = y.node

Free(new) == \A i \in Jobs : job[i].op = "none" \/ ~Conflict(job[i], new)

(* Steps of jobs. *)

\* A step: what it does, to which node, and the role or size it sets.
Do(what, n, arg) == [what |-> what, node |-> n, arg |-> arg]

\* What a step sees to: the part of a candidate it grants or revokes.
SeesTo(s) ==
  CASE s.what \in {"cert+", "cert-"} -> <<"cert", s.node>>
    [] s.what \in {"key+", "key-"} -> <<"key", s.node>>
    [] s.what \in {"demote", "leave"} -> <<"copy", s.node>>
    [] OTHER -> <<"none", s.node>>

\* Has the role of the node changed already, so that the step is needed?
Needed(s) ==
  \/ s.what \in {"cert+", "key+"} /\ s.node \in Candidates
  \/ s.what \in {"cert-", "key-", "demote", "leave"} /\ s.node \notin Candidates

\* What is left undone if the job ends here.  A node that is re-added may
\* have lost its copy and gets it with its new certificate; and if the job
\* does not wait for the distribution to end, an upload that is under way can
\* reach its node late.
Undone(j) ==
  {SeesTo(s) : s \in {t \in Range(job[j].todo) : Needed(t)}}
    \cup (IF job[j].op = "readd" THEN {<<"copy", job[j].node>>} ELSE {})
    \cup (IF job[j].wait # "no" THEN {<<"late", job[j].node>>} ELSE {})

\* Mutant: the promoted nodes get no certificate.
GrantsKeys(mods) ==
  [i \in DOMAIN mods |-> Do("key+", mods[i], "-")]

\* The steps that follow a promotion by MaintainCandidatePool
\* (AdjustCandidatePool).
Grants(mods) ==
  [i \in 1..2 * Len(mods) |->
     Do(IF i % 2 = 1 THEN "cert+" ELSE "key+", mods[(i + 1) \div 2], "-")]

\* Optional steps.
When(cond, steps) == IF cond THEN steps ELSE <<>>

(* The checks of the logical units: what a job will do. *)

\* A job starts; one whose checks fail changes nothing and is left out.
Submit(j, new) ==
  /\ Free(new)
  /\ job' = [job EXCEPT ![j] = new]
  /\ count' = [count EXCEPT !.jobs = @ + 1]
  /\ UNCHANGED <<conf, certs, keys, dirty, upload, owed>>

\* A job of one of the node operations.
NodeJob(op, n, lock, todo, adjusts) ==
  [NoJob EXCEPT !.op = op, !.node = n, !.lock = lock, !.todo = todo,
                !.adjusts = adjusts]

MightDemote(q) ==
  \/ q.candidate = "no" \/ q.drained = "yes" \/ q.offline = "yes"
  \/ q.capable = "no"

\* The flags of a request once those that are already unset are dropped, a
\* node that comes back is promoted if it is needed, and one that loses its
\* capability is demoted.
Flagged(n, q) ==
  LET left  == [f \in Flags |-> IF q[f] = "no" /\ role[n] # f THEN "keep"
                                                            ELSE q[f]]
      back  == \/ left.drained = "no" \/ left.offline = "no"
               \/ q.capable = "yes" /\ ~capable[n]
  IN  [left EXCEPT !.candidate =
         IF q.capable = "no" /\ role[n] = "candidate" THEN "no"
         ELSE IF back /\ DecideSelfPromotion({}) THEN "yes" ELSE @]

NewRole(n, flags) ==
  IF \E f \in Flags : flags[f] = "yes"
  THEN CHOOSE f \in Flags : flags[f] = "yes"
  ELSE IF \E f \in Flags : flags[f] = "no" THEN "regular" ELSE role[n]

\* Mutant: the node is told to demote itself before the configuration says so.
SetParamsDemotesFirst(n, q, new, all) ==
  LET old  == role[n]
      up   == new = "candidate" /\ old # new
      down == old = "candidate" /\ old # new
  IN  When(q.capable = (IF capable[n] THEN "no" ELSE "yes"),
           <<Do("update", n, q.capable)>>) \o
      When(new # old,
           When(down /\ new # "offline", <<Do("demote", n, "-")>>)
           \o <<Do("role", n, new)>>
           \o When(all, <<Do("adjust", n, "-")>>)
           \o When(up, <<Do("cert+", n, "-")>>)
           \o When(down, <<Do("cert-", n, "-"), Do("key-", n, "-")>>)
           \o When(up, <<Do("key+", n, "-")>>))

\* What LUNodeSetParams.Exec does after the checks.
SetParamsSteps(n, q, new, all) ==
  LET old  == role[n]
      up   == new = "candidate" /\ old # new
      down == old = "candidate" /\ old # new
  IN  When(q.capable = (IF capable[n] THEN "no" ELSE "yes"),
           <<Do("update", n, q.capable)>>) \o
      When(new # old,
           <<Do("role", n, new)>>
           \o When(down /\ new # "offline", <<Do("demote", n, "-")>>)
           \o When(all, <<Do("adjust", n, "-")>>)
           \o When(up, <<Do("cert+", n, "-")>>)
           \o When(down, <<Do("cert-", n, "-"), Do("key-", n, "-")>>)
           \o When(up, <<Do("key+", n, "-")>>))

\* LUNodeSetParams, up to CheckPrereq.
SetParams(j, n, q, auto) ==
  LET all   == auto /\ MightDemote(q)
      flags == Flagged(n, q)
      new   == NewRole(n, flags)
  IN  /\ role[n] # "absent"
      /\ n = Master => \A f \in Flags : q[f] = "keep"
      /\ n = Master => q.capable # "no"
      /\ q.candidate = "yes" => capable[n]
      /\ role[n] = "candidate" /\ MightDemote(q) /\ ~all
            => mc_now({n}) >= mc_should({n})
      /\ Cardinality({f \in Flags : flags[f] = "yes"}) <= 1
      /\ Submit(j, NodeJob("set", n, IF all THEN "all" ELSE "own",
                           SetParamsSteps(n, q, new, all),
                           all /\ new # role[n]))
      /\ UNCHANGED copy

\* LUNodeAdd of a new node.
Add(j, n, cap) ==
  LET mc == cap /\ DecideSelfPromotion({})
  IN  /\ role[n] = "absent"
      /\ Submit(j, NodeJob("add", n, "bgl",
             <<Do("add", n, IF mc THEN "candidate"
                            ELSE IF cap THEN "regular" ELSE "incapable"),
               Do(IF mc THEN "cert+" ELSE "cert-", n, "-")>>
             \o When(mc, <<Do("key+", n, "-")>>), FALSE))
      /\ UNCHANGED copy

\* LUNodeAdd with readd; the node may have been installed anew.
Readd(j, n) ==
  LET mc == capable[n] /\ DecideSelfPromotion({n})
  IN  /\ role[n] # "absent" /\ n # Master
      /\ Submit(j, NodeJob("readd", n, "bgl",
             <<Do("role", n, IF mc THEN "candidate" ELSE "regular")>>
             \o When(~mc, <<Do("demote", n, "-")>>)
             \o <<Do(IF mc THEN "cert+" ELSE "cert-", n, "-"),
                  Do("key-", n, "-")>>
             \o When(mc, <<Do("key+", n, "-")>>), FALSE))
      /\ copy' \in {copy, copy \ {n}}

LUNodeRemove(j, n) ==
  LET mc == role[n] = "candidate"
  IN  /\ role[n] # "absent" /\ n # Master
      /\ Submit(j, NodeJob("remove", n, "bgl",
             When(mc, <<Do("key-", n, "-")>>)
             \o <<Do("adjust", n, "-"), Do("role", n, "absent"),
                  Do("leave", n, "-")>>
             \o When(mc, <<Do("cert-", n, "-")>>), TRUE))
      /\ UNCHANGED copy

\* LUClusterSetParams with a new pool size, and LUTagsSet or LUTagsDel on the
\* cluster: both update the cluster object they have read.
ClusterJob(j, op, lock, steps, pool) ==
  /\ Submit(j, [NodeJob(op, Master, lock, steps, FALSE) EXCEPT
                  !.read = [pool |-> pool, certs |-> certs], !.fresh = TRUE])
  /\ UNCHANGED copy

SetPoolSize(j, k) ==
  ClusterJob(j, "size", "shared",
             <<Do("adjust", Master, "all"), Do("cluster", Master, "-")>>, k)

TagCluster(j) ==
  ClusterJob(j, "tag", "none", <<Do("cluster", Master, "-")>>, size)

(* The steps of a job. *)

\* Job j has come to a step; the call of its last one has returned.
Comes(j, what) ==
  /\ job[j].todo # <<>> /\ job[j].wait = "no"
  /\ Head(job[j].todo).what = what

\* The job goes on; more: further steps it has to do first.
Goes(j, more) == job' = [job EXCEPT ![j].todo = more \o Tail(@)]

\* A write of the configuration.  The call returns when WConfd has
\* distributed it, if a candidate or the list of certificates changes
\* (needsFullDist).  If the write increases the serial number of the cluster
\* object (bump), what other jobs have read of it is outdated.
Writes(j, full, bump, more) ==
  /\ dirty' = TRUE
  /\ job' = [i \in Jobs |->
               [job[i] EXCEPT
                  !.todo  = IF i = j THEN more \o Tail(@) ELSE @,
                  !.wait  = IF i = j /\ full THEN "due" ELSE @,
                  !.fresh = @ /\ ~bump]]
  /\ UNCHANGED <<copy, upload>>

\* The first Update of LUNodeSetParams: master_capable.
Update(j) ==
  LET s == Head(job[j].todo)
  IN  /\ Comes(j, "update")
      /\ capable' = [capable EXCEPT ![s.node] =
                       IF s.arg = "keep" THEN @ ELSE s.arg = "yes"]
      /\ Writes(j, s.node \in Candidates, TRUE, <<>>)
      /\ UNCHANGED <<role, size, certs, keys, owed, count>>

\* The Update that changes the flags, and RemoveNode; WConfd writes nothing if
\* nothing changes.  An offline node is not told to give up its copy.
SetRole(j) ==
  LET s == Head(job[j].todo)
  IN  /\ Comes(j, "role")
      /\ role' = [role EXCEPT ![s.node] = s.arg]
      /\ IF role' = role THEN Goes(j, <<>>) /\ UNCHANGED wconfd
         ELSE Writes(j, "candidate" \in {s.arg, role[s.node]}, TRUE, <<>>)
      /\ owed' = (IF s.arg = "absent" /\ s.node \notin keys
                  THEN owed \ {<<"key", s.node>>} ELSE owed)
                 \cup (IF s.arg = "offline" /\ s.node \in Candidates
                       THEN {<<"copy", s.node>>} ELSE {})
      /\ UNCHANGED <<capable, size, certs, keys, count>>

AddNode(j) ==
  LET s == Head(job[j].todo)
  IN  /\ Comes(j, "add")
      /\ role' = [role EXCEPT ![s.node] =
                    IF s.arg = "candidate" THEN s.arg ELSE "regular"]
      /\ capable' = [capable EXCEPT ![s.node] = s.arg # "incapable"]
      /\ Writes(j, s.arg = "candidate", TRUE, <<>>)
      /\ UNCHANGED <<size, certs, keys, owed, count>>

\* node_demote_from_mc and node_leave_cluster; a failure is a warning.
DropCopy(j) ==
  LET n == Head(job[j].todo).node
  IN  /\ Comes(j, "demote") \/ Comes(j, "leave")
      /\ Goes(j, <<>>)
      /\ \/ /\ copy' = copy \ {n} /\ owed' = owed \ {<<"copy", n>>}
            /\ UNCHANGED count
         \/ /\ count.faults < MaxFaults
            /\ count' = [count EXCEPT !.faults = @ + 1]
            /\ owed' = owed \cup {<<"copy", n>>} /\ UNCHANGED copy
      /\ UNCHANGED <<conf, certs, keys, dirty, upload>>

\* MaintainCandidatePool within AdjustCandidatePool.  LUClusterSetParams
\* (arg "all") excepts no node; the new size is in its own object only.
Adjust(j) ==
  LET s == Head(job[j].todo)
  IN  /\ Comes(j, "adjust")
      /\ \E mods \in Promotions(IF s.arg = "all" THEN {} ELSE {s.node}) :
           /\ role' = [n \in Nodes |-> IF n \in Range(mods) THEN "candidate"
                                                             ELSE role[n]]
           /\ IF mods = <<>> THEN Goes(j, <<>>) /\ UNCHANGED wconfd
                             ELSE Writes(j, TRUE, TRUE, Grants(mods))
      /\ UNCHANGED <<capable, size, certs, keys, owed, count>>

\* AddNodeToCandidateCerts and RemoveNodeFromCandidateCerts.  The serial
\* number of the cluster object stays.  A re-added node has a new certificate.
Cert(j) ==
  LET s == Head(job[j].todo)
  IN  /\ Comes(j, "cert+") \/ Comes(j, "cert-")
      /\ certs' = IF s.what = "cert+" THEN certs \cup {s.node}
                                      ELSE certs \ {s.node}
      /\ IF certs' # certs \/ (job[j].op = "readd" /\ s.what = "cert+")
         THEN Writes(j, TRUE, FALSE, <<>>)
         ELSE Goes(j, <<>>) /\ UNCHANGED wconfd
      /\ owed' = owed \ {SeesTo(s), <<"lost", s.node>>}
      /\ UNCHANGED <<conf, keys, count>>

\* node_ssh_key_add and node_ssh_key_remove.  LUNodeRemove removes the key of
\* a node that still is a candidate.
Key(j) ==
  LET s == Head(job[j].todo)
  IN  /\ Comes(j, "key+") \/ Comes(j, "key-")
      /\ keys' = IF s.what = "key+" THEN keys \cup {s.node}
                                    ELSE keys \ {s.node}
      /\ Goes(j, <<>>)
      /\ owed' = IF s.what = "key-" /\ s.node \in Candidates
                 THEN owed \cup {SeesTo(s)} ELSE owed \ {SeesTo(s)}
      /\ UNCHANGED <<conf, certs, wconfd, count>>

\* Update of the cluster object (updateCluster): refused if the object has
\* changed since it has been read, as its serial number tells.
UpdateCluster(j) ==
  LET read == job[j].read
      undo == (certs \ read.certs) \cup (read.certs \ certs)
  IN  /\ Comes(j, "cluster")
      /\ IF job[j].fresh
         THEN /\ size' = read.pool /\ certs' = read.certs
              /\ owed' = owed \cup {<<"lost", n>> : n \in undo}
              /\ Writes(j, undo # {}, TRUE, <<>>)
         ELSE Goes(j, <<>>) /\ UNCHANGED <<size, certs, owed, wconfd>>
      /\ UNCHANGED <<role, capable, keys, count>>

JobEnds(j) ==
  /\ job[j].op # "none" /\ job[j].todo = <<>> /\ job[j].wait = "no"
  /\ job' = [job EXCEPT ![j] = NoJob]
  /\ UNCHANGED <<conf, certs, keys, wconfd, owed, count>>

\* A call fails where the code raises an error, or the job's process dies.
JobFails(j) ==
  /\ job[j].todo # <<>> /\ count.faults < MaxFaults
  /\ job' = [job EXCEPT ![j] = NoJob]
  /\ owed' = owed \cup Undone(j)
  /\ count' = [count EXCEPT !.faults = @ + 1]
  /\ UNCHANGED <<conf, certs, keys, wconfd>>

(* WConfd's distribution of the configuration to the candidates. *)

\* A run takes the candidates of the present configuration.
UploadStarts ==
  /\ dirty /\ ~upload.on
  /\ dirty' = FALSE
  /\ upload' = [on |-> TRUE, left |-> Candidates \ {Master}]
  /\ job' = [i \in Jobs |-> [job[i] EXCEPT !.wait = IF @ = "due" THEN "sent"
                                                                ELSE @]]
  /\ UNCHANGED <<conf, certs, keys, copy, owed, count>>

\* The uploads of a run; the ones to the nodes in missed fail.
UploadEnds(missed) ==
  LET reached == upload.left \ missed
  IN  /\ upload.on /\ missed \subseteq upload.left
      /\ count.faults + Cardinality(missed) <= MaxFaults
      /\ upload' = [on |-> FALSE, left |-> {}]
      /\ copy' = copy \cup reached
      /\ owed' = (owed \ {<<"copy", n>> : n \in reached \cap Candidates})
                 \cup {<<"copy", n>> : n \in missed}
      /\ job' = [i \in Jobs |-> [job[i] EXCEPT !.wait = IF @ = "sent" THEN "no"
                                                                     ELSE @]]
      /\ count' = [count EXCEPT !.faults = @ + Cardinality(missed)]
      /\ UNCHANGED <<conf, certs, keys, dirty>>

Init ==
  /\ role = [n \in Nodes |-> IF n \in Founders THEN "candidate" ELSE "absent"]
  /\ capable = [n \in Nodes |-> TRUE]
  /\ size = PoolSize
  /\ certs = Founders /\ keys = Founders /\ copy = Founders
  /\ dirty = FALSE /\ upload = [on |-> FALSE, left |-> {}]
  /\ job = [j \in Jobs |-> NoJob]
  /\ owed = {} /\ count = [jobs |-> 0, faults |-> 0]

Step(j) ==
  \/ Update(j) \/ SetRole(j) \/ AddNode(j) \/ DropCopy(j) \/ Adjust(j)
  \/ Cert(j) \/ Key(j) \/ UpdateCluster(j) \/ JobEnds(j)

NewJob(j) ==
  \/ \E n \in Nodes :
       \/ \E q \in Requests, auto \in BOOLEAN : SetParams(j, n, q, auto)
       \/ \E cap \in BOOLEAN : Add(j, n, cap)
       \/ Readd(j, n)
       \/ LUNodeRemove(j, n)
  \/ \E k \in PoolSizes : SetPoolSize(j, k)
  \/ TagCluster(j)

Next ==
  \/ \E j \in Jobs :
       \/ job[j].op = "none" /\ count.jobs < MaxJobs /\ NewJob(j)
       \/ Step(j)
       \/ JobFails(j)
  \/ UploadStarts
  \/ \E missed \in SUBSET upload.left : UploadEnds(missed)

Spec ==
  /\ Init /\ [][Next]_vars
  /\ \A j \in Jobs : WF_vars(Step(j))
  /\ WF_vars(UploadStarts) /\ WF_vars(UploadEnds({}))

(* Properties. *)

\* No running job has anything to do about node n.
Settled(n) ==
  \A j \in Jobs : \A i \in DOMAIN job[j].todo : job[j].todo[i].node # n

\* The certificate and the SSH key of a node give it the rights of a master
\* candidate exactly while it is one, once no job is at work on it and unless
\* a failed job left that undone or a cluster update overwrote it: whatever
\* jobs run side by side, nothing else makes a node keep the rights after its
\* demotion or lack them after its promotion (LUNodeSetParams.Exec,
\* AdjustCandidatePool).
RightsFollowRole ==
  \A n \in Nodes : Settled(n) =>
    /\ \/ n \in certs <=> n \in Candidates
       \/ {<<"cert", n>>, <<"lost", n>>} \cap owed # {}
    /\ \/ n \in keys <=> n \in Candidates
       \/ <<"key", n>> \in owed

\* Once nothing is to be distributed, exactly the master candidates have a
\* copy of the configuration, unless an upload or a request to give it up
\* failed or the node went offline with it: a demoted node gets no further
\* copy after it has removed its own ("This must be done only after the
\* configuration is updated", LUNodeSetParams.Exec).
CopiesFollowRole ==
  ~dirty /\ ~upload.on =>
    \A n \in Nodes : Settled(n) =>
      \/ n \in copy <=> n \in Candidates
      \/ {<<"copy", n>>, <<"late", n>>} \cap owed # {}

\* A job that adjusts the candidate pool (a demotion with auto-promotion, a
\* removal) and ends well leaves as many candidates as there should be, its
\* own node aside; jobs on other nodes cannot take one away in between.
PoolRestored ==
  [][\A j \in Jobs : JobEnds(j) /\ job[j].adjusts =>
       mc_now({job[j].node}) >= mc_should({job[j].node})]_vars
=============================================================================
