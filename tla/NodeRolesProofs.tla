-------------------------- MODULE NodeRolesProofs --------------------------
(***************************************************************************)
(* Safety of NodeRoles for any set of nodes, any number of jobs at once    *)
(* and any bounds on jobs and failures.                                    *)
(*                                                                         *)
(* A job is a list of steps.  The invariant does not follow the lists from *)
(* position to position: it says which steps a list may hold for a node,   *)
(* in which order (Before), and what they have in view (JobOK).  That each *)
(* of the things a candidate has follows its role is then a statement on   *)
(* one node at a time: it is so already, or the steps of some job still    *)
(* see to it, or a failure has left it undone.                             *)
(*                                                                         *)
(* LEMMA Core holds the whole argument: first the facts about lists, jobs  *)
(* and locks that several actions need, then one group of steps per kind   *)
(* of action (PlainKeeps: the steps of a job on a node; EndKeeps: its end; *)
(* UploadKeeps: the distribution of the configuration; NewKeeps: a new     *)
(* job; AdjustStep: the promotion of nodes; PlainPool: the pool), then the *)
(* induction and what follows from the invariant.  It assumes what it      *)
(* needs of finite sets (Counting), which FiniteCounting takes from the    *)
(* library afterwards.                                                     *)
(***************************************************************************)
EXTENDS NodeRoles, TLAPS

\* The leaves are first-order: the prover for them, if they name no other.
USE Zenon

\* The kinds of steps: they set the role of a node, grant what a candidate
\* has, take it away.
Sets(s) == s.what \in {"role", "add"}

Grant(s) == s.what \in {"cert+", "key+"}

Drops(s) == s.what \in {"demote", "leave"}

Revoke(s) == s.what = "cert-" \/ Drops(s)

Whats == {"role", "add", "cert+", "key+", "demote", "leave", "cert-", "key-",
          "update", "adjust", "cluster"}

Args == Roles \cup Change \cup {"absent", "incapable", "all", "-"}

Steps == {s \in [what : Whats, node : Nodes, arg : Args] :
            s.what = "role" => s.arg \in Roles \cup {"absent"}}

JobType == [op : {"none", "set", "add", "readd", "remove", "size", "tag"},
            node : Nodes,
            lock : {"none", "own", "all", "shared", "bgl"},
            todo : Seq(Steps),
            wait : {"no", "due", "sent"},
            adjusts : BOOLEAN,
            read : [pool : Nat, certs : SUBSET Nodes],
            fresh : BOOLEAN]

TypeOK ==
  /\ role \in [Nodes -> Roles \cup {"absent"}]
  /\ capable \in [Nodes -> BOOLEAN]
  /\ size \in Nat
  /\ certs \subseteq Nodes /\ keys \subseteq Nodes /\ copy \subseteq Nodes
  /\ dirty \in BOOLEAN
  /\ upload \in [on : BOOLEAN, left : SUBSET Nodes]
  /\ job \in [Jobs -> JobType]
  /\ count \in [jobs : Nat, faults : Nat]

\* May step a precede step b in a list?
Before(a, b) ==
  /\ Sets(b) /\ (Sets(a) \/ Grant(a) \/ Revoke(a)) => a.node # b.node
  /\ a.what = "adjust" => b.what \notin {"update", "add", "adjust"}

Ordered(t) == \A i, k \in DOMAIN t : i < k => Before(t[i], t[k])

\* What a list does to a node fits the role that it sets.
Fits(T) ==
  \A s, r \in T : Sets(r) /\ r.node = s.node =>
    /\ Grant(s) => r.arg = "candidate"
    /\ Revoke(s) => r.arg # "candidate"

Todo(j) == Range(job[j].todo)

\* The job has the lock of its node, and nobody else looks at the roles.
Excl(j) == job[j].lock \in {"own", "all", "bgl"}

Whole(j) == job[j].lock \in {"all", "bgl", "shared"}

\* What a step of job j may be, by the lock that the job holds.
Allowed(j, s) ==
  /\ Sets(s) => s.node = job[j].node /\ s.node # Master /\ Excl(j)
  /\ Revoke(s) \/ s.what = "key-" => s.node = job[j].node /\ Excl(j)
  /\ Grant(s) => \/ s.node = job[j].node /\ Excl(j)
                 \/ s.node \in Candidates /\ Whole(j)
  /\ s.what = "adjust" =>
       \/ s.arg = "all" /\ job[j].lock = "shared"
       \/ s.arg # "all" /\ s.node = job[j].node /\ job[j].lock \in {"all", "bgl"}
  /\ s.what = "update" => Excl(j)
  /\ s.what = "cluster" => job[j].lock \in {"shared", "none"}

\* Once no step sets the role of the node any more, the node has the role
\* that the steps have in view.
Aims(j, s) ==
  (\A r \in Todo(j) : Sets(r) => r.node # s.node) =>
    /\ Grant(s) => s.node \in Candidates
    /\ Revoke(s) => s.node \notin Candidates

Has(j, n, what) == \E s \in Todo(j) : s.node = n /\ s.what = what

HasDrop(j, n) == Has(j, n, "demote") \/ Has(j, n, "leave")

\* A step that makes a node a candidate, or makes it one no longer, is
\* followed by the steps that see to the rest.
Followed(j, r) ==
  LET n == r.node
  IN  /\ r.arg = "candidate" /\ n \notin Candidates =>
           Has(j, n, "cert+") /\ Has(j, n, "key+")
      /\ r.arg # "candidate" /\ n \in Candidates =>
           /\ r.what = "role" /\ Has(j, n, "cert-")
           /\ Has(j, n, "key-") \/ n \notin keys
           /\ HasDrop(j, n) \/ r.arg = "offline"

JobOK(j) ==
  /\ Ordered(job[j].todo) /\ Fits(Todo(j))
  /\ \A s \in Todo(j) : /\ Allowed(j, s) /\ Aims(j, s)
                        /\ Sets(s) => Followed(j, s)
  /\ job[j].op = "none" => /\ job[j].lock = "none" /\ job[j].todo = <<>>
                           /\ job[j].wait = "no"
                           /\ ~job[j].adjusts /\ ~job[j].fresh

Mutex ==
  \A i, j \in Jobs :
    i # j /\ job[i].op # "none" /\ job[j].op # "none" =>
      ~Conflict(job[i], job[j])

MasterOK == role[Master] = "candidate" /\ Master \in copy

\* The certificate, the key and the copy of a node.
CertOK(n) ==
  \/ n \in certs <=> n \in Candidates
  \/ {<<"cert", n>>, <<"lost", n>>} \cap owed # {}
  \/ \E j \in Jobs : \/ Has(j, n, "cert+") /\ n \in Candidates
                     \/ Has(j, n, "cert-") /\ n \notin Candidates

KeyOK(n) ==
  \/ n \in keys <=> n \in Candidates
  \/ <<"key", n>> \in owed
  \/ \E j \in Jobs : \/ Has(j, n, "key+") /\ n \in Candidates
                     \/ Has(j, n, "key-") /\ n \notin Candidates

NoSpareCopy(n) ==
  n \in copy /\ n \notin Candidates =>
    \/ {<<"copy", n>>, <<"late", n>>} \cap owed # {}
    \/ \E j \in Jobs : HasDrop(j, n)

\* A node that is added again gets its copy with its certificate.
Rejoins(j, n) ==
  /\ job[j].op = "readd" /\ job[j].node = n
  /\ \/ Has(j, n, "cert+")
     \/ \E s \in Todo(j) : s.node = n /\ s.what = "role" /\ s.arg # "candidate"

CopyComes(n) ==
  n \in Candidates /\ n \notin copy =>
    \/ dirty
    \/ upload.on /\ n \in upload.left
    \/ <<"copy", n>> \in owed
    \/ \E j \in Jobs : Rejoins(j, n)

\* An upload that is under way to a node that is no candidate any more is
\* waited for by the job that demoted it.
Awaits(j, n) ==
  /\ job[j].node = n /\ Excl(j) /\ job[j].wait = "due"
  /\ HasDrop(j, n) \/ <<"copy", n>> \in owed

Late(n) ==
  upload.on /\ n \in upload.left /\ n \notin Candidates =>
    <<"late", n>> \in owed \/ \E j \in Jobs : Awaits(j, n)

NodeOK(n) ==
  CertOK(n) /\ KeyOK(n) /\ NoSpareCopy(n) /\ CopyComes(n) /\ Late(n)

\* The candidate pool of a job that adjusts it.
PoolOK(j) ==
  job[j].adjusts =>
    /\ job[j].lock \in {"all", "bgl"}
    /\ \/ \E s \in Todo(j) : s.what = "adjust"
       \/ /\ mc_now({job[j].node}) >= mc_should({job[j].node})
          /\ \A s \in Todo(j) : s.what \notin {"update", "add"}

\* A job without locks that will update the cluster object knows the pool size.
FreshOK(j) ==
  job[j].lock = "none" /\ job[j].fresh => job[j].read.pool = size

RInv ==
  /\ TypeOK /\ Mutex /\ MasterOK
  /\ \A j \in Jobs : JobOK(j)
  /\ \A n \in Nodes : NodeOK(n)

IInv == RInv /\ \A j \in Jobs : PoolOK(j) /\ FreshOK(j)

\* Nothing that the invariant says about a job's list and locks changes.
Kept(i) ==
  /\ job'[i].op = job[i].op /\ job'[i].node = job[i].node
  /\ job'[i].lock = job[i].lock /\ job'[i].adjusts = job[i].adjusts
  /\ job'[i].read = job[i].read
  /\ job'[i].fresh => job[i].fresh
  /\ job[i].wait = "no" => job'[i].wait = "no"
  /\ job'[i].todo = job[i].todo

\* Job j has done the first step of its list and has more to do before the rest.
Stepped(j, more) ==
  /\ job' \in [Jobs -> JobType]
  /\ \A i \in Jobs \ {j} : Kept(i) /\ job'[i].wait = job[i].wait
  /\ job'[j].op = job[j].op /\ job'[j].node = job[j].node
  /\ job'[j].lock = job[j].lock /\ job'[j].adjusts = job[j].adjusts
  /\ job'[j].read = job[j].read
  /\ job'[j].fresh => job[j].fresh
  /\ job'[j].todo = more \o Tail(job[j].todo)

\* Job q is job r with another list, another wait and another freshness.
Updated(q, r, t, w, f) ==
  /\ q \in JobType
  /\ q.op = r.op /\ q.node = r.node /\ q.lock = r.lock
  /\ q.adjusts = r.adjusts /\ q.read = r.read
  /\ q.todo = t /\ q.wait = w /\ q.fresh = f

\* Two jobs do not both have steps that concern the same node, if one of them
\* sets its role or promotes nodes.
Concerns(s) == Sets(s) \/ Grant(s) \/ Revoke(s) \/ s.what = "key-"

\* Job j sets the role of node m by step h, the first one of its list.
RoleStep(j, h, m) ==
  /\ job[j].todo # <<>> /\ job[j].wait = "no" /\ Stepped(j, <<>>)
  /\ h = Head(job[j].todo) /\ Sets(h) /\ m = h.node
  /\ \A n \in Nodes : n # m => (n \in Candidates' <=> n \in Candidates)
  /\ m \in Candidates' <=> h.arg = "candidate"
  /\ certs' = certs /\ keys' = keys /\ copy' = copy /\ upload' = upload
  /\ dirty' \/ (dirty' = dirty /\ (m \in Candidates' <=> m \in Candidates))
  /\ h.what = "role" /\ m \in Candidates /\ m \notin Candidates' =>
       job'[j].wait = "due"
  /\ \A x, n : <<x, n>> \in owed =>
       \/ <<x, n>> \in owed'
       \/ x = "key" /\ n = m /\ n \notin keys /\ n \notin Candidates'
  /\ h.arg = "offline" /\ m \in Candidates => <<"copy", m>> \in owed'

\* Job r of an operation on node n that has the list todo to do.
IsJob(r, op, n, lock, todo, adjusts) ==
  /\ r \in JobType /\ r.op = op /\ r.node = n /\ r.lock = lock /\ r.todo = todo
  /\ r.adjusts = adjusts /\ r.wait = "no"

\* Lists: a single step, an optional part, and steps that may come after any.
Plain == {"demote", "leave", "cert+", "cert-", "key+", "key-"}

IsStep(s, w, n, a) == s \in Steps /\ s.what = w /\ s.node = n /\ s.arg = a

\* What makes a new list fit: it is about node n, under the locks of the job,
\* and gives the node the role aim, if it sets one.
HasIn(T, n, w) == \E s \in T : s.node = n /\ s.what = w

ListOK(T, n, lock, aim) ==
  /\ \A s \in T :
       /\ Concerns(s) \/ s.what = "update" =>
            s.node = n /\ lock \in {"own", "all", "bgl"}
       /\ Sets(s) => s.arg = aim /\ n # Master
       /\ Grant(s) => aim = "candidate" /\ \E r \in T : Sets(r)
       /\ Revoke(s) => aim # "candidate" /\ \E r \in T : Sets(r)
       /\ s.what = "adjust" =>
            \/ s.arg = "all" /\ lock = "shared"
            \/ s.arg # "all" /\ s.node = n /\ lock \in {"all", "bgl"}
       /\ s.what = "cluster" => lock \in {"shared", "none"}
       /\ Sets(s) /\ aim = "candidate" /\ n \notin Candidates =>
            HasIn(T, n, "cert+") /\ HasIn(T, n, "key+")
       /\ Sets(s) /\ aim # "candidate" /\ n \in Candidates =>
            /\ s.what = "role" /\ HasIn(T, n, "cert-") /\ HasIn(T, n, "key-")
            /\ HasIn(T, n, "demote") \/ HasIn(T, n, "leave") \/ aim = "offline"

\* The nodes that are promoted: distinct ones, as many as are missing or all
\* that are eligible.
Missing(ex) == mc_should(ex) - mc_now(ex)

Eligible(ex) == (Possible \ Candidates) \ ex

\* The step of job j that promotes the nodes in P, more being the steps that
\* give them what a candidate has.
Adjusted(j, P, more) ==
  /\ P \in SUBSET Nodes
  /\ \E mods \in Promotions(IF Head(job[j].todo).arg = "all" THEN {}
                             ELSE {Head(job[j].todo).node}) : P = Range(mods)
  /\ more \in Seq(Steps) /\ Ordered(more)
  /\ \A s \in Range(more) : Grant(s) /\ s.node \in P
  /\ \A n \in P : HasIn(Range(more), n, "cert+") /\ HasIn(Range(more), n, "key+")
  /\ Stepped(j, more)
  /\ role' = [n \in Nodes |-> IF n \in P THEN "candidate" ELSE role[n]]
  /\ copy' = copy /\ upload' = upload
  /\ IF P = {} THEN dirty' = dirty ELSE dirty' = TRUE
  /\ capable' = capable /\ size' = size /\ certs' = certs /\ keys' = keys
  /\ owed' = owed /\ count' = count

\* A step, other than an adjustment, of a job that has no more to do then.
PlainStep(j, h) ==
  /\ job[j].todo # <<>> /\ h = Head(job[j].todo) /\ h.what # "adjust"
  /\ Stepped(j, <<>>)
  /\ h.what \notin {"update", "add"} => capable' = capable
  /\ \A m \in Nodes : ~(Sets(h) /\ h.node = m) => role'[m] = role[m]
  /\ \/ size' = size
     \/ /\ h.what = "cluster" /\ job[j].fresh /\ size' = job[j].read.pool
        /\ \A i \in Jobs : ~job'[i].fresh

-----------------------------------------------------------------------------
\* What the proofs need to know of finite sets.
Counting ==
  /\ IsFiniteSet({}) /\ Cardinality({}) = 0
  /\ \A S : IsFiniteSet(S) =>
       /\ Cardinality(S) \in Nat
       /\ \A R \in SUBSET S : IsFiniteSet(R) /\ Cardinality(R) <= Cardinality(S)
  /\ \A a, b \in Int : /\ IsFiniteSet(a..b)
                       /\ Cardinality(a..b) = IF a > b THEN 0 ELSE b - a + 1
  /\ \A S, R : IsFiniteSet(R) => \A f \in Injection(S, R) :
       f \in Surjection(S, R) => Cardinality(S) = Cardinality(R)
  /\ \A S, R : IsFiniteSet(S) /\ IsFiniteSet(R) =>
       /\ IsFiniteSet(S \cup R)
       /\ Cardinality(S \cup R) = Cardinality(S) + Cardinality(R) - Cardinality(S \cap R)

\* The invariant is inductive, and the properties follow from it.
LEMMA Core ==
  ASSUME Counting
  PROVE  /\ Init => IInv
         /\ IInv /\ [Next]_vars => IInv'
         /\ IInv => RightsFollowRole /\ CopiesFollowRole
         /\ IInv => \A j \in Jobs : JobEnds(j) /\ job[j].adjusts =>
                      mc_now({job[j].node}) >= mc_should({job[j].node})

<1>FS_CardinalityType.
  \A S : IsFiniteSet(S) => Cardinality(S) \in Nat
  BY DEF Counting
<1>FS_Subset.
  \A S : IsFiniteSet(S) =>
    \A R \in SUBSET S : IsFiniteSet(R) /\ Cardinality(R) <= Cardinality(S)
  BY DEF Counting
<1>FS_Interval.
  \A a, b \in Int : /\ IsFiniteSet(a..b)
                    /\ Cardinality(a..b) = IF a > b THEN 0 ELSE b - a + 1
  BY DEF Counting
<1>FS_Injection.
  \A S, R : IsFiniteSet(R) => \A f \in Injection(S, R) :
    f \in Surjection(S, R) => Cardinality(S) = Cardinality(R)
  BY DEF Counting
<1>FS_Union.
  \A S, R : IsFiniteSet(S) /\ IsFiniteSet(R) =>
    /\ IsFiniteSet(S \cup R)
    /\ Cardinality(S \cup R) = Cardinality(S) + Cardinality(R) - Cardinality(S \cap R)
  BY DEF Counting
<1>FS_EmptySet. Cardinality({}) = 0
  BY DEF Counting

\* The empty list, and lists of one and of two steps.
<1>ShortLists.
  /\ Range(<<>>) = {} /\ Ordered(<<>>) /\ <<>> \in Seq(Steps)
  /\ \A a \in Steps : /\ Range(<<a>>) = {a} /\ Ordered(<<a>>)
                      /\ <<a>> \in Seq(Steps)
  /\ \A a, b \in Steps : /\ Range(<<a, b>>) = {a, b}
                         /\ Before(a, b) => Ordered(<<a, b>>)
                         /\ <<a, b>> \in Seq(Steps)
  <2>1. /\ Range(<<>>) = {} /\ Ordered(<<>>) /\ <<>> \in Seq(Steps)
    BY SMT DEF Range, Ordered
  <2>2. ASSUME NEW a \in Steps
        PROVE  /\ Range(<<a>>) = {a} /\ Ordered(<<a>>) /\ <<a>> \in Seq(Steps)
    <3> DEFINE t == <<a>>
    <3>1. t \in Seq(Steps) /\ DOMAIN t = 1..1 /\ t[1] = a
      BY SMT
    <3> HIDE DEF t
    <3>2. Range(t) = {a} /\ Ordered(t)
      BY SMT, <3>1 DEF Range, Ordered
    <3> QED
      BY <3>1, <3>2 DEF t
  <2>3. ASSUME NEW a \in Steps, NEW b \in Steps
        PROVE  /\ Range(<<a, b>>) = {a, b}
               /\ Before(a, b) => Ordered(<<a, b>>)
               /\ <<a, b>> \in Seq(Steps)
    <3> DEFINE t == <<a, b>>
    <3>1. t \in Seq(Steps) /\ DOMAIN t = 1..2 /\ t[1] = a /\ t[2] = b
      BY SMT
    <3> HIDE DEF t
    <3>2. Range(t) = {a, b} /\ (Before(a, b) => Ordered(t))
      BY SMT, <3>1 DEF Range, Ordered
    <3> QED
      BY <3>1, <3>2 DEF t
  <2> QED
    BY <2>1, <2>2, <2>3

<1>ThreeSteps.
  ASSUME NEW a \in Steps, NEW b \in Steps, NEW c \in Steps,
         Before(a, b), Before(a, c), Before(b, c)
  PROVE  /\ Range(<<a, b, c>>) = {a, b, c} /\ Ordered(<<a, b, c>>)
         /\ <<a, b, c>> \in Seq(Steps)
  <2> USE <1>ThreeSteps
  <2> DEFINE t == <<a, b, c>>
  <2>1. t \in Seq(Steps) /\ DOMAIN t = 1..3 /\ t[1] = a /\ t[2] = b /\ t[3] = c
    BY SMT
  <2> HIDE DEF t
  <2>2. 1..3 = {1, 2, 3}
    BY SMT
  <2>3. Range(t) = {a, b, c}
    BY <2>1, <2>2 DEF Range
  <2>4. Ordered(t)
    BY SMT, <2>1 DEF Ordered
  <2> QED
    BY <2>1, <2>3, <2>4 DEF t

\* What is known of a list and of the steps that it holds.
<1>ListSteps.
  ASSUME NEW t \in Seq(Steps)
  PROVE  Range(t) \subseteq Steps /\ (t # <<>> <=> Range(t) # {})
  <2> USE <1>ListSteps
  <2>1. DOMAIN t = 1..Len(t) /\ Len(t) \in Nat /\ \A i \in DOMAIN t : t[i] \in Steps
    BY SMT
  <2>2. t # <<>> => 1 \in DOMAIN t
    BY SMT
  <2>3. t = <<>> => DOMAIN t = {}
    BY SMT
  <2> QED
    BY <2>1, <2>2, <2>3 DEF Range

\* The first step of a list and the others.
<1>HeadTail.
  ASSUME NEW t \in Seq(Steps), t # <<>>
  PROVE  /\ Tail(t) \in Seq(Steps) /\ Head(t) \in Steps
         /\ Range(t) = {Head(t)} \cup Range(Tail(t))
         /\ Ordered(t) => /\ Ordered(Tail(t))
                          /\ \A b \in Range(Tail(t)) : Before(Head(t), b)
  <2> USE <1>HeadTail
  <2> DEFINE u == Tail(t)
  <2>1. /\ u \in Seq(Steps) /\ Head(t) \in Steps /\ Head(t) = t[1]
        /\ Len(t) \in Nat /\ Len(t) >= 1
        /\ DOMAIN t = 1..Len(t) /\ DOMAIN u = 1..(Len(t) - 1)
        /\ \A i \in DOMAIN u : u[i] = t[i + 1]
    BY SMT
  <2> HIDE DEF u
  <2>2. /\ 1 \in DOMAIN t
        /\ \A i \in DOMAIN u : i + 1 \in DOMAIN t /\ 1 < i + 1
        /\ \A i \in DOMAIN t : i = 1 \/ \E k \in DOMAIN u : i = k + 1
        /\ \A i, k \in DOMAIN u : i < k => i + 1 < k + 1
    <3>1. \A i \in DOMAIN t : i = 1 \/ (i - 1 \in DOMAIN u /\ i = (i - 1) + 1)
      BY SMT, <2>1
    <3>2. \A i \in DOMAIN t : i = 1 \/ \E k \in DOMAIN u : i = k + 1
      BY <3>1
    <3> QED
      BY SMT, <2>1, <3>2
  <2>3. Range(t) = {Head(t)} \cup Range(u)
    <3>1. ASSUME NEW x \in Range(t) PROVE x \in {Head(t)} \cup Range(u)
      <4>1. PICK i \in DOMAIN t : x = t[i]
        BY DEF Range
      <4>2. CASE i = 1
        BY <4>1, <4>2, <2>1
      <4>3. CASE \E k \in DOMAIN u : i = k + 1
        <5>1. PICK k \in DOMAIN u : i = k + 1
          BY <4>3
        <5> QED
          BY <4>1, <5>1, <2>1 DEF Range
      <4> QED
        BY <4>2, <4>3, <2>2
    <3>2. ASSUME NEW x \in {Head(t)} \cup Range(u) PROVE x \in Range(t)
      <4>1. CASE x = Head(t)
        BY <4>1, <2>1, <2>2 DEF Range
      <4>2. CASE x \in Range(u)
        <5>1. PICK k \in DOMAIN u : x = u[k]
          BY <4>2 DEF Range
        <5> QED
          BY <5>1, <2>1, <2>2 DEF Range
      <4> QED
        BY <4>1, <4>2
    <3> QED
      BY <3>1, <3>2
  <2>4. ASSUME Ordered(t) PROVE Ordered(u)
    BY <2>1, <2>2, <2>4 DEF Ordered
  <2>5. ASSUME Ordered(t), NEW b \in Range(u) PROVE Before(Head(t), b)
    <3>1. PICK k \in DOMAIN u : b = u[k]
      BY DEF Range
    <3> QED
      BY <3>1, <2>1, <2>2, <2>5 DEF Ordered
  <2> QED
    BY <2>1, <2>3, <2>4, <2>5 DEF u

\* Two lists, one after the other.
<1>Joined.
  ASSUME NEW t \in Seq(Steps), NEW u \in Seq(Steps)
  PROVE  /\ t \o u \in Seq(Steps)
         /\ Range(t \o u) = Range(t) \cup Range(u)
         /\ /\ Ordered(t) /\ Ordered(u)
            /\ \A a \in Range(t), b \in Range(u) : Before(a, b)
            => Ordered(t \o u)
  <2> USE <1>Joined
  <2> DEFINE v == t \o u
  <2>1. /\ v \in Seq(Steps) /\ Len(t) \in Nat /\ Len(u) \in Nat
        /\ DOMAIN t = 1..Len(t) /\ DOMAIN u = 1..Len(u)
        /\ DOMAIN v = 1..(Len(t) + Len(u))
        /\ \A i \in DOMAIN t : v[i] = t[i]
        /\ \A i \in DOMAIN u : v[i + Len(t)] = u[i]
    BY SMT
  <2> HIDE DEF v
  <2>2. /\ \A i \in DOMAIN t : i \in DOMAIN v
        /\ \A i \in DOMAIN u : i + Len(t) \in DOMAIN v
    BY SMT, <2>1
  <2>3. \A i \in DOMAIN v : i \in DOMAIN t \/ \E k \in DOMAIN u : i = k + Len(t)
    <3>1. \A i \in DOMAIN v : \/ i \in DOMAIN t
                              \/ i - Len(t) \in DOMAIN u /\ i = (i - Len(t)) + Len(t)
      BY SMT, <2>1
    <3> QED
      BY <3>1
  <2>4. Range(v) = Range(t) \cup Range(u)
    <3>1. ASSUME NEW x \in Range(v) PROVE x \in Range(t) \cup Range(u)
      <4>1. PICK i \in DOMAIN v : x = v[i]
        BY DEF Range
      <4>2. CASE i \in DOMAIN t
        BY <4>1, <4>2, <2>1 DEF Range
      <4>3. CASE \E k \in DOMAIN u : i = k + Len(t)
        <5>1. PICK k \in DOMAIN u : i = k + Len(t)
          BY <4>3
        <5> QED
          BY <4>1, <5>1, <2>1 DEF Range
      <4> QED
        BY <4>2, <4>3, <2>3
    <3>2. Range(t) \subseteq Range(v)
      BY <2>1, <2>2 DEF Range
    <3>3. Range(u) \subseteq Range(v)
      BY <2>1, <2>2 DEF Range
    <3> QED
      BY <3>1, <3>2, <3>3
  <2>5. ASSUME Ordered(t), Ordered(u),
               \A a \in Range(t), b \in Range(u) : Before(a, b)
        PROVE  Ordered(v)
    <3> SUFFICES ASSUME NEW i \in DOMAIN v, NEW k \in DOMAIN v, i < k
                 PROVE  Before(v[i], v[k])
      BY DEF Ordered
    <3>1. CASE i \in DOMAIN t /\ k \in DOMAIN t
      BY <3>1, <2>1, <2>5 DEF Ordered
    <3>2. CASE i \in DOMAIN t /\ \E l \in DOMAIN u : k = l + Len(t)
      <4>1. PICK l \in DOMAIN u : k = l + Len(t)
        BY <3>2
      <4>2. v[i] \in Range(t) /\ v[k] \in Range(u)
        BY <3>2, <4>1, <2>1 DEF Range
      <4> QED
        BY <4>2, <2>5
    <3>3. CASE \E l \in DOMAIN u : i = l + Len(t)
      <4>1. PICK l \in DOMAIN u : i = l + Len(t)
        BY <3>3
      <4>2. k \notin DOMAIN t
        BY SMT, <4>1, <2>1
      <4>3. PICK m \in DOMAIN u : k = m + Len(t)
        BY <4>2, <2>3
      <4>4. l < m
        BY SMT, <4>1, <4>3, <2>1
      <4> QED
        BY <4>1, <4>3, <4>4, <2>1, <2>5 DEF Ordered
    <3> QED
      BY <3>1, <3>2, <3>3, <2>3
  <2> QED
    BY <2>1, <2>4, <2>5 DEF v

<1>UpdatedJob.
  ASSUME NEW r \in JobType, NEW t \in Seq(Steps), NEW w \in {"no", "due", "sent"},
         NEW f \in BOOLEAN
  PROVE  /\ Updated([r EXCEPT !.todo = t, !.wait = w, !.fresh = f], r, t, w, f)
         /\ Updated([r EXCEPT !.todo = t], r, t, r.wait, r.fresh)
         /\ Updated([r EXCEPT !.wait = w], r, r.todo, w, r.fresh)
  BY <1>UpdatedJob DEF JobType, Updated

<1>GoesSteps.
  ASSUME TypeOK, NEW j \in Jobs, job[j].todo # <<>>, NEW more \in Seq(Steps),
         Goes(j, more)
  PROVE  Stepped(j, more) /\ job'[j].wait = job[j].wait
  <2> USE <1>GoesSteps
  <2>1. job[j] \in JobType /\ job[j].todo \in Seq(Steps)
    BY SMT DEF TypeOK, JobType
  <2> DEFINE t == more \o Tail(job[j].todo)
  <2>2. t \in Seq(Steps)
    BY <2>1, <1>HeadTail, <1>Joined
  <2>3. job' = [job EXCEPT ![j] = [job[j] EXCEPT !.todo = t]]
    BY DEF Goes
  <2> HIDE DEF t
  <2>4. job \in [Jobs -> JobType]
    BY DEF TypeOK
  <2>5. Updated([job[j] EXCEPT !.todo = t], job[j], t, job[j].wait, job[j].fresh)
    BY <2>1, <2>2, <1>UpdatedJob
  <2>6. [job[j] EXCEPT !.todo = t] \in JobType
    BY <2>5 DEF Updated
  <2>7. /\ job' \in [Jobs -> JobType]
        /\ Updated(job'[j], job[j], t, job[j].wait, job[j].fresh)
        /\ \A i \in Jobs \ {j} : job'[i] = job[i]
    BY <2>3, <2>4, <2>5, <2>6
  <2>8. \A i \in Jobs \ {j} : Kept(i) /\ job'[i].wait = job[i].wait
    BY <2>7 DEF Kept
  <2> QED
    BY <2>7, <2>8 DEF Stepped, Updated, t

<1>WritesSteps.
  ASSUME TypeOK, NEW j \in Jobs, job[j].todo # <<>>, NEW more \in Seq(Steps),
         NEW full \in BOOLEAN, NEW bump \in BOOLEAN, Writes(j, full, bump, more)
  PROVE  /\ Stepped(j, more)
         /\ job'[j].wait = IF full THEN "due" ELSE job[j].wait
         /\ bump => \A i \in Jobs : ~job'[i].fresh
  <2> USE <1>WritesSteps
  <2>1. \A i \in Jobs : job[i] \in JobType
    BY DEF TypeOK
  <2> DEFINE t == more \o Tail(job[j].todo)
  <2>2. t \in Seq(Steps)
    <3>1. job[j].todo \in Seq(Steps)
      BY SMT, <2>1 DEF JobType
    <3> QED
      BY <3>1, <1>HeadTail, <1>Joined
  <2> DEFINE List(i) == IF i = j THEN t ELSE job[i].todo
             Wait(i) == IF i = j /\ full THEN "due" ELSE job[i].wait
             Fresh(i) == job[i].fresh /\ ~bump
             New(i) == [job[i] EXCEPT !.todo = List(i), !.wait = Wait(i),
                                      !.fresh = Fresh(i)]
  <2>3. job' = [i \in Jobs |-> New(i)]
    BY DEF Writes
  <2>4. ASSUME NEW i \in Jobs
        PROVE  /\ Updated(New(i), job[i], List(i), Wait(i), Fresh(i))
               /\ New(i) \in JobType
    <3>1. job[i] \in JobType
      BY <2>1
    <3>2. List(i) \in Seq(Steps) /\ Wait(i) \in {"no", "due", "sent"} /\ Fresh(i) \in BOOLEAN
      BY SMT, <2>2, <3>1 DEF JobType
    <3> HIDE DEF List, Wait, Fresh
    <3>3. Updated(New(i), job[i], List(i), Wait(i), Fresh(i))
      BY <3>1, <3>2, <1>UpdatedJob
    <3> QED
      BY <3>3 DEF Updated
  <2> HIDE DEF New, t
  <2>5. /\ job' \in [Jobs -> JobType]
        /\ \A i \in Jobs : Updated(job'[i], job[i], List(i), Wait(i), Fresh(i))
    BY <2>3, <2>4
  <2>6. ASSUME NEW i \in Jobs \ {j} PROVE Kept(i) /\ job'[i].wait = job[i].wait
    <3>1. Updated(job'[i], job[i], job[i].todo, job[i].wait, Fresh(i))
      BY <2>5
    <3> QED
      BY <3>1 DEF Kept, Updated
  <2>7. Updated(job'[j], job[j], t, Wait(j), Fresh(j))
    BY <2>5
  <2>8. Stepped(j, more)
    BY <2>5, <2>6, <2>7 DEF Stepped, Updated, t
  <2>9. bump => \A i \in Jobs : ~job'[i].fresh
    BY <2>5 DEF Updated
  <2> QED
    BY <2>7, <2>8, <2>9 DEF Updated

\* The jobs still exclude each other.
<1>KeepMutex.
  ASSUME Mutex,
         \A i \in Jobs : /\ job'[i].op = job[i].op /\ job'[i].node = job[i].node
                         /\ job'[i].lock = job[i].lock
  PROVE  Mutex'
  <2> USE <1>KeepMutex
  <2>1. ASSUME NEW i \in Jobs, NEW k \in Jobs, Conflict(job'[i], job'[k])
        PROVE  Conflict(job[i], job[k])
    <3>1. /\ job'[i].node = job[i].node /\ job'[i].lock = job[i].lock
          /\ job'[k].node = job[k].node /\ job'[k].lock = job[k].lock
      OBVIOUS
    <3> QED
      BY SMT, <2>1, <3>1 DEF Conflict
  <2> QED
    BY <2>1 DEF Mutex

<1>StepMutex.
  ASSUME Mutex, NEW j \in Jobs, NEW more, Stepped(j, more)
  PROVE  Mutex'
  <2> USE <1>StepMutex
  <2>1. \A i \in Jobs : /\ job'[i].op = job[i].op /\ job'[i].node = job[i].node
                        /\ job'[i].lock = job[i].lock
    BY DEF Stepped, Kept
  <2> QED
    BY <2>1, <1>KeepMutex

\* The steps of the lists: only the first one of job j is gone.
<1>StepHas.
  ASSUME TypeOK, NEW j \in Jobs, job[j].todo # <<>>, NEW more \in Seq(Steps),
         Stepped(j, more)
  PROVE  /\ Todo(j)' = Range(more) \cup Range(Tail(job[j].todo))
         /\ Todo(j) = {Head(job[j].todo)} \cup Range(Tail(job[j].todo))
         /\ \A i \in Jobs \ {j} : Todo(i)' = Todo(i)
         /\ \A i \in Jobs : \A n, w :
              Has(i, n, w) /\ ~(i = j /\ Head(job[j].todo).node = n
                                     /\ Head(job[j].todo).what = w)
              => Has(i, n, w)'
  <2> USE <1>StepHas
  <2>1. job[j].todo \in Seq(Steps)
    BY SMT DEF TypeOK, JobType
  <2>2. /\ Todo(j)' = Range(more) \cup Range(Tail(job[j].todo))
        /\ Todo(j) = {Head(job[j].todo)} \cup Range(Tail(job[j].todo))
    <3>1. Tail(job[j].todo) \in Seq(Steps)
      BY <2>1, <1>HeadTail
    <3>2. job'[j].todo = more \o Tail(job[j].todo)
      BY DEF Stepped
    <3>3. Range(job'[j].todo) = Range(more) \cup Range(Tail(job[j].todo))
      BY <3>1, <3>2, <1>Joined
    <3> QED
      BY <2>1, <3>3, <1>HeadTail DEF Todo
  <2>3. \A i \in Jobs \ {j} : Todo(i)' = Todo(i)
    BY DEF Todo, Stepped, Kept
  <2>4. ASSUME NEW i \in Jobs, NEW n, NEW w, Has(i, n, w),
               ~(i = j /\ Head(job[j].todo).node = n /\ Head(job[j].todo).what = w)
        PROVE  Has(i, n, w)'
    <3>1. CASE i = j
      BY <3>1, <2>2, <2>4 DEF Has
    <3>2. CASE i # j
      BY <3>2, <2>3, <2>4 DEF Has
    <3> QED
      BY <3>1, <3>2
  <2> QED
    BY <2>2, <2>3, <2>4

\* Two jobs that both may change roles are about different nodes, and no job
\* looks at all of the roles while another one may change some.
<1>Apart.
  ASSUME Mutex, NEW i \in Jobs, NEW k \in Jobs, i # k, JobOK(i), JobOK(k)
  PROVE  /\ Excl(i) /\ Excl(k) => job[i].node # job[k].node
         /\ ~(Excl(i) /\ Whole(k))
         /\ job[i].lock \in {"all", "bgl"} => job[k].lock = "none"
  <2> USE <1>Apart
  <2>1. \A l \in {i, k} : job[l].op = "none" => job[l].lock = "none"
    BY DEF JobOK
  <2>2. job[i].op # "none" /\ job[k].op # "none" => ~Conflict(job[i], job[k])
    BY DEF Mutex
  <2> DEFINE x == job[i]
             y == job[k]
  <2>3. /\ x.op = "none" => x.lock = "none"
        /\ y.op = "none" => y.lock = "none"
        /\ x.op # "none" /\ y.op # "none" => ~Conflict(x, y)
    BY <2>1, <2>2
  <2> HIDE DEF x, y
  <2>4. /\ x.lock \in {"own", "all", "bgl"} /\ y.lock \in {"own", "all", "bgl"}
             => x.node # y.node
        /\ ~(x.lock \in {"own", "all", "bgl"} /\ y.lock \in {"all", "bgl", "shared"})
        /\ x.lock \in {"all", "bgl"} => y.lock = "none"
    BY SMT, <2>3 DEF Conflict
  <2> QED
    BY <2>4 DEF Excl, Whole, x, y

<1>OthersApart.
  ASSUME Mutex, NEW i \in Jobs, NEW j \in Jobs, i # j, JobOK(i), JobOK(j),
         NEW s \in Todo(i), Concerns(s)
  PROVE  /\ Excl(j) => s.node # job[j].node
         /\ Whole(j) => s.node \in Candidates
  <2> USE <1>OthersApart
  <2>1. Allowed(i, s)
    BY DEF JobOK
  <2>2. \/ s.node = job[i].node /\ Excl(i)
        \/ s.node \in Candidates /\ Whole(i)
    BY <2>1 DEF Allowed, Concerns
  <2>3. /\ Excl(i) /\ Excl(j) => job[i].node # job[j].node
        /\ ~(Excl(i) /\ Whole(j)) /\ ~(Excl(j) /\ Whole(i))
    BY <1>Apart
  <2> QED
    BY <2>2, <2>3

\* A job stays in order if neither its list nor what the list is about changes.
<1>KeepJob.
  ASSUME NEW i \in Jobs, JobOK(i), Kept(i),
         \A s \in Todo(i) : Concerns(s) =>
           (s.node \in Candidates' <=> s.node \in Candidates),
         \A s \in Todo(i) : Sets(s) /\ s.node \in keys' => s.node \in keys
  PROVE  JobOK(i)'
  <2> USE <1>KeepJob
  <2>1. /\ job'[i].op = job[i].op /\ job'[i].node = job[i].node
        /\ job'[i].lock = job[i].lock /\ job'[i].todo = job[i].todo
        /\ job'[i].adjusts = job[i].adjusts
        /\ job'[i].fresh => job[i].fresh
        /\ job[i].wait = "no" => job'[i].wait = "no"
    BY DEF Kept
  <2>2. Todo(i)' = Todo(i)
    BY <2>1 DEF Todo
  <2>3. \A n, w : Has(i, n, w)' <=> Has(i, n, w)
    BY <2>2 DEF Has
  <2>4. \A n : HasDrop(i, n)' <=> HasDrop(i, n)
    BY <2>3 DEF HasDrop
  <2>5. ASSUME NEW s \in Todo(i) PROVE Allowed(i, s)'
    <3>1. Allowed(i, s)
      BY DEF JobOK
    <3>2. Grant(s) => (s.node \in Candidates' <=> s.node \in Candidates)
      BY DEF Concerns
    <3>3. (Excl(i)' <=> Excl(i)) /\ (Whole(i)' <=> Whole(i))
      BY <2>1 DEF Excl, Whole
    <3> QED
      BY <2>1, <3>1, <3>2, <3>3 DEF Allowed
  <2>6. ASSUME NEW s \in Todo(i) PROVE Aims(i, s)'
    <3>1. Aims(i, s)
      BY DEF JobOK
    <3>2. Grant(s) \/ Revoke(s) => (s.node \in Candidates' <=> s.node \in Candidates)
      BY DEF Concerns
    <3> QED
      BY <2>2, <3>1, <3>2 DEF Aims
  <2>7. ASSUME NEW r \in Todo(i), Sets(r) PROVE Followed(i, r)'
    <3>1. Followed(i, r)
      BY <2>7 DEF JobOK
    <3>2. /\ r.node \in Candidates' <=> r.node \in Candidates
          /\ r.node \in keys' => r.node \in keys
      BY <2>7 DEF Concerns
    <3> QED
      BY <2>3, <2>4, <3>1, <3>2 DEF Followed
  <2>8. Ordered(job'[i].todo) /\ Fits(Todo(i)')
    BY <2>1, <2>2 DEF JobOK
  <2>9. job'[i].op = "none" => /\ job'[i].lock = "none" /\ job'[i].todo = <<>>
                               /\ job'[i].wait = "no"
                               /\ ~job'[i].adjusts /\ ~job'[i].fresh
    BY <2>1 DEF JobOK
  <2> QED
    BY <2>2, <2>5, <2>6, <2>7, <2>8, <2>9 DEF JobOK

\* The same of the job that has done the first step of its list.
<1>TailJob.
  ASSUME TypeOK, NEW j \in Jobs, JobOK(j), job[j].todo # <<>>, Stepped(j, <<>>),
         NEW h, h = Head(job[j].todo),
         \A s \in Range(Tail(job[j].todo)) : Concerns(s) =>
           IF Sets(h) /\ h.node = s.node
           THEN s.node \in Candidates' <=> h.arg = "candidate"
           ELSE s.node \in Candidates' <=> s.node \in Candidates,
         \A s \in Range(Tail(job[j].todo)) : Sets(s) /\ s.node \in keys' =>
           s.node \in keys /\ ~(h.what = "key-" /\ h.node = s.node)
  PROVE  JobOK(j)'
  <2> USE <1>TailJob
  <2> DEFINE T == Range(Tail(job[j].todo))
  <2>0. job[j].todo \in Seq(Steps) /\ <<>> \in Seq(Steps)
    BY SMT DEF TypeOK, JobType
  <2>1. Todo(j) = {h} \cup T /\ Todo(j)' = T
    <3>1. Todo(j) = {h} \cup T /\ Todo(j)' = Range(<<>>) \cup T
      BY <2>0, <1>StepHas
    <3> QED
      BY <3>1, <1>ShortLists
  <2>2. /\ Tail(job[j].todo) \in Seq(Steps)
        /\ Ordered(Tail(job[j].todo)) /\ \A b \in T : Before(h, b)
    BY <2>0, <1>HeadTail DEF JobOK
  <2>3. job'[j].todo = Tail(job[j].todo)
    <3>1. job'[j].todo = <<>> \o Tail(job[j].todo)
      BY DEF Stepped
    <3> QED
      BY SMT, <2>2, <3>1
  <2>4. /\ job'[j].op = job[j].op /\ job'[j].node = job[j].node
        /\ job'[j].lock = job[j].lock
    BY DEF Stepped
  <2> HIDE DEF T
  <2>5. \A r \in T : Sets(r) /\ (Sets(h) \/ Grant(h) \/ Revoke(h)) => h.node # r.node
    BY <2>2 DEF Before
  <2>6. /\ \A s \in T : Concerns(s) =>
             IF Sets(h) /\ h.node = s.node
             THEN s.node \in Candidates' <=> h.arg = "candidate"
             ELSE s.node \in Candidates' <=> s.node \in Candidates
        /\ \A s \in T : Sets(s) /\ s.node \in keys' =>
             s.node \in keys /\ ~(h.what = "key-" /\ h.node = s.node)
    BY DEF T
  <2>7. /\ \A s \in Todo(j) : Allowed(j, s) /\ Aims(j, s) /\ (Sets(s) => Followed(j, s))
        /\ Fits(Todo(j))
    BY DEF JobOK
  <2>8. ASSUME NEW s \in T PROVE Allowed(j, s)'
    <3>1. Allowed(j, s)
      BY <2>1, <2>7
    <3>2. Grant(s) /\ s.node \in Candidates => s.node \in Candidates'
      <4>1. CASE Sets(h) /\ h.node = s.node
        BY <4>1, <2>1, <2>6, <2>7 DEF Fits, Concerns
      <4>2. CASE ~(Sets(h) /\ h.node = s.node)
        BY <4>2, <2>6 DEF Concerns
      <4> QED
        BY <4>1, <4>2
    <3>3. (Excl(j)' <=> Excl(j)) /\ (Whole(j)' <=> Whole(j))
      BY <2>4 DEF Excl, Whole
    <3> QED
      BY <2>4, <3>1, <3>2, <3>3 DEF Allowed
  <2>9. ASSUME NEW s \in T PROVE Aims(j, s)'
    <3> SUFFICES ASSUME \A r \in T : Sets(r) => r.node # s.node
                 PROVE  /\ Grant(s) => s.node \in Candidates'
                        /\ Revoke(s) => s.node \notin Candidates'
      BY <2>1 DEF Aims
    <3>1. CASE Sets(h) /\ h.node = s.node
      BY <3>1, <2>1, <2>6, <2>7 DEF Fits, Concerns
    <3>2. CASE ~(Sets(h) /\ h.node = s.node)
      <4>1. Aims(j, s) /\ \A r \in Todo(j) : Sets(r) => r.node # s.node
        BY <3>2, <2>1, <2>7
      <4> QED
        BY <3>2, <4>1, <2>6 DEF Aims, Concerns
    <3> QED
      BY <3>1, <3>2
  <2>10. ASSUME NEW r \in T, Sets(r) PROVE Followed(j, r)'
    <3>1. Followed(j, r)
      BY <2>1, <2>7, <2>10
    <3>2. /\ r.node \in Candidates' <=> r.node \in Candidates
          /\ r.node \in keys' => r.node \in keys
      BY <2>5, <2>6, <2>10 DEF Concerns
    <3>3. \A w \in {"cert+", "key+", "cert-", "demote", "leave"} :
            Has(j, r.node, w) => Has(j, r.node, w)'
      BY <2>1, <2>5, <2>10 DEF Has, Grant, Revoke, Drops
    <3>4. Has(j, r.node, "key-") => Has(j, r.node, "key-")' \/ r.node \notin keys'
      BY <2>1, <2>6, <2>10 DEF Has
    <3>5. HasDrop(j, r.node) => HasDrop(j, r.node)'
      BY <3>3 DEF HasDrop
    <3> QED
      BY <3>1, <3>2, <3>3, <3>4, <3>5 DEF Followed
  <2>11. Fits(T)
    BY <2>1, <2>7 DEF Fits
  <2>12. job'[j].op # "none"
    <3>1. job[j].op # "none"
      BY DEF JobOK
    <3> QED
      BY <3>1, <2>4
  <2> QED
    BY <2>1, <2>2, <2>3, <2>8, <2>9, <2>10, <2>11, <2>12 DEF JobOK

\* All jobs after a step of job j, whose first step was h.
<1>StepJobs.
  ASSUME RInv, NEW j \in Jobs, job[j].todo # <<>>, Stepped(j, <<>>),
         NEW h, h = Head(job[j].todo),
         \A n \in Nodes : IF Sets(h) /\ h.node = n
                          THEN n \in Candidates' <=> h.arg = "candidate"
                          ELSE n \in Candidates' <=> n \in Candidates,
         \A n \in keys' : n \in keys \/ (h.what = "key+" /\ h.node = n),
         h.what = "key-" => h.node \notin keys'
  PROVE  Mutex' /\ \A i \in Jobs : JobOK(i)'
  <2> USE <1>StepJobs
  <2>1. TypeOK /\ Mutex /\ \A i \in Jobs : JobOK(i)
    BY DEF RInv
  <2>2. Mutex'
    BY <2>1, <1>StepMutex
  <2>3. job[j].todo \in Seq(Steps)
    BY SMT, <2>1 DEF TypeOK, JobType
  <2>4. /\ Todo(j) = {h} \cup Range(Tail(job[j].todo))
        /\ \A b \in Range(Tail(job[j].todo)) : Before(h, b)
    BY <2>1, <2>3, <1>HeadTail DEF Todo, JobOK
  <2>5. Allowed(j, h)
    BY <2>1, <2>4 DEF JobOK
  <2>6. \A i \in Jobs : \A s \in Todo(i) : s.node \in Nodes
    <3> SUFFICES ASSUME NEW i \in Jobs, NEW s \in Todo(i) PROVE s.node \in Nodes
      OBVIOUS
    <3>1. job[i].todo \in Seq(Steps)
      BY SMT, <2>1 DEF TypeOK, JobType
    <3>2. s \in Steps
      BY <3>1, <1>ListSteps DEF Todo
    <3> QED
      BY <3>2 DEF Steps
  <2>7. ASSUME NEW i \in Jobs, i # j PROVE JobOK(i)'
    <3>1. Kept(i) /\ JobOK(i)
      BY <2>1, <2>7 DEF Stepped
    <3>2. ASSUME NEW s \in Todo(i), Concerns(s)
          PROVE  s.node \in Candidates' <=> s.node \in Candidates
      <4>1. Sets(h) => s.node # h.node
        BY <2>1, <2>5, <2>7, <3>2, <1>OthersApart DEF Allowed
      <4> QED
        BY <4>1, <2>6
    <3>3. ASSUME NEW s \in Todo(i), Sets(s), s.node \in keys'
          PROVE  s.node \in keys
      <4>1. Excl(i) /\ Allowed(i, s)
        BY <3>1, <3>3 DEF JobOK, Allowed
      <4>2. ~Whole(j) /\ (Excl(j) => s.node # job[j].node)
        BY <2>1, <2>7, <3>3, <4>1, <1>Apart, <1>OthersApart DEF Concerns
      <4>3. h.what = "key+" => h.node # s.node
        BY <2>5, <4>2 DEF Allowed, Grant
      <4> QED
        BY <4>3, <3>3
    <3> QED
      BY <3>1, <3>2, <3>3, <1>KeepJob
  <2>8. JobOK(j)'
    <3>1. \A s \in Range(Tail(job[j].todo)) : s.node \in Nodes
      BY <2>4, <2>6
    <3>2. ASSUME NEW s \in Range(Tail(job[j].todo)), Sets(s), s.node \in keys'
          PROVE  s.node \in keys /\ ~(h.what = "key-" /\ h.node = s.node)
      <4>1. h.what = "key+" => h.node # s.node
        BY <2>4, <3>2 DEF Before, Grant
      <4> QED
        BY <3>2, <4>1
    <3> QED
      BY <2>1, <3>1, <3>2, <1>TailJob
  <2> QED
    BY <2>2, <2>7, <2>8

<1>KeepCert.
  ASSUME NEW n, CertOK(n),
         n \in certs' <=> n \in certs, n \in Candidates' <=> n \in Candidates,
         \A x \in {"cert", "lost"} : <<x, n>> \in owed => <<x, n>> \in owed',
         \A i \in Jobs, w \in {"cert+", "cert-"} : Has(i, n, w) => Has(i, n, w)'
  PROVE  CertOK(n)'
  <2> USE <1>KeepCert
  <2>1. {<<"cert", n>>, <<"lost", n>>} \cap owed # {} =>
           {<<"cert", n>>, <<"lost", n>>} \cap owed' # {}
    OBVIOUS
  <2> QED
    BY <2>1 DEF CertOK

<1>KeepKey.
  ASSUME NEW n, KeyOK(n),
         n \in keys' <=> n \in keys, n \in Candidates' <=> n \in Candidates,
         <<"key", n>> \in owed => <<"key", n>> \in owed',
         \A i \in Jobs, w \in {"key+", "key-"} : Has(i, n, w) => Has(i, n, w)'
  PROVE  KeyOK(n)'
  BY <1>KeepKey DEF KeyOK

<1>KeepSpare.
  ASSUME NEW n, NoSpareCopy(n), n \in copy' => n \in copy,
         n \notin Candidates' => n \notin Candidates,
         \A x \in {"copy", "late"} : <<x, n>> \in owed => <<x, n>> \in owed',
         \A i \in Jobs, w \in {"demote", "leave"} : Has(i, n, w) => Has(i, n, w)'
  PROVE  NoSpareCopy(n)'
  <2> USE <1>KeepSpare
  <2>1. {<<"copy", n>>, <<"late", n>>} \cap owed # {} =>
           {<<"copy", n>>, <<"late", n>>} \cap owed' # {}
    OBVIOUS
  <2> QED
    BY <2>1 DEF NoSpareCopy, HasDrop

<1>KeepComes.
  ASSUME NEW n, CopyComes(n), n \in copy => n \in copy',
         n \in Candidates' => n \in Candidates,
         dirty => dirty', upload' = upload,
         <<"copy", n>> \in owed => <<"copy", n>> \in owed',
         \A i \in Jobs : Rejoins(i, n) => Rejoins(i, n)'
  PROVE  CopyComes(n)'
  BY <1>KeepComes DEF CopyComes

<1>KeepLate.
  ASSUME NEW n, Late(n), upload' = upload,
         n \notin Candidates' => n \notin Candidates,
         <<"late", n>> \in owed => <<"late", n>> \in owed',
         \A i \in Jobs : Awaits(i, n) => Awaits(i, n)'
  PROVE  Late(n)'
  BY <1>KeepLate DEF Late

\* What a step of job j leaves of the excuses of a node that it is not about.
<1>StepElsewhere.
  ASSUME RInv, NEW j \in Jobs, job[j].todo # <<>>, job[j].wait = "no",
         NEW more \in Seq(Steps), Stepped(j, more),
         NEW h, h = Head(job[j].todo),
         NEW n, ~Concerns(h) \/ h.node # n
  PROVE  /\ \A i \in Jobs, w \in {"cert+", "cert-", "key+", "key-", "demote", "leave"} :
              Has(i, n, w) => Has(i, n, w)'
         /\ \A i \in Jobs : Rejoins(i, n) => Rejoins(i, n)'
  <2> USE <1>StepElsewhere
  <2>1. /\ \A i \in Jobs : \A m, w :
             Has(i, m, w) /\ ~(i = j /\ h.node = m /\ h.what = w) => Has(i, m, w)'
        /\ Todo(j) = {h} \cup Range(Tail(job[j].todo))
        /\ Todo(j)' = Range(more) \cup Range(Tail(job[j].todo))
        /\ \A i \in Jobs \ {j} : Todo(i)' = Todo(i)
    BY <1>StepHas DEF RInv
  <2>2. ASSUME NEW i \in Jobs,
               NEW w \in {"cert+", "cert-", "key+", "key-", "demote", "leave"},
               Has(i, n, w)
        PROVE  Has(i, n, w)'
    <3>1. h.what = w => h.node # n
      BY DEF Concerns, Grant, Revoke, Drops
    <3> QED
      BY <2>1, <2>2, <3>1
  <2>3. ASSUME NEW i \in Jobs, Rejoins(i, n) PROVE Rejoins(i, n)'
    <3>1. job'[i].op = job[i].op /\ job'[i].node = job[i].node
      BY DEF Stepped, Kept
    <3>2. CASE Has(i, n, "cert+")
      BY <2>2, <2>3, <3>1, <3>2 DEF Rejoins
    <3>3. CASE \E s \in Todo(i) : s.node = n /\ s.what = "role" /\ s.arg # "candidate"
      <4>1. PICK s \in Todo(i) : s.node = n /\ s.what = "role" /\ s.arg # "candidate"
        BY <3>3
      <4>2. s # h
        BY <4>1 DEF Concerns, Sets
      <4>3. s \in Todo(i)'
        BY <2>1, <4>1, <4>2
      <4> QED
        BY <2>3, <3>1, <4>1, <4>3 DEF Rejoins
    <3> QED
      BY <2>3, <3>2, <3>3 DEF Rejoins
  <2> QED
    BY <2>2, <2>3

\* And of the job that waits for an upload to the node, which is not j.
<1>StepAwaits.
  ASSUME RInv, NEW j \in Jobs, job[j].todo # <<>>, job[j].wait = "no",
         NEW more \in Seq(Steps), Stepped(j, more), NEW n,
         <<"copy", n>> \in owed =>
           <<"copy", n>> \in owed' \/ (job[j].node = n /\ Excl(j))
  PROVE  \A i \in Jobs : Awaits(i, n) => Awaits(i, n)'
  <2> USE <1>StepAwaits
  <2> SUFFICES ASSUME NEW i \in Jobs, Awaits(i, n) PROVE Awaits(i, n)'
    OBVIOUS
  <2>1. i # j
    BY DEF Awaits
  <2>2. Kept(i) /\ job'[i].wait = job[i].wait
    BY <2>1 DEF Stepped
  <2>3. ~(job[j].node = n /\ Excl(j))
    BY <2>1, <1>Apart DEF Awaits, RInv
  <2>4. HasDrop(i, n) => HasDrop(i, n)'
    <3>1. Todo(i)' = Todo(i)
      BY <2>2 DEF Todo, Kept
    <3> QED
      BY <3>1 DEF HasDrop, Has
  <2> QED
    BY <2>2, <2>3, <2>4 DEF Awaits, Kept, Excl

\* What is known of the first step of a list when the job comes to it.
<1>AtHead.
  ASSUME RInv, NEW j \in Jobs, job[j].todo # <<>>,
         NEW h, h = Head(job[j].todo)
  PROVE  /\ h \in Steps /\ Allowed(j, h) /\ (Sets(h) => Followed(j, h))
         /\ Grant(h) => h.node \in Candidates
         /\ Revoke(h) => h.node \notin Candidates
  <2> USE <1>AtHead
  <2>1. JobOK(j) /\ job[j].todo \in Seq(Steps)
    BY SMT DEF RInv, TypeOK, JobType
  <2>2. /\ h \in Steps /\ Todo(j) = {h} \cup Range(Tail(job[j].todo))
        /\ \A b \in Range(Tail(job[j].todo)) : Before(h, b)
    BY <2>1, <1>HeadTail DEF Todo, JobOK
  <2>3. Allowed(j, h) /\ Aims(j, h) /\ (Sets(h) => Followed(j, h))
    BY <2>1, <2>2 DEF JobOK
  <2>4. ASSUME Grant(h) \/ Revoke(h)
        PROVE  \A r \in Todo(j) : Sets(r) => r.node # h.node
    <3>1. ~Sets(h)
      BY <2>4 DEF Sets, Grant, Revoke, Drops
    <3> QED
      BY <2>2, <2>4, <3>1 DEF Before
  <2> QED
    BY <2>2, <2>3, <2>4 DEF Aims

\* A node that is about to get its copy with its certificate still is, unless
\* it is the step of job j that saw to that.
<1>StepRejoins.
  ASSUME RInv, NEW j \in Jobs, job[j].todo # <<>>,
         Stepped(j, <<>>), NEW h, h = Head(job[j].todo), NEW n
  PROVE  \A i \in Jobs : Rejoins(i, n) =>
           \/ Rejoins(i, n)'
           \/ /\ i = j /\ h.node = n /\ job[j].op = "readd"
              /\ h.what = "cert+" \/ (h.what = "role" /\ h.arg # "candidate")
  <2> USE <1>StepRejoins
  <2>0. <<>> \in Seq(Steps) /\ TypeOK
    BY <1>ShortLists DEF RInv
  <2>1. /\ \A i \in Jobs : \A m, w :
             Has(i, m, w) /\ ~(i = j /\ h.node = m /\ h.what = w) => Has(i, m, w)'
        /\ Todo(j) = {h} \cup Range(Tail(job[j].todo))
        /\ Todo(j)' = Range(<<>>) \cup Range(Tail(job[j].todo))
        /\ \A i \in Jobs \ {j} : Todo(i)' = Todo(i)
    BY <2>0, <1>StepHas
  <2> SUFFICES ASSUME NEW i \in Jobs, Rejoins(i, n),
                      ~(/\ i = j /\ h.node = n /\ job[j].op = "readd"
                        /\ h.what = "cert+" \/ (h.what = "role" /\ h.arg # "candidate"))
               PROVE  Rejoins(i, n)'
    OBVIOUS
  <2>2. job'[i].op = job[i].op /\ job'[i].node = job[i].node
    BY DEF Stepped, Kept
  <2>3. CASE Has(i, n, "cert+")
    <3>1. Has(i, n, "cert+")'
      BY <2>1, <2>3 DEF Rejoins
    <3> QED
      BY <2>2, <3>1 DEF Rejoins
  <2>4. CASE \E s \in Todo(i) : s.node = n /\ s.what = "role" /\ s.arg # "candidate"
    <3>1. PICK s \in Todo(i) : s.node = n /\ s.what = "role" /\ s.arg # "candidate"
      BY <2>4
    <3>2. ~(i = j /\ s = h)
      BY <3>1 DEF Rejoins
    <3>3. s \in Todo(i)'
      BY <2>1, <3>1, <3>2
    <3> QED
      BY <2>2, <3>1, <3>3 DEF Rejoins
  <2> QED
    BY <2>3, <2>4 DEF Rejoins

\* A node that the step is not about.
<1>QuietNode.
  ASSUME RInv, NEW j \in Jobs, job[j].todo # <<>>, job[j].wait = "no",
         NEW more \in Seq(Steps), Stepped(j, more),
         NEW h, h = Head(job[j].todo),
         NEW n \in Nodes, ~Concerns(h) \/ h.node # n,
         n \in Candidates' <=> n \in Candidates,
         (n \in certs' <=> n \in certs) \/ <<"lost", n>> \in owed',
         n \in keys' <=> n \in keys, n \in copy' <=> n \in copy,
         dirty => dirty', upload' = upload,
         \A x \in {"cert", "lost", "key", "copy", "late"} :
           <<x, n>> \in owed => <<x, n>> \in owed'
  PROVE  NodeOK(n)'
  <2> USE <1>QuietNode
  <2>1. NodeOK(n)
    BY DEF RInv
  <2>2. /\ \A i \in Jobs, w \in {"cert+", "cert-", "key+", "key-", "demote", "leave"} :
             Has(i, n, w) => Has(i, n, w)'
        /\ \A i \in Jobs : Rejoins(i, n) => Rejoins(i, n)'
    BY <1>StepElsewhere
  <2>3. \A i \in Jobs : Awaits(i, n) => Awaits(i, n)'
    <3>1. <<"copy", n>> \in owed => <<"copy", n>> \in owed'
      OBVIOUS
    <3> QED
      BY <3>1, <1>StepAwaits
  <2>4. CertOK(n)'
    <3>1. CASE <<"lost", n>> \in owed'
      BY <3>1 DEF CertOK
    <3>2. CASE n \in certs' <=> n \in certs
      BY <2>1, <2>2, <3>2, <1>KeepCert DEF NodeOK
    <3> QED
      BY <3>1, <3>2
  <2>5. KeyOK(n)'
    BY <2>1, <2>2, <1>KeepKey DEF NodeOK
  <2>6. NoSpareCopy(n)'
    BY <2>1, <2>2, <1>KeepSpare DEF NodeOK
  <2>7. CopyComes(n)'
    BY <2>1, <2>2, <1>KeepComes DEF NodeOK
  <2>8. Late(n)'
    BY <2>1, <2>3, <1>KeepLate DEF NodeOK
  <2> QED
    BY <2>4, <2>5, <2>6, <2>7, <2>8 DEF NodeOK

\* The steps of a job that are no adjustment.
<1>PlainKeeps.
  \A j \in Jobs :
    RInv /\ (\/ Update(j) \/ SetRole(j) \/ AddNode(j) \/ DropCopy(j)
             \/ Cert(j) \/ Key(j) \/ UpdateCluster(j)) => RInv'

  \* The first Update of LUNodeSetParams.
  <2>UpdateKeeps.
    ASSUME RInv, NEW j \in Jobs, Update(j)
    PROVE  RInv'
    <3> USE <2>UpdateKeeps
    <3>h. PICK h : h = Head(job[j].todo)
      OBVIOUS
    <3>0. /\ job[j].todo # <<>> /\ job[j].wait = "no" /\ h.what = "update"
          /\ <<>> \in Seq(Steps) /\ TypeOK /\ MasterOK
      BY <3>h, <1>ShortLists DEF Update, Comes, RInv
    <3>1. h \in Steps
      BY <3>h, <3>0, <1>AtHead
    <3>2. /\ Writes(j, h.node \in Candidates, TRUE, <<>>)
          /\ capable' = [capable EXCEPT ![h.node] = IF h.arg = "keep" THEN @ ELSE h.arg = "yes"]
          /\ role' = role /\ size' = size /\ certs' = certs /\ keys' = keys
          /\ owed' = owed /\ count' = count
      BY <3>h DEF Update
    <3>3. dirty' = TRUE /\ copy' = copy /\ upload' = upload
      BY <3>2 DEF Writes
    <3>4. Stepped(j, <<>>)
      <4> DEFINE full == h.node \in Candidates
      <4>1. full \in BOOLEAN
        BY SMT
      <4>2. Writes(j, full, TRUE, <<>>)
        BY <3>2
      <4> HIDE DEF full
      <4> QED
        BY <3>0, <4>1, <4>2, <1>WritesSteps
    <3>5. Candidates' = Candidates
      BY <3>2 DEF Candidates
    <3>6. ~Concerns(h) /\ ~Sets(h)
      BY <3>h, <3>0 DEF Concerns, Sets, Grant, Revoke, Drops
    <3>7. TypeOK'
      <4>1. job' \in [Jobs -> JobType]
        BY <3>4 DEF Stepped
      <4>2. capable' \in [Nodes -> BOOLEAN]
        <5> DEFINE v == IF h.arg = "keep" THEN capable[h.node] ELSE h.arg = "yes"
        <5>1. capable \in [Nodes -> BOOLEAN] /\ h.node \in Nodes
          BY <3>0, <3>1 DEF TypeOK, Steps
        <5>2. v \in BOOLEAN
          BY <5>1
        <5>3. capable' = [capable EXCEPT ![h.node] = v]
          BY <3>2
        <5> HIDE DEF v
        <5> QED
          BY <5>1, <5>2, <5>3
      <4> QED
        BY <3>h, <3>0, <3>2, <3>3, <4>1, <4>2 DEF TypeOK
    <3>8. MasterOK'
      BY <3>h, <3>0, <3>2, <3>3 DEF MasterOK
    <3>9. Mutex' /\ \A i \in Jobs : JobOK(i)'
      BY <3>h, <3>0, <3>2, <3>4, <3>5, <3>6, <1>StepJobs
    <3>10. ASSUME NEW n \in Nodes PROVE NodeOK(n)'
      BY <3>h, <3>0, <3>2, <3>3, <3>4, <3>5, <3>6, <1>QuietNode
    <3> QED
      BY <3>7, <3>8, <3>9, <3>10 DEF RInv

  \* A grant or a withdrawal of the certificate.
  <2>CertKeeps.
    ASSUME RInv, NEW j \in Jobs, Cert(j)
    PROVE  RInv'
    <3> USE <2>CertKeeps
    <3>h. PICK h, m : h = Head(job[j].todo) /\ m = h.node
      OBVIOUS
    <3>0. /\ job[j].todo # <<>> /\ job[j].wait = "no" /\ h.what \in {"cert+", "cert-"}
          /\ <<>> \in Seq(Steps) /\ TypeOK /\ MasterOK
      BY <3>h, <1>ShortLists DEF Cert, Comes, RInv
    <3>1. /\ h \in Steps
          /\ h.what = "cert+" => m \in Candidates
          /\ h.what = "cert-" => m \notin Candidates
      BY <3>h, <3>0, <1>AtHead DEF Grant, Revoke
    <3>2. /\ certs' = IF h.what = "cert+" THEN certs \cup {m} ELSE certs \ {m}
          /\ owed' = owed \ {SeesTo(h), <<"lost", m>>}
          /\ role' = role /\ capable' = capable /\ size' = size /\ keys' = keys
          /\ count' = count
      BY <3>h DEF Cert, conf
    <3>3. \/ Writes(j, TRUE, FALSE, <<>>)
          \/ /\ Goes(j, <<>>) /\ copy' = copy /\ dirty' = dirty /\ upload' = upload
             /\ ~(job[j].op = "readd" /\ h.what = "cert+")
      BY <3>h DEF Cert, wconfd
    <3>4. /\ copy' = copy /\ upload' = upload
          /\ dirty' = TRUE \/ (dirty' = dirty /\ ~(job[j].op = "readd" /\ h.what = "cert+"))
      BY <3>3 DEF Writes
    <3>5. Stepped(j, <<>>)
      BY <3>h, <3>0, <3>3, <1>WritesSteps, <1>GoesSteps
    <3>6. Candidates' = Candidates
      BY <3>2 DEF Candidates
    <3>7. SeesTo(h) = <<"cert", m>>
      BY SMT, <3>h, <3>0 DEF SeesTo
    <3>8. m \in Nodes
      BY <3>h, <3>1 DEF Steps
    <3>9. TypeOK'
      <4>1. job' \in [Jobs -> JobType]
        BY <3>5 DEF Stepped
      <4>2. certs' \subseteq Nodes
        BY SMT, <3>h, <3>0, <3>2, <3>8 DEF TypeOK
      <4>3. dirty' \in BOOLEAN
        BY <3>h, <3>0, <3>4 DEF TypeOK
      <4> QED
        BY <3>h, <3>0, <3>2, <3>4, <4>1, <4>2, <4>3 DEF TypeOK
    <3>10. MasterOK'
      BY <3>h, <3>0, <3>2, <3>4 DEF MasterOK
    <3>11. ~Sets(h) /\ h.what # "key-"
      BY <3>h, <3>0 DEF Sets
    <3>12. Mutex' /\ \A i \in Jobs : JobOK(i)'
      BY <3>h, <3>0, <3>2, <3>5, <3>6, <3>11, <1>StepJobs
    <3>13. \A x, n : <<x, n>> \in owed =>
             <<x, n>> \in owed' \/ (n = m /\ x \in {"cert", "lost"})
      BY SMT, <3>2, <3>7
    <3>14. ASSUME NEW n \in Nodes, n # m PROVE NodeOK(n)'
      <4>1. n \in certs' <=> n \in certs
        BY <3>2, <3>14
      <4>2. dirty => dirty'
        BY <3>4
      <4>3. \A x \in {"cert", "lost", "key", "copy", "late"} :
              <<x, n>> \in owed => <<x, n>> \in owed'
        <5>1. \A x : <<x, n>> \in owed => <<x, n>> \in owed'
          BY SMT, <3>13, <3>14
        <5> QED
          BY <5>1
      <4> QED
        BY <3>h, <3>0, <3>2, <3>4, <3>5, <3>6, <3>14, <4>1, <4>2, <4>3, <1>QuietNode
    <3>15. NodeOK(m)'
      <4>0. NodeOK(m)
        BY <3>8 DEF RInv
      <4>1. \A i \in Jobs, w \in {"key+", "key-", "demote", "leave"} :
              Has(i, m, w) => Has(i, m, w)'
        <5>1. \A w \in {"key+", "key-", "demote", "leave"} : h.what # w
          BY <3>h, <3>0
        <5> QED
          BY <3>h, <3>0, <3>5, <5>1, <1>StepHas
      <4>2. \A x \in {"key", "copy", "late"} : <<x, m>> \in owed => <<x, m>> \in owed'
        BY <3>13
      <4>3. CertOK(m)'
        BY <3>h, <3>0, <3>1, <3>2, <3>6 DEF CertOK
      <4>4. KeyOK(m)'
        BY <3>2, <3>6, <4>0, <4>1, <4>2, <1>KeepKey DEF NodeOK
      <4>5. NoSpareCopy(m)'
        BY <3>4, <3>6, <4>0, <4>1, <4>2, <1>KeepSpare DEF NodeOK
      <4>6. CopyComes(m)'
        <5>1. CASE dirty'
          BY <5>1 DEF CopyComes
        <5>2. CASE dirty' = dirty /\ ~(job[j].op = "readd" /\ h.what = "cert+")
          <6>1. \A i \in Jobs : Rejoins(i, m) => Rejoins(i, m)'
            BY <3>h, <3>0, <3>5, <5>2, <1>StepRejoins
          <6> QED
            BY <3>4, <3>6, <4>0, <4>2, <5>2, <6>1, <1>KeepComes DEF NodeOK
        <5> QED
          BY <3>4, <5>1, <5>2
      <4>7. Late(m)'
        <5>1. <<"copy", m>> \in owed => <<"copy", m>> \in owed'
          BY <4>2
        <5>2. \A i \in Jobs : Awaits(i, m) => Awaits(i, m)'
          BY <3>h, <3>0, <3>5, <5>1, <1>StepAwaits
        <5> QED
          BY <3>4, <3>6, <4>0, <4>2, <5>2, <1>KeepLate DEF NodeOK
      <4> QED
        BY <4>3, <4>4, <4>5, <4>6, <4>7 DEF NodeOK
    <3> QED
      BY <3>9, <3>10, <3>12, <3>14, <3>15 DEF RInv

  \* A grant or a withdrawal of the SSH key.
  <2>KeyKeeps.
    ASSUME RInv, NEW j \in Jobs, Key(j)
    PROVE  RInv'
    <3> USE <2>KeyKeeps
    <3>h. PICK h, m : h = Head(job[j].todo) /\ m = h.node
      OBVIOUS
    <3>0. /\ job[j].todo # <<>> /\ job[j].wait = "no" /\ h.what \in {"key+", "key-"}
          /\ <<>> \in Seq(Steps) /\ TypeOK /\ MasterOK
      BY <3>h, <1>ShortLists DEF Key, Comes, RInv
    <3>1. h \in Steps /\ (h.what = "key+" => m \in Candidates)
      BY <3>h, <3>0, <1>AtHead DEF Grant
    <3>2. /\ keys' = IF h.what = "key+" THEN keys \cup {m} ELSE keys \ {m}
          /\ owed' = IF h.what = "key-" /\ m \in Candidates
                     THEN owed \cup {SeesTo(h)} ELSE owed \ {SeesTo(h)}
          /\ Goes(j, <<>>)
          /\ role' = role /\ capable' = capable /\ size' = size /\ certs' = certs
          /\ copy' = copy /\ dirty' = dirty /\ upload' = upload /\ count' = count
      BY <3>h DEF Key, conf, wconfd
    <3>3. Stepped(j, <<>>)
      BY <3>0, <3>2, <1>GoesSteps
    <3>4. Candidates' = Candidates
      BY <3>2 DEF Candidates
    <3>5. SeesTo(h) = <<"key", m>>
      BY SMT, <3>h, <3>0 DEF SeesTo
    <3>6. m \in Nodes
      BY <3>h, <3>1 DEF Steps
    <3>7. TypeOK'
      <4>1. job' \in [Jobs -> JobType]
        BY <3>3 DEF Stepped
      <4>2. keys' \subseteq Nodes
        BY SMT, <3>0, <3>2, <3>6 DEF TypeOK
      <4> QED
        BY <3>0, <3>2, <4>1, <4>2 DEF TypeOK
    <3>8. MasterOK'
      BY <3>0, <3>2 DEF MasterOK
    <3>9. Mutex' /\ \A i \in Jobs : JobOK(i)'
      <4>1. ~Sets(h)
        BY <3>0 DEF Sets
      <4>2. /\ \A n \in keys' : n \in keys \/ (h.what = "key+" /\ h.node = n)
            /\ h.what = "key-" => h.node \notin keys'
        BY <3>h, <3>2
      <4> QED
        BY <3>h, <3>0, <3>3, <3>4, <4>1, <4>2, <1>StepJobs
    <3>10. \A x, n : <<x, n>> \in owed => <<x, n>> \in owed' \/ (n = m /\ x = "key")
      BY SMT, <3>2, <3>5
    <3>11. ASSUME NEW n \in Nodes, n # m PROVE NodeOK(n)'
      <4>1. n \in keys' <=> n \in keys
        BY <3>2, <3>11
      <4>2. \A x : <<x, n>> \in owed => <<x, n>> \in owed'
        BY SMT, <3>10, <3>11
      <4>3. \A x \in {"cert", "lost", "key", "copy", "late"} :
              <<x, n>> \in owed => <<x, n>> \in owed'
        BY <4>2
      <4> QED
        BY <3>h, <3>0, <3>2, <3>3, <3>4, <3>11, <4>1, <4>3, <1>QuietNode
    <3>12. NodeOK(m)'
      <4>0. NodeOK(m)
        BY <3>6 DEF RInv
      <4>1. \A i \in Jobs, w \in {"cert+", "cert-", "demote", "leave"} :
              Has(i, m, w) => Has(i, m, w)'
        <5>1. \A w \in {"cert+", "cert-", "demote", "leave"} : h.what # w
          BY <3>0
        <5> QED
          BY <3>h, <3>0, <3>3, <5>1, <1>StepHas
      <4>2. \A x \in {"cert", "lost", "copy", "late"} :
              <<x, m>> \in owed => <<x, m>> \in owed'
        BY <3>10
      <4>3. KeyOK(m)'
        <5>1. h.what = "key-" /\ m \in Candidates => <<"key", m>> \in owed'
          BY <3>2, <3>5
        <5> QED
          BY <3>0, <3>1, <3>2, <3>4, <5>1 DEF KeyOK
      <4>4. CertOK(m)'
        BY <3>2, <3>4, <4>0, <4>1, <4>2, <1>KeepCert DEF NodeOK
      <4>5. NoSpareCopy(m)'
        BY <3>2, <3>4, <4>0, <4>1, <4>2, <1>KeepSpare DEF NodeOK
      <4>6. CopyComes(m)'
        <5>1. \A i \in Jobs : Rejoins(i, m) => Rejoins(i, m)'
          BY <3>h, <3>0, <3>3, <1>StepRejoins
        <5> QED
          BY <3>2, <3>4, <4>0, <4>2, <5>1, <1>KeepComes DEF NodeOK
      <4>7. Late(m)'
        <5>1. <<"copy", m>> \in owed => <<"copy", m>> \in owed'
          BY <4>2
        <5>2. \A i \in Jobs : Awaits(i, m) => Awaits(i, m)'
          BY <3>0, <3>3, <5>1, <1>StepAwaits
        <5> QED
          BY <3>2, <3>4, <4>0, <4>2, <5>2, <1>KeepLate DEF NodeOK
      <4> QED
        BY <4>3, <4>4, <4>5, <4>6, <4>7 DEF NodeOK
    <3> QED
      BY <3>7, <3>8, <3>9, <3>11, <3>12 DEF RInv

  \* A node is told to give up its copy.
  <2>DropCopyKeeps.
    ASSUME RInv, NEW j \in Jobs, DropCopy(j)
    PROVE  RInv'
    <3> USE <2>DropCopyKeeps
    <3>h. PICK h, m : h = Head(job[j].todo) /\ m = h.node
      OBVIOUS
    <3>0. /\ job[j].todo # <<>> /\ job[j].wait = "no" /\ h.what \in {"demote", "leave"}
          /\ <<>> \in Seq(Steps) /\ TypeOK /\ MasterOK
      BY <3>h, <1>ShortLists DEF DropCopy, Comes, RInv
    <3>1. h \in Steps /\ m \notin Candidates /\ m = job[j].node /\ Excl(j)
      <4>1. Revoke(h)
        BY <3>0 DEF Revoke, Drops
      <4> QED
        BY <3>h, <3>0, <4>1, <1>AtHead DEF Allowed
    <3>2. /\ Goes(j, <<>>)
          /\ role' = role /\ capable' = capable /\ size' = size /\ certs' = certs
          /\ keys' = keys /\ dirty' = dirty /\ upload' = upload
          /\ \/ copy' = copy \ {m} /\ owed' = owed \ {<<"copy", m>>}
             \/ copy' = copy /\ owed' = owed \cup {<<"copy", m>>}
      BY <3>h DEF DropCopy, conf
    <3>3. Stepped(j, <<>>)
      BY <3>0, <3>2, <1>GoesSteps
    <3>4. Candidates' = Candidates
      BY <3>2 DEF Candidates
    <3>6. m \in Nodes
      BY <3>h, <3>1 DEF Steps
    <3>7. TypeOK'
      <4>1. job' \in [Jobs -> JobType]
        BY <3>3 DEF Stepped
      <4>2. copy' \subseteq Nodes
        BY <3>0, <3>2 DEF TypeOK
      <4>3. count' \in [jobs : Nat, faults : Nat]
        <5>1. count \in [jobs : Nat, faults : Nat]
          BY <3>0 DEF TypeOK
        <5>2. count' = count \/ count' = [count EXCEPT !.faults = @ + 1]
          BY DEF DropCopy
        <5> QED
          BY SMT, <5>1, <5>2
      <4> QED
        BY <3>0, <3>2, <4>1, <4>2, <4>3 DEF TypeOK
    <3>8. MasterOK'
      <4>1. m # Master
        BY SMT, <3>0, <3>1, <3>6 DEF MasterOK, Candidates
      <4> QED
        BY <3>0, <3>2, <4>1 DEF MasterOK
    <3>9. Mutex' /\ \A i \in Jobs : JobOK(i)'
      <4>1. ~Sets(h) /\ h.what # "key-"
        BY <3>0 DEF Sets
      <4> QED
        BY <3>h, <3>0, <3>2, <3>3, <3>4, <4>1, <1>StepJobs
    <3>10. \A x, n : <<x, n>> \in owed => <<x, n>> \in owed' \/ (n = m /\ x = "copy")
      BY SMT, <3>2
    <3>11. ASSUME NEW n \in Nodes, n # m PROVE NodeOK(n)'
      <4>1. n \in copy' <=> n \in copy
        BY <3>2, <3>11
      <4>2. \A x : <<x, n>> \in owed => <<x, n>> \in owed'
        BY SMT, <3>10, <3>11
      <4>3. \A x \in {"cert", "lost", "key", "copy", "late"} :
              <<x, n>> \in owed => <<x, n>> \in owed'
        BY <4>2
      <4> QED
        BY <3>h, <3>0, <3>2, <3>3, <3>4, <3>11, <4>1, <4>3, <1>QuietNode
    <3>12. NodeOK(m)'
      <4>0. NodeOK(m)
        BY <3>6 DEF RInv
      <4>1. \A i \in Jobs, w \in {"cert+", "cert-", "key+", "key-"} :
              Has(i, m, w) => Has(i, m, w)'
        <5>1. \A w \in {"cert+", "cert-", "key+", "key-"} : h.what # w
          BY <3>0
        <5> QED
          BY <3>h, <3>0, <3>3, <5>1, <1>StepHas
      <4>2. \A x \in {"cert", "lost", "key", "late"} :
              <<x, m>> \in owed => <<x, m>> \in owed'
        BY <3>10
      <4>3. KeyOK(m)'
        BY <3>2, <3>4, <4>0, <4>1, <4>2, <1>KeepKey DEF NodeOK
      <4>4. CertOK(m)'
        BY <3>2, <3>4, <4>0, <4>1, <4>2, <1>KeepCert DEF NodeOK
      <4>5. NoSpareCopy(m)'
        <5>1. m \notin copy' \/ <<"copy", m>> \in owed'
          BY <3>2
        <5> QED
          BY <5>1 DEF NoSpareCopy
      <4>6. CopyComes(m)'
        BY <3>1, <3>4 DEF CopyComes
      <4>7. Late(m)'
        <5>2. \A i \in Jobs : Awaits(i, m) => Awaits(i, m)'
          BY <3>0, <3>1, <3>3, <1>StepAwaits
        <5> QED
          BY <3>2, <3>4, <4>0, <4>2, <5>2, <1>KeepLate DEF NodeOK
      <4> QED
        BY <4>3, <4>4, <4>5, <4>6, <4>7 DEF NodeOK
    <3> QED
      BY <3>7, <3>8, <3>9, <3>11, <3>12 DEF RInv

  \* The role of a node is set: what the rest of the list then sees to.
  <2>RoleSet.
    ASSUME RInv, NEW j \in Jobs, NEW h, NEW m, RoleStep(j, h, m)
    PROVE  Mutex' /\ (\A i \in Jobs : JobOK(i)') /\ (\A n \in Nodes : NodeOK(n)')
    <3> USE <2>RoleSet
    <3> USE DEF RoleStep
    <3>0. <<>> \in Seq(Steps) /\ TypeOK
      BY <1>ShortLists DEF RInv
    <3>1. /\ h \in Steps /\ Followed(j, h)
          /\ m = job[j].node /\ m # Master /\ Excl(j)
      BY <1>AtHead DEF Allowed
    <3>2. m \in Nodes
      BY <3>1 DEF Steps
    <3>3. Mutex' /\ \A i \in Jobs : JobOK(i)'
      <4>1. h.what # "key-"
        BY DEF Sets
      <4>2. \A n \in Nodes : IF Sets(h) /\ h.node = n
                              THEN n \in Candidates' <=> h.arg = "candidate"
                              ELSE n \in Candidates' <=> n \in Candidates
        OBVIOUS
      <4> QED
        BY <4>1, <4>2, <1>StepJobs
    <3>4. ASSUME NEW n \in Nodes, n # m PROVE NodeOK(n)'
      <4>1. \A x : <<x, n>> \in owed => <<x, n>> \in owed'
        BY <3>4
      <4>2. \A x \in {"cert", "lost", "key", "copy", "late"} :
              <<x, n>> \in owed => <<x, n>> \in owed'
        BY <4>1
      <4>3. dirty => dirty'
        OBVIOUS
      <4> QED
        BY <3>0, <3>4, <4>2, <4>3, <1>QuietNode
    <3>5. NodeOK(m)'
      <4>0. NodeOK(m)
        BY <3>2 DEF RInv
      <4>1. \A i \in Jobs, w \in {"cert+", "cert-", "key+", "key-", "demote", "leave"} :
              Has(i, m, w) => Has(i, m, w)'
        <5>1. \A w \in {"cert+", "cert-", "key+", "key-", "demote", "leave"} : h.what # w
          BY DEF Sets
        <5> QED
          BY <3>0, <5>1, <1>StepHas
      <4>2. \A x \in {"cert", "lost", "copy", "late"} :
              <<x, m>> \in owed => <<x, m>> \in owed'
        OBVIOUS
      <4>3. m \in Candidates' /\ m \notin Candidates =>
              Has(j, m, "cert+")' /\ Has(j, m, "key+")'
        BY <3>1, <4>1 DEF Followed
      <4>4. m \notin Candidates' /\ m \in Candidates =>
              /\ h.what = "role" /\ Has(j, m, "cert-")'
              /\ Has(j, m, "key-")' \/ m \notin keys
              /\ HasDrop(j, m)' \/ <<"copy", m>> \in owed'
        BY <3>1, <4>1 DEF Followed, HasDrop
      <4>5. KeyOK(m)'
        <5>1. CASE m \in Candidates' <=> m \in Candidates
          <6>1. CASE <<"key", m>> \in owed => <<"key", m>> \in owed'
            BY <4>0, <4>1, <5>1, <6>1, <1>KeepKey DEF NodeOK
          <6>2. CASE m \notin keys /\ m \notin Candidates'
            BY <6>2 DEF KeyOK
          <6> QED
            BY <6>1, <6>2
        <5> QED
          BY <4>3, <4>4, <5>1 DEF KeyOK
      <4>6. CertOK(m)'
        <5>1. CASE m \in Candidates' <=> m \in Candidates
          BY <4>0, <4>1, <4>2, <5>1, <1>KeepCert DEF NodeOK
        <5> QED
          BY <4>3, <4>4, <5>1 DEF CertOK
      <4>7. NoSpareCopy(m)'
        <5>1. CASE m \notin Candidates' => m \notin Candidates
          BY <4>0, <4>1, <4>2, <5>1, <1>KeepSpare DEF NodeOK
        <5> QED
          BY <4>4, <5>1 DEF NoSpareCopy
      <4>8. CopyComes(m)'
        <5>1. CASE dirty' = dirty /\ (m \in Candidates' <=> m \in Candidates)
          <6>1. CASE m \in Candidates'
            <7>1. \A i \in Jobs : Rejoins(i, m) => Rejoins(i, m)'
              <8>1. h.what # "cert+" /\ h.arg = "candidate"
                BY <6>1 DEF Sets
              <8> QED
                BY <8>1, <1>StepRejoins
            <7> QED
              BY <4>0, <4>2, <5>1, <7>1, <1>KeepComes DEF NodeOK
          <6>2. CASE m \notin Candidates'
            BY <6>2 DEF CopyComes
          <6> QED
            BY <6>1, <6>2
        <5> QED
          BY <5>1 DEF CopyComes
      <4>9. Late(m)'
        <5>1. CASE m \notin Candidates' => m \notin Candidates
          <6>1. <<"copy", m>> \in owed => <<"copy", m>> \in owed'
            BY <4>2
          <6>2. \A i \in Jobs : Awaits(i, m) => Awaits(i, m)'
            BY <3>0, <6>1, <1>StepAwaits
          <6> QED
            BY <4>0, <4>2, <5>1, <6>2, <1>KeepLate DEF NodeOK
        <5>2. CASE m \notin Candidates' /\ m \in Candidates
          <6>1. job'[j].node = m /\ job'[j].wait = "due" /\ Excl(j)'
            BY <3>1, <4>4, <5>2 DEF Stepped, Excl
          <6>2. Awaits(j, m)'
            BY <4>4, <5>2, <6>1 DEF Awaits
          <6> QED
            BY <6>2 DEF Late
        <5> QED
          BY <5>1, <5>2
      <4> QED
        BY <4>5, <4>6, <4>7, <4>8, <4>9 DEF NodeOK
    <3> QED
      BY <3>3, <3>4, <3>5

  <2>SetRoleKeeps.
    ASSUME RInv, NEW j \in Jobs, SetRole(j)
    PROVE  RInv'
    <3> USE <2>SetRoleKeeps
    <3>h. PICK h, m : h = Head(job[j].todo) /\ m = h.node
      OBVIOUS
    <3>0. /\ job[j].todo # <<>> /\ job[j].wait = "no" /\ h.what = "role"
          /\ <<>> \in Seq(Steps) /\ TypeOK /\ MasterOK /\ Sets(h)
      BY <3>h, <1>ShortLists DEF SetRole, Comes, RInv, Sets
    <3>1. /\ m \in Nodes /\ m # Master
          /\ h.arg \in Roles \cup {"absent"}
      BY <3>h, <3>0, <1>AtHead DEF Allowed, Steps
    <3>2. /\ role' = [role EXCEPT ![m] = h.arg]
          /\ owed' = (IF h.arg = "absent" /\ m \notin keys
                      THEN owed \ {<<"key", m>>} ELSE owed)
                     \cup (IF h.arg = "offline" /\ m \in Candidates
                           THEN {<<"copy", m>>} ELSE {})
          /\ capable' = capable /\ size' = size /\ certs' = certs /\ keys' = keys
          /\ count' = count
      BY <3>h DEF SetRole
    <3>3. \/ /\ role' = role /\ Goes(j, <<>>)
             /\ copy' = copy /\ dirty' = dirty /\ upload' = upload
          \/ Writes(j, "candidate" \in {h.arg, role[m]}, TRUE, <<>>)
      BY <3>h DEF SetRole, wconfd
    <3>4. role \in [Nodes -> Roles \cup {"absent"}]
      BY <3>0 DEF TypeOK
    <3>5. /\ role' \in [Nodes -> Roles \cup {"absent"}]
          /\ role'[m] = h.arg /\ \A n \in Nodes : n # m => role'[n] = role[n]
      BY <3>1, <3>2, <3>4
    <3>6. /\ \A n \in Nodes : n # m => (n \in Candidates' <=> n \in Candidates)
          /\ m \in Candidates' <=> h.arg = "candidate"
          /\ m \in Candidates <=> role[m] = "candidate"
      BY <3>1, <3>5 DEF Candidates
    <3>7. /\ Stepped(j, <<>>) /\ copy' = copy /\ upload' = upload
          /\ \/ dirty' = TRUE
             \/ dirty' = dirty /\ (m \in Candidates' <=> m \in Candidates)
          /\ m \in Candidates /\ m \notin Candidates' => job'[j].wait = "due"
      <4>1. CASE /\ role' = role /\ Goes(j, <<>>)
                 /\ copy' = copy /\ dirty' = dirty /\ upload' = upload
        BY <4>1, <3>0, <3>5, <3>6, <1>GoesSteps
      <4>2. CASE Writes(j, "candidate" \in {h.arg, role[m]}, TRUE, <<>>)
        <5> DEFINE full == "candidate" \in {h.arg, role[m]}
        <5>1. full \in BOOLEAN
          BY SMT
        <5>2. Writes(j, full, TRUE, <<>>)
          BY <4>2
        <5>3. m \in Candidates => full
          BY <3>6
        <5> HIDE DEF full
        <5>4. Stepped(j, <<>>) /\ job'[j].wait = IF full THEN "due" ELSE job[j].wait
          BY <3>0, <5>1, <5>2, <1>WritesSteps
        <5> QED
          BY <5>2, <5>3, <5>4 DEF Writes
      <4> QED
        BY <3>3, <4>1, <4>2
    <3>8. /\ \A x, n : <<x, n>> \in owed =>
               \/ <<x, n>> \in owed'
               \/ x = "key" /\ n = m /\ n \notin keys /\ n \notin Candidates'
          /\ h.arg = "offline" /\ m \in Candidates => <<"copy", m>> \in owed'
      <4>1. h.arg = "absent" => m \notin Candidates'
        BY <3>6
      <4> QED
        BY SMT, <3>2, <4>1
    <3>9. dirty' \/ (dirty' = dirty /\ (m \in Candidates' <=> m \in Candidates))
      BY <3>7
    <3>10. Mutex' /\ (\A i \in Jobs : JobOK(i)') /\ (\A n \in Nodes : NodeOK(n)')
      <4>1. certs' = certs /\ keys' = keys /\ copy' = copy /\ upload' = upload
        BY <3>2, <3>7
      <4>2. h.what = "role" /\ m \in Candidates /\ m \notin Candidates' =>
               job'[j].wait = "due"
        BY <3>7
      <4>3. Stepped(j, <<>>)
        BY <3>7
      <4> QED
        <5>1. RoleStep(j, h, m)
          BY <3>h, <3>0, <3>6, <3>8, <3>9, <4>1, <4>2, <4>3 DEF RoleStep
        <5> QED
          BY <5>1, <2>RoleSet
    <3>11. TypeOK'
      <4>1. job' \in [Jobs -> JobType]
        BY <3>7 DEF Stepped
      <4>2. dirty' \in BOOLEAN
        BY <3>0, <3>7 DEF TypeOK
      <4> QED
        BY <3>0, <3>2, <3>5, <3>7, <4>1, <4>2 DEF TypeOK
    <3>12. MasterOK'
      BY <3>0, <3>1, <3>5, <3>7, Cluster DEF MasterOK
    <3> QED
      BY <3>10, <3>11, <3>12 DEF RInv

  <2>AddNodeKeeps.
    ASSUME RInv, NEW j \in Jobs, AddNode(j)
    PROVE  RInv'
    <3> USE <2>AddNodeKeeps
    <3>h. PICK h, m : h = Head(job[j].todo) /\ m = h.node
      OBVIOUS
    <3>0. /\ job[j].todo # <<>> /\ job[j].wait = "no" /\ h.what = "add"
          /\ <<>> \in Seq(Steps) /\ TypeOK /\ MasterOK /\ Sets(h)
      BY <3>h, <1>ShortLists DEF AddNode, Comes, RInv, Sets
    <3>1. /\ m \in Nodes /\ m # Master /\ Followed(j, h)
      BY <3>h, <3>0, <1>AtHead DEF Allowed, Steps
    <3> DEFINE r == IF h.arg = "candidate" THEN "candidate" ELSE "regular"
    <3>2. /\ role' = [role EXCEPT ![m] = r]
          /\ capable' = [capable EXCEPT ![m] = h.arg # "incapable"]
          /\ Writes(j, h.arg = "candidate", TRUE, <<>>)
          /\ size' = size /\ certs' = certs /\ keys' = keys
          /\ owed' = owed /\ count' = count
      BY <3>h DEF AddNode
    <3>3. r \in Roles \cup {"absent"} /\ (r = "candidate" <=> h.arg = "candidate")
      BY DEF Roles, Flags
    <3> HIDE DEF r
    <3>4. role \in [Nodes -> Roles \cup {"absent"}] /\ capable \in [Nodes -> BOOLEAN]
      BY <3>0 DEF TypeOK
    <3>5. /\ role' \in [Nodes -> Roles \cup {"absent"}]
          /\ role'[m] = r /\ \A n \in Nodes : n # m => role'[n] = role[n]
      BY <3>1, <3>2, <3>3, <3>4
    <3>6. /\ \A n \in Nodes : n # m => (n \in Candidates' <=> n \in Candidates)
          /\ m \in Candidates' <=> h.arg = "candidate"
      BY <3>1, <3>3, <3>5 DEF Candidates
    <3>7. /\ Stepped(j, <<>>) /\ copy' = copy /\ upload' = upload /\ dirty' = TRUE
      <4> DEFINE full == h.arg = "candidate"
      <4>1. full \in BOOLEAN
        BY SMT
      <4>2. Writes(j, full, TRUE, <<>>)
        BY <3>2
      <4> HIDE DEF full
      <4>3. Stepped(j, <<>>)
        BY <3>0, <4>1, <4>2, <1>WritesSteps
      <4> QED
        BY <4>2, <4>3 DEF Writes
    <3>8. h.arg = "offline" /\ m \in Candidates => <<"copy", m>> \in owed'
      BY <3>h, <3>0, <3>1 DEF Followed
    <3>9. Mutex' /\ (\A i \in Jobs : JobOK(i)') /\ (\A n \in Nodes : NodeOK(n)')
      <4>1. /\ certs' = certs /\ keys' = keys /\ copy' = copy /\ upload' = upload
            /\ Stepped(j, <<>>) /\ dirty'
        BY <3>2, <3>7
      <4>2. \A x, n : <<x, n>> \in owed =>
              \/ <<x, n>> \in owed'
              \/ x = "key" /\ n = m /\ n \notin keys /\ n \notin Candidates'
        BY <3>2
      <4>3. h.what # "role"
        BY <3>0
      <4> QED
        <5>1. RoleStep(j, h, m)
          BY <3>h, <3>0, <3>6, <3>8, <4>1, <4>2, <4>3 DEF RoleStep
        <5> QED
          BY <5>1, <2>RoleSet
    <3>10. TypeOK'
      <4>1. job' \in [Jobs -> JobType]
        BY <3>7 DEF Stepped
      <4>2. capable' \in [Nodes -> BOOLEAN]
        <5> DEFINE v == h.arg # "incapable"
        <5>1. v \in BOOLEAN
          BY SMT
        <5>2. capable' = [capable EXCEPT ![m] = v]
          BY <3>2
        <5> HIDE DEF v
        <5> QED
          BY <3>4, <5>1, <5>2
      <4> QED
        BY <3>0, <3>2, <3>5, <3>7, <4>1, <4>2 DEF TypeOK
    <3>11. MasterOK'
      BY <3>0, <3>1, <3>5, <3>7, Cluster DEF MasterOK
    <3> QED
      BY <3>9, <3>10, <3>11 DEF RInv

  \* The cluster object is written back as the job has read it.
  <2>UpdateClusterKeeps.
    ASSUME RInv, NEW j \in Jobs, UpdateCluster(j)
    PROVE  RInv'
    <3> USE <2>UpdateClusterKeeps
    <3>h. PICK h : h = Head(job[j].todo)
      OBVIOUS
    <3>0. /\ job[j].todo # <<>> /\ job[j].wait = "no" /\ h.what = "cluster"
          /\ <<>> \in Seq(Steps) /\ TypeOK /\ MasterOK
      BY <3>h, <1>ShortLists DEF UpdateCluster, Comes, RInv
    <3> DEFINE read == job[j].read
               undo == (certs \ read.certs) \cup (read.certs \ certs)
    <3>1. role' = role /\ capable' = capable /\ keys' = keys /\ count' = count
      BY DEF UpdateCluster
    <3>2. \/ /\ Goes(j, <<>>) /\ size' = size /\ certs' = certs /\ owed' = owed
             /\ copy' = copy /\ dirty' = dirty /\ upload' = upload
          \/ /\ size' = read.pool /\ certs' = read.certs
             /\ owed' = owed \cup {<<"lost", n>> : n \in undo}
             /\ Writes(j, undo # {}, TRUE, <<>>)
      BY DEF UpdateCluster, wconfd
    <3>3. read.pool \in Nat /\ read.certs \subseteq Nodes
      <4>1. read \in [pool : Nat, certs : SUBSET Nodes]
        BY SMT, <3>0 DEF TypeOK, JobType
      <4> QED
        BY <4>1
    <3> HIDE DEF read
    <3>4. /\ Stepped(j, <<>>) /\ copy' = copy /\ upload' = upload
          /\ dirty' = TRUE \/ dirty' = dirty
      <4>1. ASSUME Writes(j, undo # {}, TRUE, <<>>)
            PROVE  /\ Stepped(j, <<>>) /\ copy' = copy /\ upload' = upload
                   /\ dirty' = TRUE
        <5> DEFINE full == undo # {}
        <5>1. full \in BOOLEAN
          BY SMT
        <5>2. Writes(j, full, TRUE, <<>>)
          BY <4>1
        <5> HIDE DEF full
        <5>3. Stepped(j, <<>>)
          BY <3>0, <5>1, <5>2, <1>WritesSteps
        <5> QED
          BY <5>2, <5>3 DEF Writes
      <4> QED
        BY <3>0, <3>2, <4>1, <1>GoesSteps
    <3>5. /\ owed \subseteq owed' /\ size' \in Nat /\ certs' \subseteq Nodes
          /\ \A n : (n \in certs' <=> n \in certs) \/ <<"lost", n>> \in owed'
      <4>1. size \in Nat /\ certs \subseteq Nodes
        BY <3>0 DEF TypeOK
      <4> QED
        BY <3>2, <3>3, <4>1
    <3>6. Candidates' = Candidates
      BY <3>1 DEF Candidates
    <3>7. ~Concerns(h) /\ ~Sets(h) /\ h.what # "key-"
      BY <3>0 DEF Concerns, Sets, Grant, Revoke, Drops
    <3>8. TypeOK'
      <4>1. job' \in [Jobs -> JobType]
        BY <3>4 DEF Stepped
      <4>2. dirty' \in BOOLEAN
        BY <3>0, <3>4 DEF TypeOK
      <4> QED
        BY <3>0, <3>1, <3>4, <3>5, <4>1, <4>2 DEF TypeOK
    <3>9. MasterOK'
      BY <3>0, <3>1, <3>4 DEF MasterOK
    <3>10. Mutex' /\ \A i \in Jobs : JobOK(i)'
      BY <3>h, <3>0, <3>1, <3>4, <3>6, <3>7, <1>StepJobs
    <3>11. ASSUME NEW n \in Nodes PROVE NodeOK(n)'
      <4>1. \A x \in {"cert", "lost", "key", "copy", "late"} :
              <<x, n>> \in owed => <<x, n>> \in owed'
        BY <3>5
      <4>2. dirty => dirty'
        BY <3>4
      <4> QED
        BY <3>h, <3>0, <3>1, <3>4, <3>5, <3>6, <3>7, <4>1, <4>2, <1>QuietNode
    <3> QED
      BY <3>8, <3>9, <3>10, <3>11 DEF RInv

  <2> QED
    BY <2>UpdateKeeps, <2>CertKeeps, <2>KeyKeeps, <2>DropCopyKeeps, <2>SetRoleKeeps,
       <2>AddNodeKeeps, <2>UpdateClusterKeeps

<1>NoJobFacts.
  /\ NoJob \in JobType
  /\ NoJob.op = "none" /\ NoJob.lock = "none" /\ NoJob.todo = <<>>
  /\ NoJob.wait = "no" /\ ~NoJob.adjusts /\ ~NoJob.fresh
  <2>1. Master \in Nodes /\ <<>> \in Seq(Steps)
    BY Cluster, <1>ShortLists
  <2>2. Nothing \in [pool : Nat, certs : SUBSET Nodes]
    BY SMT DEF Nothing
  <2> HIDE DEF Steps
  <2> QED
    BY SMT, <2>1, <2>2 DEF NoJob, JobType

\* A node about which nothing changes.
<1>KeepNode.
  ASSUME NEW n, NodeOK(n), Candidates' = Candidates, certs' = certs, keys' = keys,
         copy' = copy, dirty' = dirty, upload' = upload, owed' = owed,
         \A i \in Jobs, w \in {"cert+", "cert-", "key+", "key-", "demote", "leave"} :
           Has(i, n, w) => Has(i, n, w)',
         \A i \in Jobs : Rejoins(i, n) => Rejoins(i, n)',
         \A i \in Jobs : Awaits(i, n) => Awaits(i, n)'
  PROVE  NodeOK(n)'
  <2> USE <1>KeepNode
  <2>1. CertOK(n)'
    BY <1>KeepCert DEF NodeOK
  <2>2. KeyOK(n)'
    BY <1>KeepKey DEF NodeOK
  <2>3. NoSpareCopy(n)'
    BY <1>KeepSpare DEF NodeOK
  <2>4. CopyComes(n)'
    BY <1>KeepComes DEF NodeOK
  <2>5. Late(n)'
    BY <1>KeepLate DEF NodeOK
  <2> QED
    BY <2>1, <2>2, <2>3, <2>4, <2>5 DEF NodeOK

\* The end of a job.
<1>EndKeeps.
  \A j \in Jobs : RInv /\ (JobEnds(j) \/ JobFails(j)) => RInv'

  <2>JobGone.
    ASSUME RInv, NEW j \in Jobs, job' = [job EXCEPT ![j] = NoJob],
           Candidates' = Candidates, keys' = keys
    PROVE  /\ job' \in [Jobs -> JobType] /\ Mutex' /\ \A i \in Jobs : JobOK(i)'
           /\ \A i \in Jobs \ {j} : job'[i] = job[i] /\ Todo(i)' = Todo(i)
    <3> USE <2>JobGone
    <3>1. TypeOK /\ Mutex /\ (\A i \in Jobs : JobOK(i)) /\ job \in [Jobs -> JobType]
      BY DEF RInv, TypeOK
    <3>2. /\ job' \in [Jobs -> JobType] /\ job'[j] = NoJob
          /\ \A i \in Jobs \ {j} : job'[i] = job[i]
      BY <3>1, <1>NoJobFacts
    <3>3. \A i \in Jobs \ {j} : Todo(i)' = Todo(i)
      BY <3>2 DEF Todo
    <3>4. Mutex'
      BY <3>1, <3>2, <1>NoJobFacts DEF Mutex
    <3>5. ASSUME NEW i \in Jobs, i # j PROVE JobOK(i)'
      <4>1. Kept(i)
        BY <3>2, <3>5 DEF Kept
      <4> QED
        BY <3>1, <4>1, <1>KeepJob
    <3>6. JobOK(j)'
      <4>1. /\ job'[j].op = "none" /\ job'[j].lock = "none" /\ job'[j].todo = <<>>
            /\ job'[j].wait = "no" /\ ~job'[j].adjusts /\ ~job'[j].fresh
        BY <3>2, <1>NoJobFacts
      <4>2. Todo(j)' = {} /\ Ordered(job'[j].todo)
        BY <4>1, <1>ShortLists DEF Todo
      <4> QED
        BY <4>1, <4>2 DEF JobOK, Fits
    <3> QED
      BY <3>2, <3>3, <3>4, <3>5, <3>6

  <2>JobEndsKeeps.
    ASSUME RInv, NEW j \in Jobs, JobEnds(j)
    PROVE  RInv'
    <3> USE <2>JobEndsKeeps
    <3>1. /\ job[j].todo = <<>> /\ job[j].wait = "no"
          /\ job' = [job EXCEPT ![j] = NoJob]
          /\ role' = role /\ capable' = capable /\ size' = size /\ certs' = certs
          /\ keys' = keys /\ copy' = copy /\ dirty' = dirty /\ upload' = upload
          /\ owed' = owed /\ count' = count
      BY DEF JobEnds, conf, wconfd
    <3>2. Candidates' = Candidates
      BY <3>1 DEF Candidates
    <3>3. /\ job' \in [Jobs -> JobType] /\ Mutex' /\ (\A i \in Jobs : JobOK(i)')
          /\ \A i \in Jobs \ {j} : job'[i] = job[i] /\ Todo(i)' = Todo(i)
      BY <3>1, <3>2, <2>JobGone
    <3>4. Todo(j) = {}
      BY <3>1, <1>ShortLists DEF Todo
    <3>5. \A i \in Jobs : \A n, w : Has(i, n, w) => Has(i, n, w)'
      BY <3>3, <3>4 DEF Has
    <3>6. ASSUME NEW n \in Nodes PROVE NodeOK(n)'
      <4>1. \A i \in Jobs : Rejoins(i, n) => i # j
        BY <3>4 DEF Rejoins, Has
      <4>2. \A i \in Jobs : Rejoins(i, n) => Rejoins(i, n)'
        BY <3>3, <3>5, <4>1 DEF Rejoins
      <4>3. \A i \in Jobs : Awaits(i, n) => i # j
        BY <3>1 DEF Awaits
      <4>4. \A i \in Jobs : Awaits(i, n) => Awaits(i, n)'
        BY <3>1, <3>3, <3>5, <4>3 DEF Awaits, HasDrop, Excl
      <4>5. NodeOK(n)
        BY DEF RInv
      <4> QED
        BY <3>1, <3>2, <3>5, <4>2, <4>4, <4>5, <1>KeepNode
    <3>7. TypeOK' /\ MasterOK'
      BY <3>1, <3>3 DEF RInv, TypeOK, MasterOK
    <3> QED
      BY <3>3, <3>6, <3>7 DEF RInv

  \* A job that fails leaves to owed what its list has seen to.
  <2>JobFailsKeeps.
    ASSUME RInv, NEW j \in Jobs, JobFails(j)
    PROVE  RInv'
    <3> USE <2>JobFailsKeeps
    <3>1. /\ job' = [job EXCEPT ![j] = NoJob]
          /\ owed' = owed \cup Undone(j)
          /\ role' = role /\ capable' = capable /\ size' = size /\ certs' = certs
          /\ keys' = keys /\ copy' = copy /\ dirty' = dirty /\ upload' = upload
          /\ count' = [count EXCEPT !.faults = @ + 1]
      BY DEF JobFails, conf, wconfd
    <3>2. Candidates' = Candidates
      BY <3>1 DEF Candidates
    <3>3. /\ job' \in [Jobs -> JobType] /\ Mutex' /\ (\A i \in Jobs : JobOK(i)')
          /\ \A i \in Jobs \ {j} : job'[i] = job[i] /\ Todo(i)' = Todo(i)
      BY <3>1, <3>2, <2>JobGone
    <3>4. \A i \in Jobs \ {j} : \A n, w : Has(i, n, w) => Has(i, n, w)'
      BY <3>3 DEF Has
    <3>5. ASSUME NEW n \in Nodes PROVE NodeOK(n)'
      <4>0. NodeOK(n)
        BY DEF RInv
      <4>1. \A s \in Todo(j) : Needed(s) => SeesTo(s) \in owed'
        BY <3>1 DEF Undone, Todo
      <4>t. ASSUME NEW s
            PROVE  /\ s.what \in {"cert+", "cert-"} => SeesTo(s) = <<"cert", s.node>>
                   /\ s.what \in {"key+", "key-"} => SeesTo(s) = <<"key", s.node>>
                   /\ s.what \in {"demote", "leave"} => SeesTo(s) = <<"copy", s.node>>
        BY SMT DEF SeesTo
      <4>2. /\ Has(j, n, "cert+") /\ n \in Candidates => <<"cert", n>> \in owed'
            /\ Has(j, n, "cert-") /\ n \notin Candidates => <<"cert", n>> \in owed'
        BY <4>1, <4>t DEF Has, Needed
      <4>3. /\ Has(j, n, "key+") /\ n \in Candidates => <<"key", n>> \in owed'
            /\ Has(j, n, "key-") /\ n \notin Candidates => <<"key", n>> \in owed'
        BY <4>1, <4>t DEF Has, Needed
      <4>4. HasDrop(j, n) /\ n \notin Candidates => <<"copy", n>> \in owed'
        BY <4>1, <4>t DEF HasDrop, Has, Needed
      <4>5. Rejoins(j, n) => <<"copy", n>> \in owed'
        BY <3>1 DEF Rejoins, Undone
      <4>6. Awaits(j, n) => <<"late", n>> \in owed'
        BY <3>1 DEF Awaits, Undone
      <4>7. owed \subseteq owed'
        BY <3>1
      <4>8. CertOK(n)'
        <5>1. CASE {<<"cert", n>>, <<"lost", n>>} \cap owed' # {}
          BY <5>1 DEF CertOK
        <5>2. CASE {<<"cert", n>>, <<"lost", n>>} \cap owed' = {}
          BY <5>2, <3>1, <3>2, <3>4, <4>0, <4>2, <4>7 DEF NodeOK, CertOK
        <5> QED
          BY <5>1, <5>2
      <4>9. KeyOK(n)'
        BY <3>1, <3>2, <3>4, <4>0, <4>3, <4>7 DEF NodeOK, KeyOK
      <4>10. NoSpareCopy(n)'
        <5>1. \A i \in Jobs \ {j} : HasDrop(i, n) => HasDrop(i, n)'
          BY <3>4 DEF HasDrop
        <5>2. CASE {<<"copy", n>>, <<"late", n>>} \cap owed' # {}
          BY <5>2 DEF NoSpareCopy
        <5>3. CASE {<<"copy", n>>, <<"late", n>>} \cap owed' = {}
          BY <5>1, <5>3, <3>1, <3>2, <4>0, <4>4, <4>7 DEF NodeOK, NoSpareCopy
        <5> QED
          BY <5>2, <5>3
      <4>11. CopyComes(n)'
        <5>1. \A i \in Jobs \ {j} : Rejoins(i, n) => Rejoins(i, n)'
          BY <3>3, <3>4 DEF Rejoins
        <5> QED
          BY <5>1, <3>1, <3>2, <4>0, <4>5, <4>7 DEF NodeOK, CopyComes
      <4>12. Late(n)'
        <5>1. \A i \in Jobs \ {j} : Awaits(i, n) => Awaits(i, n)'
          BY <3>3, <3>4, <4>7 DEF Awaits, HasDrop, Excl
        <5> QED
          BY <5>1, <3>1, <3>2, <4>0, <4>6, <4>7 DEF NodeOK, Late
      <4> QED
        BY <4>8, <4>9, <4>10, <4>11, <4>12 DEF NodeOK
    <3>6. TypeOK' /\ MasterOK'
      <4>1. TypeOK /\ MasterOK
        BY DEF RInv
      <4>2. count' \in [jobs : Nat, faults : Nat]
        <5>1. count \in [jobs : Nat, faults : Nat]
          BY <4>1 DEF TypeOK
        <5> QED
          BY SMT, <3>1, <5>1
      <4> QED
        BY <3>1, <3>3, <4>1, <4>2 DEF TypeOK, MasterOK
    <3> QED
      BY <3>3, <3>5, <3>6 DEF RInv

  <2> QED
    BY <2>JobEndsKeeps, <2>JobFailsKeeps

\* The jobs wait for something else, and are otherwise as before.
<1>WaitChanges.
  ASSUME RInv, NEW a \in {"due", "sent"}, NEW b \in {"sent", "no"},
         job' = [i \in Jobs |-> [job[i] EXCEPT !.wait = IF @ = a THEN b ELSE @]],
         Candidates' = Candidates, keys' = keys
  PROVE  /\ job' \in [Jobs -> JobType] /\ Mutex' /\ \A i \in Jobs : JobOK(i)' /\ Kept(i)
         /\ \A i \in Jobs : \A n, w : Has(i, n, w) => Has(i, n, w)'
         /\ \A i \in Jobs : \A n : Rejoins(i, n) => Rejoins(i, n)'
  <2> USE <1>WaitChanges
  <2>0. Mutex /\ (\A i \in Jobs : JobOK(i)) /\ \A i \in Jobs : job[i] \in JobType
    BY DEF RInv, TypeOK
  <2>1. ASSUME NEW i \in Jobs
        PROVE  job'[i] \in JobType /\ Kept(i)
    <3> DEFINE w == IF job[i].wait = a THEN b ELSE job[i].wait
    <3>1. job'[i] = [job[i] EXCEPT !.wait = w]
      OBVIOUS
    <3>2. job[i] \in JobType /\ job[i].wait \in {"no", "due", "sent"}
      BY SMT, <2>0 DEF JobType
    <3>3. w \in {"no", "due", "sent"} /\ (job[i].wait = "no" => w = "no")
      BY <3>2
    <3> HIDE DEF w
    <3>4. Updated([job[i] EXCEPT !.wait = w], job[i], job[i].todo, w, job[i].fresh)
      <4>1. job[i].todo \in Seq(Steps) /\ job[i].fresh \in BOOLEAN
        BY SMT, <3>2 DEF JobType
      <4> QED
        BY <3>2, <3>3, <4>1, <1>UpdatedJob
    <3> QED
      BY <3>1, <3>3, <3>4 DEF Kept, Updated
  <2>2. job' \in [Jobs -> JobType]
    BY <2>1
  <2>3. \A i \in Jobs : /\ job'[i].op = job[i].op /\ job'[i].node = job[i].node
                        /\ job'[i].lock = job[i].lock /\ Todo(i)' = Todo(i)
    BY <2>1 DEF Kept, Todo
  <2>4. Mutex'
    BY <2>0, <2>3, <1>KeepMutex
  <2>5. \A i \in Jobs : JobOK(i)'
    BY <2>0, <2>1, <1>KeepJob
  <2>6. \A i \in Jobs : \A n, w : Has(i, n, w) => Has(i, n, w)'
    BY <2>3 DEF Has
  <2>7. \A i \in Jobs : \A n : Rejoins(i, n) => Rejoins(i, n)'
    BY <2>3, <2>6 DEF Rejoins
  <2> QED
    BY <2>1, <2>2, <2>4, <2>5, <2>6, <2>7

\* The distribution of the configuration.
<1>UploadKeeps.
  RInv /\ (UploadStarts \/ \E missed : UploadEnds(missed)) => RInv'

  <2>UploadStartsKeeps.
    ASSUME RInv, UploadStarts
    PROVE  RInv'
    <3> USE <2>UploadStartsKeeps
    <3>0. TypeOK /\ MasterOK
      BY DEF RInv
    <3>1. /\ upload' = [on |-> TRUE, left |-> Candidates \ {Master}] /\ dirty' = FALSE
          /\ job' = [i \in Jobs |-> [job[i] EXCEPT !.wait = IF @ = "due" THEN "sent" ELSE @]]
          /\ role' = role /\ capable' = capable /\ size' = size /\ certs' = certs
          /\ keys' = keys /\ copy' = copy /\ owed' = owed /\ count' = count
      BY DEF UploadStarts, conf
    <3>2. Candidates' = Candidates
      BY <3>1 DEF Candidates
    <3>3. /\ job' \in [Jobs -> JobType] /\ Mutex' /\ (\A i \in Jobs : JobOK(i)')
          /\ \A i \in Jobs : \A n, w : Has(i, n, w) => Has(i, n, w)'
      BY <3>1, <3>2, <1>WaitChanges
    <3>4. upload'.on /\ upload'.left = Candidates \ {Master}
      BY <3>1
    <3>5. TypeOK'
      <4>1. Candidates \subseteq Nodes
        BY DEF Candidates
      <4>2. upload' \in [on : BOOLEAN, left : SUBSET Nodes]
        BY <3>1, <4>1
      <4> QED
        BY <3>0, <3>1, <3>3, <4>2 DEF TypeOK
    <3>6. ASSUME NEW n \in Nodes PROVE NodeOK(n)'
      <4>0. NodeOK(n)
        BY DEF RInv
      <4>1. CertOK(n)'
        BY <3>1, <3>2, <3>3, <4>0, <1>KeepCert DEF NodeOK
      <4>2. KeyOK(n)'
        BY <3>1, <3>2, <3>3, <4>0, <1>KeepKey DEF NodeOK
      <4>3. NoSpareCopy(n)'
        BY <3>1, <3>2, <3>3, <4>0, <1>KeepSpare DEF NodeOK
      <4>4. CopyComes(n)'
        BY <3>0, <3>1, <3>2, <3>4 DEF CopyComes, MasterOK
      <4>5. Late(n)'
        BY <3>2, <3>4 DEF Late
      <4> QED
        BY <4>1, <4>2, <4>3, <4>4, <4>5 DEF NodeOK
    <3>7. MasterOK'
      BY <3>0, <3>1 DEF MasterOK
    <3> QED
      BY <3>3, <3>5, <3>6, <3>7 DEF RInv

  <2>UploadEndsKeeps.
    ASSUME RInv, NEW missed, UploadEnds(missed)
    PROVE  RInv'
    <3> USE <2>UploadEndsKeeps
    <3>0. TypeOK /\ MasterOK /\ upload.left \subseteq Nodes /\ count \in [jobs : Nat, faults : Nat]
      BY DEF RInv, TypeOK
    <3> DEFINE reached == upload.left \ missed
    <3>1. /\ upload.on /\ missed \subseteq upload.left
          /\ upload' = [on |-> FALSE, left |-> {}]
          /\ copy' = copy \cup reached
          /\ owed' = (owed \ {<<"copy", n>> : n \in reached \cap Candidates})
                     \cup {<<"copy", n>> : n \in missed}
          /\ job' = [i \in Jobs |-> [job[i] EXCEPT !.wait = IF @ = "sent" THEN "no" ELSE @]]
          /\ count' = [count EXCEPT !.faults = @ + Cardinality(missed)]
          /\ role' = role /\ capable' = capable /\ size' = size /\ certs' = certs
          /\ keys' = keys /\ dirty' = dirty
      BY DEF UploadEnds, conf
    <3>2. Candidates' = Candidates
      BY <3>1 DEF Candidates
    <3>3. /\ job' \in [Jobs -> JobType] /\ Mutex' /\ (\A i \in Jobs : JobOK(i)')
          /\ \A i \in Jobs : \A n, w : Has(i, n, w) => Has(i, n, w)'
          /\ \A i \in Jobs : \A n : Rejoins(i, n) => Rejoins(i, n)'
      BY <3>1, <3>2, <1>WaitChanges
    <3>4. ~upload'.on
      BY <3>1
    <3>5. \A x, n : <<x, n>> \in owed =>
            \/ <<x, n>> \in owed'
            \/ x = "copy" /\ n \in reached /\ n \in Candidates
      BY SMT, <3>1
    <3>6. \A n \in missed : <<"copy", n>> \in owed'
      BY <3>1
    <3>7. TypeOK'
      <4>1. upload' \in [on : BOOLEAN, left : SUBSET Nodes]
        BY SMT, <3>1
      <4>2. copy' \subseteq Nodes
        BY <3>0, <3>1 DEF TypeOK
      <4>3. count' \in [jobs : Nat, faults : Nat]
        <5>1. IsFiniteSet(missed)
          BY <3>0, <3>1, Cluster, <1>FS_Subset
        <5>2. Cardinality(missed) \in Nat
          BY <5>1, <1>FS_CardinalityType
        <5> QED
          BY SMT, <3>0, <3>1, <5>2
      <4> QED
        BY <3>0, <3>1, <3>3, <4>1, <4>2, <4>3 DEF TypeOK
    <3>8. ASSUME NEW n \in Nodes PROVE NodeOK(n)'
      <4>0. NodeOK(n)
        BY DEF RInv
      <4>1. \A x \in {"cert", "lost", "key", "late"} :
              <<x, n>> \in owed => <<x, n>> \in owed'
        BY <3>5
      <4>2. CertOK(n)'
        BY <3>1, <3>2, <3>3, <4>0, <4>1, <1>KeepCert DEF NodeOK
      <4>3. KeyOK(n)'
        BY <3>1, <3>2, <3>3, <4>0, <4>1, <1>KeepKey DEF NodeOK
      <4>4. NoSpareCopy(n)'
        <5> SUFFICES ASSUME n \in copy', n \notin Candidates
                     PROVE  \/ {<<"copy", n>>, <<"late", n>>} \cap owed' # {}
                            \/ \E i \in Jobs : HasDrop(i, n)'
          BY <3>2 DEF NoSpareCopy
        <5>1. \A x \in {"copy", "late"} : <<x, n>> \in owed => <<x, n>> \in owed'
          BY <3>5
        <5>2. \A i \in Jobs : HasDrop(i, n) => HasDrop(i, n)'
          BY <3>3 DEF HasDrop
        <5>3. \/ {<<"copy", n>>, <<"late", n>>} \cap owed # {}
              \/ \E i \in Jobs : HasDrop(i, n)
          <6>1. CASE n \in copy
            BY <6>1, <4>0 DEF NodeOK, NoSpareCopy
          <6>2. CASE n \in upload.left
            <7>1. <<"late", n>> \in owed \/ \E i \in Jobs : Awaits(i, n)
              BY <6>2, <3>1, <4>0 DEF NodeOK, Late
            <7> QED
              BY <7>1 DEF Awaits
          <6> QED
            BY <3>1, <6>1, <6>2
        <5> QED
          BY <5>1, <5>2, <5>3
      <4>5. CopyComes(n)'
        <5> SUFFICES ASSUME n \in Candidates, n \notin copy'
                     PROVE  \/ dirty' \/ <<"copy", n>> \in owed'
                            \/ \E i \in Jobs : Rejoins(i, n)'
          BY <3>2 DEF CopyComes
        <5>1. n \notin copy /\ n \notin reached
          BY <3>1
        <5>2. n \in upload.left => <<"copy", n>> \in owed'
          BY <3>6, <5>1
        <5>3. <<"copy", n>> \in owed => <<"copy", n>> \in owed'
          BY <3>5, <5>1
        <5> QED
          BY <3>1, <3>3, <4>0, <5>1, <5>2, <5>3 DEF NodeOK, CopyComes
      <4>6. Late(n)'
        BY <3>4 DEF Late
      <4> QED
        BY <4>2, <4>3, <4>4, <4>5, <4>6 DEF NodeOK
    <3>9. MasterOK'
      BY <3>0, <3>1 DEF MasterOK
    <3> QED
      BY <3>3, <3>7, <3>8, <3>9 DEF RInv

  <2> QED
    BY <2>UploadStartsKeeps, <2>UploadEndsKeeps

<1>DoFacts.
  ASSUME NEW w \in Whats, NEW n \in Nodes, NEW a \in Args,
         w = "role" => a \in Roles \cup {"absent"}
  PROVE  IsStep(Do(w, n, a), w, n, a)
  BY <1>DoFacts DEF Do, Steps, IsStep

<1>DoPlain.
  ASSUME NEW w \in Plain \cup {"adjust", "cluster"}, NEW n \in Nodes
  PROVE  IsStep(Do(w, n, "-"), w, n, "-")
  <2> USE <1>DoPlain
  <2>1. w \in Whats /\ "-" \in Args /\ w # "role"
    BY DEF Plain, Whats, Args
  <2> QED
    BY <2>1, <1>DoFacts

\* Beside a job that adjusts the pool no other job does more than to update
\* the cluster object.
<1>OnlyUpdates.
  ASSUME IInv, NEW j \in Jobs, job[j].todo # <<>>, NEW h, h = Head(job[j].todo),
         NEW i \in Jobs, i # j, job[i].adjusts
  PROVE  h.what = "cluster" /\ job[j].lock = "none"
  <2> USE <1>OnlyUpdates
  <2>1. RInv /\ PoolOK(i)
    BY DEF IInv
  <2>2. Mutex /\ JobOK(i) /\ JobOK(j)
    BY <2>1 DEF RInv
  <2>3. job[j].lock = "none"
    BY <2>1, <2>2, <1>Apart DEF PoolOK
  <2>4. h \in Steps /\ Allowed(j, h)
    BY <2>1, <1>AtHead
  <2>5. ~Excl(j) /\ ~Whole(j) /\ job[j].lock \notin {"shared", "all", "bgl"}
    BY <2>3 DEF Excl, Whole
  <2>6. ~Concerns(h) /\ h.what \notin {"adjust", "update"}
    BY <2>4, <2>5 DEF Allowed, Concerns
  <2>7. h.what \in Whats
    BY <2>4 DEF Steps
  <2> QED
    BY <2>3, <2>6, <2>7 DEF Whats, Concerns, Sets, Grant, Revoke, Drops

\* A new job.
<1>NewKeeps.
  \A j \in Jobs : IInv /\ job[j].op = "none" /\ NewJob(j) => IInv'

  <2>ConflictSymmetric.
    ASSUME NEW x, NEW y, Conflict(x, y) PROVE Conflict(y, x)
    BY SMT, <2>ConflictSymmetric DEF Conflict

  \* A job is submitted; m is the node that may lose its copy with it.
  <2>SubmitKeeps.
    ASSUME IInv, NEW j \in Jobs, job[j].op = "none", NEW new \in JobType,
           Submit(j, new), JobOK(j)', PoolOK(j)', FreshOK(j)', NEW m,
           copy' = copy \/ (m # Master /\ copy' = copy \ {m} /\ Rejoins(j, m)')
    PROVE  IInv'
    <3> USE <2>SubmitKeeps
    <3>0. /\ RInv /\ TypeOK /\ Mutex /\ MasterOK /\ job \in [Jobs -> JobType]
          /\ \A i \in Jobs : JobOK(i) /\ PoolOK(i) /\ FreshOK(i)
      BY DEF IInv, RInv, TypeOK
    <3>1. /\ Free(new) /\ job' = [job EXCEPT ![j] = new]
          /\ count' = [count EXCEPT !.jobs = @ + 1]
          /\ role' = role /\ capable' = capable /\ size' = size /\ certs' = certs
          /\ keys' = keys /\ dirty' = dirty /\ upload' = upload /\ owed' = owed
      BY DEF Submit, conf
    <3>2. Candidates' = Candidates /\ Possible' = Possible
      BY <3>1 DEF Candidates, Possible
    <3>3. /\ job' \in [Jobs -> JobType] /\ job'[j] = new
          /\ \A i \in Jobs \ {j} : job'[i] = job[i] /\ Todo(i)' = Todo(i)
      BY <3>0, <3>1 DEF Todo
    <3>4. TypeOK'
      <4>1. count' \in [jobs : Nat, faults : Nat]
        <5>1. count \in [jobs : Nat, faults : Nat]
          BY <3>0 DEF TypeOK
        <5> QED
          BY SMT, <3>1, <5>1
      <4>2. copy' \subseteq Nodes
        BY <3>0 DEF TypeOK
      <4> QED
        BY <3>0, <3>1, <3>3, <4>1, <4>2 DEF TypeOK
    <3>5. Mutex'
      BY <3>0, <3>1, <3>3, <2>ConflictSymmetric DEF Mutex, Free
    <3>6. ASSUME NEW i \in Jobs, i # j PROVE JobOK(i)' /\ PoolOK(i)' /\ FreshOK(i)'
      <4>1. Kept(i) /\ job'[i] = job[i] /\ Todo(i)' = Todo(i)
        BY <3>3, <3>6 DEF Kept
      <4>2. JobOK(i)'
        BY <3>0, <3>1, <3>2, <4>1, <1>KeepJob
      <4>3. /\ mc_now({job[i].node})' = mc_now({job[i].node})
            /\ mc_should({job[i].node})' = mc_should({job[i].node})
        BY <3>1, <3>2, <4>1 DEF mc_now, mc_should
      <4>4. PoolOK(i)'
        BY <3>0, <4>1, <4>3 DEF PoolOK
      <4>5. FreshOK(i)'
        BY <3>0, <3>1, <4>1 DEF FreshOK
      <4> QED
        BY <4>2, <4>4, <4>5
    <3>7. Todo(j) = {} /\ job[j].wait = "no"
      BY <3>0, <1>ShortLists DEF JobOK, Todo
    <3>8. \A i \in Jobs : \A n, w : Has(i, n, w) => Has(i, n, w)'
      BY <3>3, <3>7 DEF Has
    <3>9. ASSUME NEW n \in Nodes PROVE NodeOK(n)'
      <4>0. NodeOK(n)
        BY <3>0 DEF RInv
      <4>1. \A i \in Jobs : Rejoins(i, n) => i # j
        BY <3>7 DEF Rejoins, Has
      <4>2. \A i \in Jobs : Rejoins(i, n) => Rejoins(i, n)'
        BY <3>3, <3>8, <4>1 DEF Rejoins
      <4>3. \A i \in Jobs : Awaits(i, n) => i # j
        BY <3>7 DEF Awaits
      <4>4. \A i \in Jobs : Awaits(i, n) => Awaits(i, n)'
        BY <3>1, <3>3, <3>8, <4>3 DEF Awaits, HasDrop, Excl
      <4>5. CertOK(n)'
        BY <3>1, <3>2, <3>8, <4>0, <1>KeepCert DEF NodeOK
      <4>6. KeyOK(n)'
        BY <3>1, <3>2, <3>8, <4>0, <1>KeepKey DEF NodeOK
      <4>7. NoSpareCopy(n)'
        BY <3>1, <3>2, <3>8, <4>0, <1>KeepSpare DEF NodeOK
      <4>8. CopyComes(n)'
        <5>1. CASE n \in copy => n \in copy'
          BY <3>1, <3>2, <4>0, <4>2, <5>1, <1>KeepComes DEF NodeOK
        <5>2. CASE ~(n \in copy => n \in copy')
          BY <5>2 DEF CopyComes
        <5> QED
          BY <5>1, <5>2
      <4>9. Late(n)'
        BY <3>1, <3>2, <4>0, <4>4, <1>KeepLate DEF NodeOK
      <4> QED
        BY <4>5, <4>6, <4>7, <4>8, <4>9 DEF NodeOK
    <3>10. MasterOK'
      BY <3>0, <3>1 DEF MasterOK
    <3> QED
      BY <3>4, <3>5, <3>6, <3>9, <3>10 DEF IInv, RInv

  <2>NodeJobFacts.
    ASSUME NEW op \in {"set", "add", "readd", "remove", "size", "tag"},
           NEW n \in Nodes, NEW lock \in {"none", "own", "all", "shared", "bgl"},
           NEW todo \in Seq(Steps), NEW adjusts \in BOOLEAN
    PROVE  IsJob(NodeJob(op, n, lock, todo, adjusts), op, n, lock, todo, adjusts)
    <3> USE <2>NodeJobFacts
    <3>1. NoJob \in JobType /\ NoJob.wait = "no" /\ ~NoJob.fresh
      BY <1>NoJobFacts
    <3>2. op \in {"none", "set", "add", "readd", "remove", "size", "tag"}
      OBVIOUS
    <3> QED
      BY ZenonT(60), <3>1, <3>2 DEF NodeJob, JobType, IsJob

  <2>ClusterJobFacts.
    ASSUME NEW r, NEW op, NEW n, NEW lock, NEW todo, NEW adjusts,
           IsJob(r, op, n, lock, todo, adjusts),
           NEW read \in [pool : Nat, certs : SUBSET Nodes]
    PROVE  LET c == [r EXCEPT !.read = read, !.fresh = TRUE]
           IN  IsJob(c, op, n, lock, todo, adjusts) /\ c.read = read
    BY <2>ClusterJobFacts DEF JobType, IsJob

  <2>WhenList.
    ASSUME NEW u \in Seq(Steps), Ordered(u), NEW c
    PROVE  /\ When(c, u) \in Seq(Steps) /\ Ordered(When(c, u))
           /\ c => Range(When(c, u)) = Range(u)
           /\ ~c => Range(When(c, u)) = {}
    <3> USE <2>WhenList
    <3>1. CASE c
      BY <3>1 DEF When
    <3>2. CASE ~c
      BY <3>2, <1>ShortLists DEF When
    <3> QED
      BY <3>1, <3>2

  <2>JoinedPlain.
    ASSUME NEW t \in Seq(Steps), NEW u \in Seq(Steps), Ordered(t), Ordered(u),
           \/ \A b \in Range(u) : b.what \in Plain
           \/ \A a \in Range(t) : a.what = "update"
    PROVE  /\ t \o u \in Seq(Steps) /\ Ordered(t \o u)
           /\ Range(t \o u) = Range(t) \cup Range(u)
    <3> USE <2>JoinedPlain
    <3>1. ASSUME NEW a \in Range(t), NEW b \in Range(u) PROVE Before(a, b)
      <4>1. CASE b.what \in Plain
        BY <4>1 DEF Before, Sets, Plain
      <4>2. CASE a.what = "update"
        BY <4>2 DEF Before, Sets, Grant, Revoke, Drops
      <4> QED
        BY <3>1, <4>1, <4>2
    <3> QED
      BY <3>1, <1>Joined

  <2>NewJobOK.
    ASSUME NEW j \in Jobs, NEW op, op # "none", NEW n, NEW lock, NEW todo, NEW adjusts,
           IsJob(job'[j], op, n, lock, todo, adjusts),
           Candidates' = Candidates, keys' = keys,
           Ordered(todo), NEW aim, ListOK(Range(todo), n, lock, aim)
    PROVE  JobOK(j)'
    <3> USE <2>NewJobOK
    <3> DEFINE T == Range(todo)
    <3>1. /\ job'[j].op = op /\ job'[j].node = n /\ job'[j].lock = lock
          /\ job'[j].todo = todo
      BY DEF IsJob
    <3>2. Todo(j)' = T
      BY <3>1 DEF Todo
    <3> HIDE DEF T
    <3>3. ListOK(T, n, lock, aim)
      BY DEF T
    <3>4. (Excl(j)' <=> lock \in {"own", "all", "bgl"})
      BY <3>1 DEF Excl
    <3>5. \A w : HasIn(T, n, w) => Has(j, n, w)'
      BY <3>2 DEF HasIn, Has
    <3>6. \A s \in T : Concerns(s) => s.node = n
      BY <3>3 DEF ListOK
    <3>7. Fits(T)
      <4> SUFFICES ASSUME NEW s \in T, NEW r \in T, Sets(r)
                   PROVE  /\ Grant(s) => r.arg = "candidate"
                          /\ Revoke(s) => r.arg # "candidate"
        BY DEF Fits
      <4> QED
        BY <3>3 DEF ListOK
    <3>8. ASSUME NEW s \in T PROVE Allowed(j, s)'
      BY <3>1, <3>3, <3>4 DEF Allowed, ListOK, Concerns
    <3>9. ASSUME NEW s \in T PROVE Aims(j, s)'
      <4>1. ASSUME Grant(s) \/ Revoke(s) PROVE \E r \in T : Sets(r) /\ r.node = s.node
        BY <3>3, <3>6, <4>1 DEF ListOK, Concerns
      <4> QED
        BY <3>2, <4>1 DEF Aims
    <3>10. ASSUME NEW s \in T, Sets(s) PROVE Followed(j, s)'
      <4>1. s.node = n /\ s.arg = aim
        BY <3>3, <3>6, <3>10 DEF ListOK, Concerns
      <4>2. /\ aim = "candidate" /\ n \notin Candidates =>
                 HasIn(T, n, "cert+") /\ HasIn(T, n, "key+")
            /\ aim # "candidate" /\ n \in Candidates =>
                 /\ s.what = "role" /\ HasIn(T, n, "cert-") /\ HasIn(T, n, "key-")
                 /\ HasIn(T, n, "demote") \/ HasIn(T, n, "leave") \/ aim = "offline"
        BY <3>3, <3>10 DEF ListOK
      <4> QED
        BY <3>5, <4>1, <4>2 DEF Followed, HasDrop
    <3> QED
      BY <3>1, <3>2, <3>7, <3>8, <3>9, <3>10 DEF JobOK

  \* The same for the other two parts of the invariant that name a job.
  <2>NewJobPool.
    ASSUME NEW j \in Jobs, NEW op, NEW n, NEW lock, NEW todo, NEW adjusts,
           IsJob(job'[j], op, n, lock, todo, adjusts), adjusts =>
             lock \in {"all", "bgl"} /\ \E s \in Range(todo) : s.what = "adjust"
    PROVE  PoolOK(j)' /\ (lock # "none" => FreshOK(j)')
    <3> USE <2>NewJobPool
    <3>1. job'[j].lock = lock /\ job'[j].adjusts = adjusts /\ Todo(j)' = Range(todo)
      BY DEF IsJob, Todo
    <3> QED
      BY <3>1 DEF PoolOK, FreshOK

  \* A job of a node operation.
  <2>NodeOpKeeps.
    ASSUME IInv, NEW j \in Jobs, job[j].op = "none",
           NEW op \in {"set", "add", "readd", "remove"}, NEW n \in Nodes,
           NEW lock \in {"own", "all", "bgl"}, NEW todo \in Seq(Steps),
           NEW adjusts \in BOOLEAN, Ordered(todo),
           NEW aim, ListOK(Range(todo), n, lock, aim),
           adjusts => lock \in {"all", "bgl"} /\ \E s \in Range(todo) : s.what = "adjust",
           Submit(j, NodeJob(op, n, lock, todo, adjusts)),
           \/ copy' = copy
           \/ /\ op = "readd" /\ n # Master /\ copy' = copy \ {n}
              /\ \/ HasIn(Range(todo), n, "cert+")
                 \/ \E s \in Range(todo) : s.node = n /\ s.what = "role" /\ s.arg # "candidate"
    PROVE  IInv'
    <3> USE <2>NodeOpKeeps
    <3>r. PICK r : r = NodeJob(op, n, lock, todo, adjusts)
      OBVIOUS
    <3>1. IsJob(r, op, n, lock, todo, adjusts)
      <4>1. /\ op \in {"set", "add", "readd", "remove", "size", "tag"}
            /\ lock \in {"none", "own", "all", "shared", "bgl"}
        OBVIOUS
      <4> QED
        BY ZenonT(60), <3>r, <4>1, <2>NodeJobFacts
    <3>2. Submit(j, r) /\ r \in JobType
      BY <3>r, <3>1 DEF IsJob
    <3>3. /\ job'[j] = r /\ keys' = keys /\ role' = role
      BY <3>2 DEF Submit, conf, IInv, RInv, TypeOK
    <3>4. Candidates' = Candidates
      BY <3>3 DEF Candidates
    <3>5. IsJob(job'[j], op, n, lock, todo, adjusts)
      BY <3>1, <3>3
    <3>6. op # "none" /\ lock # "none"
      OBVIOUS
    <3>7. JobOK(j)'
      BY <3>3, <3>4, <3>5, <3>6, <2>NewJobOK
    <3>8. PoolOK(j)' /\ FreshOK(j)'
      BY <3>5, <3>6, <2>NewJobPool
    <3>9. copy' = copy \/ (n # Master /\ copy' = copy \ {n} /\ Rejoins(j, n)')
      <4>1. ASSUME op = "readd",
                   \/ HasIn(Range(todo), n, "cert+")
                   \/ \E s \in Range(todo) : s.node = n /\ s.what = "role" /\ s.arg # "candidate"
            PROVE  Rejoins(j, n)'
        <5>1. job'[j].op = "readd" /\ job'[j].node = n /\ Todo(j)' = Range(todo)
          BY <3>5, <4>1 DEF IsJob, Todo
        <5> QED
          BY <4>1, <5>1 DEF Rejoins, Has, HasIn
      <4> QED
        BY <4>1
    <3> QED
      BY <3>2, <3>7, <3>8, <3>9, <2>SubmitKeeps

  \* LUNodeAdd of a new node.
  <2>AddKeeps.
    ASSUME IInv, NEW j \in Jobs, job[j].op = "none", NEW n \in Nodes,
           NEW cap \in BOOLEAN, Add(j, n, cap)
    PROVE  IInv'
    <3> USE <2>AddKeeps
    <3> DEFINE mc == cap /\ DecideSelfPromotion({})
               aim == IF mc THEN "candidate" ELSE IF cap THEN "regular" ELSE "incapable"
               a == Do("add", n, aim)
               c == Do(IF mc THEN "cert+" ELSE "cert-", n, "-")
               k == Do("key+", n, "-")
               todo == <<a, c>> \o When(mc, <<k>>)
    <3>1. /\ role[n] = "absent" /\ copy' = copy
          /\ Submit(j, NodeJob("add", n, "bgl", todo, FALSE))
      BY DEF Add
    <3>2. n \notin Candidates /\ n # Master
      BY <3>1 DEF Candidates, IInv, RInv, MasterOK
    <3>3. aim \in Args /\ (aim = "candidate" <=> mc) /\ "add" \in Whats
      BY DEF Args, Whats, Roles, Flags
    <3>4. /\ IsStep(a, "add", n, aim) /\ IsStep(k, "key+", n, "-")
          /\ mc => IsStep(c, "cert+", n, "-")
          /\ ~mc => IsStep(c, "cert-", n, "-")
      <4> HIDE DEF aim, mc
      <4>1. "add" # "role" /\ {"cert+", "cert-", "key+"} \subseteq Plain
        BY DEF Plain
      <4>2. IsStep(a, "add", n, aim)
        BY <3>3, <4>1, <1>DoFacts
      <4>3. (mc => IsStep(c, "cert+", n, "-")) /\ (~mc => IsStep(c, "cert-", n, "-"))
        BY <4>1, <1>DoPlain
      <4>4. IsStep(k, "key+", n, "-")
        BY <4>1, <1>DoPlain
      <4> QED
        BY <4>2, <4>3, <4>4
    <3> HIDE DEF mc, aim, a, c, k
    <3>5. /\ <<a, c>> \in Seq(Steps) /\ Ordered(<<a, c>>) /\ Range(<<a, c>>) = {a, c}
          /\ <<k>> \in Seq(Steps) /\ Ordered(<<k>>) /\ Range(<<k>>) = {k}
      <4>1. Before(a, c)
        BY <3>4 DEF Before, Sets, IsStep
      <4> QED
        BY <3>4, <4>1, <1>ShortLists DEF IsStep
    <3> DEFINE t == <<a, c>>
               u == When(mc, <<k>>)
    <3>6. /\ u \in Seq(Steps) /\ Ordered(u)
          /\ (mc => Range(u) = {k}) /\ (~mc => Range(u) = {})
      BY <3>5, <2>WhenList
    <3>7. todo \in Seq(Steps) /\ Ordered(todo) /\ Range(todo) = {a, c} \cup Range(u)
      <4>1. \A b \in Range(u) : b.what \in Plain
        BY <3>4, <3>6 DEF Plain, IsStep
      <4>2. t \in Seq(Steps) /\ Ordered(t) /\ Range(t) = {a, c} /\ todo = t \o u
        BY <3>5
      <4> HIDE DEF t, u, todo
      <4> QED
        BY <3>6, <4>1, <4>2, <2>JoinedPlain
    <3> HIDE DEF t, u
    <3> HIDE DEF todo
    <3>8. ListOK(Range(todo), n, "bgl", aim)
      <4> DEFINE T == Range(todo)
      <4>1. a \in T /\ c \in T /\ (mc => k \in T)
        BY <3>6, <3>7
      <4> DEFINE P(s) == /\ s.node = n
                         /\ \/ s.what = "add" /\ s.arg = aim
                            \/ s.what \in {"cert+", "key+"} /\ mc
                            \/ s.what = "cert-" /\ ~mc
      <4>2. \A s \in T : P(s)
        <5>1. \A s \in T : s = a \/ s = c \/ (mc /\ s = k)
          BY <3>6, <3>7
        <5>2. P(a)
          BY <3>4 DEF IsStep
        <5>3. P(c)
          BY <3>4 DEF IsStep
        <5>4. mc => P(k)
          BY <3>4 DEF IsStep
        <5> HIDE DEF P
        <5> QED
          BY <5>1, <5>2, <5>3, <5>4
      <4> HIDE DEF T
      <4>3. \E r \in T : Sets(r)
        BY <3>4, <4>1 DEF Sets, IsStep
      <4>4. mc => HasIn(T, n, "cert+") /\ HasIn(T, n, "key+")
        BY <3>4, <4>1 DEF HasIn, IsStep
      <4>5. ListOK(T, n, "bgl", aim)
        BY <3>2, <3>3, <4>2, <4>3, <4>4
           DEF ListOK, Concerns, Sets, Grant, Revoke, Drops
      <4> QED
        BY <4>5 DEF T
    <3> QED
      BY <3>1, <3>7, <3>8, <2>NodeOpKeeps

  \* LUNodeAdd with readd.
  <2>ReaddKeeps.
    ASSUME IInv, NEW j \in Jobs, job[j].op = "none", NEW n \in Nodes, Readd(j, n)
    PROVE  IInv'
    <3> USE <2>ReaddKeeps
    <3> DEFINE mc == capable[n] /\ DecideSelfPromotion({n})
               aim == IF mc THEN "candidate" ELSE "regular"
               r == Do("role", n, aim)
               d == Do("demote", n, "-")
               c == Do(IF mc THEN "cert+" ELSE "cert-", n, "-")
               m == Do("key-", n, "-")
               k == Do("key+", n, "-")
               w == When(~mc, <<d>>)
               x == When(mc, <<k>>)
               todo == <<r>> \o w \o <<c, m>> \o x
    <3>1. /\ n # Master /\ copy' \in {copy, copy \ {n}}
          /\ Submit(j, NodeJob("readd", n, "bgl", todo, FALSE))
      BY DEF Readd
    <3>2. /\ aim \in Args /\ (aim = "candidate" <=> mc) /\ "role" \in Whats
          /\ aim \in Roles \cup {"absent"}
      BY DEF Args, Whats, Roles, Flags
    <3>3. /\ IsStep(r, "role", n, aim) /\ IsStep(d, "demote", n, "-")
          /\ mc => IsStep(c, "cert+", n, "-")
          /\ ~mc => IsStep(c, "cert-", n, "-")
          /\ IsStep(m, "key-", n, "-") /\ IsStep(k, "key+", n, "-")
      <4> HIDE DEF aim, mc
      <4>1. IsStep(r, "role", n, aim)
        BY <3>2, <1>DoFacts
      <4>2. {"demote", "cert+", "cert-", "key+", "key-"} \subseteq Plain
        BY DEF Plain
      <4>3. (mc => IsStep(c, "cert+", n, "-")) /\ (~mc => IsStep(c, "cert-", n, "-"))
        BY <4>2, <1>DoPlain
      <4>4. IsStep(d, "demote", n, "-") /\ IsStep(m, "key-", n, "-")
        BY <4>2, <1>DoPlain
      <4>5. IsStep(k, "key+", n, "-")
        BY <4>2, <1>DoPlain
      <4> QED
        BY <4>1, <4>3, <4>4, <4>5
    <3> HIDE DEF mc, aim, r, d, c, m, k
    <3>4. {r, d, c, m, k} \subseteq Steps
      BY <3>3 DEF IsStep
    <3>5. /\ w \in Seq(Steps) /\ Ordered(w)
          /\ (~mc => Range(w) = {d}) /\ (mc => Range(w) = {})
      <4>1. <<d>> \in Seq(Steps) /\ Ordered(<<d>>) /\ Range(<<d>>) = {d}
        BY <3>4, <1>ShortLists
      <4> QED
        BY <4>1, <2>WhenList
    <3>6. /\ x \in Seq(Steps) /\ Ordered(x)
          /\ (mc => Range(x) = {k}) /\ (~mc => Range(x) = {})
      <4>1. <<k>> \in Seq(Steps) /\ Ordered(<<k>>) /\ Range(<<k>>) = {k}
        BY <3>4, <1>ShortLists
      <4> QED
        BY <4>1, <2>WhenList
    <3> DEFINE t == <<r>>
               u == <<c, m>>
    <3>7. /\ t \in Seq(Steps) /\ Ordered(t) /\ Range(t) = {r}
          /\ u \in Seq(Steps) /\ Ordered(u) /\ Range(u) = {c, m}
      <4>1. Before(c, m)
        BY <3>3 DEF Before, Sets, IsStep
      <4> QED
        BY <3>4, <4>1, <1>ShortLists
    <3>8. /\ \A b \in Range(w) : b.what \in Plain
          /\ \A b \in Range(u) : b.what \in Plain
          /\ \A b \in Range(x) : b.what \in Plain
      <4>1. d.what \in Plain /\ m.what \in Plain /\ k.what \in Plain /\ c.what \in Plain
        BY <3>3 DEF Plain, IsStep
      <4> HIDE DEF w, x, u
      <4> QED
        BY <3>5, <3>6, <3>7, <4>1
    <3>9. todo = ((t \o w) \o u) \o x
      OBVIOUS
    <3> HIDE DEF w, x, t, u, todo
    <3>10. /\ todo \in Seq(Steps) /\ Ordered(todo)
           /\ Range(todo) = {r, c, m} \cup Range(w) \cup Range(x)
      <4>1. /\ t \o w \in Seq(Steps) /\ Ordered(t \o w)
            /\ Range(t \o w) = Range(t) \cup Range(w)
        BY <3>5, <3>7, <3>8, <2>JoinedPlain
      <4>2. /\ (t \o w) \o u \in Seq(Steps) /\ Ordered((t \o w) \o u)
            /\ Range((t \o w) \o u) = Range(t \o w) \cup Range(u)
        BY <3>7, <3>8, <4>1, <2>JoinedPlain
      <4>3. /\ todo \in Seq(Steps) /\ Ordered(todo)
            /\ Range(todo) = Range((t \o w) \o u) \cup Range(x)
        BY <3>6, <3>8, <3>9, <4>2, <2>JoinedPlain
      <4> QED
        BY <3>7, <4>1, <4>2, <4>3
    <3> DEFINE T == Range(todo)
    <3>11. /\ r \in T /\ c \in T /\ m \in T /\ (mc => k \in T) /\ (~mc => d \in T)
           /\ \A s \in T : s = r \/ s = c \/ s = m \/ (mc /\ s = k) \/ (~mc /\ s = d)
      BY <3>5, <3>6, <3>10
    <3> HIDE DEF T
    <3>12. ListOK(T, n, "bgl", aim)
      <4> DEFINE P(s) == /\ s.node = n
                         /\ \/ s.what = "role" /\ s.arg = aim
                            \/ s.what \in {"cert+", "key+"} /\ mc
                            \/ s.what \in {"cert-", "demote"} /\ ~mc
                            \/ s.what = "key-"
      <4>1. \A s \in T : P(s)
        <5>1. P(r) /\ P(m)
          BY <3>3 DEF IsStep
        <5>2. P(c)
          BY <3>3 DEF IsStep
        <5>3. (mc => P(k)) /\ (~mc => P(d))
          BY <3>3 DEF IsStep
        <5> HIDE DEF P
        <5> QED
          BY <3>11, <5>1, <5>2, <5>3
      <4>2. \E s \in T : Sets(s)
        BY <3>3, <3>11 DEF Sets, IsStep
      <4>3. mc => HasIn(T, n, "cert+") /\ HasIn(T, n, "key+")
        BY <3>3, <3>11 DEF HasIn, IsStep
      <4>4. ~mc => HasIn(T, n, "cert-") /\ HasIn(T, n, "demote")
        BY <3>3, <3>11 DEF HasIn, IsStep
      <4>5. HasIn(T, n, "key-")
        BY <3>3, <3>11 DEF HasIn, IsStep
      <4> QED
        BY <3>1, <3>2, <4>1, <4>2, <4>3, <4>4, <4>5
           DEF ListOK, Concerns, Sets, Grant, Revoke, Drops
    <3>13. \/ copy' = copy
           \/ /\ n # Master /\ copy' = copy \ {n}
              /\ \/ HasIn(T, n, "cert+")
                 \/ \E s \in T : s.node = n /\ s.what = "role" /\ s.arg # "candidate"
      <4>1. mc => HasIn(T, n, "cert+")
        BY <3>3, <3>11 DEF HasIn, IsStep
      <4>2. ~mc => r.node = n /\ r.what = "role" /\ r.arg # "candidate"
        BY <3>2, <3>3 DEF IsStep
      <4> QED
        BY <3>1, <3>11, <4>1, <4>2
    <3> QED
      BY <3>1, <3>10, <3>12, <3>13, <2>NodeOpKeeps DEF T

  <2>RemoveKeeps.
    ASSUME IInv, NEW j \in Jobs, job[j].op = "none", NEW n \in Nodes, LUNodeRemove(j, n)
    PROVE  IInv'
    <3> USE <2>RemoveKeeps
    <3> DEFINE mc == role[n] = "candidate"
               k == Do("key-", n, "-")
               a == Do("adjust", n, "-")
               r == Do("role", n, "absent")
               l == Do("leave", n, "-")
               c == Do("cert-", n, "-")
               w == When(mc, <<k>>)
               x == When(mc, <<c>>)
               todo == w \o <<a, r, l>> \o x
    <3>1. /\ n # Master /\ copy' = copy
          /\ Submit(j, NodeJob("remove", n, "bgl", todo, TRUE))
      BY DEF LUNodeRemove
    <3>2. /\ "role" \in Whats /\ "absent" \in Args /\ "absent" \in Roles \cup {"absent"}
          /\ {"leave", "cert-", "key-"} \subseteq Plain
      BY DEF Whats, Args, Plain
    <3>3. /\ IsStep(r, "role", n, "absent") /\ IsStep(k, "key-", n, "-")
          /\ IsStep(a, "adjust", n, "-") /\ IsStep(l, "leave", n, "-")
          /\ IsStep(c, "cert-", n, "-")
      <4>1. IsStep(r, "role", n, "absent")
        BY <3>2, <1>DoFacts
      <4>2. IsStep(k, "key-", n, "-") /\ IsStep(a, "adjust", n, "-")
        BY <3>2, <1>DoPlain
      <4>3. IsStep(l, "leave", n, "-") /\ IsStep(c, "cert-", n, "-")
        BY <3>2, <1>DoPlain
      <4> QED
        BY <4>1, <4>2, <4>3
    <3>4. mc => n \in Candidates
      BY DEF Candidates
    <3>5. n \in Candidates => mc
      BY DEF Candidates
    <3> HIDE DEF mc, k, a, r, l, c
    <3>6. {k, a, r, l, c} \subseteq Steps
      BY <3>3 DEF IsStep
    <3>7. /\ w \in Seq(Steps) /\ Ordered(w)
          /\ (mc => Range(w) = {k}) /\ (~mc => Range(w) = {})
      <4>1. <<k>> \in Seq(Steps) /\ Ordered(<<k>>) /\ Range(<<k>>) = {k}
        BY <3>6, <1>ShortLists
      <4> QED
        BY <4>1, <2>WhenList
    <3>8. /\ x \in Seq(Steps) /\ Ordered(x)
          /\ (mc => Range(x) = {c}) /\ (~mc => Range(x) = {})
      <4>1. <<c>> \in Seq(Steps) /\ Ordered(<<c>>) /\ Range(<<c>>) = {c}
        BY <3>6, <1>ShortLists
      <4> QED
        BY <4>1, <2>WhenList
    <3> DEFINE t == <<a, r, l>>
    <3>9. t \in Seq(Steps) /\ Ordered(t) /\ Range(t) = {a, r, l}
      <4>1. Before(a, r) /\ Before(a, l) /\ Before(r, l)
        BY <3>3 DEF Before, Sets, Grant, Revoke, Drops, IsStep
      <4> QED
        BY <3>6, <4>1, <1>ThreeSteps
    <3>10. todo = (w \o t) \o x
      OBVIOUS
    <3> HIDE DEF w, x, t, todo
    <3>11. /\ todo \in Seq(Steps) /\ Ordered(todo)
           /\ Range(todo) = {a, r, l} \cup Range(w) \cup Range(x)
      <4>1. Before(k, a) /\ Before(k, r) /\ Before(k, l)
        BY <3>3 DEF Before, Sets, Grant, Revoke, Drops, IsStep
      <4>2. \A y \in Range(w), z \in Range(t) : Before(y, z)
        BY <3>7, <3>9, <4>1
      <4>3. /\ w \o t \in Seq(Steps) /\ Ordered(w \o t)
            /\ Range(w \o t) = Range(w) \cup Range(t)
        BY <3>7, <3>9, <4>2, <1>Joined
      <4>4. c.what \in Plain
        BY <3>2, <3>3 DEF IsStep
      <4>5. \A z \in Range(x) : z.what \in Plain
        BY <3>8, <4>4
      <4>6. /\ todo \in Seq(Steps) /\ Ordered(todo)
            /\ Range(todo) = Range(w \o t) \cup Range(x)
        BY <3>8, <3>10, <4>3, <4>5, <2>JoinedPlain
      <4> QED
        BY <3>9, <4>3, <4>6
    <3> DEFINE T == Range(todo)
    <3>12. /\ a \in T /\ r \in T /\ l \in T /\ (mc => k \in T /\ c \in T)
           /\ \A s \in T : s \in {a, r, l, k, c}
      BY <3>7, <3>8, <3>11
    <3> HIDE DEF T
    <3>13. ListOK(T, n, "bgl", "absent")
      <4> DEFINE P(s) == /\ s.node = n
                         /\ \/ s.what = "role" /\ s.arg = "absent"
                            \/ s.what = "adjust" /\ s.arg = "-"
                            \/ s.what \in {"cert-", "key-", "leave"}
      <4>1. \A s \in T : P(s)
        <5>1. P(a) /\ P(r)
          BY <3>3 DEF IsStep
        <5>2. P(l) /\ P(k)
          BY <3>3 DEF IsStep
        <5>3. P(c)
          BY <3>3 DEF IsStep
        <5> HIDE DEF P
        <5> QED
          BY <3>12, <5>1, <5>2, <5>3
      <4>2. \E s \in T : Sets(s)
        BY <3>3, <3>12 DEF Sets, IsStep
      <4>3. HasIn(T, n, "leave")
        BY <3>3, <3>12 DEF HasIn, IsStep
      <4>4. n \in Candidates => HasIn(T, n, "cert-") /\ HasIn(T, n, "key-")
        BY <3>3, <3>5, <3>12 DEF HasIn, IsStep
      <4> QED
        BY <3>1, <4>1, <4>2, <4>3, <4>4
           DEF ListOK, Concerns, Sets, Grant, Revoke, Drops
    <3>14. \E s \in T : s.what = "adjust"
      BY <3>3, <3>12 DEF IsStep
    <3> QED
      BY <3>1, <3>11, <3>13, <3>14, <2>NodeOpKeeps DEF T

  \* The jobs that update the cluster object.
  <2>ClusterJobKeeps.
    ASSUME IInv, NEW j \in Jobs, job[j].op = "none", NEW op \in {"size", "tag"},
           NEW lock \in {"shared", "none"}, NEW todo \in Seq(Steps), Ordered(todo),
           ListOK(Range(todo), Master, lock, "-"), NEW pool \in Nat,
           lock = "none" => pool = size, ClusterJob(j, op, lock, todo, pool)
    PROVE  IInv'
    <3> USE <2>ClusterJobKeeps
    <3>0. certs \subseteq Nodes /\ job \in [Jobs -> JobType] /\ Master \in Nodes
      BY Cluster DEF IInv, RInv, TypeOK
    <3> DEFINE d == [pool |-> pool, certs |-> certs]
    <3>1. d \in [pool : Nat, certs : SUBSET Nodes] /\ d.pool = pool
      BY <3>0
    <3> HIDE DEF d
    <3>2. PICK q : q = NodeJob(op, Master, lock, todo, FALSE)
      OBVIOUS
    <3>3. IsJob(q, op, Master, lock, todo, FALSE)
      <4>1. /\ op \in {"set", "add", "readd", "remove", "size", "tag"}
            /\ lock \in {"none", "own", "all", "shared", "bgl"} /\ FALSE \in BOOLEAN
        OBVIOUS
      <4> QED
        BY <3>0, <3>2, <4>1, <2>NodeJobFacts
    <3>4. PICK r : r = [q EXCEPT !.read = d, !.fresh = TRUE]
      OBVIOUS
    <3>5. IsJob(r, op, Master, lock, todo, FALSE) /\ r.read = d
      BY <3>1, <3>3, <3>4, <2>ClusterJobFacts
    <3>6. Submit(j, r) /\ copy' = copy
      BY <3>2, <3>4 DEF ClusterJob, d
    <3>7. r \in JobType
      BY <3>5 DEF IsJob
    <3>8. job'[j] = r /\ keys' = keys /\ role' = role /\ size' = size
      BY <3>0, <3>6 DEF Submit, conf
    <3>9. Candidates' = Candidates
      BY <3>8 DEF Candidates
    <3>10. IsJob(job'[j], op, Master, lock, todo, FALSE) /\ op # "none"
      BY <3>5, <3>8
    <3>11. JobOK(j)'
      BY <3>8, <3>9, <3>10, <2>NewJobOK
    <3>12. PoolOK(j)'
      BY <3>10, <2>NewJobPool
    <3>13. FreshOK(j)'
      <4>1. job'[j].lock = lock /\ job'[j].read.pool = pool
        BY <3>1, <3>5, <3>8 DEF IsJob
      <4> QED
        BY <3>8, <4>1 DEF FreshOK
    <3> QED
      BY <3>6, <3>7, <3>11, <3>12, <3>13, <2>SubmitKeeps

  <2>SetPoolSizeKeeps.
    ASSUME IInv, NEW j \in Jobs, job[j].op = "none", NEW k \in PoolSizes, SetPoolSize(j, k)
    PROVE  IInv'
    <3> USE <2>SetPoolSizeKeeps
    <3> DEFINE a == Do("adjust", Master, "all")
               c == Do("cluster", Master, "-")
    <3>1. k \in Nat /\ Master \in Nodes
      BY Cluster
    <3>2. IsStep(a, "adjust", Master, "all") /\ IsStep(c, "cluster", Master, "-")
      <4>1. "adjust" \in Whats /\ "all" \in Args /\ "adjust" # "role"
        BY DEF Whats, Args
      <4>2. IsStep(a, "adjust", Master, "all")
        BY <3>1, <4>1, <1>DoFacts
      <4>3. IsStep(c, "cluster", Master, "-")
        BY <3>1, <1>DoPlain
      <4> QED
        BY <4>2, <4>3
    <3>3. ClusterJob(j, "size", "shared", <<a, c>>, k)
      BY DEF SetPoolSize
    <3> HIDE DEF a, c
    <3>4. <<a, c>> \in Seq(Steps) /\ Ordered(<<a, c>>) /\ Range(<<a, c>>) = {a, c}
      <4>1. a \in Steps /\ c \in Steps /\ Before(a, c)
        BY <3>2 DEF IsStep, Before, Sets
      <4> QED
        BY <4>1, <1>ShortLists
    <3>5. ListOK({a, c}, Master, "shared", "-")
      <4>1. ~Concerns(a) /\ ~Concerns(c)
        BY <3>2 DEF IsStep, Concerns, Sets, Grant, Revoke, Drops
      <4> QED
        BY <3>2, <4>1 DEF ListOK, IsStep, Concerns
    <3>6. ListOK(Range(<<a, c>>), Master, "shared", "-")
      BY <3>4, <3>5
    <3> DEFINE todo == <<a, c>>
    <3>7. /\ todo \in Seq(Steps) /\ Ordered(todo) /\ ListOK(Range(todo), Master, "shared", "-")
          /\ ClusterJob(j, "size", "shared", todo, k)
      BY <3>3, <3>4, <3>6
    <3> HIDE DEF todo
    <3> QED
      BY <3>1, <3>7, <2>ClusterJobKeeps

  <2>TagClusterKeeps.
    ASSUME IInv, NEW j \in Jobs, job[j].op = "none", TagCluster(j)
    PROVE  IInv'
    <3> USE <2>TagClusterKeeps
    <3> DEFINE c == Do("cluster", Master, "-")
    <3>1. size \in Nat /\ Master \in Nodes
      BY Cluster DEF IInv, RInv, TypeOK
    <3>2. IsStep(c, "cluster", Master, "-")
      BY <3>1, <1>DoPlain
    <3>3. ClusterJob(j, "tag", "none", <<c>>, size)
      BY DEF TagCluster
    <3> HIDE DEF c
    <3>4. <<c>> \in Seq(Steps) /\ Ordered(<<c>>) /\ Range(<<c>>) = {c}
      BY <3>2, <1>ShortLists DEF IsStep
    <3>5. ListOK({c}, Master, "none", "-")
      <4>1. ~Concerns(c)
        BY <3>2 DEF IsStep, Concerns, Sets, Grant, Revoke, Drops
      <4> QED
        BY <3>2, <4>1 DEF ListOK, IsStep, Concerns
    <3> DEFINE todo == <<c>>
    <3>6. /\ todo \in Seq(Steps) /\ Ordered(todo) /\ ListOK(Range(todo), Master, "none", "-")
          /\ ClusterJob(j, "tag", "none", todo, size)
      BY <3>3, <3>4, <3>5
    <3> HIDE DEF todo
    <3> QED
      BY <3>1, <3>6, <2>ClusterJobKeeps

  \* The list of LUNodeSetParams.
  <2>SetParamsList.
    ASSUME NEW n \in Nodes, NEW q, q.capable \in Change, NEW new \in Roles \cup {"absent"},
           NEW all \in BOOLEAN, new # role[n] => n # Master,
           role[n] = "candidate" <=> n \in Candidates
    PROVE  LET t == SetParamsSteps(n, q, new, all)
           IN  /\ t \in Seq(Steps) /\ Ordered(t)
               /\ ListOK(Range(t), n, IF all THEN "all" ELSE "own", new)
               /\ all /\ new # role[n] => \E s \in Range(t) : s.what = "adjust"
    <3> USE <2>SetParamsList
    <3> DEFINE ch == new # role[n]
               up == new = "candidate" /\ role[n] # new
               down == role[n] = "candidate" /\ role[n] # new
               c0 == q.capable = (IF capable[n] THEN "no" ELSE "yes")
               off == down /\ new # "offline"
               u == Do("update", n, q.capable)
               r == Do("role", n, new)
               d == Do("demote", n, "-")
               a == Do("adjust", n, "-")
               cp == Do("cert+", n, "-")
               cm == Do("cert-", n, "-")
               km == Do("key-", n, "-")
               kp == Do("key+", n, "-")
               w0 == When(c0, <<u>>)
               w1 == <<r>>
               w2 == When(off, <<d>>)
               w3 == When(all, <<a>>)
               w4 == When(up, <<cp>>)
               w5 == When(down, <<cm, km>>)
               w6 == When(up, <<kp>>)
               x == w1 \o w2 \o w3 \o w4 \o w5 \o w6
               t == SetParamsSteps(n, q, new, all)
    <3>1. t = w0 \o When(ch, x)
      BY DEF SetParamsSteps
    <3>2. /\ up => ch /\ new = "candidate"
          /\ down => ch /\ new # "candidate"
          /\ ch /\ new = "candidate" => up
          /\ ch /\ new # "candidate" /\ n \in Candidates => down
          /\ down /\ ~off => new = "offline"
          /\ ch => n # Master
          /\ off => down
      OBVIOUS
    <3>2a. /\ new = "candidate" /\ n \notin Candidates => ch
           /\ new # "candidate" /\ n \in Candidates => ch
      OBVIOUS
    <3>3. /\ IsStep(u, "update", n, q.capable) /\ IsStep(r, "role", n, new)
          /\ IsStep(d, "demote", n, "-") /\ IsStep(a, "adjust", n, "-")
          /\ IsStep(cp, "cert+", n, "-") /\ IsStep(cm, "cert-", n, "-")
          /\ IsStep(km, "key-", n, "-") /\ IsStep(kp, "key+", n, "-")
      <4>1. IsStep(u, "update", n, q.capable)
        <5>1. "update" \in Whats /\ q.capable \in Args /\ "update" # "role"
          BY DEF Whats, Args
        <5> QED
          BY <5>1, <1>DoFacts
      <4>2. IsStep(r, "role", n, new)
        <5>1. "role" \in Whats /\ new \in Args
          BY DEF Whats, Args
        <5> QED
          BY <5>1, <1>DoFacts
      <4>3. {"demote", "cert+", "cert-", "key+", "key-"} \subseteq Plain
        BY DEF Plain
      <4>4. IsStep(d, "demote", n, "-") /\ IsStep(a, "adjust", n, "-")
        BY <4>3, <1>DoPlain
      <4>5. IsStep(cp, "cert+", n, "-") /\ IsStep(cm, "cert-", n, "-")
        BY <4>3, <1>DoPlain
      <4>6. IsStep(km, "key-", n, "-") /\ IsStep(kp, "key+", n, "-")
        BY <4>3, <1>DoPlain
      <4> QED
        BY <4>1, <4>2, <4>4, <4>5, <4>6
    <3> HIDE DEF ch, up, down, c0, off, u, r, d, a, cp, cm, km, kp, t
    <3>4. /\ u \in Steps /\ r \in Steps /\ d \in Steps /\ a \in Steps
          /\ cp \in Steps /\ cm \in Steps /\ km \in Steps /\ kp \in Steps
      BY <3>3 DEF IsStep
    <3>5. /\ w0 \in Seq(Steps) /\ Ordered(w0) /\ \A s \in Range(w0) : s = u
      <4>1. <<u>> \in Seq(Steps) /\ Ordered(<<u>>) /\ Range(<<u>>) = {u}
        BY <3>4, <1>ShortLists
      <4>2. /\ w0 \in Seq(Steps) /\ Ordered(w0)
            /\ (c0 => Range(w0) = {u}) /\ (~c0 => Range(w0) = {})
        BY <4>1, <2>WhenList
      <4> HIDE DEF w0
      <4> QED
        BY <4>2
    <3>6. w1 \in Seq(Steps) /\ Ordered(w1) /\ Range(w1) = {r}
      BY <3>4, <1>ShortLists
    <3>7. /\ w2 \in Seq(Steps) /\ Ordered(w2)
          /\ (off => Range(w2) = {d}) /\ (~off => Range(w2) = {})
      <4>1. <<d>> \in Seq(Steps) /\ Ordered(<<d>>) /\ Range(<<d>>) = {d}
        BY <3>4, <1>ShortLists
      <4> QED
        BY <4>1, <2>WhenList
    <3>8. /\ w3 \in Seq(Steps) /\ Ordered(w3)
          /\ (all => Range(w3) = {a}) /\ (~all => Range(w3) = {})
      <4>1. <<a>> \in Seq(Steps) /\ Ordered(<<a>>) /\ Range(<<a>>) = {a}
        BY <3>4, <1>ShortLists
      <4> QED
        BY <4>1, <2>WhenList
    <3>9. /\ w4 \in Seq(Steps) /\ Ordered(w4)
          /\ (up => Range(w4) = {cp}) /\ (~up => Range(w4) = {})
      <4>1. <<cp>> \in Seq(Steps) /\ Ordered(<<cp>>) /\ Range(<<cp>>) = {cp}
        BY <3>4, <1>ShortLists
      <4> QED
        BY <4>1, <2>WhenList
    <3>10. /\ w5 \in Seq(Steps) /\ Ordered(w5)
           /\ (down => Range(w5) = {cm, km}) /\ (~down => Range(w5) = {})
      <4>1. Before(cm, km)
        BY <3>3 DEF Before, Sets, IsStep
      <4>2. <<cm, km>> \in Seq(Steps) /\ Ordered(<<cm, km>>) /\ Range(<<cm, km>>) = {cm, km}
        BY <3>4, <4>1, <1>ShortLists
      <4> QED
        BY <4>2, <2>WhenList
    <3>11. /\ w6 \in Seq(Steps) /\ Ordered(w6)
           /\ (up => Range(w6) = {kp}) /\ (~up => Range(w6) = {})
      <4>1. <<kp>> \in Seq(Steps) /\ Ordered(<<kp>>) /\ Range(<<kp>>) = {kp}
        BY <3>4, <1>ShortLists
      <4> QED
        BY <4>1, <2>WhenList
    <3>12. x = ((((w1 \o w2) \o w3) \o w4) \o w5) \o w6
      OBVIOUS
    <3> HIDE DEF w0, w1, w2, w3, w4, w5, w6, x
    <3>13. /\ x \in Seq(Steps) /\ Ordered(x)
           /\ Range(x) = Range(w1) \cup Range(w2) \cup Range(w3) \cup Range(w4)
                          \cup Range(w5) \cup Range(w6)
      <4>0. /\ d.what \in Plain /\ cp.what \in Plain /\ cm.what \in Plain
            /\ km.what \in Plain /\ kp.what \in Plain
        BY <3>3 DEF IsStep, Plain
      <4> DEFINE y2 == w1 \o w2
                 y3 == y2 \o w3
                 y4 == y3 \o w4
                 y5 == y4 \o w5
      <4>1. y2 \in Seq(Steps) /\ Ordered(y2) /\ Range(y2) = Range(w1) \cup Range(w2)
        <5>1. \A b \in Range(w2) : b.what \in Plain
          BY <3>7, <4>0
        <5> QED
          BY <3>6, <3>7, <5>1, <2>JoinedPlain
      <4> HIDE DEF y2
      <4>2. y3 \in Seq(Steps) /\ Ordered(y3) /\ Range(y3) = Range(y2) \cup Range(w3)
        <5>1. Before(r, a) /\ Before(d, a)
          BY <3>3 DEF IsStep, Before, Sets
        <5>2. \A e \in Range(y2), b \in Range(w3) : Before(e, b)
          BY <3>6, <3>7, <3>8, <4>1, <5>1
        <5> QED
          BY <3>8, <4>1, <5>2, <1>Joined
      <4> HIDE DEF y3
      <4>3. y4 \in Seq(Steps) /\ Ordered(y4) /\ Range(y4) = Range(y3) \cup Range(w4)
        <5>1. \A b \in Range(w4) : b.what \in Plain
          BY <3>9, <4>0
        <5> QED
          BY <3>9, <4>2, <5>1, <2>JoinedPlain
      <4> HIDE DEF y4
      <4>4. y5 \in Seq(Steps) /\ Ordered(y5) /\ Range(y5) = Range(y4) \cup Range(w5)
        <5>1. \A b \in Range(w5) : b.what \in Plain
          BY <3>10, <4>0
        <5> QED
          BY <3>10, <4>3, <5>1, <2>JoinedPlain
      <4> HIDE DEF y5
      <4>5. x \in Seq(Steps) /\ Ordered(x) /\ Range(x) = Range(y5) \cup Range(w6)
        <5>1. \A b \in Range(w6) : b.what \in Plain
          BY <3>11, <4>0
        <5>2. x = y5 \o w6
          BY <3>12 DEF y2, y3, y4, y5
        <5> QED
          BY <3>11, <4>4, <5>1, <5>2, <2>JoinedPlain
      <4> QED
        BY <4>1, <4>2, <4>3, <4>4, <4>5
    <3> DEFINE z == When(ch, x)
    <3>14. /\ z \in Seq(Steps) /\ Ordered(z)
           /\ (ch => Range(z) = Range(x)) /\ (~ch => Range(z) = {})
      BY <3>13, <2>WhenList
    <3>15. t = w0 \o z
      BY <3>1
    <3> HIDE DEF z
    <3>16. t \in Seq(Steps) /\ Ordered(t) /\ Range(t) = Range(w0) \cup Range(z)
      <4>1. \A s \in Range(w0) : s.what = "update"
        BY <3>3, <3>5 DEF IsStep
      <4> QED
        BY <3>5, <3>14, <3>15, <4>1, <2>JoinedPlain
    <3> DEFINE T == Range(t)
    <3>17. /\ ch => r \in T /\ (all => a \in T) /\ (off => d \in T)
           /\ ch /\ up => cp \in T /\ kp \in T
           /\ ch /\ down => cm \in T /\ km \in T
      BY <3>6, <3>7, <3>8, <3>9, <3>10, <3>11, <3>13, <3>14, <3>16
    <3>18. \A s \in T : \/ s = u
                        \/ ch /\ s = r
                        \/ ch /\ off /\ s = d
                        \/ ch /\ all /\ s = a
                        \/ ch /\ up /\ (s = cp \/ s = kp)
                        \/ ch /\ down /\ (s = cm \/ s = km)
      <4>1. \A s \in Range(x) : \/ s = r
                                \/ off /\ s = d
                                \/ all /\ s = a
                                \/ up /\ (s = cp \/ s = kp)
                                \/ down /\ (s = cm \/ s = km)
        BY <3>6, <3>7, <3>8, <3>9, <3>10, <3>11, <3>13
      <4>2. \A s \in T : s = u \/ (ch /\ s \in Range(x))
        BY <3>5, <3>14, <3>16
      <4> HIDE DEF T
      <4> QED
        BY <4>1, <4>2
    <3> HIDE DEF T
    <3> DEFINE lock == IF all THEN "all" ELSE "own"
               P(s) == /\ s.node = n
                       /\ \/ s.what = "update"
                          \/ s.what = "role" /\ s.arg = new /\ ch
                          \/ s.what = "adjust" /\ s.arg = "-" /\ all
                          \/ s.what \in {"cert+", "key+"} /\ up
                          \/ s.what \in {"cert-", "key-", "demote"} /\ down
    <3>19. \A s \in T : P(s)
      <4>1. P(u) /\ (ch => P(r)) /\ (all => P(a))
        BY <3>3 DEF IsStep
      <4>2. up => P(cp) /\ P(kp)
        BY <3>3 DEF IsStep
      <4>3. down => P(cm) /\ P(km)
        BY <3>3 DEF IsStep
      <4>4. off => P(d)
        BY <3>2, <3>3 DEF IsStep
      <4> HIDE DEF P
      <4> QED
        BY <3>18, <4>1, <4>2, <4>3, <4>4
    <3>20. ch => \E s \in T : Sets(s)
      BY <3>3, <3>17 DEF Sets, IsStep
    <3>21. ch /\ up => HasIn(T, n, "cert+") /\ HasIn(T, n, "key+")
      BY <3>3, <3>17 DEF HasIn, IsStep
    <3>22. ch /\ down => /\ HasIn(T, n, "cert-") /\ HasIn(T, n, "key-")
                         /\ HasIn(T, n, "demote") \/ new = "offline"
      BY <3>2, <3>3, <3>17 DEF HasIn, IsStep
    <3>23. ListOK(T, n, lock, new)
      <4>1. lock \in {"own", "all"} /\ (all => lock = "all")
        OBVIOUS
      <4> HIDE DEF lock
      <4>2. /\ new = "candidate" /\ n \notin Candidates =>
                 HasIn(T, n, "cert+") /\ HasIn(T, n, "key+")
            /\ new # "candidate" /\ n \in Candidates =>
                 /\ HasIn(T, n, "cert-") /\ HasIn(T, n, "key-")
                 /\ HasIn(T, n, "demote") \/ new = "offline"
        BY <3>2, <3>2a, <3>21, <3>22
      <4>3. /\ up => new = "candidate" /\ \E s \in T : Sets(s)
            /\ down => new # "candidate" /\ \E s \in T : Sets(s)
            /\ ch => n # Master
        BY <3>2, <3>20
      <4> QED
        BY <3>19, <4>1, <4>2, <4>3
           DEF ListOK, Concerns, Sets, Grant, Revoke, Drops
    <3>24. all /\ ch => \E s \in T : s.what = "adjust"
      BY <3>3, <3>17 DEF IsStep
    <3> QED
      BY <3>16, <3>23, <3>24 DEF t, T, ch

  <2>SetParamsKeeps.
    ASSUME IInv, NEW j \in Jobs, job[j].op = "none", NEW n \in Nodes,
           NEW q \in Requests, NEW auto \in BOOLEAN, SetParams(j, n, q, auto)
    PROVE  IInv'
    <3> USE <2>SetParamsKeeps
    <3> DEFINE all == auto /\ MightDemote(q)
               flags == Flagged(n, q)
               new == NewRole(n, flags)
               lock == IF all THEN "all" ELSE "own"
               todo == SetParamsSteps(n, q, new, all)
               adjusts == all /\ new # role[n]
    <3>0. /\ TypeOK /\ role[Master] = "candidate"
          /\ role \in [Nodes -> Roles \cup {"absent"}]
      BY DEF IInv, RInv, TypeOK, MasterOK
    <3>1. /\ n = Master => \A f \in Flags : q[f] = "keep"
          /\ n = Master => q.capable # "no"
          /\ Submit(j, NodeJob("set", n, lock, todo, adjusts))
          /\ copy' = copy
      BY DEF SetParams
    <3>2. /\ all \in BOOLEAN /\ adjusts \in BOOLEAN
      BY SMT
    <3>3. q.capable \in Change
      <4>1. q \in [Flags \cup {"capable"} -> Change]
        BY Cluster
      <4> QED
        BY <4>1
    <3>4. new \in Roles \cup {"absent"}
      <4>1. \A f \in Flags : f \in Roles
        BY DEF Roles
      <4>2. "regular" \in Roles /\ role[n] \in Roles \cup {"absent"}
        BY <3>0 DEF Roles
      <4> HIDE DEF flags
      <4>3. ASSUME \E f \in Flags : flags[f] = "yes"
            PROVE  (CHOOSE f \in Flags : flags[f] = "yes") \in Flags
        BY <4>3
      <4> QED
        BY <4>1, <4>2, <4>3 DEF NewRole
    <3>5. ASSUME n = Master PROVE new = role[n]
      <4> DEFINE left == [f \in Flags |-> IF q[f] = "no" /\ role[n] # f THEN "keep" ELSE q[f]]
                 back == \/ left.drained = "no" \/ left.offline = "no"
                         \/ q.capable = "yes" /\ ~capable[n]
                 v == IF q.capable = "no" /\ role[n] = "candidate" THEN "no"
                      ELSE IF back /\ DecideSelfPromotion({}) THEN "yes" ELSE left.candidate
      <4>1. flags = [left EXCEPT !.candidate = v]
        BY DEF Flagged
      <4>2. \A f \in Flags : left[f] = "keep"
        BY <3>1, <3>5
      <4>3. v \in {"yes", "keep"}
        <5>1. left.candidate = "keep"
          BY <4>2 DEF Flags
        <5>2. q.capable # "no"
          BY <3>1, <3>5
        <5> HIDE DEF left, back
        <5> QED
          BY <5>1, <5>2
      <4>4. \A f \in Flags : flags[f] = IF f = "candidate" THEN v ELSE "keep"
        <5>1. \A f \in Flags : [left EXCEPT !.candidate = v][f] = IF f = "candidate" THEN v ELSE left[f]
          <6> HIDE DEF v
          <6> QED
            OBVIOUS
        <5> HIDE DEF v, left, flags
        <5> QED
          BY <4>1, <4>2, <5>1
      <4> HIDE DEF v, left, back, flags
      <4>5. \A f \in Flags : flags[f] # "no" /\ (flags[f] = "yes" => f = role[n])
        BY <3>0, <3>5, <4>3, <4>4
      <4>6. CASE \E f \in Flags : flags[f] = "yes"
        <5>1. /\ (CHOOSE f \in Flags : flags[f] = "yes") \in Flags
              /\ flags[CHOOSE f \in Flags : flags[f] = "yes"] = "yes"
          BY <4>6
        <5> QED
          BY <4>5, <4>6, <5>1 DEF NewRole
      <4>7. CASE ~\E f \in Flags : flags[f] = "yes"
        BY <4>5, <4>7 DEF NewRole
      <4> QED
        BY <4>6, <4>7
    <3>6. role[n] = "candidate" <=> n \in Candidates
      BY DEF Candidates
    <3> HIDE DEF all, new, flags
    <3>7. /\ todo \in Seq(Steps) /\ Ordered(todo) /\ ListOK(Range(todo), n, lock, new)
          /\ adjusts => \E s \in Range(todo) : s.what = "adjust"
      BY <3>2, <3>3, <3>4, <3>5, <3>6, <2>SetParamsList
    <3>8. lock \in {"own", "all", "bgl"} /\ (adjusts => lock \in {"all", "bgl"})
      BY <3>2
    <3> HIDE DEF lock, todo, adjusts
    <3> QED
      BY <3>1, <3>2, <3>7, <3>8, <2>NodeOpKeeps

  <2> QED
    BY <2>SetParamsKeeps, <2>AddKeeps, <2>ReaddKeeps, <2>RemoveKeeps, <2>SetPoolSizeKeeps,
       <2>TagClusterKeeps DEF NewJob

\* The adjustment of the candidate pool.
<1>AdjustStep.
  \A j \in Jobs : IInv /\ Adjust(j) => IInv'

  <2>PromotedList.
    ASSUME TypeOK, NEW ex, NEW mods \in Promotions(ex)
    PROVE  /\ mods \in Seq(Nodes) /\ Range(mods) \subseteq Eligible(ex)
           /\ mods = <<>> => Range(mods) = {}
           /\ mods # <<>> => Range(mods) # {}
           /\ Missing(ex) \in Int /\ Cardinality(Eligible(ex)) \in Nat
           /\ Cardinality(Range(mods)) = Len(mods)
           /\ Len(mods) = IF Missing(ex) <= 0 THEN 0
                           ELSE Min2(Missing(ex), Cardinality(Eligible(ex)))
    <3> USE <2>PromotedList
    <3> DEFINE E == Eligible(ex)
               d == Missing(ex)
               e == Cardinality(E)
               k == IF d <= 0 THEN 0 ELSE Min2(d, e)
               P == Range(mods)
    <3>1. /\ E \subseteq Nodes /\ IsFiniteSet(Nodes) /\ size \in Nat
          /\ Possible \ ex \subseteq Nodes /\ Candidates \ ex \subseteq Nodes
      BY Cluster DEF TypeOK, Possible, Candidates, Eligible
    <3>2. e \in Nat /\ Cardinality(Possible \ ex) \in Nat /\ Cardinality(Candidates \ ex) \in Nat
          /\ IsFiniteSet(E)
      <4>1. IsFiniteSet(E) /\ IsFiniteSet(Possible \ ex) /\ IsFiniteSet(Candidates \ ex)
        BY <3>1, <1>FS_Subset
      <4> QED
        BY <4>1, <1>FS_CardinalityType
    <3>3. d \in Int
      BY SMT, <3>1, <3>2 DEF Missing, mc_should, mc_now, Min2
    <3>4. mods \in Injection(1..Min2(d, e), E)
      BY DEF Promotions, Missing, Eligible
    <3> HIDE DEF E, d, e
    <3>5. k \in Nat /\ 1..Min2(d, e) = 1..k
      BY SMT, <3>2, <3>3 DEF Min2
    <3> HIDE DEF k
    <3>6. mods \in [1..k -> E] /\ IsInjective(mods)
      BY <3>4, <3>5 DEF Injection
    <3>7. mods \in Seq(Nodes) /\ Len(mods) = k /\ DOMAIN mods = 1..k
      BY SMT, <3>1, <3>5, <3>6
    <3>8. P \subseteq E /\ \A i \in 1..k : mods[i] \in P
      BY <3>6, <3>7 DEF Range
    <3>9. mods \in Injection(1..k, P) /\ mods \in Surjection(1..k, P)
      <4>1. mods \in [1..k -> P]
        BY <3>6, <3>8
      <4>2. \A t \in P : \E i \in 1..k : mods[i] = t
        BY <3>7 DEF Range
      <4> QED
        BY <3>6, <4>1, <4>2 DEF Injection, Surjection
    <3>10. Cardinality(P) = k
      <4>1. IsFiniteSet(P)
        BY <3>2, <3>8, <1>FS_Subset
      <4>2. Cardinality(1..k) = Cardinality(P)
        BY <3>9, <4>1, <1>FS_Injection
      <4>3. 1 \in Int /\ k \in Int
        BY SMT, <3>5
      <4>4. Cardinality(1..k) = IF 1 > k THEN 0 ELSE k - 1 + 1
        BY <4>3, <1>FS_Interval
      <4> QED
        BY SMT, <3>5, <4>2, <4>4
    <3>11. (mods = <<>> => P = {}) /\ (mods # <<>> => P # {})
      <4>1. mods = <<>> => 1..k = {}
        BY SMT, <3>7
      <4>2. mods # <<>> => 1 \in 1..k
        BY SMT, <3>5, <3>7
      <4> QED
        BY <3>7, <3>8, <4>1, <4>2 DEF Range
    <3> QED
      BY <3>2, <3>3, <3>7, <3>8, <3>10, <3>11 DEF k, d, e, E

  \* The steps that follow a promotion: each promoted node gets both.
  <2>GrantList.
    ASSUME NEW mods \in Seq(Nodes)
    PROVE  /\ Grants(mods) \in Seq(Steps) /\ Ordered(Grants(mods))
           /\ \A s \in Range(Grants(mods)) : Grant(s) /\ s.node \in Range(mods)
           /\ \A n \in Range(mods) : /\ HasIn(Range(Grants(mods)), n, "cert+")
                                     /\ HasIn(Range(Grants(mods)), n, "key+")
    <3> USE <2>GrantList
    <3> DEFINE N == Len(mods)
               f == mods
               P == Range(mods)
               t == Grants(mods)
    <3>2. N \in Nat /\ f \in [1..N -> Nodes] /\ DOMAIN f = 1..N
      BY SMT
    <3>3. f \in [1..N -> P]
      BY <3>2 DEF Range
    <3>4. \A n \in P : \E i \in 1..N : f[i] = n
      BY <3>2 DEF Range
    <3> DEFINE what(i) == IF i % 2 = 1 THEN "cert+" ELSE "key+"
               S(i) == Do(what(i), f[(i + 1) \div 2], "-")
    <3>5. t = [i \in 1..2 * N |-> S(i)]
      BY DEF Grants
    <3> HIDE DEF N, f, t, P
    <3>6. ASSUME NEW i \in 1..2 * N
          PROVE  /\ S(i) \in Steps /\ Grant(S(i)) /\ S(i).node \in P
                 /\ S(i).node = f[(i + 1) \div 2] /\ S(i).what = what(i)
      <4>1. (i + 1) \div 2 \in 1..N
        BY SMTT(30), <3>2
      <4>2. f[(i + 1) \div 2] \in P
        BY <3>3, <4>1
      <4>3. f[(i + 1) \div 2] \in Nodes
        BY <3>2, <4>1
      <4>4. what(i) \in {"cert+", "key+"}
        OBVIOUS
      <4>5. {"cert+", "key+"} \subseteq Plain
        BY DEF Plain
      <4> HIDE DEF what
      <4>6. IsStep(S(i), what(i), f[(i + 1) \div 2], "-")
        BY <4>3, <4>4, <4>5, <1>DoPlain
      <4> QED
        BY <4>2, <4>4, <4>6 DEF IsStep, Grant
    <3> HIDE DEF S
    <3>7. t \in Seq(Steps) /\ DOMAIN t = 1..2 * N /\ \A i \in 1..2 * N : t[i] = S(i)
      <4>1. 2 * N \in Nat
        BY SMT, <3>2
      <4> DEFINE M == 2 * N
      <4>2. M \in Nat /\ t = [i \in 1..M |-> S(i)] /\ \A i \in 1..M : S(i) \in Steps
        BY <4>1, <3>5, <3>6
      <4> HIDE DEF M, Steps
      <4>3. t \in Seq(Steps) /\ DOMAIN t = 1..M /\ \A i \in 1..M : t[i] = S(i)
        BY SMT, <4>2
      <4> QED
        BY <4>3 DEF M
    <3>8. \A s \in Range(t) : Grant(s) /\ s.node \in P
      BY <3>6, <3>7 DEF Range
    <3>9. Ordered(t)
      <4> SUFFICES ASSUME NEW i \in DOMAIN t, NEW k \in DOMAIN t PROVE Before(t[i], t[k])
        BY DEF Ordered
      <4>1. Grant(t[k]) /\ Grant(t[i])
        BY <3>6, <3>7
      <4> QED
        BY <4>1 DEF Before, Grant, Sets
    <3>10. ASSUME NEW n \in P PROVE HasIn(Range(t), n, "cert+") /\ HasIn(Range(t), n, "key+")
      <4>1. PICK i \in 1..N : f[i] = n
        BY <3>4
      <4>2. /\ 2 * i - 1 \in 1..2 * N /\ 2 * i \in 1..2 * N
            /\ ((2 * i - 1) + 1) \div 2 = i /\ (2 * i + 1) \div 2 = i
            /\ (2 * i - 1) % 2 = 1 /\ (2 * i) % 2 = 0
        BY SMT, <3>2
      <4>3. S(2 * i - 1).node = n /\ S(2 * i - 1).what = "cert+" /\ S(2 * i - 1) \in Range(t)
        BY <3>6, <3>7, <4>1, <4>2 DEF Range
      <4>4. S(2 * i).node = n /\ S(2 * i).what = what(2 * i) /\ S(2 * i) \in Range(t)
        BY <3>6, <3>7, <4>1, <4>2 DEF Range
      <4>5. what(2 * i) = "key+"
        BY SMT, <4>2
      <4> QED
        BY <4>3, <4>4, <4>5 DEF HasIn
    <3> QED
      BY <3>7, <3>8, <3>9, <3>10 DEF t, P

  <2>AdjustEffect.
    ASSUME TypeOK, NEW j \in Jobs, Adjust(j)
    PROVE  /\ job[j].todo # <<>> /\ job[j].wait = "no"
           /\ Head(job[j].todo).what = "adjust"
           /\ \E P, more : Adjusted(j, P, more)
    <3> USE <2>AdjustEffect
    <3>h. PICK h : h = Head(job[j].todo)
      OBVIOUS
    <3>0. /\ job[j].todo # <<>> /\ job[j].wait = "no" /\ h.what = "adjust"
          /\ capable' = capable /\ size' = size /\ certs' = certs /\ keys' = keys
          /\ owed' = owed /\ count' = count
      BY <3>h DEF Adjust, Comes
    <3> DEFINE ex == IF h.arg = "all" THEN {} ELSE {h.node}
    <3>1. PICK mods \in Promotions(ex) :
            /\ role' = [n \in Nodes |-> IF n \in Range(mods) THEN "candidate" ELSE role[n]]
            /\ IF mods = <<>> THEN Goes(j, <<>>) /\ UNCHANGED wconfd
                              ELSE Writes(j, TRUE, TRUE, Grants(mods))
      BY <3>h DEF Adjust
    <3> DEFINE P == Range(mods)
    <3>e. PICK x : x = ex
      OBVIOUS
    <3>m. mods \in Promotions(x)
      BY <3>e
    <3>r. /\ mods \in Seq(Nodes) /\ Range(mods) \subseteq Eligible(x)
          /\ mods = <<>> => Range(mods) = {}
          /\ mods # <<>> => Range(mods) # {}
      <4> HIDE DEF ex, P
      <4> QED
        BY <3>m, <2>PromotedList
    <3>2. /\ mods \in Seq(Nodes) /\ P \in SUBSET Nodes
          /\ mods = <<>> => P = {}
          /\ mods # <<>> => P # {}
      BY <3>r DEF Eligible, Possible
    <3>p. /\ role' = [n \in Nodes |-> IF n \in P THEN "candidate" ELSE role[n]]
          /\ \E m \in Promotions(IF h.arg = "all" THEN {} ELSE {h.node}) : P = Range(m)
      BY <3>1
    <3> HIDE DEF ex, P
    <3>3. CASE mods = <<>>
      <4>1. /\ Goes(j, <<>>) /\ copy' = copy /\ dirty' = dirty /\ upload' = upload
            /\ P = {}
        BY <3>1, <3>2, <3>3 DEF wconfd
      <4>2. Range(<<>>) = {} /\ Ordered(<<>>) /\ <<>> \in Seq(Steps)
        BY <1>ShortLists
      <4>3. Stepped(j, <<>>)
        BY <3>0, <4>1, <4>2, <1>GoesSteps
      <4>4. Adjusted(j, P, <<>>)
        BY <3>h, <3>0, <3>p, <3>2, <4>1, <4>2, <4>3 DEF Adjusted
      <4> QED
        BY <3>h, <3>0, <4>4
    <3>4. CASE mods # <<>>
      <4> DEFINE g == Grants(mods)
      <4>1. Writes(j, TRUE, TRUE, g) /\ P # {}
        BY <3>1, <3>2, <3>4
      <4>2. /\ g \in Seq(Steps) /\ Ordered(g)
            /\ \A s \in Range(g) : Grant(s) /\ s.node \in P
            /\ \A n \in P : HasIn(Range(g), n, "cert+") /\ HasIn(Range(g), n, "key+")
        BY <3>2, <2>GrantList DEF P
      <4> HIDE DEF g
      <4>3. Stepped(j, g)
        BY <3>0, <4>1, <4>2, <1>WritesSteps
      <4>4. copy' = copy /\ dirty' = TRUE /\ upload' = upload
        BY <4>1 DEF Writes
      <4>5. Adjusted(j, P, g)
        BY <3>h, <3>0, <3>p, <3>2, <4>1, <4>2, <4>3, <4>4 DEF Adjusted
      <4> QED
        BY <3>h, <3>0, <4>5
    <3> QED
      BY <3>3, <3>4

  \* The promoted nodes are new candidates, and none of them is the node of a
  \* job that may change its role.
  <2>Promoted.
    ASSUME RInv, NEW j \in Jobs, job[j].todo # <<>>,
           Head(job[j].todo).what = "adjust", NEW P, NEW more, Adjusted(j, P, more)
    PROVE  /\ P \subseteq Nodes /\ P \cap Candidates = {}
           /\ Candidates' = Candidates \cup P
           /\ Whole(j) /\ (Excl(j) => job[j].node \notin P)
    <3> USE <2>Promoted
    <3>h. PICK h : h = Head(job[j].todo)
      OBVIOUS
    <3>1. Allowed(j, h) /\ h.what = "adjust"
      BY <3>h, <1>AtHead
    <3>2. \/ h.arg = "all" /\ job[j].lock = "shared"
          \/ h.arg # "all" /\ h.node = job[j].node /\ job[j].lock \in {"all", "bgl"}
      BY <3>1 DEF Allowed
    <3>3. Whole(j) /\ (Excl(j) => h.arg # "all" /\ h.node = job[j].node)
      BY <3>2 DEF Whole, Excl
    <3>4. /\ P \in SUBSET Nodes
          /\ \E mods \in Promotions(IF h.arg = "all" THEN {} ELSE {h.node}) : P = Range(mods)
          /\ role' = [n \in Nodes |-> IF n \in P THEN "candidate" ELSE role[n]]
      BY <3>h DEF Adjusted
    <3>5. \A ex : \A mods \in Promotions(ex) : Range(mods) \subseteq (Possible \ Candidates) \ ex
      <4>1. TypeOK
        BY DEF RInv
      <4> QED
        BY <4>1, <2>PromotedList DEF Eligible
    <3>6. P \cap Candidates = {} /\ (Excl(j) => job[j].node \notin P)
      <4> DEFINE ex == IF h.arg = "all" THEN {} ELSE {h.node}
      <4>1. PICK mods \in Promotions(ex) : P = Range(mods)
        BY <3>4
      <4>2. P \subseteq (Possible \ Candidates) \ ex
        BY <3>5, <4>1
      <4>3. Excl(j) => job[j].node \in ex
        BY <3>3
      <4> QED
        BY <4>2, <4>3
    <3>7. Candidates' = Candidates \cup P
      BY <3>4 DEF Candidates
    <3> QED
      BY <3>3, <3>4, <3>6, <3>7

  <2>AdjustKeeps.
    ASSUME RInv, NEW j \in Jobs, Adjust(j)
    PROVE  RInv'
    <3> USE <2>AdjustKeeps
    <3>0. TypeOK /\ Mutex /\ MasterOK /\ \A i \in Jobs : JobOK(i)
      BY DEF RInv
    <3>h. PICK h : h = Head(job[j].todo)
      OBVIOUS
    <3>1. /\ job[j].todo # <<>> /\ job[j].wait = "no" /\ h.what = "adjust"
          /\ \E P, more : Adjusted(j, P, more)
      BY <3>0, <3>h, <2>AdjustEffect
    <3>2. PICK P, more : Adjusted(j, P, more)
      BY <3>1
    <3>3. /\ P \subseteq Nodes /\ P \cap Candidates = {}
          /\ Candidates' = Candidates \cup P
          /\ Whole(j) /\ (Excl(j) => job[j].node \notin P)
      BY <3>h, <3>1, <3>2, <2>Promoted
    <3>4. /\ more \in Seq(Steps) /\ Ordered(more)
          /\ \A s \in Range(more) : Grant(s) /\ s.node \in P
          /\ \A n \in P : HasIn(Range(more), n, "cert+") /\ HasIn(Range(more), n, "key+")
          /\ Stepped(j, more)
          /\ role' = [n \in Nodes |-> IF n \in P THEN "candidate" ELSE role[n]]
      BY <3>2 DEF Adjusted
    <3>5. /\ copy' = copy /\ upload' = upload
          /\ IF P = {} THEN dirty' = dirty ELSE dirty' = TRUE
          /\ capable' = capable /\ size' = size /\ certs' = certs /\ keys' = keys
          /\ owed' = owed /\ count' = count
      BY <3>2 DEF Adjusted
    <3>6. TypeOK'
      <4>1. role \in [Nodes -> Roles \cup {"absent"}] /\ "candidate" \in Roles
        BY <3>0 DEF TypeOK, Roles, Flags
      <4>2. role' \in [Nodes -> Roles \cup {"absent"}]
        BY <3>4, <4>1
      <4>3. job' \in [Jobs -> JobType]
        BY <3>4 DEF Stepped
      <4>4. dirty' \in BOOLEAN
        BY <3>0, <3>5 DEF TypeOK
      <4> QED
        BY <3>0, <3>5, <4>2, <4>3, <4>4 DEF TypeOK
    <3>7. MasterOK'
      <4>1. Master \in Nodes
        BY Cluster
      <4> QED
        BY <3>0, <3>4, <3>5, <4>1 DEF MasterOK
    <3>8. Mutex'
      BY <3>0, <3>4, <1>StepMutex
    <3>9. ASSUME NEW i \in Jobs, i # j PROVE JobOK(i)'
      <4>1. Kept(i) /\ JobOK(i)
        BY <3>0, <3>4, <3>9 DEF Stepped
      <4>2. ASSUME NEW s \in Todo(i), Concerns(s)
            PROVE  s.node \in Candidates' <=> s.node \in Candidates
        <5>1. s.node \in Candidates
          BY <3>0, <3>3, <3>9, <4>2, <1>OthersApart
        <5> QED
          BY <5>1, <3>3
      <4> QED
        BY <4>1, <4>2, <3>5, <1>KeepJob
    <3> DEFINE T == Range(Tail(job[j].todo))
               G == Range(more)
    <3>10. /\ Todo(j)' = G \cup T /\ Todo(j) = {h} \cup T
           /\ \A n, w : Has(j, n, w) /\ ~(h.node = n /\ h.what = w) => Has(j, n, w)'
      BY <3>h, <3>0, <3>1, <3>4, <1>StepHas
    <3>11. JobOK(j)'
      <4>0. ~Sets(h) /\ \A s \in G : Grant(s) /\ ~Sets(s) /\ ~Revoke(s) /\ s.node \in P
        BY <3>1, <3>4 DEF Sets, Grant, Revoke, Drops
      <4>1. \A r \in T : Sets(r) \/ Revoke(r) => r.node = job[j].node /\ Excl(j) /\ r.node \notin P
        <5>1. \A r \in T : Allowed(j, r)
          BY <3>0, <3>10 DEF JobOK
        <5> QED
          BY <3>3, <5>1 DEF Allowed
      <4>2. /\ job'[j].op = job[j].op /\ job'[j].node = job[j].node
            /\ job'[j].lock = job[j].lock /\ job'[j].todo = more \o Tail(job[j].todo)
        BY <3>4 DEF Stepped
      <4>3. Ordered(job'[j].todo)
        <5>1. job[j].todo \in Seq(Steps)
          BY SMT, <3>0 DEF TypeOK, JobType
        <5>2. Tail(job[j].todo) \in Seq(Steps) /\ Ordered(Tail(job[j].todo))
          BY <3>0, <3>1, <5>1, <1>HeadTail DEF JobOK
        <5>3. ASSUME NEW a \in G, NEW b \in T PROVE Before(a, b)
          <6>1. Grant(a) /\ a.node \in P /\ (Sets(b) => b.node \notin P)
            BY <4>0, <4>1
          <6>2. a.what # "adjust"
            BY <6>1 DEF Grant
          <6> QED
            BY <6>1, <6>2 DEF Before
        <5> QED
          BY <3>4, <4>2, <5>2, <5>3, <1>Joined
      <4> HIDE DEF T, G
      <4>4. Fits(Todo(j)')
        <5> SUFFICES ASSUME NEW s \in G \cup T, NEW r \in G \cup T, Sets(r), r.node = s.node
                     PROVE  /\ Grant(s) => r.arg = "candidate"
                            /\ Revoke(s) => r.arg # "candidate"
          BY <3>10 DEF Fits
        <5>1. r \in T /\ r.node \notin P
          BY <4>0, <4>1
        <5>2. s \in T
          BY <4>0, <5>1
        <5>3. Fits(Todo(j))
          BY <3>0 DEF JobOK
        <5> QED
          BY <3>10, <5>1, <5>2, <5>3 DEF Fits
      <4>5. (Excl(j)' <=> Excl(j)) /\ (Whole(j)' <=> Whole(j))
        BY <4>2 DEF Excl, Whole
      <4>6. ASSUME NEW s \in T
            PROVE  Allowed(j, s)' /\ Aims(j, s)' /\ (Sets(s) => Followed(j, s)')
        <5>1. s \in Todo(j) /\ Allowed(j, s) /\ Aims(j, s) /\ (Sets(s) => Followed(j, s))
          BY <3>0, <3>10 DEF JobOK
        <5>2. Allowed(j, s)'
          BY <3>3, <4>2, <4>5, <5>1 DEF Allowed
        <5>3. Aims(j, s)'
          <6> SUFFICES ASSUME \A r \in Todo(j)' : Sets(r) => r.node # s.node
                       PROVE  /\ Grant(s) => s.node \in Candidates'
                              /\ Revoke(s) => s.node \notin Candidates'
            BY DEF Aims
          <6>1. \A r \in Todo(j) : Sets(r) => r.node # s.node
            BY <3>10, <4>0
          <6>2. /\ Grant(s) => s.node \in Candidates
                /\ Revoke(s) => s.node \notin Candidates /\ s.node \notin P
            BY <4>1, <5>1, <6>1 DEF Aims
          <6> QED
            BY <3>3, <6>2
        <5>4. ASSUME Sets(s) PROVE Followed(j, s)'
          <6>1. Followed(j, s) /\ (s.node \in Candidates' <=> s.node \in Candidates)
            BY <3>3, <4>1, <5>1, <5>4
          <6>2. \A n, w : Has(j, n, w) /\ w # "adjust" => Has(j, n, w)'
            BY <3>1, <3>10
          <6>3. \A n : HasDrop(j, n) => HasDrop(j, n)'
            BY <6>2 DEF HasDrop
          <6>4. \A n, w : w \in {"cert+", "key+", "cert-", "key-"} /\ Has(j, n, w) => Has(j, n, w)'
            BY <6>2
          <6> QED
            BY <3>5, <6>1, <6>3, <6>4 DEF Followed
        <5> QED
          BY <5>2, <5>3, <5>4
      <4>7. ASSUME NEW s \in G
            PROVE  Allowed(j, s)' /\ Aims(j, s)' /\ ~Sets(s)
        <5>1. /\ Grant(s) /\ ~Sets(s) /\ ~Revoke(s) /\ s.node \in Candidates'
              /\ s.what \notin {"key-", "adjust", "update", "cluster"}
          BY <3>3, <4>0 DEF Grant
        <5> QED
          BY <3>3, <4>5, <5>1 DEF Allowed, Aims
      <4>8. job'[j].op # "none"
        BY <3>0, <3>1, <4>2 DEF JobOK
      <4> QED
        BY <3>10, <4>3, <4>4, <4>6, <4>7, <4>8 DEF JobOK
    <3>12. ASSUME NEW n \in Nodes PROVE NodeOK(n)'
      <4>1. CASE n \in P
        <5>1. n \in Candidates' /\ dirty' = TRUE
          BY <3>3, <3>5, <4>1
        <5>2. Has(j, n, "cert+")' /\ Has(j, n, "key+")'
          <6>1. HasIn(G, n, "cert+") /\ HasIn(G, n, "key+")
            BY <3>4, <4>1
          <6> HIDE DEF G, T
          <6>2. \A w : HasIn(G, n, w) => Has(j, n, w)'
            BY <3>10 DEF Has, HasIn
          <6> QED
            BY <6>1, <6>2
        <5> QED
          BY <5>1, <5>2 DEF NodeOK, CertOK, KeyOK, NoSpareCopy, CopyComes, Late
      <4>2. CASE n \notin P
        <5>1. n \in Candidates' <=> n \in Candidates
          BY <3>3, <4>2
        <5>2. ~Concerns(h)
          BY <3>1 DEF Concerns, Sets, Grant, Revoke, Drops
        <5>3. dirty => dirty'
          BY <3>5
        <5> QED
          BY <3>h, <3>1, <3>4, <3>5, <5>1, <5>2, <5>3, <1>QuietNode
      <4> QED
        BY <4>1, <4>2
    <3> QED
      BY <3>6, <3>7, <3>8, <3>9, <3>11, <3>12 DEF RInv

  \* Enough nodes are promoted, or all that may be.
  <2>PoolFilled.
    ASSUME TypeOK, NEW n \in Nodes, NEW mods \in Promotions({n}), size' = size,
           Candidates' = Candidates \cup Range(mods), Possible' = Possible
    PROVE  mc_now({n})' >= mc_should({n})'
    <3> USE <2>PoolFilled
    <3> DEFINE C == Candidates \ {n}
               Q == Possible \ {n}
               E == (Possible \ Candidates) \ {n}
               P == Range(mods)
               should == Min2(Cardinality(Q), size)
    <3>1. /\ P \subseteq E
          /\ Cardinality(P) = IF should - Cardinality(C) <= 0 THEN 0
                              ELSE Min2(should - Cardinality(C), Cardinality(E))
      <4>1. /\ P \subseteq Eligible({n})
            /\ Cardinality(P) = IF Missing({n}) <= 0 THEN 0
                                ELSE Min2(Missing({n}), Cardinality(Eligible({n})))
        BY <2>PromotedList
      <4> QED
        BY <4>1 DEF Missing, Eligible, mc_now, mc_should
    <3>2. C \subseteq Nodes /\ Q \subseteq Nodes /\ E \subseteq Nodes /\ IsFiniteSet(Nodes)
      BY Cluster DEF Candidates, Possible
    <3>3. Q \subseteq C \cup E /\ C \cap E = {} /\ (C \cup P) = (Candidates \cup P) \ {n}
      BY <3>1
    <3>4. /\ mc_now({n})' = Cardinality(C \cup P)
          /\ mc_should({n})' = should
      BY <3>3 DEF mc_now, mc_should, P
    <3> HIDE DEF C, Q, E, P
    <3>5. /\ IsFiniteSet(C) /\ IsFiniteSet(Q) /\ IsFiniteSet(E) /\ IsFiniteSet(P)
          /\ IsFiniteSet(C \cup E)
      <4>1. IsFiniteSet(C) /\ IsFiniteSet(Q) /\ IsFiniteSet(E)
        BY <3>2, <1>FS_Subset
      <4>2. IsFiniteSet(P)
        BY <3>1, <4>1, <1>FS_Subset
      <4> QED
        BY <4>1, <4>2, <1>FS_Union
    <3>6. /\ Cardinality(C) \in Nat /\ Cardinality(Q) \in Nat /\ Cardinality(E) \in Nat
          /\ Cardinality(P) \in Nat
      BY <3>5, <1>FS_CardinalityType
    <3>7. Cardinality(Q) <= Cardinality(C \cup E)
      BY <3>3, <3>5, <1>FS_Subset
    <3>8. Cardinality({}) = 0
      BY <1>FS_EmptySet
    <3>9. /\ Cardinality(C \cup E) = Cardinality(C) + Cardinality(E) - Cardinality({})
          /\ Cardinality(C \cup P) = Cardinality(C) + Cardinality(P) - Cardinality({})
      <4>1. C \cap P = {}
        BY <3>1, <3>3
      <4> QED
        BY ZenonT(60), <3>3, <3>5, <4>1, <1>FS_Union
    <3>10. size \in Nat
      BY DEF TypeOK
    <3>11. Cardinality(C \cup P) >= should
      <4> DEFINE c == Cardinality(C)
                 q == Cardinality(Q)
                 e == Cardinality(E)
                 k == Cardinality(P)
      <4>1. /\ c \in Nat /\ q \in Nat /\ e \in Nat /\ k \in Nat /\ size \in Nat
            /\ q <= c + e
        BY SMT, <3>6, <3>7, <3>8, <3>9, <3>10
      <4>2. Cardinality(C \cup P) = c + k
        BY SMT, <3>6, <3>8, <3>9
      <4>3. IF should - c <= 0 THEN k = 0 ELSE k = Min2(should - c, e)
        BY <3>1, <3>8
      <4> HIDE DEF c, q, e, k
      <4>4. c + k >= Min2(q, size)
        <5>1. should = Min2(q, size)
          BY DEF q
        <5> HIDE DEF should
        <5> QED
          BY SMT, <4>1, <4>3, <5>1 DEF Min2
      <4> QED
        BY SMT, <4>2, <4>4 DEF q
    <3> QED
      BY <3>4, <3>11

  \* The adjustment fills the pool of the job that makes it.
  <2>AdjustPool.
    ASSUME IInv, NEW j \in Jobs, Adjust(j), NEW i \in Jobs
    PROVE  PoolOK(i)' /\ FreshOK(i)'
    <3> USE <2>AdjustPool
    <3>0. RInv /\ TypeOK /\ JobOK(j) /\ PoolOK(i) /\ FreshOK(i)
      BY DEF IInv, RInv
    <3>h. PICK h : h = Head(job[j].todo)
      OBVIOUS
    <3>1. /\ job[j].todo # <<>> /\ h.what = "adjust"
          /\ \E P, more : Adjusted(j, P, more)
      BY <3>0, <3>h, <2>AdjustEffect
    <3>2. PICK P, more : Adjusted(j, P, more)
      BY <3>1
    <3>3. /\ \E mods \in Promotions(IF h.arg = "all" THEN {} ELSE {h.node}) : P = Range(mods)
          /\ more \in Seq(Steps) /\ Stepped(j, more)
          /\ \A s \in Range(more) : Grant(s)
          /\ role' = [n \in Nodes |-> IF n \in P THEN "candidate" ELSE role[n]]
          /\ capable' = capable /\ size' = size
      BY <3>h, <3>2 DEF Adjusted
    <3>4. /\ job'[i].node = job[i].node /\ job'[i].lock = job[i].lock
          /\ job'[i].adjusts = job[i].adjusts /\ job'[i].read = job[i].read
          /\ job'[i].fresh => job[i].fresh
      BY <3>3 DEF Stepped, Kept
    <3>5. FreshOK(i)'
      BY <3>0, <3>3, <3>4 DEF FreshOK
    <3>6. ASSUME job[i].adjusts PROVE PoolOK(i)'
      <4>1. i = j
        <5> SUFFICES ASSUME i # j PROVE FALSE
          OBVIOUS
        <5>1. h.what = "cluster"
          BY <3>h, <3>1, <3>6, <1>OnlyUpdates
        <5> QED
          BY <3>1, <5>1
      <4>2. job[j].lock \in {"all", "bgl"}
        BY <3>0, <3>6, <4>1 DEF PoolOK
      <4>3. h \in Steps /\ Allowed(j, h)
        BY <3>h, <3>0, <3>1, <1>AtHead
      <4>n. PICK n : n = h.node
        OBVIOUS
      <4>4. n = job[j].node /\ n \in Nodes /\ \E mods \in Promotions({n}) : P = Range(mods)
        BY <3>1, <3>3, <4>n, <4>2, <4>3 DEF Allowed, Steps
      <4>m. PICK mods \in Promotions({n}) : P = Range(mods)
        BY <4>4
      <4>5. Candidates' = Candidates \cup P
        BY <3>h, <3>0, <3>1, <3>2, <2>Promoted
      <4>6. Possible' = Possible
        <5>1. P \subseteq Possible
          BY <3>0, <4>m, <2>PromotedList DEF Eligible
        <5> QED
          BY <3>3, <5>1 DEF Possible
      <4>7. mc_now({n})' >= mc_should({n})'
        BY <3>0, <3>3, <4>m, <4>4, <4>5, <4>6, <2>PoolFilled
      <4>8. n = job'[i].node
        BY <3>4, <4>1, <4>4
      <4>9. mc_now({job[i].node})' >= mc_should({job[i].node})'
        BY <4>7, <4>8 DEF mc_now, mc_should
      <4>10. \A s \in Todo(j)' : s.what \notin {"update", "add"}
        <5>1. job[j].todo \in Seq(Steps)
          BY SMTT(30), <3>0 DEF TypeOK, JobType
        <5>2. \A b \in Range(Tail(job[j].todo)) : Before(h, b)
          BY <3>h, <3>0, <3>1, <5>1, <1>HeadTail DEF JobOK
        <5>3. Todo(j)' = Range(more) \cup Range(Tail(job[j].todo))
          BY <3>0, <3>1, <3>3, <1>StepHas
        <5>4. \A s \in Range(more) : s.what \notin {"update", "add"}
          BY <3>3 DEF Grant
        <5>5. \A s \in Range(Tail(job[j].todo)) : s.what \notin {"update", "add"}
          BY <3>1, <5>2 DEF Before
        <5> QED
          BY <5>3, <5>4, <5>5
      <4> QED
        BY <3>4, <4>1, <4>2, <4>9, <4>10 DEF PoolOK
    <3>7. ASSUME ~job[i].adjusts PROVE PoolOK(i)'
      BY <3>4, <3>7 DEF PoolOK
    <3> QED
      BY <3>5, <3>6, <3>7

  <2> QED
    BY <2>AdjustKeeps, <2>AdjustPool DEF IInv

\* The candidate pool at the other steps.
<1>PlainPool.
  \A j \in Jobs :
    IInv /\ (\/ Update(j) \/ SetRole(j) \/ AddNode(j) \/ DropCopy(j)
             \/ Cert(j) \/ Key(j) \/ UpdateCluster(j))
    => \A i \in Jobs : PoolOK(i)' /\ FreshOK(i)'

  \* The pool is as full as before if no other node changes.
  <2>SamePool.
    ASSUME NEW n \in Nodes, capable' = capable, size' = size,
           \A m \in Nodes \ {n} : role'[m] = role[m]
    PROVE  mc_now({n})' = mc_now({n}) /\ mc_should({n})' = mc_should({n})
    <3> USE <2>SamePool
    <3>1. Candidates' \ {n} = Candidates \ {n}
      BY DEF Candidates
    <3>2. Possible' \ {n} = Possible \ {n}
      BY DEF Possible
    <3> QED
      BY <3>1, <3>2 DEF mc_now, mc_should

  <2>StepPool.
    ASSUME IInv, NEW j \in Jobs, NEW h, PlainStep(j, h), NEW i \in Jobs
    PROVE  PoolOK(i)' /\ FreshOK(i)'
    <3> USE <2>StepPool
    <3>0. /\ RInv /\ TypeOK /\ JobOK(j) /\ PoolOK(i) /\ FreshOK(i) /\ FreshOK(j)
          /\ <<>> \in Seq(Steps) /\ Range(<<>>) = {}
      BY <1>ShortLists DEF IInv, RInv
    <3>1. /\ job[j].todo # <<>> /\ h = Head(job[j].todo) /\ h.what # "adjust"
          /\ Stepped(j, <<>>)
          /\ h.what \notin {"update", "add"} => capable' = capable
          /\ \A m \in Nodes : ~(Sets(h) /\ h.node = m) => role'[m] = role[m]
          /\ \/ size' = size
             \/ /\ h.what = "cluster" /\ job[j].fresh /\ size' = job[j].read.pool
                /\ \A k \in Jobs : ~job'[k].fresh
      BY DEF PlainStep
    <3>2. /\ job'[i].node = job[i].node /\ job'[i].lock = job[i].lock
          /\ job'[i].adjusts = job[i].adjusts /\ job'[i].read = job[i].read
          /\ job'[i].fresh => job[i].fresh
      BY <3>1 DEF Stepped, Kept
    <3>3. FreshOK(i)'
      BY <3>0, <3>1, <3>2 DEF FreshOK
    <3>4. ASSUME job[i].adjusts PROVE PoolOK(i)'
      <4>1. /\ Todo(j)' = Range(Tail(job[j].todo))
            /\ Todo(j) = {h} \cup Range(Tail(job[j].todo))
            /\ \A k \in Jobs \ {j} : Todo(k)' = Todo(k)
        BY ZenonT(60), <3>0, <3>1, <1>StepHas
      <4>2. job[i].lock \in {"all", "bgl"} /\ job[i].node \in Nodes
        <5>1. job[i] \in JobType
          BY <3>0 DEF TypeOK
        <5>2. job[i].node \in Nodes
          BY <5>1 DEF JobType
        <5> QED
          BY <3>0, <3>4, <5>2 DEF PoolOK
      <4>3. ASSUME \E s \in Todo(i) : s.what = "adjust"
            PROVE  \E s \in Todo(i)' : s.what = "adjust"
        BY <3>1, <4>1, <4>3
      <4>4. ASSUME mc_now({job[i].node}) >= mc_should({job[i].node}),
                   \A s \in Todo(i) : s.what \notin {"update", "add"}
            PROVE  /\ mc_now({job[i].node})' >= mc_should({job[i].node})'
                   /\ \A s \in Todo(i)' : s.what \notin {"update", "add"}
        <5>n. PICK n \in Nodes : n = job[i].node
          BY <4>2
        <5>1. \A s \in Todo(i)' : s.what \notin {"update", "add"}
          BY <4>1, <4>4
        <5>2. /\ capable' = capable /\ size' = size
              /\ \A m \in Nodes \ {n} : role'[m] = role[m]
          <6>1. CASE i = j
            <7>1. Allowed(j, h) /\ h \in Todo(j)
              BY <3>0, <4>1 DEF JobOK
            <7>2. h.what # "cluster" /\ (Sets(h) => h.node = n)
              BY <4>2, <5>n, <6>1, <7>1 DEF Allowed
            <7> QED
              BY <3>1, <4>4, <6>1, <7>1, <7>2
          <6>2. CASE i # j
            <7>1. h.what = "cluster" /\ job[j].lock = "none"
              BY ZenonT(60), <3>1, <3>4, <6>2, <1>OnlyUpdates
            <7>2. ~Sets(h) /\ h.what \notin {"update", "add"}
              BY <7>1 DEF Sets
            <7> QED
              BY <3>0, <3>1, <7>1, <7>2 DEF FreshOK
          <6> QED
            BY <6>1, <6>2
        <5>3. mc_now({n})' = mc_now({n}) /\ mc_should({n})' = mc_should({n})
          BY <5>2, <2>SamePool
        <5>4. mc_now({n})' >= mc_should({n})'
          BY <4>4, <5>n, <5>3
        <5>5. n = job'[i].node
          BY <3>2, <5>n
        <5>6. mc_now({job[i].node})' >= mc_should({job[i].node})'
          BY <5>4, <5>5 DEF mc_now, mc_should
        <5> QED
          BY <5>1, <5>6
      <4> QED
        BY <3>0, <3>2, <3>4, <4>2, <4>3, <4>4 DEF PoolOK
    <3>5. ASSUME ~job[i].adjusts PROVE PoolOK(i)'
      BY <3>2, <3>5 DEF PoolOK
    <3> QED
      BY <3>3, <3>4, <3>5

  \* The steps of a job that are no adjustment.
  <2>PlainSteps.
    ASSUME RInv, NEW j \in Jobs,
           \/ Update(j) \/ SetRole(j) \/ AddNode(j) \/ DropCopy(j)
           \/ Cert(j) \/ Key(j) \/ UpdateCluster(j)
    PROVE  PlainStep(j, Head(job[j].todo))
    <3> USE <2>PlainSteps
    <3>h. PICK h : h = Head(job[j].todo)
      OBVIOUS
    <3>0. TypeOK /\ <<>> \in Seq(Steps) /\ job[j].todo # <<>>
      BY <1>ShortLists DEF RInv, Update, SetRole, AddNode, DropCopy, Cert, Key,
         UpdateCluster, Comes
    <3>1. h \in Steps
      BY <3>h, <3>0, <1>AtHead
    <3>2. role \in [Nodes -> Roles \cup {"absent"}]
      BY <3>0 DEF TypeOK
    <3>3. ASSUME Update(j) PROVE PlainStep(j, h)
      <4>1. /\ h.what = "update" /\ role' = role /\ size' = size
            /\ Writes(j, h.node \in Candidates, TRUE, <<>>)
        BY <3>h, <3>3 DEF Update, Comes
      <4> DEFINE full == h.node \in Candidates
      <4>a. full \in BOOLEAN
        BY SMT
      <4>b. Writes(j, full, TRUE, <<>>)
        BY <4>1
      <4> HIDE DEF full
      <4>c. Stepped(j, <<>>) /\ \A i \in Jobs : ~job'[i].fresh
        BY <3>0, <4>a, <4>b, <1>WritesSteps
      <4> QED
        BY <3>h, <3>0, <4>1, <4>c DEF PlainStep
    <3>4. ASSUME SetRole(j) PROVE PlainStep(j, h)
      <4>1. /\ h.what = "role" /\ capable' = capable /\ size' = size
            /\ role' = [role EXCEPT ![h.node] = h.arg]
            /\ \/ Goes(j, <<>>)
               \/ Writes(j, "candidate" \in {h.arg, role[h.node]}, TRUE, <<>>)
        BY <3>h, <3>4 DEF SetRole, Comes
      <4>2. Stepped(j, <<>>)
        <5>1. ASSUME Writes(j, "candidate" \in {h.arg, role[h.node]}, TRUE, <<>>)
              PROVE  Stepped(j, <<>>)
          <6> DEFINE full == "candidate" \in {h.arg, role[h.node]}
          <6>a. full \in BOOLEAN
            BY SMT
          <6>b. Writes(j, full, TRUE, <<>>)
            BY <5>1
          <6> HIDE DEF full
          <6>c. Stepped(j, <<>>) /\ \A i \in Jobs : ~job'[i].fresh
            BY <3>0, <6>a, <6>b, <1>WritesSteps
          <6> QED
            BY <6>c
        <5> QED
          BY <3>0, <4>1, <5>1, <1>GoesSteps
      <4>3. Sets(h) /\ \A m \in Nodes : h.node # m => role'[m] = role[m]
        BY <3>2, <4>1 DEF Sets
      <4> QED
        BY <3>h, <3>0, <4>1, <4>2, <4>3 DEF PlainStep
    <3>5. ASSUME AddNode(j) PROVE PlainStep(j, h)
      <4>1. /\ h.what = "add" /\ size' = size
            /\ role' = [role EXCEPT ![h.node] =
                          IF h.arg = "candidate" THEN h.arg ELSE "regular"]
            /\ Writes(j, h.arg = "candidate", TRUE, <<>>)
        BY <3>h, <3>5 DEF AddNode, Comes
      <4> DEFINE full == h.arg = "candidate"
      <4>a. full \in BOOLEAN
        BY SMT
      <4>b. Writes(j, full, TRUE, <<>>)
        BY <4>1
      <4> HIDE DEF full
      <4>c. Stepped(j, <<>>) /\ \A i \in Jobs : ~job'[i].fresh
        BY <3>0, <4>a, <4>b, <1>WritesSteps
      <4>3. Sets(h) /\ \A m \in Nodes : h.node # m => role'[m] = role[m]
        BY <3>2, <4>1 DEF Sets
      <4> QED
        BY <3>h, <3>0, <4>1, <4>c, <4>3 DEF PlainStep
    <3>6. ASSUME DropCopy(j) \/ Key(j) PROVE PlainStep(j, h)
      <4>1. /\ h.what \in {"demote", "leave", "key+", "key-"} /\ Goes(j, <<>>)
            /\ capable' = capable /\ size' = size /\ role' = role
        BY <3>h, <3>6 DEF DropCopy, Key, Comes, conf
      <4>2. Stepped(j, <<>>)
        BY <3>0, <4>1, <1>GoesSteps
      <4> QED
        BY <3>h, <3>0, <4>1, <4>2 DEF PlainStep
    <3>7. ASSUME Cert(j) PROVE PlainStep(j, h)
      <4>1. /\ h.what \in {"cert+", "cert-"}
            /\ Goes(j, <<>>) \/ Writes(j, TRUE, FALSE, <<>>)
            /\ capable' = capable /\ size' = size /\ role' = role
        BY <3>h, <3>7 DEF Cert, Comes, conf
      <4>2. Stepped(j, <<>>)
        BY <3>0, <4>1, <1>GoesSteps, <1>WritesSteps
      <4> QED
        BY <3>h, <3>0, <4>1, <4>2 DEF PlainStep
    <3>8. ASSUME UpdateCluster(j) PROVE PlainStep(j, h)
      <4> DEFINE read == job[j].read
                 undo == (certs \ read.certs) \cup (read.certs \ certs)
      <4>1. /\ h.what = "cluster" /\ capable' = capable /\ role' = role
            /\ \/ Goes(j, <<>>) /\ size' = size
               \/ /\ job[j].fresh /\ size' = job[j].read.pool
                  /\ Writes(j, undo # {}, TRUE, <<>>)
        BY <3>h, <3>8 DEF UpdateCluster, Comes
      <4>2. CASE Goes(j, <<>>) /\ size' = size
        <5>1. Stepped(j, <<>>)
          BY <3>0, <4>2, <1>GoesSteps
        <5> QED
          BY <3>h, <3>0, <4>1, <4>2, <5>1 DEF PlainStep
      <4>3. CASE /\ job[j].fresh /\ size' = job[j].read.pool
                 /\ Writes(j, undo # {}, TRUE, <<>>)
        <5> DEFINE full == undo # {}
        <5>a. full \in BOOLEAN
          BY SMT
        <5>b. Writes(j, full, TRUE, <<>>)
          BY <4>3
        <5> HIDE DEF full
        <5>c. Stepped(j, <<>>) /\ \A i \in Jobs : ~job'[i].fresh
          BY <3>0, <5>a, <5>b, <1>WritesSteps
        <5> QED
          BY <3>h, <3>0, <4>1, <4>3, <5>c DEF PlainStep
      <4> QED
        BY <4>1, <4>2, <4>3
    <3> QED
      BY <3>h, <3>3, <3>4, <3>5, <3>6, <3>7, <3>8

  <2>1. ASSUME NEW j \in Jobs, IInv, \/ Update(j) \/ SetRole(j) \/ AddNode(j) \/ DropCopy(j)
                                    \/ Cert(j) \/ Key(j) \/ UpdateCluster(j)
        PROVE  \A i \in Jobs : PoolOK(i)' /\ FreshOK(i)'
    <3>1. PlainStep(j, Head(job[j].todo))
      BY <2>1, <2>PlainSteps DEF IInv
    <3> QED
      BY <2>1, <3>1, <2>StepPool
  <2> QED
    BY <2>1

\* The pool stays as it is while jobs only wait or end.
<1>KeepPool.
  ASSUME NEW i \in Jobs, PoolOK(i), FreshOK(i), Kept(i), role' = role,
         capable' = capable, size' = size
  PROVE  PoolOK(i)' /\ FreshOK(i)'
  <2> USE <1>KeepPool
  <2>1. /\ job'[i].node = job[i].node /\ job'[i].lock = job[i].lock
        /\ job'[i].adjusts = job[i].adjusts /\ job'[i].read = job[i].read
        /\ job'[i].fresh => job[i].fresh
        /\ job'[i].todo = job[i].todo
    BY DEF Kept
  <2>2. Todo(i)' = Todo(i)
    BY <2>1 DEF Todo
  <2>3. Candidates' = Candidates /\ Possible' = Possible
    BY DEF Candidates, Possible
  <2>4. FreshOK(i)'
    BY <2>1 DEF FreshOK
  <2>5. PoolOK(i)'
    BY <2>1, <2>2, <2>3 DEF PoolOK, mc_now, mc_should
  <2> QED
    BY <2>4, <2>5

<1>GonePool.
  ASSUME IInv, NEW j \in Jobs, job' = [job EXCEPT ![j] = NoJob],
         role' = role, capable' = capable, size' = size, NEW i \in Jobs
  PROVE  PoolOK(i)' /\ FreshOK(i)'
  <2> USE <1>GonePool
  <2>1. job \in [Jobs -> JobType] /\ PoolOK(i) /\ FreshOK(i)
    BY DEF IInv, RInv, TypeOK
  <2>2. CASE i = j
    <3>1. ~job'[i].adjusts /\ ~job'[i].fresh
      BY <2>1, <2>2, <1>NoJobFacts
    <3> QED
      BY <3>1 DEF PoolOK, FreshOK
  <2>3. CASE i # j
    <3>1. job'[i] = job[i]
      BY <2>1, <2>3
    <3>2. Kept(i)
      BY <3>1 DEF Kept
    <3> QED
      BY <2>1, <3>2, <1>KeepPool
  <2> QED
    BY <2>2, <2>3

<1>InitIInv.
  Init => IInv
  <2> SUFFICES ASSUME Init PROVE IInv
    OBVIOUS
  <2>1. /\ role = [n \in Nodes |-> IF n \in Founders THEN "candidate" ELSE "absent"]
        /\ capable = [n \in Nodes |-> TRUE] /\ size = PoolSize
        /\ certs = Founders /\ keys = Founders /\ copy = Founders
        /\ dirty = FALSE /\ upload = [on |-> FALSE, left |-> {}]
        /\ job = [j \in Jobs |-> NoJob]
        /\ owed = {} /\ count = [jobs |-> 0, faults |-> 0]
    BY DEF Init
  <2>2. Master \in Founders /\ Master \in Nodes /\ Founders \subseteq Nodes /\ PoolSize \in Nat
    BY Cluster
  <2>3. Candidates = Founders
    BY <2>1, <2>2 DEF Candidates
  <2>4. \A j \in Jobs : job[j] = NoJob
    BY <2>1
  <2>5. ASSUME NEW j \in Jobs
        PROVE  /\ job[j].op = "none" /\ job[j].lock = "none" /\ job[j].todo = <<>>
               /\ job[j].wait = "no" /\ ~job[j].adjusts /\ ~job[j].fresh
               /\ Todo(j) = {} /\ Ordered(job[j].todo)
    BY <2>4, <1>NoJobFacts, <1>ShortLists DEF Todo
  <2>6. TypeOK
    <3>1. job \in [Jobs -> JobType]
      BY <2>1, <1>NoJobFacts
    <3>2. role \in [Nodes -> Roles \cup {"absent"}]
      BY <2>1 DEF Roles, Flags
    <3>3. count \in [jobs : Nat, faults : Nat]
      BY SMT, <2>1
    <3> QED
      BY <2>1, <2>2, <3>1, <3>2, <3>3 DEF TypeOK
  <2>7. Mutex /\ MasterOK
    BY <2>1, <2>2, <2>5 DEF Mutex, MasterOK
  <2>8. \A j \in Jobs : JobOK(j) /\ PoolOK(j) /\ FreshOK(j)
    BY <2>5 DEF JobOK, Fits, PoolOK, FreshOK
  <2>9. ~upload.on
    BY <2>1
  <2>10. \A n \in Nodes : NodeOK(n)
    BY <2>1, <2>3, <2>9 DEF NodeOK, CertOK, KeyOK, NoSpareCopy, CopyComes, Late
  <2> QED
    BY <2>6, <2>7, <2>8, <2>10 DEF IInv, RInv

<1>StepKeepsIInv.
  IInv /\ [Next]_vars => IInv'
  <2> SUFFICES ASSUME IInv, [Next]_vars PROVE IInv'
    OBVIOUS
  <2>0. RInv
    BY DEF IInv
  <2>1. ASSUME NEW j \in Jobs, job[j].op = "none", NewJob(j) PROVE IInv'
    BY <2>1, <1>NewKeeps
  <2>2. ASSUME NEW j \in Jobs, \/ Update(j) \/ SetRole(j) \/ AddNode(j) \/ DropCopy(j)
                               \/ Cert(j) \/ Key(j) \/ UpdateCluster(j)
        PROVE  IInv'
    <3>1. RInv'
      BY <2>0, <2>2, <1>PlainKeeps
    <3>3. \A i \in Jobs : PoolOK(i)' /\ FreshOK(i)'
      BY <2>2, <1>PlainPool
    <3> QED
      BY <3>1, <3>3 DEF IInv
  <2>3. ASSUME NEW j \in Jobs, Adjust(j) PROVE IInv'
    BY <2>3, <1>AdjustStep
  <2>4. ASSUME NEW j \in Jobs, JobEnds(j) \/ JobFails(j) PROVE IInv'
    <3>1. RInv'
      BY <2>0, <2>4, <1>EndKeeps
    <3>2. /\ job' = [job EXCEPT ![j] = NoJob]
          /\ role' = role /\ capable' = capable /\ size' = size
      BY <2>4 DEF JobEnds, JobFails, conf
    <3>3. \A i \in Jobs : PoolOK(i)' /\ FreshOK(i)'
      BY <3>2, <1>GonePool
    <3> QED
      BY <3>1, <3>3 DEF IInv
  <2>5. ASSUME UploadStarts PROVE IInv'
    <3>1. RInv'
      BY <2>0, <2>5, <1>UploadKeeps
    <3>2. /\ job' = [i \in Jobs |-> [job[i] EXCEPT !.wait = IF @ = "due" THEN "sent" ELSE @]]
          /\ role' = role /\ capable' = capable /\ size' = size /\ keys' = keys
      BY <2>5 DEF UploadStarts, conf
    <3>3. Candidates' = Candidates
      BY <3>2 DEF Candidates
    <3>4. \A i \in Jobs : Kept(i)
      BY <2>0, <3>2, <3>3, <1>WaitChanges
    <3>5. \A i \in Jobs : PoolOK(i)' /\ FreshOK(i)'
      BY ZenonT(60), <3>2, <3>4, <1>KeepPool DEF IInv
    <3> QED
      BY <3>1, <3>5 DEF IInv
  <2>6. ASSUME NEW missed, UploadEnds(missed) PROVE IInv'
    <3>1. RInv'
      BY <2>0, <2>6, <1>UploadKeeps
    <3>2. /\ job' = [i \in Jobs |-> [job[i] EXCEPT !.wait = IF @ = "sent" THEN "no" ELSE @]]
          /\ role' = role /\ capable' = capable /\ size' = size /\ keys' = keys
      BY <2>6 DEF UploadEnds, conf
    <3>3. Candidates' = Candidates
      BY <3>2 DEF Candidates
    <3>4. \A i \in Jobs : Kept(i)
      BY <2>0, <3>2, <3>3, <1>WaitChanges
    <3>5. \A i \in Jobs : PoolOK(i)' /\ FreshOK(i)'
      BY <3>2, <3>4, <1>KeepPool DEF IInv
    <3> QED
      BY <3>1, <3>5 DEF IInv
  <2>7. ASSUME vars' = vars PROVE IInv'
    <3>1. /\ role' = role /\ capable' = capable /\ size' = size /\ certs' = certs
          /\ keys' = keys /\ copy' = copy /\ dirty' = dirty /\ upload' = upload
          /\ job' = job /\ owed' = owed /\ count' = count
      BY <2>7 DEF vars
    <3>2. Candidates' = Candidates
      BY <3>1 DEF Candidates
    <3>3. \A i \in Jobs : Kept(i)
      BY <3>1 DEF Kept
    <3>4. \A i \in Jobs : PoolOK(i)' /\ FreshOK(i)'
      BY <3>1, <3>3, <1>KeepPool DEF IInv
    <3>5. \A i \in Jobs : JobOK(i)'
      BY <2>0, <3>1, <3>2, <3>3, <1>KeepJob DEF RInv
    <3>6. TypeOK' /\ MasterOK' /\ Mutex'
      BY <2>0, <3>1 DEF RInv, TypeOK, MasterOK, Mutex
    <3>7. \A i \in Jobs : \A n, w : Has(i, n, w) => Has(i, n, w)'
      BY <3>1 DEF Has, Todo
    <3>8. \A i \in Jobs : \A n : Rejoins(i, n) => Rejoins(i, n)'
      BY <3>1, <3>7 DEF Rejoins, Todo
    <3>9. \A i \in Jobs : \A n : Awaits(i, n) => Awaits(i, n)'
      BY <3>1, <3>7 DEF Awaits, HasDrop, Excl
    <3>10. \A n \in Nodes : NodeOK(n)'
      BY <2>0, <3>1, <3>2, <3>7, <3>8, <3>9, <1>KeepNode DEF RInv
    <3> QED
      BY <3>4, <3>5, <3>6, <3>10 DEF IInv, RInv
  <2> QED
    BY <2>1, <2>2, <2>3, <2>4, <2>5, <2>6, <2>7 DEF Next, Step

<1>SettledNode.
  ASSUME RInv, NEW n \in Nodes, Settled(n)
  PROVE  \A j \in Jobs : /\ \A s \in Todo(j) : s.node # n
                         /\ \A w : ~Has(j, n, w)
                         /\ ~HasDrop(j, n) /\ ~Rejoins(j, n)
  <2> USE <1>SettledNode
  <2> SUFFICES ASSUME NEW j \in Jobs
               PROVE  /\ \A s \in Todo(j) : s.node # n
                      /\ \A w : ~Has(j, n, w)
                      /\ ~HasDrop(j, n) /\ ~Rejoins(j, n)
    OBVIOUS
  <2>1. \A s \in Todo(j) : s.node # n
    BY DEF Settled, Todo, Range
  <2>2. \A w : ~Has(j, n, w)
    BY <2>1 DEF Has
  <2> QED
    BY <2>1, <2>2 DEF HasDrop, Rejoins

<1>Rights.
  IInv => RightsFollowRole
  <2> SUFFICES ASSUME IInv, NEW n \in Nodes, Settled(n)
               PROVE  /\ \/ n \in certs <=> n \in Candidates
                         \/ {<<"cert", n>>, <<"lost", n>>} \cap owed # {}
                      /\ \/ n \in keys <=> n \in Candidates
                         \/ <<"key", n>> \in owed
    BY DEF RightsFollowRole
  <2>1. CertOK(n) /\ KeyOK(n) /\ RInv
    BY DEF IInv, RInv, NodeOK
  <2>2. \A j \in Jobs : \A w : ~Has(j, n, w)
    BY <2>1, <1>SettledNode
  <2> QED
    BY <2>1, <2>2 DEF CertOK, KeyOK

<1>Copies.
  IInv => CopiesFollowRole
  <2> SUFFICES ASSUME IInv, ~dirty, ~upload.on, NEW n \in Nodes, Settled(n)
               PROVE  \/ n \in copy <=> n \in Candidates
                      \/ {<<"copy", n>>, <<"late", n>>} \cap owed # {}
    BY DEF CopiesFollowRole
  <2>1. NoSpareCopy(n) /\ CopyComes(n) /\ RInv
    BY DEF IInv, RInv, NodeOK
  <2>2. \A j \in Jobs : ~HasDrop(j, n) /\ ~Rejoins(j, n)
    BY <2>1, <1>SettledNode
  <2> QED
    BY <2>1, <2>2 DEF NoSpareCopy, CopyComes

<1>Pool.
  IInv => \A j \in Jobs : JobEnds(j) /\ job[j].adjusts =>
            mc_now({job[j].node}) >= mc_should({job[j].node})
  <2> SUFFICES ASSUME IInv, NEW j \in Jobs, JobEnds(j), job[j].adjusts
               PROVE  mc_now({job[j].node}) >= mc_should({job[j].node})
    OBVIOUS
  <2>1. PoolOK(j) /\ job[j].todo = <<>>
    BY DEF IInv, JobEnds
  <2>2. Todo(j) = {}
    BY <2>1, <1>ShortLists DEF Todo
  <2> QED
    BY <2>1, <2>2 DEF PoolOK

<1> QED
  BY <1>InitIInv, <1>StepKeepsIInv, <1>Rights, <1>Copies, <1>Pool

-----------------------------------------------------------------------------
(* The theorems. *)

INSTANCE FiniteSetTheorems

\* What lemma Core assumes of finite sets.
LEMMA FiniteCounting == Counting
<1>1. IsFiniteSet({}) /\ Cardinality({}) = 0
  BY FS_EmptySet
<1>2. \A S : IsFiniteSet(S) =>
        /\ Cardinality(S) \in Nat
        /\ \A R \in SUBSET S : IsFiniteSet(R) /\ Cardinality(R) <= Cardinality(S)
  BY FS_CardinalityType, FS_Subset
<1>3. \A a, b \in Int : /\ IsFiniteSet(a..b)
                       /\ Cardinality(a..b) = IF a > b THEN 0 ELSE b - a + 1
  BY FS_Interval
<1>4. \A S, R : IsFiniteSet(R) => \A f \in Injection(S, R) :
        f \in Surjection(S, R) => Cardinality(S) = Cardinality(R)
  BY FS_Injection
<1>5. \A S, R : IsFiniteSet(S) /\ IsFiniteSet(R) =>
        /\ IsFiniteSet(S \cup R)
        /\ Cardinality(S \cup R) = Cardinality(S) + Cardinality(R) - Cardinality(S \cap R)
  BY FS_Union
<1> QED
  BY <1>1, <1>2, <1>3, <1>4, <1>5 DEF Counting

\* The invariant of the node operations: whichever jobs run side by side and
\* fail, each node has what its role gives it, or the list of a job still
\* sees to it, or a failure has left it undone; and the jobs that hold the
\* locks of ganeti.cmdlib.node do not get in each other's way.
THEOREM RolesInvariant == Spec => []IInv
<1>1. Init => IInv
  BY FiniteCounting, Core
<1>2. IInv /\ [Next]_vars => IInv'
  BY FiniteCounting, Core
<1> QED
  BY <1>1, <1>2, PTL DEF Spec

\* A node that no job is at work on has the certificate and the SSH key of a
\* master candidate exactly if it is one, but for what failed jobs and
\* overwritten cluster objects leave (LUNodeSetParams.Exec, LUNodeAdd.Exec,
\* LUNodeRemove.Exec, AdjustCandidatePool).
THEOREM RightsAreTheRoles == Spec => []RightsFollowRole
<1>1. IInv => RightsFollowRole
  BY FiniteCounting, Core
<1> QED
  BY <1>1, RolesInvariant, PTL

\* Once the configuration is distributed, a node that no job is at work on
\* has a copy of it exactly if it is a master candidate, but for what failed
\* uploads and failed jobs leave: the demotion that follows the write of the
\* configuration is never undone by an upload of an earlier version
\* (node_demote_from_mc in LUNodeSetParams.Exec, distMCsAsyncTask).
THEOREM CopiesAreTheRoles == Spec => []CopiesFollowRole
<1>1. IInv => CopiesFollowRole
  BY FiniteCounting, Core
<1> QED
  BY <1>1, RolesInvariant, PTL

\* When a job that adjusts the candidate pool ends, there are as many master
\* candidates besides its node as there should be: the locks that
\* LUNodeSetParams takes for an auto-promotion and LUNodeRemove holds keep
\* every other job from taking one away, or the pool size from changing,
\* between MaintainCandidatePool and the end of the job.
THEOREM PoolStaysRestored == Spec => PoolRestored
<1> DEFINE A == \A j \in Jobs : JobEnds(j) /\ job[j].adjusts =>
                  mc_now({job[j].node}) >= mc_should({job[j].node})
<1>1. IInv => A
  BY FiniteCounting, Core
<1>2. IInv /\ [Next]_vars => [A]_vars
  BY <1>1
<1> QED
  BY <1>2, RolesInvariant, PTL DEF Spec, PoolRestored
=============================================================================
