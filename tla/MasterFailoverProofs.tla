-------------------------- MODULE MasterFailoverProofs --------------------------
(***************************************************************************)
(* The master role, for any cluster and any number of changes, failovers   *)
(* and faults.                                                             *)
(*                                                                         *)
(* At most one node leads: a leader's file names it as the master, and two *)
(* files that name their own nodes can only coexist while a failover still *)
(* uploads its new configuration to the other node, or because that upload *)
(* failed.  A leader has the changes that were on every candidate, and a   *)
(* failover that passed its checks succeeds if nothing disturbs it; each   *)
(* of the two has an invariant of its own, on top of the first.            *)
(***************************************************************************)
EXTENDS MasterFailover, TLAPS

Conf == [master : Nodes, changes : SUBSET Nat]
Distribution == [todo : SUBSET Nodes, load : Conf, names : BOOLEAN, failed : BOOLEAN]
Failovers == [pc : {"idle", "wconfd", "update", "stop", "start"}, old : Nodes]
Counts == [changes : Nat, failovers : Nat, faults : Nat]

Typed ==
  /\ up \in [Nodes -> BOOLEAN] /\ ss \in [Nodes -> Nodes]
  /\ cfg \in [Nodes -> Conf] /\ mem \in [Nodes -> Conf]
  /\ run \in [Nodes -> {"no", "forced", "elected", "yes"}]
  /\ clean \in [Nodes -> BOOLEAN] /\ told \in [Nodes -> BOOLEAN]
  /\ dist \in [Nodes -> Distribution] /\ fo \in [Nodes -> Failovers]
  /\ count \in Counts

\* What the daemons of n do at each step of a failover on n.
Phase(n) ==
  /\ fo[n].pc = "wconfd" => run[n] = "no"
  /\ fo[n].pc = "update" => run[n] = "forced" /\ dist[n].todo = {}
  /\ fo[n].pc = "stop" => run[n] = "forced"
  /\ fo[n].pc = "start" => run[n] \in {"no", "elected"} /\ dist[n].todo = {}
  /\ fo[n].pc # "idle" \/ run[n] # "no" => up[n] /\ n \in Candidates
  /\ up[n] => n \notin Offline

\* What a WConfd that can write works with is the file.
Fresh(n) == Working(n) /\ clean[n] => mem[n] = cfg[n]

\* The file of n names n.
Named(n) == cfg[n].master = n
Eligible(n) == Named(n) => n \in Candidates \ Offline

\* A failover on n has its configuration still to send to m.
Crossing(n, m) == /\ m \in dist[n].todo /\ dist[n].load.master # m
                  /\ run[n] # "yes"
Told(n, m) == \/ <<n, m>> \in missed \/ <<m, n>> \in missed
              \/ Crossing(n, m) \/ Crossing(m, n)

Pair(n, m) == n # m /\ Named(n) /\ Named(m) => Told(n, m)

IInv == /\ Typed
        /\ \A n \in Nodes : Phase(n) /\ Fresh(n) /\ Eligible(n)
        /\ \A n, m \in Nodes : Pair(n, m)

-----------------------------------------------------------------------------
(* The pieces.                                                             *)

LEMMA Constants ==
  /\ Founder \in Nodes /\ First \in Conf /\ First.master = Founder
  /\ Quiet \in Distribution /\ Quiet.todo = {}
  /\ NoFailover \in Failovers /\ NoFailover.pc = "idle"
BY Zenon, Cluster DEF First, Conf, Quiet, Distribution, NoFailover, Failovers

LEMMA SpentTyped ==
  ASSUME count \in Counts PROVE Spent \in Counts
BY DEF Counts, Spent

LEMMA AnswersTyped ==
  ASSUME count \in Counts, NEW S, NEW a \in Answers(S) PROVE a.count \in Counts
BY SpentTyped DEF Answers

\* A failover goes on to its next step.
LEMMA FailoverMoves ==
  ASSUME fo \in [Nodes -> Failovers], NEW n \in Nodes,
         NEW p \in {"update", "stop", "start"}, fo' = [fo EXCEPT ![n].pc = p]
  PROVE  /\ fo' \in [Nodes -> Failovers] /\ fo'[n].pc = p
         /\ \A k \in Nodes \ {n} : fo'[k] = fo[k]
<1> DEFINE f == [fo[n] EXCEPT !.pc = p]
<1>1. f \in Failovers /\ f.pc = p
  BY DEF Failovers
<1>2. fo' = [fo EXCEPT ![n] = f]
  BY Zenon
<1> HIDE DEF f
<1> QED  BY Zenon, <1>1, <1>2

\* A step that writes no file and starts no upload disturbs a pair of files
\* only by starting daemons whose upload has not ended.
LEMMA PairKept ==
  ASSUME IInv, cfg' = cfg, missed' = missed, dist' = dist,
         \A n \in Nodes : run'[n] = "yes" => run[n] = "yes" \/ dist[n].todo = {}
  PROVE  \A n, m \in Nodes : Pair(n, m)'
BY ZenonT(60) DEF IInv, Pair, Named, Told, Crossing

\* Such a step concerns the daemons alone.
LEMMA QuietStep ==
  ASSUME IInv, cfg' = cfg, missed' = missed, dist' = dist, Typed',
         \A n \in Nodes : Phase(n)' /\ Fresh(n)',
         \A n \in Nodes : run'[n] = "yes" => run[n] = "yes" \/ dist[n].todo = {}
  PROVE  IInv'
<1>1. \A n \in Nodes : Eligible(n)'
  BY Zenon DEF IInv, Eligible, Named
<1> QED  BY Zenon, <1>1, PairKept DEF IInv

LEMMA ElectStep ==
  ASSUME IInv, NEW n \in Nodes, Elect(n)
  PROVE  IInv'
<1>1. /\ run' = [run EXCEPT ![n] = "elected"] /\ n \in Candidates /\ up[n]
      /\ up' = up /\ ss' = ss /\ cfg' = cfg /\ mem' = mem /\ clean' = clean
      /\ told' = told /\ dist' = dist /\ fo' = fo /\ missed' = missed /\ count' = count
      /\ fo[n].pc \in {"idle", "start"}
  BY Zenon DEF Elect, files
<1>2. Typed /\ \A k \in Nodes : Phase(k) /\ Fresh(k)
  BY Zenon DEF IInv
<1>3. /\ run'[n] = "elected" /\ \A k \in Nodes \ {n} : run'[k] = run[k]
      /\ run' \in [Nodes -> {"no", "forced", "elected", "yes"}]
  BY Zenon, <1>1, <1>2 DEF Typed
<1>4. Typed'
  BY Zenon, <1>1, <1>2, <1>3 DEF Typed
<1>5. \A k \in Nodes : Phase(k)'
  BY ZenonT(60), <1>1, <1>2, <1>3 DEF Phase
<1>6. \A k \in Nodes : Fresh(k)'
  BY Zenon, <1>1, <1>2, <1>3 DEF Fresh, Working
<1> QED  BY Zenon, <1>1, <1>3, <1>4, <1>5, <1>6, QuietStep

\* The daemons of n load the file of n.
LEMMA LoadedFresh ==
  ASSUME Typed, NEW n \in Nodes, NEW as \in {"forced", "yes"}, Loaded(n, as)
  PROVE  /\ run' \in [Nodes -> {"no", "forced", "elected", "yes"}]
         /\ mem' \in [Nodes -> Conf] /\ clean' \in [Nodes -> BOOLEAN]
         /\ told' \in [Nodes -> BOOLEAN]
         /\ run'[n] = as /\ mem'[n] = cfg[n]
         /\ \A k \in Nodes \ {n} :
              run'[k] = run[k] /\ mem'[k] = mem[k] /\ clean'[k] = clean[k]
BY Zenon DEF Typed, Loaded

LEMMA LoadStep ==
  ASSUME IInv, NEW n \in Nodes, Load(n)
  PROVE  IInv'
<1>1. /\ run[n] = "elected" /\ dist[n].todo = {} /\ Loaded(n, "yes")
      /\ fo' = [fo EXCEPT ![n] = IF @.pc = "start" THEN NoFailover ELSE @]
      /\ up' = up /\ ss' = ss /\ cfg' = cfg /\ dist' = dist /\ missed' = missed
      /\ count' = count
  BY Zenon DEF Load, files
<1>2. Typed /\ \A k \in Nodes : Phase(k) /\ Fresh(k)
  BY Zenon DEF IInv
<1>3. fo' \in [Nodes -> Failovers] /\ fo'[n].pc \notin {"wconfd", "update", "stop", "start"}
      /\ \A k \in Nodes \ {n} : fo'[k] = fo[k]
  BY <1>1, <1>2, Constants DEF Typed, Phase
<1>4. Typed'
  BY ZenonT(60), <1>1, <1>2, <1>3, LoadedFresh DEF Typed
<1>5. \A k \in Nodes : Phase(k)'
  BY <1>1, <1>2, <1>3, LoadedFresh DEF Phase
<1>6. \A k \in Nodes : Fresh(k)'
  BY ZenonT(60), <1>1, <1>2, LoadedFresh DEF Fresh, Working
<1> QED  BY ZenonT(60), <1>1, <1>2, <1>4, <1>5, <1>6, QuietStep, LoadedFresh

LEMMA StartWConfdStep ==
  ASSUME IInv, NEW n \in Nodes, StartWConfd(n)
  PROVE  IInv'
<1>1. /\ fo[n].pc = "wconfd" /\ dist[n].todo = {} /\ Loaded(n, "forced")
      /\ fo' = [fo EXCEPT ![n].pc = "update"]
      /\ up' = up /\ ss' = ss /\ cfg' = cfg /\ dist' = dist /\ missed' = missed
      /\ count' = count
  BY Zenon DEF StartWConfd, files
<1>2. Typed /\ \A k \in Nodes : Phase(k) /\ Fresh(k)
  BY Zenon DEF IInv
<1>3. fo' \in [Nodes -> Failovers] /\ fo'[n].pc = "update"
      /\ \A k \in Nodes \ {n} : fo'[k] = fo[k]
  BY Zenon, <1>1, <1>2, FailoverMoves DEF Typed
<1>4. Typed'
  BY Zenon, <1>1, <1>2, <1>3, LoadedFresh DEF Typed
<1>5. \A k \in Nodes : Phase(k)'
  BY <1>1, <1>2, <1>3, LoadedFresh DEF Phase
<1>6. \A k \in Nodes : Fresh(k)'
  BY <1>1, <1>2, LoadedFresh DEF Fresh, Working
<1> QED  BY Zenon, <1>1, <1>2, <1>4, <1>5, <1>6, QuietStep, LoadedFresh

LEMMA StartUnvotedStep ==
  ASSUME IInv, NEW n \in Nodes, StartUnvoted(n)
  PROVE  IInv'
<1>1. /\ fo[n].pc = "start" /\ Loaded(n, "yes")
      /\ fo' = [fo EXCEPT ![n] = NoFailover]
      /\ up' = up /\ ss' = ss /\ cfg' = cfg /\ dist' = dist /\ missed' = missed
      /\ count' = count
  BY Zenon DEF StartUnvoted, files
<1>2. Typed /\ \A k \in Nodes : Phase(k) /\ Fresh(k)
  BY Zenon DEF IInv
<1>3. fo' \in [Nodes -> Failovers] /\ fo'[n].pc = "idle"
      /\ \A k \in Nodes \ {n} : fo'[k] = fo[k]
  BY Zenon, <1>1, <1>2, Constants DEF Typed
<1>4. Typed'
  BY Zenon, <1>1, <1>2, <1>3, LoadedFresh DEF Typed
<1>5. \A k \in Nodes : Phase(k)'
  BY <1>1, <1>2, <1>3, LoadedFresh DEF Phase
<1>6. \A k \in Nodes : Fresh(k)'
  BY <1>1, <1>2, LoadedFresh DEF Fresh, Working
<1>7. dist[n].todo = {}
  BY Zenon, <1>1, <1>2 DEF Phase
<1> QED  BY ZenonT(60), <1>1, <1>2, <1>4, <1>5, <1>6, <1>7, QuietStep, LoadedFresh

LEMMA StartFailsStep ==
  ASSUME IInv, NEW n \in Nodes, StartFails(n)
  PROVE  IInv'
<1>1. /\ fo' = [fo EXCEPT ![n] = NoFailover]
      /\ up' = up /\ ss' = ss /\ cfg' = cfg /\ run' = run /\ mem' = mem /\ clean' = clean
      /\ told' = told /\ dist' = dist /\ missed' = missed
  BY Zenon DEF StartFails, files, daemon
<1>2. Typed /\ \A k \in Nodes : Phase(k) /\ Fresh(k)
  BY Zenon DEF IInv
<1>3. count' \in Counts
  BY ZenonT(60), <1>2, AnswersTyped DEF StartFails, Typed
<1>4. fo' \in [Nodes -> Failovers] /\ fo'[n].pc = "idle"
      /\ \A k \in Nodes \ {n} : fo'[k] = fo[k]
  BY Zenon, <1>1, <1>2, Constants DEF Typed
<1>5. Typed'
  BY Zenon, <1>1, <1>2, <1>3, <1>4 DEF Typed
<1>6. \A k \in Nodes : Phase(k)' /\ Fresh(k)'
  BY ZenonT(60), <1>1, <1>2, <1>4 DEF Phase, Fresh, Working
<1> QED  BY Zenon, <1>1, <1>5, <1>6, QuietStep

LEMMA FailoverCheckStep ==
  ASSUME IInv, NEW n \in Nodes, FailoverCheck(n)
  PROVE  IInv'
<1>1. /\ fo' = [fo EXCEPT ![n] = [pc |-> "wconfd", old |-> ss[n]]]
      /\ up' = up /\ ss' = ss /\ cfg' = cfg /\ run' = run /\ mem' = mem /\ clean' = clean
      /\ told' = told /\ dist' = dist /\ missed' = missed
      /\ up[n] /\ run[n] = "no" /\ n \in Candidates
  BY Zenon DEF FailoverCheck, files, daemon
<1>2. Typed /\ \A k \in Nodes : Phase(k) /\ Fresh(k)
  BY Zenon DEF IInv
<1>3. count' \in Counts
  <2>1. \A c \in Counts : [c EXCEPT !.failovers = @ + 1] \in Counts
    BY DEF Counts
  <2> QED  BY <1>2, <2>1, AnswersTyped DEF FailoverCheck, Typed
<1>4. fo' \in [Nodes -> Failovers] /\ fo'[n].pc = "wconfd"
      /\ \A k \in Nodes \ {n} : fo'[k] = fo[k]
  BY Zenon, <1>1, <1>2 DEF Typed, Failovers
<1>5. Typed'
  BY Zenon, <1>1, <1>2, <1>3, <1>4 DEF Typed
<1>6. \A k \in Nodes : Phase(k)' /\ Fresh(k)'
  BY ZenonT(60), <1>1, <1>2, <1>4 DEF Phase, Fresh, Working
<1> QED  BY Zenon, <1>1, <1>5, <1>6, QuietStep

LEMMA BootStep ==
  ASSUME IInv, NEW n \in Nodes, Boot(n)
  PROVE  IInv'
<1>1. /\ up' = [up EXCEPT ![n] = TRUE] /\ n \notin Offline
      /\ ss' = ss /\ cfg' = cfg /\ run' = run /\ mem' = mem /\ clean' = clean
      /\ told' = told /\ dist' = dist /\ missed' = missed /\ fo' = fo /\ count' = count
  BY Zenon DEF Boot, files, daemon
<1>2. Typed /\ \A k \in Nodes : Phase(k) /\ Fresh(k)
  BY Zenon DEF IInv
<1>3. up' \in [Nodes -> BOOLEAN] /\ up'[n] /\ \A k \in Nodes \ {n} : up'[k] = up[k]
  BY Zenon, <1>1, <1>2 DEF Typed
<1>4. Typed'
  BY Zenon, <1>1, <1>2, <1>3 DEF Typed
<1>5. \A k \in Nodes : Phase(k)' /\ Fresh(k)'
  BY ZenonT(60), <1>1, <1>2, <1>3 DEF Phase, Fresh, Working
<1> QED  BY Zenon, <1>1, <1>4, <1>5, QuietStep

\* What is left of the daemons after some stopped.
LEMMA StoppedFresh ==
  ASSUME Typed, NEW S, Stopped(S)
  PROVE  /\ run' \in [Nodes -> {"no", "forced", "elected", "yes"}]
         /\ mem' \in [Nodes -> Conf] /\ clean' \in [Nodes -> BOOLEAN]
         /\ told' \in [Nodes -> BOOLEAN]
         /\ \A k \in Nodes : IF k \in S THEN run'[k] = "no"
                             ELSE run'[k] = run[k] /\ mem'[k] = mem[k] /\ clean'[k] = clean[k]
<1>1. run' \in [Nodes -> {"no", "forced", "elected", "yes"}]
  BY Zenon DEF Typed, Stopped
<1>2. mem' \in [Nodes -> Conf]
  BY Zenon, Constants DEF Typed, Stopped
<1>3. clean' \in [Nodes -> BOOLEAN] /\ told' \in [Nodes -> BOOLEAN]
  BY Zenon DEF Typed, Stopped
<1>4. \A k \in Nodes : IF k \in S THEN run'[k] = "no"
                         ELSE run'[k] = run[k] /\ mem'[k] = mem[k] /\ clean'[k] = clean[k]
  BY Zenon DEF Typed, Stopped
<1> QED  BY Zenon, <1>1, <1>2, <1>3, <1>4

LEMMA StopOldMasterStep ==
  ASSUME IInv, NEW n \in Nodes, StopOldMaster(n)
  PROVE  IInv'
<1>1. /\ fo[n].pc = "stop" /\ dist[n].todo = {}
      /\ fo' = [fo EXCEPT ![n].pc = "start"]
      /\ up' = up /\ ss' = ss /\ cfg' = cfg /\ dist' = dist /\ missed' = missed
  BY Zenon DEF StopOldMaster, files
<1>2. Typed /\ \A k \in Nodes : Phase(k) /\ Fresh(k)
  BY Zenon DEF IInv
<1>3. PICK S : n \in S /\ Stopped(S) /\ \A k \in S \ {n} : run[k] = "yes"
  BY ZenonT(60) DEF StopOldMaster
<1>4. count' \in Counts
  BY Zenon, <1>2, SpentTyped DEF StopOldMaster, Typed
<1>5. fo' \in [Nodes -> Failovers] /\ fo'[n].pc = "start"
      /\ \A k \in Nodes \ {n} : fo'[k] = fo[k]
  BY Zenon, <1>1, <1>2, FailoverMoves DEF Typed
<1>6. Typed'
  BY Zenon, <1>1, <1>2, <1>3, <1>4, <1>5, StoppedFresh DEF Typed
<1>7. \A k \in Nodes : IF k \in S THEN run'[k] = "no"
                       ELSE run'[k] = run[k] /\ mem'[k] = mem[k] /\ clean'[k] = clean[k]
  BY Zenon, <1>2, <1>3, StoppedFresh
<1>8. Phase(n)'
  BY Zenon, <1>1, <1>2, <1>3, <1>5, <1>7 DEF Phase
<1>9. ASSUME NEW k \in Nodes \ {n} PROVE Phase(k)'
  <2>1. CASE k \in S
    <3>1. run[k] = "yes" /\ fo[k].pc \notin {"wconfd", "update", "stop", "start"}
      BY Zenon, <1>2, <1>3, <2>1 DEF Phase
    <3> QED  BY Zenon, <1>1, <1>2, <1>5, <1>7, <2>1, <3>1 DEF Phase
  <2>2. CASE k \notin S
    BY <1>1, <1>2, <1>5, <1>7, <2>2 DEF Phase
  <2> QED  BY Zenon, <2>1, <2>2
<1>10. \A k \in Nodes : Fresh(k)'
  BY Zenon, <1>1, <1>2, <1>7 DEF Fresh, Working
<1> QED  BY Zenon, <1>1, <1>6, <1>7, <1>8, <1>9, <1>10, QuietStep

LEMMA DaemonsDieStep ==
  ASSUME IInv, NEW n \in Nodes, DaemonsDie(n)
  PROVE  IInv'
<1>1. /\ run[n] \in {"yes", "elected"} /\ count' = Spent /\ Stopped({n}) /\ fo' = fo
      /\ up' = up /\ ss' = ss /\ cfg' = cfg /\ dist' = dist /\ missed' = missed
  BY Zenon DEF DaemonsDie, files
<1>2. Typed /\ \A k \in Nodes : Phase(k) /\ Fresh(k)
  BY Zenon DEF IInv
<1>3. Typed'
  BY Zenon, <1>1, <1>2, SpentTyped, StoppedFresh DEF Typed
<1>4. run'[n] = "no" /\ \A k \in Nodes \ {n} :
        run'[k] = run[k] /\ mem'[k] = mem[k] /\ clean'[k] = clean[k]
  BY Zenon, <1>1, <1>2, StoppedFresh
<1>5. \A k \in Nodes : Phase(k)'
  BY ZenonT(60), <1>1, <1>2, <1>4 DEF Phase
<1>6. \A k \in Nodes : Fresh(k)'
  BY Zenon, <1>1, <1>2, <1>4 DEF Fresh, Working
<1> QED  BY Zenon, <1>1, <1>3, <1>4, <1>5, <1>6, QuietStep

\* The uploads a crash interrupts count as missed.
LEMMA CrashStep ==
  ASSUME IInv, NEW n \in Nodes, Crash(n)
  PROVE  IInv'
<1>1. /\ up' = [up EXCEPT ![n] = FALSE] /\ fo' = [fo EXCEPT ![n] = NoFailover]
      /\ dist' = [dist EXCEPT ![n] = Quiet]
  BY Zenon DEF Crash
<1>2. Stopped({n}) /\ count' = Spent /\ ss' = ss /\ cfg' = cfg
  BY Zenon DEF Crash, files
<1>3. /\ missed \subseteq missed'
      /\ \A m \in dist[n].todo : GetsFile(n, m) => <<n, m>> \in missed'
  BY Zenon DEF Crash
<1>4. /\ Typed /\ \A k \in Nodes : Phase(k) /\ Fresh(k) /\ Eligible(k)
      /\ \A k, m \in Nodes : Pair(k, m)
  BY Zenon DEF IInv
<1>5. /\ fo' \in [Nodes -> Failovers] /\ fo'[n].pc = "idle"
      /\ dist' \in [Nodes -> Distribution] /\ dist'[n].todo = {}
      /\ up' \in [Nodes -> BOOLEAN] /\ ~up'[n]
      /\ \A k \in Nodes \ {n} : fo'[k] = fo[k] /\ dist'[k] = dist[k] /\ up'[k] = up[k]
  BY Zenon, <1>1, <1>4, Constants DEF Typed
<1>6. /\ run' \in [Nodes -> {"no", "forced", "elected", "yes"}]
      /\ mem' \in [Nodes -> Conf] /\ clean' \in [Nodes -> BOOLEAN]
      /\ told' \in [Nodes -> BOOLEAN]
      /\ run'[n] = "no" /\ \A k \in Nodes \ {n} :
           run'[k] = run[k] /\ mem'[k] = mem[k] /\ clean'[k] = clean[k]
  BY Zenon, <1>2, <1>4, StoppedFresh
<1>7. Typed'
  BY Zenon, <1>2, <1>4, <1>5, <1>6, SpentTyped DEF Typed
<1>8. \A k \in Nodes : Phase(k)'
  BY <1>4, <1>5, <1>6 DEF Phase
<1>9. \A k \in Nodes : Fresh(k)' /\ Eligible(k)'
  BY Zenon, <1>2, <1>4, <1>6 DEF Fresh, Working, Eligible, Named
<1>10. ASSUME NEW k \in Nodes, NEW m \in Nodes, Named(m), Crossing(k, m)
       PROVE  Crossing(k, m)' \/ <<k, m>> \in missed'
  <2>1. CASE k = n
    <3>1. GetsFile(n, m)
      BY Zenon, <1>4, <1>10, <2>1 DEF GetsFile, Eligible, Crossing
    <3> QED  BY Zenon, <1>3, <1>10, <2>1, <3>1 DEF Crossing
  <2>2. CASE k # n
    BY Zenon, <1>5, <1>6, <1>10, <2>2 DEF Crossing
  <2> QED  BY Zenon, <2>1, <2>2
<1>11. \A k, m \in Nodes : Pair(k, m)'
  BY Zenon, <1>2, <1>3, <1>4, <1>10 DEF Pair, Named, Told
<1> QED  BY Zenon, <1>7, <1>8, <1>9, <1>11 DEF IInv

\* A write by n, which changes the master only in a failover, to n.
LEMMA SaveKeeps ==
  ASSUME IInv, NEW n \in Nodes, NEW c \in Conf, Working(n), Save(n, c),
         run[n] = "forced" \/ c.master = mem[n].master,
         dist[n].todo = {}, run' = run, missed' = missed
  PROVE  /\ cfg' \in [Nodes -> Conf] /\ mem' \in [Nodes -> Conf]
         /\ clean' = clean /\ dist' \in [Nodes -> Distribution]
         /\ \A k \in Nodes \ {n} : dist'[k] = dist[k]
         /\ \A k \in Nodes : Fresh(k)' /\ Eligible(k)'
         /\ \A k, m \in Nodes : Pair(k, m)'
<1>1. /\ Typed /\ \A k \in Nodes : Phase(k) /\ Fresh(k) /\ Eligible(k)
      /\ \A k, m \in Nodes : Pair(k, m)
  BY Zenon DEF IInv
<1>2. /\ mem' \in [Nodes -> Conf] /\ mem'[n] = c /\ clean' = clean
      /\ \A k \in Nodes \ {n} : mem'[k] = mem[k]
  BY Zenon, <1>1 DEF Save, Typed
<1>3. n \in Candidates \ Offline
  BY Zenon, <1>1 DEF Working, Phase
<1>4. CASE ~clean[n]
  <2>1. cfg' = cfg /\ dist' = dist
    BY Zenon, <1>4 DEF Save
  <2>2. \A k \in Nodes : Fresh(k)' /\ Eligible(k)'
    BY Zenon, <1>1, <1>2, <1>4, <2>1 DEF Fresh, Working, Eligible, Named
  <2>3. \A k, m \in Nodes : Pair(k, m)'
    BY Zenon, <2>1, PairKept
  <2> QED  BY Zenon, <1>1, <1>2, <2>1, <2>2, <2>3 DEF Typed
<1>5. CASE clean[n]
  <2>1. cfg' = [cfg EXCEPT ![n] = c] /\ Upload(n, c, ~told[n])
    BY Zenon, <1>5 DEF Save
  <2>2. /\ cfg' \in [Nodes -> Conf] /\ cfg'[n] = c
        /\ \A k \in Nodes \ {n} : cfg'[k] = cfg[k]
    BY Zenon, <1>1, <2>1 DEF Typed
  <2>3. /\ dist' \in [Nodes -> Distribution] /\ dist'[n].load = c
        /\ \A k \in Nodes \ {n} : dist'[k] = dist[k]
        /\ \A k \in Candidates \ Offline : k # c.master => k \in dist'[n].todo
    <3>1. [todo |-> IF ~told[n] THEN Nodes \ Offline
                                ELSE Candidates \ ({c.master} \cup Offline),
           load |-> c, names |-> ~told[n], failed |-> FALSE] \in Distribution
      BY Zenon, <1>1, Cluster DEF Typed, Distribution
    <3> QED  BY Zenon, <1>1, <2>1, <3>1, Cluster DEF Upload, Typed
  <2>4. mem[n] = cfg[n]
    BY Zenon, <1>1, <1>5 DEF Fresh
  <2>5. \A k \in Nodes : Fresh(k)' /\ Eligible(k)'
    BY ZenonT(60), <1>1, <1>2, <1>3, <2>2 DEF Fresh, Working, Eligible, Named
  <2>6. \A k, m \in Nodes \ {n} : (Named(k)' <=> Named(k)) /\ (Crossing(k, m) => Crossing(k, m)')
    BY Zenon, <2>2, <2>3 DEF Named, Crossing
  <2>7. ASSUME NEW m \in Nodes \ {n}, Named(n)', Named(m)' PROVE Told(n, m)'
    <3>1. c.master = n /\ Named(m) /\ m \in Candidates \ Offline
      BY Zenon, <1>1, <2>2, <2>6, <2>7 DEF Named, Eligible
    <3>2. CASE run[n] # "yes"
      BY Zenon, <2>3, <3>1, <3>2 DEF Told, Crossing
    <3>3. CASE run[n] = "yes"
      <4>1. Named(n)
        BY Zenon, <2>4, <3>1, <3>3 DEF Named
      <4>2. Told(n, m)
        BY Zenon, <1>1, <3>1, <4>1 DEF Pair
      <4> QED  BY Zenon, <2>3, <3>3, <4>2 DEF Told, Crossing
    <3> QED  BY Zenon, <3>2, <3>3
  <2>8. ASSUME NEW k \in Nodes, NEW m \in Nodes PROVE Pair(k, m)'
    <3>1. CASE k # n /\ m # n
      BY Zenon, <1>1, <2>6, <3>1 DEF Pair, Told
    <3>2. CASE k = n
      BY Zenon, <2>7, <3>2 DEF Pair
    <3>3. CASE m = n
      BY Zenon, <2>7, <3>3 DEF Pair, Told
    <3> QED  BY Zenon, <3>1, <3>2, <3>3
  <2> QED  BY Zenon, <1>2, <2>2, <2>3, <2>5, <2>8
<1> QED  BY Zenon, <1>1, <1>4, <1>5 DEF Typed

LEMMA ChangeStep ==
  ASSUME IInv, NEW n \in Nodes, Change(n)
  PROVE  IInv'
<1> DEFINE c == [mem[n] EXCEPT !.changes = @ \cup {count.changes + 1}]
<1>1. /\ run[n] = "yes" /\ dist[n].todo = {} /\ Save(n, c)
      /\ count' = [count EXCEPT !.changes = @ + 1]
      /\ up' = up /\ ss' = ss /\ run' = run /\ told' = told /\ fo' = fo /\ missed' = missed
  BY Zenon DEF Change
<1>2. Typed /\ \A k \in Nodes : Phase(k)
  BY Zenon DEF IInv
<1>3. count' \in Counts /\ count.changes + 1 \in Nat
  BY <1>1, <1>2 DEF Typed, Counts
<1>4. c \in Conf /\ c.master = mem[n].master
  BY <1>2, <1>3 DEF Typed, Conf
<1> HIDE DEF c
<1>5. /\ cfg' \in [Nodes -> Conf] /\ mem' \in [Nodes -> Conf]
      /\ clean' = clean /\ dist' \in [Nodes -> Distribution]
      /\ \A k \in Nodes \ {n} : dist'[k] = dist[k]
      /\ \A k \in Nodes : Fresh(k)' /\ Eligible(k)'
      /\ \A k, m \in Nodes : Pair(k, m)'
  BY Zenon, <1>1, <1>4, SaveKeeps DEF Working
<1>6. Typed'
  BY Zenon, <1>1, <1>2, <1>3, <1>5 DEF Typed
<1>7. \A k \in Nodes : Phase(k)'
  BY ZenonT(60), <1>1, <1>2, <1>5 DEF Phase
<1> QED  BY Zenon, <1>5, <1>6, <1>7 DEF IInv

LEMMA UpdateStep ==
  ASSUME IInv, NEW n \in Nodes, Update(n)
  PROVE  IInv'
<1> DEFINE c == [mem[n] EXCEPT !.master = n]
<1>1. /\ fo[n].pc = "update" /\ Save(n, c) /\ fo' = [fo EXCEPT ![n].pc = "stop"]
      /\ up' = up /\ ss' = ss /\ run' = run /\ told' = told /\ missed' = missed
      /\ count' = count
  BY Zenon DEF Update
<1>2. Typed /\ \A k \in Nodes : Phase(k)
  BY Zenon DEF IInv
<1>3. run[n] = "forced" /\ dist[n].todo = {}
  BY Zenon, <1>1, <1>2 DEF Phase
<1>4. c \in Conf
  BY <1>2 DEF Typed, Conf
<1> HIDE DEF c
<1>5. /\ cfg' \in [Nodes -> Conf] /\ mem' \in [Nodes -> Conf]
      /\ clean' = clean /\ dist' \in [Nodes -> Distribution]
      /\ \A k \in Nodes \ {n} : dist'[k] = dist[k]
      /\ \A k \in Nodes : Fresh(k)' /\ Eligible(k)'
      /\ \A k, m \in Nodes : Pair(k, m)'
  BY Zenon, <1>1, <1>3, <1>4, SaveKeeps DEF Working
<1>6. fo' \in [Nodes -> Failovers] /\ fo'[n].pc = "stop"
      /\ \A k \in Nodes \ {n} : fo'[k] = fo[k]
  BY Zenon, <1>1, <1>2, FailoverMoves DEF Typed
<1>7. Typed'
  BY Zenon, <1>1, <1>2, <1>5, <1>6 DEF Typed
<1>8. \A k \in Nodes : Phase(k)'
  BY ZenonT(60), <1>1, <1>2, <1>3, <1>5, <1>6 DEF Phase
<1> QED  BY Zenon, <1>5, <1>7, <1>8 DEF IInv

LEMMA DeliverStep ==
  ASSUME IInv, NEW n \in Nodes, NEW m \in Nodes, Deliver(n, m)
  PROVE  IInv'
<1>1. PICK file \in BOOLEAN, name \in BOOLEAN :
       LET d == [dist[n] EXCEPT !.todo = @ \ {m},
                   !.failed = @ \/ (GetsFile(n, m) /\ ~file)
                                \/ (dist[n].names /\ ~name)]
       IN
       /\ (file => GetsFile(n, m)) /\ (name => dist[n].names)
       /\ up[m] \/ (~file /\ ~name)
       /\ \/ /\ ~up[m] \/ (file = GetsFile(n, m) /\ name = dist[n].names)
             /\ count' = count
          \/ /\ up[m] /\ (file # GetsFile(n, m) \/ name # dist[n].names)
             /\ Faulty /\ count' = Spent
       /\ cfg' = IF file THEN [cfg EXCEPT ![m] = dist[n].load] ELSE cfg
       /\ clean' = IF file THEN [clean EXCEPT ![m] = ~Working(m)] ELSE clean
       /\ ss' = IF name THEN [ss EXCEPT ![m] = dist[n].load.master] ELSE ss
       /\ missed' = IF GetsFile(n, m) /\ ~file THEN missed \cup {<<n, m>>}
                                              ELSE missed
       /\ dist' = [dist EXCEPT ![n] = IF d.todo = {} THEN Quiet ELSE d]
       /\ told' = [told EXCEPT ![n] = @ \/ (run[n] # "no" /\ d.todo = {}
                                            /\ d.names /\ ~d.failed)]
  BY Zenon DEF Deliver
<1> DEFINE d == [dist[n] EXCEPT !.todo = @ \ {m},
                   !.failed = @ \/ (GetsFile(n, m) /\ ~file)
                                \/ (dist[n].names /\ ~name)]
<1>2. /\ m \in dist[n].todo /\ up' = up /\ run' = run /\ mem' = mem /\ fo' = fo
  BY Zenon DEF Deliver
<1>3. /\ Typed /\ \A k \in Nodes : Phase(k) /\ Fresh(k) /\ Eligible(k)
      /\ \A k, l \in Nodes : Pair(k, l)
  BY Zenon DEF IInv
<1>4. dist[n] \in Distribution
  BY Zenon, <1>3 DEF Typed
<1>5. d \in Distribution /\ d.todo = dist[n].todo \ {m} /\ d.load = dist[n].load
  BY Zenon, <1>4 DEF Distribution, GetsFile
<1>6. dist' = [dist EXCEPT ![n] = IF d.todo = {} THEN Quiet ELSE d]
  BY Zenon, <1>1
<1>7. told' \in [Nodes -> BOOLEAN]
  <2>1. \A x \in BOOLEAN : [told EXCEPT ![n] = x] \in [Nodes -> BOOLEAN]
    BY Zenon, <1>3 DEF Typed
  <2>2. PICK x : x \in BOOLEAN /\ told' = [told EXCEPT ![n] = x]
    BY <1>1, Zenon
  <2> QED  BY Zenon, <2>1, <2>2
<1> HIDE DEF d
<1>8. /\ dist' \in [Nodes -> Distribution]
      /\ \A k \in Nodes \ {n} : dist'[k] = dist[k]
      /\ dist'[n].todo = dist[n].todo \ {m}
      /\ dist'[n].todo # {} => dist'[n].load = dist[n].load
  BY Zenon, <1>3, <1>5, <1>6, Constants DEF Typed
<1>9. /\ cfg' \in [Nodes -> Conf] /\ \A k \in Nodes : k # m \/ ~file => cfg'[k] = cfg[k]
      /\ file => cfg'[m] = dist[n].load
  BY Zenon, <1>1, <1>3, <1>4 DEF Typed, Distribution
<1>10. /\ clean' \in [Nodes -> BOOLEAN]
       /\ \A k \in Nodes : k # m \/ ~file => clean'[k] = clean[k]
       /\ file => clean'[m] = ~Working(m)
  BY Zenon, <1>1, <1>3 DEF Typed, Working
<1>11. ss' \in [Nodes -> Nodes] /\ count' \in Counts
  BY ZenonT(60), <1>1, <1>3, <1>4, SpentTyped DEF Typed, Distribution, Conf
<1>12. Typed'
  BY Zenon, <1>2, <1>3, <1>7, <1>8, <1>9, <1>10, <1>11 DEF Typed
<1>13. \A k \in Nodes : Phase(k)'
  BY ZenonT(60), <1>2, <1>3, <1>8 DEF Phase
<1>14. \A k \in Nodes : Fresh(k)'
  BY Zenon, <1>2, <1>3, <1>9, <1>10 DEF Fresh, Working
<1>15. \A k \in Nodes : Named(k)' => Named(k) /\ (k # m \/ ~file)
  BY Zenon, <1>1, <1>9 DEF Named, GetsFile
<1>16. \A k \in Nodes : Eligible(k)'
  BY Zenon, <1>3, <1>15 DEF Eligible
<1>17. ASSUME NEW k \in Nodes, NEW l \in Nodes, Named(l)', Crossing(k, l)
       PROVE  Crossing(k, l)' \/ <<k, l>> \in missed'
  <2>1. CASE k # n
    BY Zenon, <1>2, <1>8, <1>17, <2>1 DEF Crossing
  <2>2. CASE k = n /\ l # m
    BY Zenon, <1>2, <1>8, <1>17, <2>2 DEF Crossing
  <2>3. CASE k = n /\ l = m
    <3>1. ~file /\ GetsFile(n, m)
      BY Zenon, <1>3, <1>15, <1>17, <2>3 DEF Crossing, GetsFile, Eligible
    <3> QED  BY Zenon, <1>1, <2>3, <3>1
  <2> QED  BY Zenon, <2>1, <2>2, <2>3
<1>18. missed \subseteq missed'
  BY Zenon, <1>1
<1>19. \A k, l \in Nodes : Pair(k, l)'
  BY Zenon, <1>3, <1>15, <1>17, <1>18 DEF Pair, Told
<1> QED  BY Zenon, <1>12, <1>13, <1>14, <1>16, <1>19 DEF IInv

LEMMA Invariance == Spec => []IInv
<1>1. Init => IInv
  <2> SUFFICES ASSUME Init PROVE IInv  BY Zenon
  <2>1. Typed
    BY Zenon, Constants DEF Init, Typed, Counts
  <2>2. \A n \in Nodes : Phase(n)
    BY Zenon, Cluster, Constants DEF Init, Phase
  <2>3. \A n \in Nodes : Fresh(n) /\ cfg[n].master = Founder
    BY Zenon, Constants DEF Init, Fresh
  <2>4. \A n \in Nodes : Eligible(n)
    BY Zenon, <2>3, Cluster DEF Eligible, Named
  <2>5. \A n, m \in Nodes : Pair(n, m)
    BY Zenon, <2>3 DEF Pair, Named
  <2> QED  BY Zenon, <2>1, <2>2, <2>3, <2>4, <2>5 DEF IInv
<1>2. IInv /\ [Next]_vars => IInv'
  <2> SUFFICES ASSUME IInv, [Next]_vars PROVE IInv'  BY Zenon
  <2>1. ASSUME NEW n \in Nodes, Step(n) PROVE IInv'
    BY Zenon, <2>1, ElectStep, LoadStep, DeliverStep, StartWConfdStep, UpdateStep,
       StopOldMasterStep, StartUnvotedStep, StartFailsStep DEF Step, FailoverStep
  <2>2. ASSUME NEW n \in Nodes,
               Change(n) \/ FailoverCheck(n) \/ Crash(n) \/ Boot(n) \/ DaemonsDie(n)
        PROVE  IInv'
    BY ZenonT(60), <2>2, ChangeStep, FailoverCheckStep, CrashStep, BootStep, DaemonsDieStep
  <2>3. CASE UNCHANGED vars
    BY <2>3 DEF vars, files, daemon, IInv, Typed, Phase, Fresh, Working, Eligible,
                Named, Pair, Told, Crossing
  <2> QED  BY Zenon, <2>1, <2>2, <2>3 DEF Next
<1> QED  BY <1>1, <1>2, PTL DEF Spec

\* "if cfg.Update worked, then it means the old master daemon won't be able now
\* to write its own config file" (MasterFailover in lib/bootstrap.py): whatever
\* the cluster, and with any number of failovers, crashes and lost calls, two
\* nodes can lead only after an upload of one of them to the other failed.
THEOREM LeaderUnique == Spec => []OneLeader
<1>1. IInv => OneLeader
  <2> SUFFICES ASSUME IInv, NEW n \in Nodes, NEW m \in Nodes, n # m, Leader(n), Leader(m)
               PROVE  <<n, m>> \in missed \/ <<m, n>> \in missed
    BY Zenon DEF OneLeader
  <2>1. Named(n) /\ Named(m)
    BY Zenon DEF IInv, Fresh, Working, Leader, Named
  <2> QED  BY Zenon, <2>1 DEF IInv, Pair, Told, Crossing, Leader
<1> QED  BY <1>1, Invariance, PTL

-----------------------------------------------------------------------------
(* Changes are kept.  Files and uploads contain what is known to be on     *)
(* every candidate, and an upload that goes on with nobody else writing is *)
(* in every file it has been sent to.                                      *)

Reached(n) ==
  dist[n].todo # {} /\ ~dist[n].failed /\ dist[n].load.master = n =>
    /\ cfg[n] = dist[n].load
    /\ \A m \in Candidates \ (Offline \cup dist[n].todo) : cfg[m] = dist[n].load

Copied ==
  /\ \A m \in Candidates \ Offline : kept \subseteq cfg[m].changes
  /\ \A n \in Nodes : dist[n].todo # {} => kept \subseteq dist[n].load.changes

KInv ==
  /\ ~calm => kept = {}
  /\ calm => ~Contention /\ \A n \in Nodes : Reached(n)
  /\ \A n \in Nodes : dist[n].todo # {} => up[n] /\ n \in Candidates
  /\ Copied

\* What Observe makes of calm and kept.
LEMMA Observed ==
  ASSUME KInv, Observe
  PROVE  /\ ~calm' => kept' = {}
         /\ calm' => ~Contention'
         /\ calm' => calm \/ \A n \in Nodes : dist'[n].todo = {}
         /\ \A x \in kept' : \/ calm /\ x \in kept
                             \/ \E n \in Nodes : /\ calm /\ Completed(n)
                                                 /\ x \in dist[n].load.changes
<1>1. ~calm' => kept' = {}
  BY Zenon DEF Observe
<1>2. (\A n \in Nodes : ~Busy(n)') => ~Contention' /\ \A n \in Nodes : dist'[n].todo = {}
  BY Zenon DEF Contention, Busy
<1>3. calm' => (~Contention' /\ calm) \/ \A n \in Nodes : ~Busy(n)'
  BY Zenon DEF Observe
<1>4. ASSUME NEW x \in kept'
      PROVE  \/ calm /\ x \in kept
             \/ \E n \in Nodes : calm /\ Completed(n) /\ x \in dist[n].load.changes
  <2>1. x \in kept \cup UNION {dist[n].load.changes : n \in
                                 {m \in Nodes : /\ calm /\ Completed(m)}}
    BY Zenon, <1>1, <1>4 DEF Observe
  <2> QED  BY Zenon, <2>1 DEF KInv
<1> QED  BY Zenon, <1>1, <1>2, <1>3, <1>4

\* At most one node uploads while it is calm.
LEMMA OneUpload ==
  ASSUME KInv, calm, NEW n \in Nodes, NEW k \in Nodes, dist[n].todo # {}, dist[k].todo # {}
  PROVE  n = k
BY Zenon DEF KInv, Contention, Busy

\* A step that writes no file and neither starts nor ends an upload.
LEMMA NothingWritten ==
  ASSUME KInv, Observe, cfg' = cfg, dist' = dist, \A n \in Nodes : up[n] => up'[n]
  PROVE  KInv'
<1>1. \A n \in Nodes : ~Completed(n)
  BY Zenon DEF Completed
<1>2. \A x \in kept' : x \in kept
  BY Zenon, <1>1, Observed
<1>3. Copied'
  BY Zenon, <1>2 DEF KInv, Copied
<1>4. calm' => \A n \in Nodes : Reached(n)'
  BY Zenon, Observed DEF KInv, Reached
<1> QED  BY Zenon, <1>3, <1>4, Observed DEF KInv

LEMMA CrashKeeps ==
  ASSUME IInv, KInv, Observe, NEW n \in Nodes, Crash(n)
  PROVE  KInv'
<1>1. /\ cfg' = cfg /\ dist'[n].todo = {} /\ ~up'[n]
      /\ \A k \in Nodes \ {n} : dist'[k] = dist[k] /\ up'[k] = up[k]
  BY Zenon, Constants DEF Crash, files, IInv, Typed
<1>2. \A k \in Nodes : ~Completed(k)
  BY Zenon, <1>1 DEF Completed
<1>3. \A x \in kept' : x \in kept
  BY Zenon, <1>2, Observed
<1>4. \A k \in Nodes : dist'[k].todo # {} => dist'[k] = dist[k] /\ up'[k] = up[k]
  BY Zenon, <1>1
<1>5. Copied'
  BY Zenon, <1>1, <1>3, <1>4 DEF KInv, Copied
<1>6. ASSUME calm', NEW k \in Nodes PROVE Reached(k)'
  <2>1. CASE dist'[k].todo = {}
    BY Zenon, <2>1 DEF Reached
  <2>2. CASE dist'[k].todo # {}
    <3>1. dist'[k] = dist[k] /\ calm
      BY Zenon, <1>4, <1>6, <2>2, Observed
    <3>2. Reached(k)
      BY Zenon, <3>1 DEF KInv
    <3> QED  BY Zenon, <1>1, <3>1, <3>2 DEF Reached
  <2> QED  BY Zenon, <2>1, <2>2
<1> QED  BY Zenon, <1>4, <1>5, <1>6, Observed DEF KInv

\* A write by n, of what it read and more.
LEMMA SaveCopies ==
  ASSUME IInv, KInv, Observe, NEW n \in Nodes, NEW c \in Conf, Working(n), Save(n, c),
         mem[n].changes \subseteq c.changes, dist[n].todo = {}, up' = up
  PROVE  KInv'
<1>1. /\ Typed /\ Phase(n) /\ Fresh(n) /\ \A k \in Nodes : Phase(k)
  BY Zenon DEF IInv
<1>2. n \in Candidates \ Offline /\ up[n]
  BY Zenon, <1>1 DEF Working, Phase
<1>3. CASE ~clean[n]
  BY Zenon, <1>3, NothingWritten DEF Save
<1>4. CASE clean[n]
  <2>1. cfg' = [cfg EXCEPT ![n] = c] /\ Upload(n, c, ~told[n]) /\ mem[n] = cfg[n]
    BY Zenon, <1>1, <1>4 DEF Save, Fresh
  <2>2. cfg'[n] = c /\ \A k \in Nodes \ {n} : cfg'[k] = cfg[k]
    BY Zenon, <1>1, <2>1 DEF Typed
  <2>3. /\ \A k \in Nodes \ {n} : dist'[k] = dist[k]
        /\ dist'[n].load = c
        /\ \A k \in Candidates \ Offline : k # c.master => k \in dist'[n].todo
    BY Zenon, <1>1, <2>1, Cluster DEF Upload, Typed
  <2>4. \A k \in Nodes : ~Completed(k)
    BY Zenon, <2>3 DEF Completed
  <2>5. \A x \in kept' : x \in kept
    BY Zenon, <2>4, Observed
  <2>6. kept \subseteq c.changes
    BY Zenon, <1>2, <2>1 DEF KInv, Copied
  <2>7. Copied'
    <3>1. \A m \in Candidates \ Offline : kept' \subseteq cfg'[m].changes
      BY Zenon, <2>2, <2>5, <2>6, Cluster DEF KInv, Copied
    <3>2. \A k \in Nodes : dist'[k].todo # {} => kept' \subseteq dist'[k].load.changes
      BY Zenon, <2>3, <2>5, <2>6 DEF KInv, Copied
    <3> QED  BY Zenon, <3>1, <3>2 DEF Copied
  <2>8. ASSUME NEW k \in Nodes \ {n}, dist'[k].todo # {} PROVE ~calm'
    <3>1. dist[k].todo # {} /\ up[k] /\ k \in Candidates
      BY Zenon, <2>3, <2>8 DEF KInv
    <3>2. k \in Candidates \ Offline
      BY Zenon, <1>1, <3>1 DEF Phase
    <3>3. dist'[n].todo # {}
      BY Zenon, <1>2, <2>3, <3>2
    <3>4. Contention'
      BY Zenon, <2>8, <3>3 DEF Contention, Busy
    <3> QED  BY Zenon, <3>4, Observed
  <2>9. Reached(n)'
    <3> SUFFICES ASSUME dist'[n].load.master = n,
                        NEW m \in Candidates \ (Offline \cup dist'[n].todo)
                 PROVE  m = n
      BY Zenon, <2>2, <2>3 DEF Reached
    <3> QED  BY Zenon, <2>3
  <2>10. ASSUME calm', NEW k \in Nodes PROVE Reached(k)'
    <3>1. CASE k = n
      BY Zenon, <2>9, <3>1
    <3>2. CASE k # n
      <4>1. dist'[k].todo = {}
        BY Zenon, <2>8, <2>10, <3>2
      <4> QED  BY Zenon, <4>1 DEF Reached
    <3> QED  BY Zenon, <3>1, <3>2
  <2>11. \A k \in Nodes : dist'[k].todo # {} => up'[k] /\ k \in Candidates
    BY Zenon, <1>2, <2>3 DEF KInv
  <2> QED  BY Zenon, <2>7, <2>10, <2>11, Observed DEF KInv
<1> QED  BY Zenon, <1>3, <1>4

\* What a call of an upload changes.
Effect(n, m) ==
  /\ m \in dist[n].todo /\ up' = up /\ run' = run /\ fo' = fo
  /\ \A k \in Nodes \ {n} : dist'[k] = dist[k]
  /\ dist'[n].todo = dist[n].todo \ {m}
  /\ dist'[n].todo # {} =>
       /\ dist'[n].load = dist[n].load /\ dist'[n].names = dist[n].names
       /\ dist[n].failed => dist'[n].failed
       /\ GetsFile(n, m) /\ cfg'[m] # dist[n].load => dist'[n].failed
  /\ \A k \in Nodes \ {m} : cfg'[k] = cfg[k] /\ ss'[k] = ss[k]
  /\ cfg'[m] = cfg[m] \/ (cfg'[m] = dist[n].load /\ GetsFile(n, m))
  /\ up[m] /\ count' = count /\ dist[n].names => ss'[m] = dist[n].load.master

LEMMA Delivered ==
  ASSUME Typed, NEW n \in Nodes, NEW m \in Nodes, Deliver(n, m)
  PROVE  Effect(n, m)
<1>1. PICK file \in BOOLEAN, name \in BOOLEAN :
       LET d == [dist[n] EXCEPT !.todo = @ \ {m},
                   !.failed = @ \/ (GetsFile(n, m) /\ ~file)
                                \/ (dist[n].names /\ ~name)]
       IN
       /\ (file => GetsFile(n, m)) /\ (name => dist[n].names)
       /\ up[m] \/ (~file /\ ~name)
       /\ \/ /\ ~up[m] \/ (file = GetsFile(n, m) /\ name = dist[n].names)
             /\ count' = count
          \/ /\ up[m] /\ (file # GetsFile(n, m) \/ name # dist[n].names)
             /\ Faulty /\ count' = Spent
       /\ cfg' = IF file THEN [cfg EXCEPT ![m] = dist[n].load] ELSE cfg
       /\ clean' = IF file THEN [clean EXCEPT ![m] = ~Working(m)] ELSE clean
       /\ ss' = IF name THEN [ss EXCEPT ![m] = dist[n].load.master] ELSE ss
       /\ missed' = IF GetsFile(n, m) /\ ~file THEN missed \cup {<<n, m>>}
                                              ELSE missed
       /\ dist' = [dist EXCEPT ![n] = IF d.todo = {} THEN Quiet ELSE d]
       /\ told' = [told EXCEPT ![n] = @ \/ (run[n] # "no" /\ d.todo = {}
                                            /\ d.names /\ ~d.failed)]
  BY Zenon DEF Deliver
<1> DEFINE d == [dist[n] EXCEPT !.todo = @ \ {m},
                   !.failed = @ \/ (GetsFile(n, m) /\ ~file)
                                \/ (dist[n].names /\ ~name)]
<1>2. m \in dist[n].todo /\ up' = up /\ run' = run /\ fo' = fo
  BY Zenon DEF Deliver
<1>3. dist[n] \in Distribution
  BY Zenon DEF Typed
<1>4. /\ d.todo = dist[n].todo \ {m} /\ d.load = dist[n].load /\ d.names = dist[n].names
      /\ d.failed = (dist[n].failed \/ (GetsFile(n, m) /\ ~file) \/ (dist[n].names /\ ~name))
  BY Zenon, <1>3 DEF Distribution
<1>5. dist' = [dist EXCEPT ![n] = IF d.todo = {} THEN Quiet ELSE d]
  BY Zenon, <1>1
<1> HIDE DEF d
<1>6. /\ \A k \in Nodes \ {n} : dist'[k] = dist[k]
      /\ dist'[n].todo = dist[n].todo \ {m}
      /\ dist'[n].todo # {} => dist'[n] = d
  BY Zenon, <1>4, <1>5, Constants DEF Typed
<1>7. /\ \A k \in Nodes \ {m} : cfg'[k] = cfg[k] /\ ss'[k] = ss[k]
      /\ file => cfg'[m] = dist[n].load /\ GetsFile(n, m)
      /\ ~file => cfg'[m] = cfg[m]
      /\ name => ss'[m] = dist[n].load.master
  BY Zenon, <1>1 DEF Typed
<1>8. up[m] /\ count' = count /\ dist[n].names => name
  <2>1. Spent # count
    BY DEF Spent, Typed, Counts
  <2> QED  BY Zenon, <1>1, <2>1
<1> QED  BY Zenon, <1>2, <1>4, <1>6, <1>7, <1>8 DEF Effect

LEMMA DeliverKeeps ==
  ASSUME IInv, KInv, Observe, NEW n \in Nodes, NEW m \in Nodes, Deliver(n, m)
  PROVE  KInv'
<1>0. Effect(n, m)
  BY Zenon, Delivered DEF IInv
<1>1. /\ m \in dist[n].todo /\ up' = up
      /\ \A k \in Nodes \ {n} : dist'[k] = dist[k]
      /\ dist'[n].todo = dist[n].todo \ {m}
      /\ \A k \in Nodes \ {m} : cfg'[k] = cfg[k]
      /\ cfg'[m] = cfg[m] \/ (cfg'[m] = dist[n].load /\ GetsFile(n, m))
  BY Zenon, <1>0 DEF Effect
<1>2. dist'[n].todo # {} =>
        /\ dist'[n].load = dist[n].load
        /\ dist[n].failed => dist'[n].failed
        /\ GetsFile(n, m) /\ cfg'[m] # dist[n].load => dist'[n].failed
  BY Zenon, <1>0 DEF Effect
<1>3. \A k \in Nodes : dist'[k].todo # {} =>
        dist[k].todo # {} /\ dist'[k].load = dist[k].load
  BY Zenon, <1>1, <1>2
<1>4. \A k \in Nodes : calm /\ dist[k].todo # {} => k = n
  BY Zenon, <1>1, OneUpload
<1>5. ASSUME calm, dist[n].load.master = n, Reached(n), ~dist[n].failed
      PROVE  /\ cfg'[n] = dist[n].load
             /\ \A l \in Candidates \ (Offline \cup dist[n].todo) : cfg'[l] = dist[n].load
  BY Zenon, <1>1, <1>5, Cluster DEF Reached, GetsFile
<1>6. Reached(n)' \/ ~calm
  <2> SUFFICES ASSUME calm, dist'[n].todo # {}, ~dist'[n].failed, dist'[n].load.master = n
               PROVE  /\ cfg'[n] = dist'[n].load
                      /\ \A l \in Candidates \ (Offline \cup dist'[n].todo) :
                            cfg'[l] = dist'[n].load
    BY Zenon DEF Reached
  <2>1. /\ cfg'[n] = dist[n].load /\ dist'[n].load = dist[n].load
        /\ \A l \in Candidates \ (Offline \cup dist[n].todo) : cfg'[l] = dist[n].load
    BY Zenon, <1>2, <1>5 DEF KInv
  <2>2. m \in Candidates \ Offline => cfg'[m] = dist[n].load
    BY Zenon, <1>2, <2>1 DEF GetsFile
  <2> QED  BY Zenon, <1>1, <2>1, <2>2
<1>7. ASSUME calm', NEW k \in Nodes PROVE Reached(k)'
  <2>1. CASE dist'[k].todo = {}
    BY Zenon, <2>1 DEF Reached
  <2>2. CASE dist'[k].todo # {}
    <3>1. calm /\ k = n
      BY Zenon, <1>3, <1>4, <1>7, <2>2, Observed
    <3> QED  BY Zenon, <1>6, <3>1
  <2> QED  BY Zenon, <2>1, <2>2
<1>8. ASSUME NEW x \in kept, calm
      PROVE  /\ \A l \in Candidates \ Offline : x \in cfg'[l].changes
             /\ \A k \in Nodes : dist'[k].todo # {} => x \in dist'[k].load.changes
  <2>1. x \in dist[n].load.changes /\ \A l \in Candidates \ Offline : x \in cfg[l].changes
    BY Zenon, <1>1 DEF KInv, Copied
  <2>2. \A l \in Candidates \ Offline : x \in cfg'[l].changes
    BY Zenon, <1>1, <2>1, Cluster
  <2> QED  BY Zenon, <1>3, <1>4, <1>8, <2>1, <2>2
<1>9. ASSUME NEW k \in Nodes, calm, Completed(k), NEW x \in dist[k].load.changes
      PROVE  /\ \A l \in Candidates \ Offline : x \in cfg'[l].changes
             /\ \A i \in Nodes : dist'[i].todo = {}
  <2>1. k = n /\ dist'[n].todo = {} /\ ~dist[n].failed /\ dist[n].load.master = n
        /\ \A l \in dist[n].todo : GetsFile(n, l) => cfg'[l] = dist[n].load
    BY Zenon, <1>4, <1>9 DEF Completed
  <2>2. /\ cfg'[n] = dist[n].load
        /\ \A l \in Candidates \ (Offline \cup dist[n].todo) : cfg'[l] = dist[n].load
    BY Zenon, <1>5, <1>9, <2>1 DEF KInv
  <2>3. \A l \in Candidates \ Offline : cfg'[l] = dist[n].load
    BY Zenon, <2>1, <2>2 DEF GetsFile
  <2>4. \A i \in Nodes : dist'[i].todo = {}
    BY Zenon, <1>3, <1>4, <1>9, <2>1
  <2> QED  BY Zenon, <1>9, <2>1, <2>3, <2>4
<1>10. Copied'
  BY Zenon, <1>8, <1>9, Observed DEF Copied
<1>11. \A k \in Nodes : dist'[k].todo # {} => up'[k] /\ k \in Candidates
  BY Zenon, <1>1, <1>3 DEF KInv
<1> QED  BY Zenon, <1>7, <1>10, <1>11, Observed DEF KInv

\* Every step keeps what is known to be on every candidate.
LEMMA KeptStep ==
  ASSUME IInv, KInv, Next
  PROVE  KInv'
<1>1. Observe
  BY Zenon DEF Next
<1>2. PICK n \in Nodes : Step(n) \/ Change(n) \/ FailoverCheck(n) \/ Crash(n) \/ Boot(n)
                         \/ DaemonsDie(n)
  BY Zenon DEF Next
<1>3. CASE Change(n)
  <2> DEFINE c == [mem[n] EXCEPT !.changes = @ \cup {count.changes + 1}]
  <2>1. run[n] = "yes" /\ dist[n].todo = {} /\ Save(n, c) /\ up' = up
    BY Zenon, <1>3 DEF Change
  <2>2. c \in Conf /\ mem[n].changes \subseteq c.changes
    <3>1. mem[n] \in Conf /\ count \in Counts
      BY Zenon DEF IInv, Typed
    <3> QED  BY <3>1 DEF Conf, Counts
  <2> HIDE DEF c
  <2> QED  BY Zenon, <1>1, <2>1, <2>2, SaveCopies DEF Working
<1>4. CASE Update(n)
  <2> DEFINE c == [mem[n] EXCEPT !.master = n]
  <2>1. fo[n].pc = "update" /\ Save(n, c) /\ up' = up
    BY Zenon, <1>4 DEF Update
  <2>2. run[n] = "forced" /\ dist[n].todo = {}
    BY Zenon, <2>1 DEF IInv, Phase
  <2>3. c \in Conf /\ mem[n].changes \subseteq c.changes
    <3>1. mem[n] \in Conf
      BY Zenon DEF IInv, Typed
    <3> QED  BY <3>1 DEF Conf
  <2> HIDE DEF c
  <2> QED  BY Zenon, <1>1, <2>1, <2>2, <2>3, SaveCopies DEF Working
<1>5. CASE Crash(n)
  BY Zenon, <1>1, <1>5, CrashKeeps
<1>6. CASE \E m \in Nodes : Deliver(n, m)
  BY Zenon, <1>1, <1>6, DeliverKeeps
<1>7. CASE Boot(n)
  <2>1. up' = [up EXCEPT ![n] = TRUE] /\ cfg' = cfg /\ dist' = dist
    BY Zenon, <1>7 DEF Boot, files
  <2>2. \A k \in Nodes : up[k] => up'[k]
    BY Zenon, <2>1 DEF IInv, Typed
  <2> QED  BY Zenon, <1>1, <2>1, <2>2, NothingWritten
<1>8. CASE Elect(n) \/ Load(n) \/ StartWConfd(n) \/ StopOldMaster(n) \/ StartUnvoted(n)
           \/ StartFails(n) \/ FailoverCheck(n) \/ DaemonsDie(n)
  <2>1. up' = up /\ cfg' = cfg /\ dist' = dist
    BY Zenon, <1>8 DEF Elect, Load, StartWConfd, StopOldMaster, StartUnvoted, StartFails,
                       FailoverCheck, DaemonsDie, files
  <2> QED  BY Zenon, <1>1, <2>1, NothingWritten
<1> QED  BY Zenon, <1>2, <1>3, <1>4, <1>5, <1>6, <1>7, <1>8 DEF Step, FailoverStep

\* A change that was uploaded to every candidate, with nobody else writing at the
\* time, is in the configuration of whoever leads later: whatever the cluster, a
\* failover starts from a file that has it, and an upload does not take it back.
THEOREM NoChangeLost == Spec => []ChangesKept
<1>1. Init => KInv
  <2> SUFFICES ASSUME Init PROVE KInv  BY Zenon
  <2>1. \A n \in Nodes : dist[n].todo = {}
    BY Zenon, Constants DEF Init
  <2>2. ~Contention
    <3>1. \A n \in Nodes : ~Busy(n)
      BY Zenon, <2>1 DEF Init, Busy
    <3> QED  BY Zenon, <3>1 DEF Contention
  <2>3. kept = {} /\ calm
    BY Zenon DEF Init
  <2> QED  BY Zenon, <2>1, <2>2, <2>3 DEF KInv, Reached, Copied
<1>2. IInv /\ KInv /\ [Next]_vars => KInv'
  <2>1. ASSUME KInv, UNCHANGED vars PROVE KInv'
    <3>1. /\ up' = up /\ cfg' = cfg /\ run' = run /\ dist' = dist
          /\ calm' = calm /\ kept' = kept
      BY Zenon, <2>1 DEF vars, files, daemon
    <3>2. (Contention' <=> Contention) /\ \A n \in Nodes : Reached(n)' <=> Reached(n)
      BY Zenon, <3>1 DEF Reached, Contention, Busy
    <3>3. Copied' <=> Copied
      BY Zenon, <3>1 DEF Copied
    <3> QED  BY Zenon, <2>1, <3>1, <3>2, <3>3 DEF KInv
  <2> QED  BY Zenon, <2>1, KeptStep
<1>3. IInv /\ KInv => ChangesKept
  <2> SUFFICES ASSUME IInv, KInv, NEW n \in Nodes, Leader(n) PROVE kept \subseteq mem[n].changes
    BY Zenon DEF ChangesKept
  <2>1. mem[n] = cfg[n] /\ n \in Candidates \ Offline
    BY Zenon DEF IInv, Fresh, Phase, Working, Leader
  <2> QED  BY Zenon, <2>1 DEF KInv, Copied
<1> QED  BY <1>1, <1>2, <1>3, Invariance, PTL DEF Spec

-----------------------------------------------------------------------------
(* No failover is in vain.  The nodes that were up when a failover passed  *)
(* its checks stay up as long as nothing disturbs it, and each of them is  *)
(* told the name of the new master.                                        *)

INSTANCE FiniteSetTheorems

\* m is up, and has the new name as soon as the upload of n passed it.
Follows(m, n) ==
  /\ up[m]
  /\ fo[n].pc = "start" \/ (fo[n].pc = "stop" /\ m \notin dist[n].todo) => ss[m] = n

Ahead(n) ==
  /\ Undisturbed(n)
  /\ fo[n].pc = "update" => clean[n] /\ ~told[n]
  /\ fo[n].pc = "stop" /\ dist[n].todo # {} => dist[n].names /\ dist[n].load.master = n
  /\ \E V \in SUBSET Nodes : /\ Majority(Cardinality(V), Nodes) /\ n \in V
                             /\ \A m \in V : Follows(m, n)

SInv == /\ sure \subseteq Nodes
        /\ \A n \in sure \ Unvoted : fo[n].pc # "idle" => Ahead(n)

\* Larger majorities.
LEMMA MoreVotes ==
  ASSUME NEW S \in SUBSET Nodes, NEW R \in SUBSET S, Majority(Cardinality(R), Nodes)
  PROVE  Majority(Cardinality(S), Nodes)
<1>1. IsFiniteSet(Nodes)
  BY Zenon, Cluster
<1>2. IsFiniteSet(S)
  BY Zenon, <1>1, FS_Subset
<1>3. IsFiniteSet(R) /\ Cardinality(R) <= Cardinality(S)
  BY Zenon, <1>2, FS_Subset
<1>4. Cardinality(R) \in Nat /\ Cardinality(S) \in Nat /\ Cardinality(Nodes) \in Nat
  BY Zenon, <1>1, <1>2, <1>3, FS_CardinalityType
<1> QED  BY <1>3, <1>4 DEF Majority

\* Who answers, and who is lost.
LEMMA WhoAnswers ==
  ASSUME NEW S, NEW a \in Answers(S)
  PROVE  \/ a.count = count /\ a.from = {m \in S : up[m]}
         \/ a.count = Spent /\ a.from \subseteq {m \in S : up[m]}
<1> DEFINE all == {m \in S : up[m]}
<1>1. \/ a = [from |-> all, count |-> count]
      \/ \E m \in all : a = [from |-> all \ {m}, count |-> Spent]
  BY Zenon DEF Answers
<1> HIDE DEF all
<1>2. \/ a.count = count /\ a.from = all
      \/ a.count = Spent /\ a.from \subseteq all
  BY SMT, <1>1
<1> QED  BY Zenon, <1>2 DEF all

\* A step of node k, and whether something happened that is counted.
Acts(k) == Step(k) \/ Change(k) \/ FailoverCheck(k) \/ Crash(k) \/ Boot(k) \/ DaemonsDie(k)

LEMMA Counted ==
  ASSUME IInv, NEW k \in Nodes, Change(k) \/ FailoverCheck(k) \/ Crash(k) \/ DaemonsDie(k)
  PROVE  count' # count
<1>1. count \in Counts
  BY Zenon DEF IInv, Typed
<1>2. Spent # count /\ Spent.failovers = count.failovers
  BY <1>1 DEF Spent, Counts
<1>3. CASE Change(k)
  BY <1>1, <1>3 DEF Change, Counts
<1>4. CASE FailoverCheck(k)
  <2>1. PICK c \in {count, Spent} : count' = [c EXCEPT !.failovers = @ + 1]
    BY Zenon, <1>4, WhoAnswers DEF FailoverCheck
  <2>2. c \in Counts /\ c.failovers = count.failovers
    BY Zenon, <1>1, <1>2, SpentTyped
  <2>3. count'.failovers # count.failovers
    BY <2>1, <2>2 DEF Counts
  <2> QED  BY Zenon, <2>3
<1>5. CASE Crash(k) \/ DaemonsDie(k)
  BY Zenon, <1>2, <1>5 DEF Crash, DaemonsDie
<1> QED  BY Zenon, <1>3, <1>4, <1>5

\* The failover on a node is nobody else's.
LEMMA OwnFailover ==
  ASSUME IInv, NEW k \in Nodes, Acts(k), NEW n \in Nodes \ {k}
  PROVE  fo'[n] = fo[n]
<1>1. fo \in [Nodes -> Failovers]
  BY Zenon DEF IInv, Typed
<1>2. CASE Elect(k) \/ Change(k) \/ Boot(k) \/ DaemonsDie(k) \/ \E m \in Nodes : Deliver(k, m)
  BY Zenon, <1>2 DEF Elect, Change, Boot, DaemonsDie, Deliver
<1>3. CASE Load(k) \/ FailoverCheck(k) \/ Crash(k) \/ StartUnvoted(k) \/ StartFails(k)
  BY Zenon, <1>1, <1>3 DEF Load, FailoverCheck, Crash, StartUnvoted, StartFails
<1>4. CASE StartWConfd(k) \/ Update(k) \/ StopOldMaster(k)
  BY Zenon, <1>1, <1>4, FailoverMoves DEF StartWConfd, Update, StopOldMaster
<1> QED  BY Zenon, <1>2, <1>3, <1>4 DEF Acts, Step, FailoverStep

\* Only a failover that begins is new among the sure ones.
LEMMA SureOnes ==
  ASSUME Observe, NEW n \in sure'
  PROVE  \/ count' = count /\ n \in sure
         \/ /\ count' # count /\ n \in Nodes /\ fo[n] # fo'[n] /\ fo'[n].pc = "wconfd"
            /\ Undisturbed(n)
BY Zenon DEF Observe

LEMMA CheckedAhead ==
  ASSUME IInv, NEW n \in Nodes \ Unvoted, FailoverCheck(n), Undisturbed(n),
         IgnoreOffline = FALSE \/ Offline = {}
  PROVE  Ahead(n)'
<1>1. /\ up' = up /\ dist' = dist /\ up[n]
      /\ fo' = [fo EXCEPT ![n] = [pc |-> "wconfd", old |-> ss[n]]]
  BY Zenon DEF FailoverCheck
<1>2. fo'[n].pc = "wconfd" /\ \A k \in Nodes \ {n} : fo'[k] = fo[k]
  BY Zenon, <1>1 DEF IInv, Typed
<1>3. Undisturbed(n)'
  BY Zenon, <1>1, <1>2 DEF Undisturbed
<1>4. PICK a \in Answers(Nodes) : MajorityHealthy(a.from)
  BY Zenon DEF FailoverCheck
<1>5. a.from \subseteq {m \in Nodes : up[m]}
  BY Zenon, <1>4, WhoAnswers
<1> DEFINE V == {m \in Nodes : up[m]}
<1>6. Electorate = Nodes
  BY Zenon DEF Electorate
<1>7. Majority(Cardinality(a.from \cap Nodes), Nodes)
  BY Zenon, <1>4, <1>6 DEF MajorityHealthy
<1>8. a.from \cap Nodes \in SUBSET V /\ V \in SUBSET Nodes
  BY Zenon, <1>5
<1>9. Majority(Cardinality(V), Nodes)
  BY Zenon, <1>7, <1>8, MoreVotes
<1>10. n \in V /\ \A m \in V : Follows(m, n)'
  BY Zenon, <1>1, <1>2 DEF Follows
<1> HIDE DEF V
<1> QED  BY Zenon, <1>2, <1>3, <1>8, <1>9, <1>10 DEF Ahead

\* Steps of others, and of the daemons of n, do not touch a failover.
LEMMA AheadKept ==
  ASSUME NEW n \in Nodes, Ahead(n), fo' = fo, dist' = dist, ss' = ss,
         \A m \in Nodes : up[m] => up'[m], clean'[n] = clean[n], told'[n] = told[n]
  PROVE  Ahead(n)'
<1>1. \A m \in Nodes : Follows(m, n) => Follows(m, n)'
  BY Zenon DEF Follows
<1>2. Undisturbed(n)'
  BY Zenon DEF Ahead, Undisturbed
<1> QED  BY Zenon, <1>1, <1>2 DEF Ahead

\* A step of the failover on n.
LEMMA MovesAhead ==
  ASSUME IInv, NEW n \in Nodes, Ahead(n), count' = count, fo'[n].pc # "idle",
         Step(n), \A m \in Nodes \ {n} : fo'[m] = fo[m]
  PROVE  Ahead(n)'
<1>1. Typed /\ \A k \in Nodes : Phase(k)
  BY Zenon DEF IInv
<1>2. PICK V \in SUBSET Nodes : /\ Majority(Cardinality(V), Nodes) /\ n \in V
                                /\ \A m \in V : Follows(m, n)
  BY Zenon DEF Ahead
<1>3. Undisturbed(n)
  BY Zenon DEF Ahead
<1>4. CASE Elect(n)
  BY Zenon, <1>4, AheadKept DEF Elect, files
<1>5. CASE Load(n)
  <2>1. fo[n].pc = "start" \/ fo[n].pc = "idle"
    BY Zenon, <1>1, <1>5 DEF Load, Phase, Typed, Failovers
  <2>2. fo'[n].pc = "idle"
    BY Zenon, <1>1, <1>5, <2>1, Constants DEF Load, Typed
  <2> QED  BY Zenon, <2>2
<1>6. CASE StartWConfd(n)
  <2>1. /\ Loaded(n, "forced") /\ dist' = dist /\ up' = up /\ fo' = [fo EXCEPT ![n].pc = "update"]
    BY Zenon, <1>6 DEF StartWConfd
  <2>2. fo'[n].pc = "update" /\ clean'[n] /\ ~told'[n]
    BY ZenonT(60), <1>1, <2>1, FailoverMoves DEF Typed, Loaded
  <2>3. \A m \in V : Follows(m, n)'
    BY Zenon, <1>2, <2>1, <2>2 DEF Follows
  <2>4. Undisturbed(n)'
    BY Zenon, <1>3, <2>1 DEF Undisturbed
  <2> QED  BY Zenon, <1>2, <2>2, <2>3, <2>4 DEF Ahead
<1>7. CASE Update(n)
  <2> DEFINE c == [mem[n] EXCEPT !.master = n]
  <2>1. /\ fo[n].pc = "update" /\ Save(n, c) /\ fo' = [fo EXCEPT ![n].pc = "stop"]
        /\ up' = up
    BY Zenon, <1>7 DEF Update
  <2>2. fo'[n].pc = "stop" /\ clean[n] /\ ~told[n]
    BY Zenon, <1>1, <2>1, FailoverMoves DEF Typed, Ahead
  <2>3. c.master = n
    BY <1>1 DEF Typed, Conf
  <2> HIDE DEF c
  <2>4. Upload(n, c, TRUE)
    BY Zenon, <2>1, <2>2 DEF Save
  <2>5. /\ dist'[n].todo = Nodes \ Offline /\ dist'[n].names /\ dist'[n].load = c
        /\ \A k \in Nodes \ {n} : dist'[k] = dist[k]
    BY Zenon, <1>1, <2>4 DEF Upload, Typed
  <2>6. \A m \in V : Follows(m, n)'
    BY Zenon, <1>1, <1>2, <2>1, <2>2, <2>5 DEF Follows, Phase
  <2>7. Undisturbed(n)'
    BY Zenon, <1>3, <2>5 DEF Undisturbed
  <2> QED  BY Zenon, <1>2, <2>2, <2>3, <2>5, <2>6, <2>7 DEF Ahead
<1>8. CASE StopOldMaster(n)
  <2>1. /\ fo[n].pc = "stop" /\ dist[n].todo = {} /\ fo' = [fo EXCEPT ![n].pc = "start"]
        /\ up' = up /\ ss' = ss /\ dist' = dist
    BY Zenon, <1>8 DEF StopOldMaster, files
  <2>2. fo'[n].pc = "start"
    BY Zenon, <1>1, <2>1, FailoverMoves DEF Typed
  <2>3. \A m \in V : Follows(m, n)'
    BY Zenon, <1>2, <2>1, <2>2 DEF Follows
  <2>4. Undisturbed(n)'
    BY Zenon, <1>3, <2>1 DEF Undisturbed
  <2> QED  BY Zenon, <1>2, <2>2, <2>3, <2>4 DEF Ahead
<1>9. CASE StartUnvoted(n) \/ StartFails(n)
  <2>1. fo'[n].pc = "idle"
    BY Zenon, <1>1, <1>9, Constants DEF StartUnvoted, StartFails, Typed
  <2> QED  BY Zenon, <2>1
<1>10. CASE \E m \in Nodes : Deliver(n, m)
  <2>1. PICK m \in Nodes : Deliver(n, m)
    BY Zenon, <1>10
  <2>2. /\ m \in dist[n].todo /\ up' = up /\ fo' = fo
        /\ \A k \in Nodes \ {n} : dist'[k] = dist[k]
        /\ dist'[n].todo = dist[n].todo \ {m}
        /\ dist'[n].todo # {} =>
             dist'[n].load = dist[n].load /\ dist'[n].names = dist[n].names
        /\ \A k \in Nodes \ {m} : ss'[k] = ss[k]
        /\ up[m] /\ dist[n].names => ss'[m] = dist[n].load.master
    <3>1. Effect(n, m)
      BY Zenon, <1>1, <2>1, Delivered
    <3> QED  BY Zenon, <3>1 DEF Effect
  <2>3. fo[n].pc \notin {"update", "start"}
    BY Zenon, <1>1, <2>2 DEF Phase
  <2>4. fo[n].pc = "stop" => dist[n].names /\ dist[n].load.master = n
    BY Zenon, <2>2 DEF Ahead
  <2>5. ASSUME NEW l \in V PROVE Follows(l, n)'
    <3>1. CASE l = m
      BY Zenon, <1>2, <2>2, <2>3, <2>4, <3>1 DEF Follows
    <3>2. CASE l # m
      BY ZenonT(60), <1>2, <2>2, <2>3, <3>2 DEF Follows
    <3> QED  BY Zenon, <3>1, <3>2
  <2>6. Undisturbed(n)'
    BY Zenon, <1>3, <2>2 DEF Undisturbed
  <2> QED  BY Zenon, <1>2, <2>2, <2>3, <2>4, <2>5, <2>6 DEF Ahead
<1> QED  BY ZenonT(60), <1>4, <1>5, <1>6, <1>7, <1>8, <1>9, <1>10 DEF Step, FailoverStep

LEMMA AheadStep ==
  ASSUME IInv, SInv, Next, IgnoreOffline = FALSE \/ Offline = {}
  PROVE  SInv'
<1>1. Observe
  BY Zenon DEF Next
<1>2. PICK k \in Nodes : Acts(k)
  BY Zenon DEF Next, Acts
<1>0. sure' \subseteq Nodes
  BY Zenon, <1>1, SureOnes DEF SInv
<1> SUFFICES ASSUME NEW n \in sure' \ Unvoted, fo'[n].pc # "idle" PROVE Ahead(n)'
  BY Zenon, <1>0 DEF SInv
<1>3. CASE count' # count
  <2>1. n \in Nodes /\ fo[n] # fo'[n] /\ fo'[n].pc = "wconfd" /\ Undisturbed(n)
    BY Zenon, <1>1, <1>3, SureOnes
  <2>2. n = k
    BY Zenon, <1>2, <2>1, OwnFailover
  <2>3. FailoverCheck(n)
    <3>1. fo \in [Nodes -> Failovers]
      BY Zenon DEF IInv, Typed
    <3>2. CASE Elect(n) \/ Change(n) \/ Boot(n) \/ DaemonsDie(n) \/ \E m \in Nodes : Deliver(n, m)
      BY Zenon, <2>1, <3>2 DEF Elect, Change, Boot, DaemonsDie, Deliver
    <3>3. CASE Load(n) \/ Crash(n) \/ StartUnvoted(n) \/ StartFails(n)
      <4>1. fo'[n] \in {fo[n], NoFailover}
        BY Zenon, <2>1, <3>1, <3>3 DEF Load, Crash, StartUnvoted, StartFails
      <4> QED  BY Zenon, <2>1, <4>1, Constants
    <3>4. CASE StartWConfd(n) \/ Update(n) \/ StopOldMaster(n)
      BY Zenon, <2>1, <3>1, <3>4, FailoverMoves DEF StartWConfd, Update, StopOldMaster
    <3> QED  BY Zenon, <1>2, <2>2, <3>2, <3>3, <3>4 DEF Acts, Step, FailoverStep
  <2> QED  BY Zenon, <2>1, <2>3, CheckedAhead
<1>4. CASE count' = count
  <2>1. n \in sure /\ (Step(k) \/ Boot(k))
    BY Zenon, <1>1, <1>2, <1>4, SureOnes, Counted DEF Acts
  <2>2. n \in Nodes /\ fo \in [Nodes -> Failovers]
    BY Zenon, <1>0 DEF IInv, Typed
  <2>3. fo[n].pc # "idle"
    <3>1. CASE k # n
      BY Zenon, <1>2, <2>2, <3>1, OwnFailover
    <3>2. CASE k = n
      <4> SUFFICES ASSUME fo[n].pc = "idle" PROVE fo'[n] = fo[n]
        BY Zenon
      <4>1. CASE Load(n)
        BY Zenon, <2>2, <4>1 DEF Load
      <4>2. CASE Elect(n) \/ Boot(n) \/ \E m \in Nodes : Deliver(n, m)
        BY Zenon, <4>2 DEF Elect, Boot, Deliver
      <4>3. ~FailoverStep(n)
        BY Zenon DEF FailoverStep, StartWConfd, Update, StopOldMaster, StartUnvoted, StartFails
      <4> QED  BY Zenon, <2>1, <3>2, <4>1, <4>2, <4>3 DEF Step
    <3> QED  BY Zenon, <3>1, <3>2
  <2>4. Ahead(n)
    BY Zenon, <2>1, <2>3 DEF SInv
  <2>5. CASE Boot(k)
    <3>1. /\ up' = [up EXCEPT ![k] = TRUE] /\ fo' = fo /\ dist' = dist /\ ss' = ss
          /\ clean' = clean /\ told' = told
      BY Zenon, <2>5 DEF Boot, files, daemon
    <3>2. \A m \in Nodes : up[m] => up'[m]
      BY Zenon, <3>1 DEF IInv, Typed
    <3> QED  BY Zenon, <2>2, <2>4, <3>1, <3>2, AheadKept
  <2>6. CASE Step(k) /\ k = n
    <3>1. \A m \in Nodes \ {n} : fo'[m] = fo[m]
      BY Zenon, <1>2, <2>6, OwnFailover
    <3> QED  BY Zenon, <1>4, <2>2, <2>4, <2>6, <3>1, MovesAhead
  <2>7. CASE Step(k) /\ k # n
    <3>1. fo[k] = NoFailover /\ dist[k] = Quiet
      BY Zenon, <2>4, <2>7 DEF Ahead, Undisturbed
    <3>2. fo[k].pc = "idle" /\ dist[k].todo = {}
      BY Zenon, <3>1, Constants
    <3>3. Elect(k) \/ Load(k)
      BY Zenon, <2>7, <3>2 DEF Step, FailoverStep, StartWConfd, Update, StopOldMaster,
                               StartUnvoted, StartFails, Deliver
    <3>4. CASE Elect(k)
      BY Zenon, <2>2, <2>4, <3>4, AheadKept DEF Elect, files
    <3>5. CASE Load(k)
      <4>1. Loaded(k, "yes") /\ up' = up /\ ss' = ss /\ dist' = dist
            /\ fo' = [fo EXCEPT ![k] = IF @.pc = "start" THEN NoFailover ELSE @]
        BY Zenon, <3>5 DEF Load, files
      <4>2. fo' = fo
        BY SMT, <2>2, <3>2, <4>1
      <4>3. clean'[n] = clean[n] /\ told'[n] = told[n]
        BY Zenon, <2>2, <2>7, <4>1 DEF Loaded, IInv, Typed
      <4> QED  BY Zenon, <2>2, <2>4, <4>1, <4>2, <4>3, AheadKept
    <3> QED  BY Zenon, <3>3, <3>4, <3>5
  <2> QED  BY Zenon, <2>1, <2>5, <2>6, <2>7
<1> QED  BY Zenon, <1>3, <1>4

\* The start of the daemons succeeds if the failover was not disturbed.
LEMMA StartsInTheEnd ==
  ASSUME IInv, SInv, Next, NEW n \in Nodes \ Unvoted,
         fo[n].pc = "start", fo'[n].pc = "idle", n \in sure'
  PROVE  run'[n] = "yes"
<1>1. Observe
  BY Zenon DEF Next
<1>2. PICK k \in Nodes : Acts(k)
  BY Zenon DEF Next, Acts
<1>3. count' = count /\ n \in sure
  BY Zenon, <1>1, SureOnes
<1>4. k = n
  BY Zenon, <1>2, OwnFailover
<1>5. PICK V \in SUBSET Nodes : /\ Majority(Cardinality(V), Nodes) /\ n \in V
                                /\ \A m \in V : up[m] /\ ss[m] = n
  <2>1. Ahead(n)
    BY Zenon, <1>3 DEF SInv
  <2>2. PICK V \in SUBSET Nodes : /\ Majority(Cardinality(V), Nodes) /\ n \in V
                                  /\ \A m \in V : Follows(m, n)
    BY Zenon, <2>1 DEF Ahead
  <2>3. \A m \in V : up[m] /\ ss[m] = n
    BY Zenon, <2>2 DEF Follows
  <2> QED  BY Zenon, <2>2, <2>3
<1>6. CASE Load(n)
  BY Zenon, <1>6 DEF Load, Loaded, IInv, Typed
<1>7. CASE StartFails(n)
  <2>1. PICK a \in Answers(Nodes \ Offline) : ~Wins(a.from, n) /\ count' = a.count
    BY Zenon, <1>5, <1>7 DEF StartFails
  <2>2. Spent # count
    BY DEF Spent, IInv, Typed, Counts
  <2>3. a.from = {m \in Nodes \ Offline : up[m]}
    BY Zenon, <1>3, <2>1, <2>2, WhoAnswers
  <2> DEFINE S == {v \in a.from : ss[v] = n}
  <2>4. V \in SUBSET S /\ S \in SUBSET Nodes
    BY Zenon, <1>5, <2>3 DEF IInv, Phase
  <2>5. Majority(Cardinality(S), Nodes)
    BY Zenon, <1>5, <2>4, MoreVotes
  <2> QED  BY Zenon, <2>1, <2>5 DEF Wins, Votes
<1>8. ASSUME fo'[n] = fo[n] \/ fo'[n].pc \in {"wconfd", "update", "stop", "start"} PROVE FALSE
  BY Zenon, <1>8
<1>9. fo \in [Nodes -> Failovers]
  BY Zenon DEF IInv, Typed
<1>10. CASE Elect(n) \/ Boot(n) \/ \E m \in Nodes : Deliver(n, m)
  BY Zenon, <1>8, <1>10 DEF Elect, Boot, Deliver
<1>11. CASE StartWConfd(n) \/ Update(n) \/ StopOldMaster(n)
  BY Zenon, <1>8, <1>9, <1>11, FailoverMoves DEF StartWConfd, Update, StopOldMaster
<1>12. ~StartUnvoted(n)
  BY Zenon DEF StartUnvoted
<1>13. ~(Change(n) \/ FailoverCheck(n) \/ Crash(n) \/ DaemonsDie(n))
  BY Zenon, <1>3, Counted
<1> QED  BY ZenonT(60), <1>2, <1>4, <1>6, <1>7, <1>10, <1>11, <1>12, <1>13 DEF Acts, Step, FailoverStep

\* "To avoid situations with daemons not starting up on the new master,
\* master-failover without the --no-voting option verifies a healthy majority of
\* nodes" (man/gnt-cluster.rst): whatever the cluster, a failover that passed its
\* checks with nothing happening since starts the daemons of the new master, if
\* the nodes that are offline count in its checks as they do in the vote.
THEOREM FailoverSucceeds ==
  ASSUME IgnoreOffline = FALSE \/ Offline = {}
  PROVE  Spec => NoVainFailover
<1>1. Init => SInv
  BY Zenon DEF Init, SInv
<1>2. IInv /\ SInv /\ [Next]_vars => SInv'
  <2>1. ASSUME SInv, UNCHANGED vars PROVE SInv'
    <3>1. /\ up' = up /\ ss' = ss /\ clean' = clean /\ told' = told /\ dist' = dist
          /\ fo' = fo /\ sure' = sure
      BY Zenon, <2>1 DEF vars, files, daemon
    <3>2. \A n \in Nodes : Ahead(n) => Ahead(n)'
      BY Zenon, <3>1, AheadKept
    <3> QED  BY Zenon, <2>1, <3>1, <3>2 DEF SInv
  <2> QED  BY Zenon, <2>1, AheadStep
<1>3. IInv /\ SInv /\ [Next]_vars =>
        [\A n \in Nodes \ Unvoted :
           fo[n].pc = "start" /\ fo'[n].pc = "idle" /\ n \in sure' => run'[n] = "yes"]_vars
  BY Zenon, StartsInTheEnd
<1> QED  BY <1>1, <1>2, <1>3, Invariance, PTL DEF Spec, NoVainFailover

=================================================================================
