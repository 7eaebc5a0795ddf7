------------------------------ MODULE Livelock ------------------------------
(***************************************************************************)
(* Livelock files (src/Ganeti/Utils/Livelock.hs, lib/utils/livelock.py)    *)
(* and the death detection thread of WConfd that relies on them            *)
(* (src/Ganeti/WConfd/DeathDetection.hs).                                  *)
(*                                                                         *)
(* A process creates a file of its own and locks it exclusively; the       *)
(* kernel drops the lock when the process dies.  WConfd probes the files   *)
(* of lock owners, and every file in the directory, with a shared lock.    *)
(* These are POSIX record locks: they belong to the process, and are       *)
(* dropped when it closes any descriptor of the file.                      *)
(***************************************************************************)
EXTENDS Integers, FiniteSets

CONSTANTS Proc,      \* processes with a livelock file
          WConfd,    \* the one that runs the death detection
          Daemon     \* those that lock their file without waiting (Haskell)

ASSUME ProcAssumption == WConfd \in Daemon /\ Daemon \subseteq Proc

VARIABLES proc,      \* the state of each process
          linked,    \* is its file in the directory?
          locked,    \* does it hold the lock on its file?
          owns,      \* does WConfd have locks or reservations of it?
          orphaned,  \* processes whose file was removed by death detection
                     \* before they died
          phase, todo, cur, step   \* the death detection thread

cleaner == <<phase, todo, cur, step>>
vars == <<proc, linked, locked, owns, orphaned, cleaner>>

Init ==
  /\ proc = [p \in Proc |-> IF p = WConfd THEN "running" ELSE "init"]
  /\ linked = [p \in Proc |-> p = WConfd]
  /\ locked = [p \in Proc |-> p = WConfd]
  /\ owns = [p \in Proc |-> FALSE]
  /\ orphaned = {}
  /\ phase = "owners" /\ todo = {} /\ cur = WConfd /\ step = "next"

-----------------------------------------------------------------------------
(***************************************************************************)
(* A process.  Creating and locking the file are two steps; a Python       *)
(* process waits for the lock (F_SETLKW), a Haskell daemon fails to start  *)
(* if it does not get it at once.                                          *)
(***************************************************************************)
Create(p) ==
  /\ proc[p] = "init"
  /\ proc' = [proc EXCEPT ![p] = "created"]
  /\ linked' = [linked EXCEPT ![p] = TRUE]
  /\ UNCHANGED <<locked, owns, orphaned, cleaner>>

ProbeHolds(p) == step = "close" /\ cur = p

Lock(p) ==
  /\ proc[p] = "created"
  /\ ~ProbeHolds(p)
  /\ proc' = [proc EXCEPT ![p] = "running"]
  /\ locked' = [locked EXCEPT ![p] = TRUE]
  /\ UNCHANGED <<linked, owns, orphaned, cleaner>>

LockFails(p) ==
  /\ p \in Daemon
  /\ proc[p] = "created"
  /\ ProbeHolds(p)
  /\ proc' = [proc EXCEPT ![p] = "dead"]
  /\ UNCHANGED <<linked, locked, owns, orphaned, cleaner>>

\* A lock request or a reservation, linked to the livelock file.
Acquire(p) ==
  /\ proc[p] = "running"
  /\ ~owns[p]
  /\ owns' = [owns EXCEPT ![p] = TRUE]
  /\ UNCHANGED <<proc, linked, locked, orphaned, cleaner>>

Free(p) ==
  /\ proc[p] = "running"
  /\ owns[p]
  /\ owns' = [owns EXCEPT ![p] = FALSE]
  /\ UNCHANGED <<proc, linked, locked, orphaned, cleaner>>

\* The end of a job process: the file is removed before the process exits.
Exit(p) ==
  /\ proc[p] = "running" /\ p \notin Daemon
  /\ proc' = [proc EXCEPT ![p] = "exiting"]
  /\ linked' = [linked EXCEPT ![p] = FALSE]
  /\ UNCHANGED <<locked, owns, orphaned, cleaner>>

Die(p) ==
  /\ proc[p] \in {"created", "running", "exiting"}
  /\ p # WConfd
  /\ proc' = [proc EXCEPT ![p] = "dead"]
  /\ locked' = [locked EXCEPT ![p] = FALSE]
  /\ UNCHANGED <<linked, owns, orphaned, cleaner>>

-----------------------------------------------------------------------------
(***************************************************************************)
(* The death detection thread goes through all owners, then through all    *)
(* files; both lists are read before.                                      *)
(***************************************************************************)
NextPhase ==
  /\ step = "next" /\ todo = {}
  /\ phase' = IF phase = "owners" THEN "stale" ELSE "owners"
  /\ todo' = IF phase = "owners" THEN {p \in Proc : linked[p]}
                                 ELSE {p \in Proc : owns[p]}
  /\ UNCHANGED <<cur, step, proc, linked, locked, owns, orphaned>>

\* Mutant: WConfd also probes its own file.
PickAny ==
  /\ step = "next"
  /\ \E p \in todo :
       /\ cur' = p
       /\ todo' = todo \ {p}
       /\ step' = "exists"
  /\ UNCHANGED <<phase, proc, linked, locked, owns, orphaned>>

Pick ==
  /\ step = "next"
  /\ \E p \in todo :
       /\ cur' = p
       /\ todo' = todo \ {p}
       /\ step' = IF p = WConfd THEN "next" ELSE "exists"
  /\ UNCHANGED <<phase, proc, linked, locked, owns, orphaned>>

(***************************************************************************)
(* isDead: a file that does not exist counts as the file of a dead         *)
(* process; any error, also that the file vanished after the first test,   *)
(* counts as alive.                                                        *)
(***************************************************************************)
died == IF phase = "owners" THEN "cleanup" ELSE "remove"

DoesFileExist ==
  /\ step = "exists"
  /\ step' = IF linked[cur] THEN "open" ELSE died
  /\ UNCHANGED <<phase, todo, cur, proc, linked, locked, owns, orphaned>>

\* Mutant: a file that cannot be locked for reading counts as abandoned.
OpenAndLockIgnoresLock ==
  /\ step = "open"
  /\ step' = IF linked[cur] THEN "close" ELSE "next"
  /\ UNCHANGED <<phase, todo, cur, proc, linked, locked, owns, orphaned>>

OpenAndLock ==
  /\ step = "open"
  /\ step' = IF linked[cur] /\ (locked[cur] => cur = WConfd) THEN "close"
                                                             ELSE "next"
  /\ UNCHANGED <<phase, todo, cur, proc, linked, locked, owns, orphaned>>

Close ==
  /\ step = "close"
  /\ step' = died
  /\ locked' = [locked EXCEPT ![WConfd] = @ /\ cur # WConfd]
  /\ UNCHANGED <<phase, todo, cur, proc, linked, owns, orphaned>>

\* Mutant: nothing is released if the file is already gone.
CleanupKeeps ==
  /\ step = "cleanup"
  /\ owns' = [owns EXCEPT ![cur] = @ /\ ~linked[cur]]
  /\ step' = "remove"
  /\ UNCHANGED <<phase, todo, cur, proc, linked, locked, orphaned>>

Cleanup ==
  /\ step = "cleanup"
  /\ owns' = [owns EXCEPT ![cur] = FALSE]
  /\ step' = "remove"
  /\ UNCHANGED <<phase, todo, cur, proc, linked, locked, orphaned>>

RemoveFile ==
  /\ step = "remove"
  /\ orphaned' = IF linked[cur] /\ proc[cur] # "dead"
                   THEN orphaned \cup {cur} ELSE orphaned
  /\ linked' = [linked EXCEPT ![cur] = FALSE]
  /\ step' = "next"
  /\ UNCHANGED <<phase, todo, cur, proc, locked, owns>>

Detect == \/ NextPhase \/ Pick \/ DoesFileExist \/ OpenAndLock \/ Close
          \/ Cleanup \/ RemoveFile

Process(p) == \/ Create(p) \/ Lock(p) \/ LockFails(p) \/ Acquire(p)
              \/ Free(p) \/ Exit(p) \/ Die(p)

Next == Detect \/ \E p \in Proc : Process(p)

Spec == Init /\ [][Next]_vars

\* The detection thread runs forever, with a delay between the rounds.
FairSpec == Spec /\ WF_vars(Detect)

-----------------------------------------------------------------------------
\* Type correctness; only live processes hold locks on files.
TypeOK ==
  /\ proc \in [Proc -> {"init", "created", "running", "exiting", "dead"}]
  /\ linked \in [Proc -> BOOLEAN] /\ locked \in [Proc -> BOOLEAN]
  /\ owns \in [Proc -> BOOLEAN]
  /\ \A p \in Proc : locked[p] => proc[p] \in {"running", "exiting"}
  /\ orphaned \in SUBSET Proc
  /\ phase \in {"owners", "stale"} /\ todo \in SUBSET Proc /\ cur \in Proc
  /\ step \in {"next", "exists", "open", "close", "cleanup", "remove"}

(***************************************************************************)
(* What the files and the thread's position tell about the processes: this *)
(* is the inductive invariant that justifies the cleanup.                  *)
(***************************************************************************)
Evidence ==
  /\ \A p \in Proc :
       /\ proc[p] \in {"created", "running"} /\ ~linked[p] => p \in orphaned
       /\ proc[p] \in {"init", "created"} => ~owns[p]
       /\ phase = "owners" /\ p \in todo => proc[p] \notin {"init", "created"}
  /\ step # "next" => cur # WConfd
  /\ phase = "owners" /\ step # "next" => proc[cur] \notin {"init", "created"}
  /\ phase = "owners" /\ step = "close" => proc[cur] = "dead"
  /\ phase = "stale" => step # "cleanup"
  /\ \A p \in Proc \ {WConfd} : proc[p] \in {"running", "exiting"} => locked[p]
  /\ WConfd \notin orphaned /\ proc[WConfd] = "running"

(***************************************************************************)
(* WConfd releases the resources of a process only if that is dead, or has *)
(* removed its file in order to exit, or never had a locked file in the    *)
(* directory because death detection removed it while it was created.      *)
(***************************************************************************)
CleanupJustified ==
  step = "cleanup" => \/ proc[cur] \in {"exiting", "dead"}
                      \/ cur \in orphaned

\* WConfd's own file stays locked, although WConfd looks at all files.
SelfAlive == locked[WConfd] /\ linked[WConfd]

(***************************************************************************)
(* The resources of a dead process are released, and its file is removed,  *)
(* once and for all.                                                       *)
(***************************************************************************)
DeadCleanedUp ==
  \A p \in Proc : proc[p] = "dead" ~> [](~owns[p] /\ ~linked[p])

=============================================================================
