---------------------------- MODULE InstanceMobility ----------------------------
(***************************************************************************)
(* Live migration, its cleanup, failover, startup, shutdown, reboot, disk  *)
(* activation and disk replacement of a DRBD instance                      *)
(* (lib/cmdlib/instance_migration.py, instance_operation.py,               *)
(* instance_storage.py), with the watcher that submits startups and disk   *)
(* activations of its own (lib/watcher).                                   *)
(*                                                                         *)
(* All of them hold the instance lock exclusively, so one job runs at a    *)
(* time.  A job is the list of calls that it still has to make; a call     *)
(* that fails replaces the rest of the list by the error path of the code. *)
(* Calls can be lost, or be carried out with the answer lost; nodes, the   *)
(* connection, the guest and the job itself can die between any two calls. *)
(***************************************************************************)
EXTENDS Drbd, Sequences

CONSTANTS
  MaxJobs,              \* bound: jobs started
  MaxFaults             \* bound: lost answers, crashes, broken connections

ASSUME Bounds == MaxJobs \in Nat /\ MaxFaults \in Nat

VARIABLES
  conf,                 \* the instance in the configuration, and who is offline
  job,                  \* the job that holds the instance lock
  watcher,              \* the job the watcher has decided on, "none" or the opcode
  jobs, faults,         \* used up so far
  limbo,                \* a guest process was left where the configuration
                        \* does not say
  waived                \* a check was passed over because of --force, of
                        \* --ignore-consistency or of an offline node, or the
                        \* connection broke in the dual-primary phase of a
                        \* migration, where no check follows

vars == <<node, vm, conf, job, watcher, jobs, faults, limbo, waived>>

\* todo, the calls to come; final, those of a finally clause; bad, the nodes whose
\* answers are awaited that have failed; ok, whether all went well.
Idle == [op |-> "none", todo |-> <<>>, final |-> <<>>, bad |-> {}, ok |-> TRUE]

Primary == conf.primary
Secondary == Peer(conf.primary)
Reachable(n) == node[n].up /\ n \notin conf.offline

-------------------------------------------------------------------------------
(* The jobs as lists of calls <<call, nodes, what a failure does>>.        *)
(*   raise: the job fails.          note: goes on, fails at the next check *)
(*   pass: a warning.               abort: abort the migration and revert  *)
(*   undo: shut the disks down and fail.                                   *)
(*   rollback: remove the new volume and fail.                             *)

Lax(n) == IF n \in conf.offline THEN "pass" ELSE "raise"
Check(fail) == <<"check", {}, fail>>

GoStandalone == << <<"disconnect", Nodes, "note">>, Check("raise") >>
GoReconnect(multimaster) ==
  IF multimaster
  THEN << <<"attach2", Nodes, "note">>, <<"wait2", {}, "note">>, Check("raise") >>
  ELSE << <<"attach1", Nodes, "note">>, <<"wait1", {}, "note">>, Check("raise") >>
WaitUntilSync == << <<"sync", {}, "raise">> >>

\* Back to single-primary mode: the end of every migration and cleanup.
GoSingle == GoStandalone \o GoReconnect(FALSE) \o WaitUntilSync

\* MarkInstanceDisksInactive, then blockdev_shutdown on every node.
ShutdownDisks ==
  << <<"mark_inactive", {}, "raise">>,
     <<"shutdown", Nodes, "pass">> >>

\* Mutant: the primary is promoted without waiting for the handshake.
AssembleDisksNoHandshake(p, ignore, failed) ==
  << <<"mark_active", {}, "raise">>,
     <<"assemble", {p}, IF ignore THEN "pass" ELSE "note">>,
     <<"assemble", {Peer(p)}, IF ignore \/ Peer(p) \in conf.offline THEN "pass" ELSE "note">>,
     <<"promote", {p}, "note">>,
     Check(failed) >>

\* AssembleInstanceDisks: everywhere as secondary, wait for the handshake on
\* the secondary, promote the primary.
AssembleDisks(p, ignore, failed) ==
  LET s == Peer(p)
      lax == IF ignore THEN "pass" ELSE "note"
  IN << <<"mark_active", {}, "raise">>,
        <<"assemble", {p}, lax>>,
        <<"assemble", {s}, IF s \in conf.offline THEN "pass" ELSE lax>>,
        <<"handshake", {s}, IF ignore \/ s \in conf.offline THEN "pass" ELSE "inactive">>,
        <<"promote", {p}, "note">>,
        Check(failed) >>

StartInstance(p, ignore) ==
  AssembleDisks(p, ignore, "undo") \o << <<"start", {p}, "undo">> >>

\* Mutant: the old primary's device is not demoted after the migration.
MigrateJobNoClose(src, tgt) ==
  << <<"consistent", {tgt}, "raise">>, <<"close", {tgt}, Lax(tgt)>> >>
  \o GoStandalone \o GoReconnect(TRUE) \o WaitUntilSync
  \o << <<"open", {src}, "raise">>, <<"open", {tgt}, "raise">>,
        <<"accept", {tgt}, "abort">>, <<"migrate", {src}, "abort">>,
        <<"status", {src}, "abort">>,
        <<"finalize_src", {src}, "note">>, <<"finalize_dst", {tgt}, "note">>,
        Check("raise"), <<"set_primary", {tgt}, "raise">> >>

MigrateJob(src, tgt) ==
  << <<"consistent", {tgt}, "raise">>, <<"close", {tgt}, Lax(tgt)>> >>
  \o GoStandalone \o GoReconnect(TRUE) \o WaitUntilSync
  \o << <<"open", {src}, "raise">>, <<"open", {tgt}, "raise">>,
        <<"accept", {tgt}, "abort">>, <<"migrate", {src}, "abort">>,
        <<"status", {src}, "abort">>,
        <<"finalize_src", {src}, "note">>, <<"finalize_dst", {tgt}, "note">>,
        Check("raise"),
        <<"set_primary", {tgt}, "raise">>, <<"close", {src}, Lax(src)>> >>
  \o WaitUntilSync \o GoSingle

\* Mutant: the process on the target is not stopped by an abort.
AbortMigrationSourceOnly(src, tgt, fail) == << <<"abort_src", {src}, fail>> >>

\* _AbortMigration and _RevertDiskStatus
AbortMigration(src, tgt, fail) ==
  << <<"abort_dst", {tgt}, fail>>, <<"abort_src", {src}, fail>> >>
RevertMigration(src, tgt) ==
  AbortMigration(src, tgt, "pass")
  \o << <<"close", {tgt}, Lax(tgt)>> >> \o GoSingle

\* _ExecCleanup, from the point where the guest is known to run on one node
\* only, keep; demoted is the other one.
CleanupDisks(demoted) ==
  << <<"close", {demoted}, Lax(demoted)>>, <<"sync", {}, "pass">> >> \o GoSingle

FailoverJob(src, tgt, ignore) ==
  LET lax == IF ignore \/ src \in conf.offline THEN "pass" ELSE "raise" IN
  (IF conf.disks_active THEN << <<"consistent", {tgt}, lax>> >> ELSE <<>>)
  \o << <<"stop", {src}, lax>>,
        <<"mark_inactive", {}, "raise">>,
        <<"shutdown", {src}, "pass">>,
        <<"shutdown", {tgt}, IF tgt \in conf.offline THEN "pass" ELSE "note">>,
        Check("raise"),
        <<"set_primary", {tgt}, "raise">> >>
  \o (IF conf.admin = "up" THEN StartInstance(tgt, TRUE) ELSE <<>>)

StartupJob(p, force) ==
  << <<"mark_up", {}, "raise">> >> \o StartInstance(p, force)

ShutdownJob(p) ==
  << <<"mark_down", {}, "raise">>, <<"stop", {p}, "raise">> >>
  \o ShutdownDisks

RebootJob(p, ignore) ==
  (IF InUse(p) THEN << <<"stop", {p}, "raise">> >> \o ShutdownDisks
               ELSE <<>>)
  \o StartInstance(p, ignore) \o << <<"mark_up", {}, "raise">> >>

ActivateJob(p) == AssembleDisks(p, FALSE, "inactive")
DeactivateJob == ShutdownDisks

\* The deactivation at the end of Exec, which checks that the instance is down.
DeactivateAgain ==
  IF conf.disks_active THEN <<>>
  ELSE IF conf.admin = "up" THEN << <<"refuse", {}, "raise">> >>
  ELSE << <<"idle", {Primary}, "raise">> >> \o ShutdownDisks

\* Mutant: the copy that stays is not looked at.
ReplaceJobUnchecked(t, early_release) ==
  << <<"find", Nodes, "raise">>,
     <<"create", {t}, "raise">>, <<"detach", {t}, "raise">>,
     <<"rename_old", {t}, "raise">>, <<"rename_new", {t}, "raise">>,
     <<"add", {t}, "rollback">>, <<"remove_old", {t}, "pass">> >>

\* _ExecDrbd8DiskOnly: replace the volume of node t by an empty one.
ReplaceJob(t, early_release) ==
  LET drop == << <<"remove_old", {t}, "pass">> >> IN
  (IF conf.disks_active THEN <<>> ELSE AssembleDisks(Primary, TRUE, "undo"))
  \o << <<"find", Nodes, "raise">>, <<"consistent", {Peer(t)}, "raise">>,
        <<"create", {t}, "raise">>, <<"detach", {t}, "raise">>,
        <<"rename_old", {t}, "raise">>, <<"rename_new", {t}, "raise">>,
        <<"add", {t}, "rollback">> >>
  \o (IF early_release THEN drop ELSE <<>>)
  \o << <<"settle", {Primary}, "raise">>, <<"consistent", {Primary}, "raise">> >>
  \o (IF early_release THEN <<>> ELSE drop)
  \o DeactivateAgain

-------------------------------------------------------------------------------
(* Making a call.                                                          *)

At(call) == job.todo # <<>> /\ Head(job.todo)[1] = call
Targets(call) == IF At(call) THEN Head(job.todo)[2] ELSE {}

\* The list once n has answered, or once a step without a node is done.
Done(n) ==
  LET step == Head(job.todo)
      rest == step[2] \ {n}
  IN IF rest = {} THEN Tail(job.todo)
                  ELSE << <<step[1], rest, step[3]>> >> \o Tail(job.todo)
Next1 == [job EXCEPT !.todo = Tail(@)]

\* The job after the failure of the current call on n.
Failed(n) ==
  LET stop(path) == [job EXCEPT !.todo = path, !.final = <<>>, !.bad = {}, !.ok = FALSE] IN
  CASE Head(job.todo)[3] = "pass"  -> [job EXCEPT !.todo = Done(n)]
    [] Head(job.todo)[3] = "note"  -> [job EXCEPT !.todo = Done(n), !.bad = @ \union {n}]
    [] Head(job.todo)[3] = "raise" -> stop(job.final)
    [] Head(job.todo)[3] = "abort" -> stop(RevertMigration(Primary, Secondary))
    [] Head(job.todo)[3] = "undo"  -> stop(ShutdownDisks)
    [] Head(job.todo)[3] = "inactive" -> stop(<< <<"mark_inactive", {}, "raise">> >>)
    [] Head(job.todo)[3] = "rollback" -> stop(<< <<"remove_new", {n}, "pass">> >> \o job.final)

\* The checks whose failure the code may be told to pass over.
Guards == {"consistent", "stop", "assemble", "handshake"}

Fails(n) ==
  /\ job' = Failed(n)
  /\ waived' = (waived \/ (Head(job.todo)[1] \in Guards /\ Head(job.todo)[3] = "pass"))

\* A call to node n that is carried out if can and refused if refused.  It can
\* also get lost, or be carried out without the caller learning of it.
Call(call, n, can, refused, nodeAfter, vmAfter) ==
  LET done == node' = nodeAfter /\ vm' = vmAfter
      lost == faults < MaxFaults /\ faults' = faults + 1
  IN
  /\ \/ /\ Reachable(n) /\ can /\ done
        /\ job' = [job EXCEPT !.todo = Done(n)]
        /\ UNCHANGED <<faults, waived>>
     \/ /\ ~Reachable(n) \/ refused
        /\ Fails(n) /\ UNCHANGED <<node, vm, faults>>
     \/ /\ Reachable(n) /\ lost
        /\ Fails(n) /\ UNCHANGED <<node, vm>>
     \/ /\ Reachable(n) /\ can /\ lost
        /\ Fails(n) /\ done
  /\ limbo' = (limbo \/ (call = "abort_dst" /\ vm'[n] # "off"))
  /\ UNCHANGED <<conf, watcher, jobs>>

DeviceCall(call, Can(_), After(_)) ==
  \E n \in Targets(call) : Call(call, n, Can(n), ~Can(n), After(n), vm)
GuestCall(call, Can(_), After(_)) ==
  \E n \in Targets(call) : Call(call, n, Can(n), ~Can(n), node, After(n))
Always(n) == TRUE
NoChange(n) == node
Found(n) == node[n].net # "down"
NotRunning(n) == ~InUse(n)

BlockdevClose == DeviceCall("close", CanClose, Close)
BlockdevOpen == DeviceCall("open", CanOpen, Open)
BlockdevAssemble == DeviceCall("assemble", CanAssemble, Assemble)
BlockdevPromote == DeviceCall("promote", CanPromote, Promote)
BlockdevShutdown == DeviceCall("shutdown", CanShutdown, Shutdown)
BlockdevFind == \/ DeviceCall("consistent", NotDegraded, NoChange)
                \/ DeviceCall("find", Found, NoChange)
BlockdevCreate == DeviceCall("create", Always, NoChange)
BlockdevRemovechildren == DeviceCall("detach", CanDetach, Detach)
BlockdevRename == \/ DeviceCall("rename_old", CanRenameOld, RenameOld)
                  \/ DeviceCall("rename_new", CanRenameNew, RenameNew)
BlockdevAddchildren == DeviceCall("add", CanAdd, AddDisk)
BlockdevRemove == \/ DeviceCall("remove_old", Always, RemoveOld)
                  \/ DeviceCall("remove_new", CanRemoveNew, RemoveNew)
DrbdDisconnectNet == DeviceCall("disconnect", CanDisconnect, Disconnect)
DrbdAttachNet == \/ DeviceCall("attach1", CanAttach, LAMBDA n : Attach(n, FALSE))
                 \/ DeviceCall("attach2", CanAttach, LAMBDA n : Attach(n, TRUE))

InstanceInfo == DeviceCall("idle", NotRunning, NoChange)
InstanceStart == \E n \in Targets("start") :
  Call("start", n, CanStart(n), ~CanStart(n), StartedDisks(n), Started(n))
InstanceShutdown == GuestCall("stop", Always, Stopped)
AcceptInstance == GuestCall("accept", CanAccept, Accepted)
MigrateInstance == GuestCall("migrate", CanMigrate, Migrating)
FinalizeMigrationSource == \/ GuestCall("finalize_src", Always, Stopped)
                           \/ GuestCall("abort_src", Always, Continued)
FinalizeMigrationDst == \/ GuestCall("finalize_dst", InUse, LAMBDA n : vm)
                        \/ GuestCall("abort_dst", Always, Stopped)

\* Polled until the source is no longer sending: "paused" is completed.
GetMigrationStatus == \E n \in Targets("status") :
  Call("status", n, vm[n] = "paused", vm[n] \notin {"out", "paused"}, node, vm)

-------------------------------------------------------------------------------
(* Waiting for the devices.  A wait fails when the nodes cannot come to an *)
(* agreement, or when they take too long (a fault).                        *)

\* The connection is there or will come; the nodes in retrying leave
\* StandAlone by themselves.
Hopeful(retrying) ==
  /\ \A n \in Nodes : Reachable(n)
  /\ \/ Connected
     \/ /\ Compatible
        /\ \A n \in Nodes : \/ node[n].net = "wf"
                            \/ node[n].net = "alone" /\ n \in retrying

\* The poll loop at the end of DrbdAttachNet, on the nodes whose attach worked:
\* a device that has become StandAlone meanwhile is attached again.
Retrying == Nodes \ job.bad

Reattach ==
  /\ \E multimaster \in BOOLEAN, n \in Retrying :
       /\ At(IF multimaster THEN "wait2" ELSE "wait1")
       /\ Reachable(n) /\ CanAttach(n)
       /\ node' = Attach(n, multimaster)
  /\ UNCHANGED <<vm, conf, job, watcher, jobs, faults, limbo, waived>>

\* The loop ends well, or after two minutes, however often it attached.
WaitAttached(call, multimaster) ==
  /\ At(call)
  /\ \/ /\ Retrying = {} \/ (Attached(multimaster) /\ \A n \in Nodes : Reachable(n))
        /\ job' = Next1 /\ UNCHANGED faults
     \/ /\ Retrying # {} /\ ~Attached(multimaster)
        /\ ~Hopeful(Retrying) \/ (multimaster /\ \E n \in Nodes : node[n].data = "none")
        /\ job' = [Next1 EXCEPT !.bad = Nodes] /\ UNCHANGED faults
     \/ /\ Retrying # {} /\ ~Attached(multimaster)
        /\ faults < MaxFaults /\ faults' = faults + 1
        /\ job' = [Next1 EXCEPT !.bad = Nodes]
  /\ UNCHANGED <<node, vm, conf, watcher, jobs, limbo, waived>>

\* Mutant: a connection that does not come up is waited for for ever.
WaitSyncForever(call, n, reached, ready) ==
  /\ At(call)
  /\ \/ reached /\ ready /\ job' = Next1 /\ UNCHANGED waived
     \/ ~reached /\ Fails(n)
  /\ UNCHANGED <<node, vm, conf, watcher, jobs, faults, limbo>>

\* DrbdWaitSync on the nodes of the instance (_WaitUntilSync), or once on the
\* secondary (the handshake of AssembleInstanceDisks): not being connected is
\* an error after 15 seconds.
WaitSync(call, n, reached, ready) ==
  /\ At(call)
  /\ \/ /\ reached /\ ready
        /\ job' = Next1
        /\ UNCHANGED <<faults, waived>>
     \/ /\ ~reached \/ (~Connected /\ ~Hopeful({}))
        /\ Fails(n)
        /\ UNCHANGED faults
     \/ /\ faults < MaxFaults /\ faults' = faults + 1
        /\ Fails(n)
  /\ UNCHANGED <<node, vm, conf, watcher, jobs, limbo>>

DrbdWaitSync ==
  \/ WaitSync("sync", Primary, \A n \in Nodes : Reachable(n), Steady)
  \/ WaitSync("handshake", Secondary, Reachable(Secondary), Connected)

\* WaitForSync on the primary: while there is a resync, whatever comes of it.
BlockdevGetmirrorstatus == \E n \in Targets("settle") :
  LET syncing == Connected /\ ~Steady /\ \E m \in Nodes : node[m].data = "good" IN
  Call("settle", n, node[n].net # "down" /\ ~syncing, node[n].net = "down", node, vm)

WaitReconnect == WaitAttached("wait1", FALSE) \/ WaitAttached("wait2", TRUE)

-------------------------------------------------------------------------------
(* Steps on the master.                                                    *)

\* Several nodes were called at once; any failure counts.
CheckResults ==
  /\ At("check") \/ At("refuse")
  /\ job' = IF job.bad = {} /\ At("check") THEN Next1 ELSE Failed(Primary)
  /\ UNCHANGED <<node, vm, conf, watcher, jobs, faults, limbo, waived>>

ConfigStep ==
  /\ \/ At("mark_up") /\ conf' = [conf EXCEPT !.admin = "up", !.disks_active = TRUE]
     \/ At("mark_down") /\ conf' = [conf EXCEPT !.admin = "down"]
     \/ At("mark_active") /\ conf' = [conf EXCEPT !.disks_active = TRUE]
     \/ At("mark_inactive") /\ conf' = [conf EXCEPT !.disks_active = FALSE]
     \/ \E n \in Targets("set_primary") : conf' = [conf EXCEPT !.primary = n]
  /\ job' = Next1
  /\ UNCHANGED <<node, vm, watcher, jobs, faults, limbo, waived>>

\* _FindInstanceLocations and what _ExecCleanup makes of it.  The first time a
\* guest on both nodes is aborted, the second time it is given up on.
FindInstanceLocations ==
  LET src == Primary
      tgt == Secondary
      locations == {n \in Nodes \ conf.offline : InUse(n)}
      then(path) == [job EXCEPT !.todo = path]
  IN
  /\ At("locate") \/ At("locate_again")
  /\ \/ /\ \A n \in Nodes \ conf.offline : node[n].up
        /\ \/ /\ locations = Nodes /\ At("locate")
              /\ job' = then(AbortMigration(src, tgt, "note")
                             \o << Check("raise"), <<"locate_again", {}, "raise">> >>)
           \/ /\ locations = {} \/ (locations = Nodes /\ At("locate_again"))
              /\ job' = Failed(src)
           \/ /\ locations = {tgt}
              /\ job' = then(<< <<"set_primary", {tgt}, "raise">> >> \o CleanupDisks(src))
           \/ /\ locations = {src}
              /\ job' = then(CleanupDisks(tgt))
        /\ UNCHANGED faults
     \/ /\ \E n \in Nodes \ conf.offline : ~node[n].up
        /\ job' = Failed(src) /\ UNCHANGED faults
     \/ /\ faults < MaxFaults /\ faults' = faults + 1
        /\ job' = Failed(src)
  /\ UNCHANGED <<node, vm, conf, watcher, jobs, limbo, waived>>

-------------------------------------------------------------------------------
(* Starting and ending jobs.  A job whose prerequisites do not hold        *)
(* changes nothing and is left out.                                        *)

Starts(op, todo) ==
  /\ job = Idle /\ jobs < MaxJobs
  /\ job' = [Idle EXCEPT !.op = op, !.todo = todo,
                         !.final = IF op = "replace" THEN DeactivateAgain ELSE <<>>]
  /\ jobs' = jobs + 1
  /\ UNCHANGED <<node, vm, conf, faults, limbo, waived>>

Migrate == /\ Reachable(Primary) /\ Reachable(Secondary) /\ InUse(Primary)
           /\ Starts("migrate", MigrateJob(Primary, Secondary))
           /\ UNCHANGED watcher
Cleanup == /\ Reachable(Secondary)
           /\ Starts("cleanup", << <<"locate", {}, "raise">> >>)
           /\ UNCHANGED watcher
Failover == /\ Reachable(Secondary)
            /\ \E ignore_consistency \in BOOLEAN :
                 Starts("failover", FailoverJob(Primary, Secondary, ignore_consistency))
            /\ UNCHANGED watcher
Startup == /\ Reachable(Primary)
           /\ \E force \in BOOLEAN : Starts("startup", StartupJob(Primary, force))
           /\ UNCHANGED watcher
ShutdownInstance == /\ Primary \notin conf.offline
                    /\ Starts("shutdown", ShutdownJob(Primary))
                    /\ UNCHANGED watcher
Reboot == /\ Reachable(Primary)
          /\ \E ignore_secondaries \in BOOLEAN :
               Starts("reboot", RebootJob(Primary, ignore_secondaries))
          /\ UNCHANGED watcher
ActivateDisks == /\ Primary \notin conf.offline
                 /\ Starts("activate", ActivateJob(Primary))
                 /\ UNCHANGED watcher
DeactivateDisks == /\ conf.admin = "down"
                   /\ Primary \in conf.offline \/ (Reachable(Primary) /\ ~InUse(Primary))
                   /\ Starts("deactivate", DeactivateJob)
                   /\ UNCHANGED watcher
ReplaceDisks == /\ conf.offline = {}
                /\ \E t \in Nodes, early_release \in BOOLEAN :
                     Starts("replace", ReplaceJob(t, early_release))
                /\ UNCHANGED watcher

JobEnds ==
  /\ job.op # "none" /\ job.todo = <<>>
  /\ job' = Idle
  /\ limbo' = (InUse(Secondary) \/ (limbo /\ ~Healthy))
  /\ waived' = (waived /\ ~Healthy)
  /\ UNCHANGED <<node, vm, conf, watcher, jobs, faults>>

\* The job process is killed, or its node goes down.
JobDies ==
  /\ job.todo # <<>> /\ faults < MaxFaults
  /\ faults' = faults + 1
  /\ job' = Idle
  /\ limbo' = (InUse(Secondary) \/ (limbo /\ ~Healthy))
  /\ UNCHANGED <<node, vm, conf, watcher, jobs, waived>>

-------------------------------------------------------------------------------
(* The watcher looks at the cluster without any lock, and submits the job  *)
(* it has decided on some time later.                                      *)

\* deadInstanceStatus: marked up, the primary answers, no process anywhere.
ErrorDown == conf.admin = "up" /\ Reachable(Primary) /\ \A n \in Nodes : ~InUse(n)

\* DrbdNeedsActivation on a node of an instance with active disks.
NeedsActivation ==
  /\ conf.disks_active /\ conf.offline = {} /\ Reachable(Primary)
  /\ \E n \in Nodes : node[n].up /\ node[n].net \in {"down", "alone"}

WatcherLooks ==
  /\ watcher = "none"
  /\ \/ ErrorDown /\ watcher' = "startup"
     \/ ~ErrorDown /\ NeedsActivation /\ watcher' = "activate"
  /\ UNCHANGED <<node, vm, conf, job, jobs, faults, limbo, waived>>

WatcherSubmits ==
  /\ \/ /\ watcher = "startup" /\ Reachable(Primary)
        /\ Starts("watcher_startup", StartupJob(Primary, FALSE))
     \/ /\ watcher = "activate" /\ Primary \notin conf.offline
        /\ Starts("activate", ActivateJob(Primary))
  /\ watcher' = "none"

-------------------------------------------------------------------------------
(* The environment.  A node is marked offline only when it is down.        *)

SetOffline ==
  /\ job = Idle
  /\ \E n \in Nodes :
       \/ ~node[n].up /\ n \notin conf.offline
          /\ conf' = [conf EXCEPT !.offline = @ \union {n}]
       \/ node[n].up /\ n \in conf.offline
          /\ conf' = [conf EXCEPT !.offline = @ \ {n}]
  /\ UNCHANGED <<node, vm, job, watcher, jobs, faults, limbo, waived>>

Kernel == /\ \/ Connect \/ SyncDone
             \/ \E n \in Nodes : TransferDone(n)
          /\ UNCHANGED <<conf, job, watcher, jobs, faults, limbo, waived>>
Environment ==
  /\ \E n \in Nodes : GuestWrite(n) \/ NodeBoot(n)
  /\ UNCHANGED <<conf, job, watcher, jobs, faults, limbo, waived>>
Fault ==
  /\ faults < MaxFaults /\ faults' = faults + 1
  /\ \/ LinkDrop /\ waived' = (waived \/ \E n \in Nodes : node[n].dual)
     \/ \E n \in Nodes : (TransferFails(n) \/ GuestStops(n) \/ NodeCrash(n)) /\ UNCHANGED waived
  /\ UNCHANGED <<conf, job, watcher, jobs, limbo>>

-------------------------------------------------------------------------------
Init ==
  LET p == CHOOSE n \in Nodes : TRUE IN
  /\ node = [n \in Nodes |-> [up |-> TRUE, net |-> "conn", pri |-> n = p,
                              dual |-> FALSE, data |-> "good",
                              vol |-> "none", old |-> FALSE]]
  /\ vm = [n \in Nodes |-> IF n = p THEN "run" ELSE "off"]
  /\ conf = [primary |-> p, admin |-> "up", disks_active |-> TRUE, offline |-> {}]
  /\ job = Idle /\ watcher = "none"
  /\ jobs = 0 /\ faults = 0 /\ limbo = FALSE /\ waived = FALSE

Calls == \/ BlockdevClose \/ BlockdevOpen \/ BlockdevAssemble \/ BlockdevPromote
         \/ BlockdevShutdown \/ BlockdevFind \/ DrbdDisconnectNet \/ DrbdAttachNet
         \/ InstanceStart \/ InstanceShutdown \/ AcceptInstance \/ MigrateInstance
         \/ FinalizeMigrationSource \/ FinalizeMigrationDst \/ GetMigrationStatus
         \/ WaitReconnect \/ DrbdWaitSync \/ BlockdevGetmirrorstatus
         \/ BlockdevRemovechildren \/ BlockdevAddchildren \/ BlockdevRename
         \/ BlockdevCreate \/ BlockdevRemove \/ InstanceInfo
JobStep == Calls \/ CheckResults \/ ConfigStep \/ FindInstanceLocations \/ JobEnds
Submits == \/ Migrate \/ Cleanup \/ Failover \/ Startup \/ ShutdownInstance
           \/ Reboot \/ ActivateDisks \/ DeactivateDisks \/ ReplaceDisks

Next == \/ JobStep \/ JobDies \/ Submits \/ WatcherLooks \/ WatcherSubmits
        \/ SetOffline \/ Kernel \/ Reattach \/ Environment \/ Fault

Spec == Init /\ [][Next]_vars /\ WF_vars(job # Idle /\ JobStep) /\ WF_vars(Kernel \/ Reattach)

-------------------------------------------------------------------------------
(* Properties.                                                             *)

\* The guest never executes on two nodes at once, whatever calls are lost and
\* whoever dies, with two exceptions the code knows of: a migration ended with
\* a guest process left on the other node ("you will have to ensure manually
\* that it runs only on one", _ExecCleanup), or a check was overridden.
OneGuest ==
  (\A n \in Nodes : Executing(n)) => limbo \/ waived

\* The guest never executes on a copy of its disk that misses writes it was
\* told are done: AssembleInstanceDisks and the consistency checks of migration
\* and failover see to it unless they are overridden.
NoLostWrites ==
  \A n \in Nodes : Executing(n) /\ node[n].data = "stale" => limbo \/ waived

\* There is always a complete copy of the disk somewhere: replace-disks does not
\* give up one before it has looked for another, whatever fails in between and
\* whichever job comes next.
CopyKept ==
  \/ \E n \in Nodes : "good" \in {node[n].data, node[n].vol} \/ node[n].old
  \/ limbo \/ waived

\* Only a migration that fails can leave a guest process on a node other than
\* the one the configuration names: no lost answer and no crash makes another
\* job do so.  One that reports success leaves no primary device there either
\* and no device in dual-primary mode, whatever earlier jobs left behind.
Settled ==
  job.op # "none" /\ job.todo = <<>> =>
    /\ \/ vm[Secondary] = "off" \/ limbo \/ waived
       \/ job.op = "migrate" /\ ~job.ok
    /\ job.op \in {"migrate", "cleanup"} /\ job.ok =>
         /\ vm[Secondary] = "off"
         /\ ~node[Secondary].pri
         /\ \A n \in Nodes : ~node[n].dual

\* Every job comes to an end: no wait of the job has to be interrupted by hand.
JobsEnd == (job # Idle) ~> (job = Idle)
=============================================================================
