---------------------------------- MODULE Drbd ----------------------------------
(***************************************************************************)
(* The two nodes of a mirrored instance: the DRBD device and the guest on  *)
(* each of them, what the node daemon's calls do to them                   *)
(* (lib/backend.py, lib/storage/drbd.py, lib/hypervisor/hv_kvm), and what  *)
(* the DRBD kernel driver, qemu and the guest do on their own.             *)
(*                                                                         *)
(* The disk contents are abstracted to what DRBD's generation identifiers  *)
(* tell apart: a copy is "good" when it holds every write the guest was    *)
(* told is done, "stale" when it misses some and is a consistent older     *)
(* image, "torn" when a resync into it was interrupted or has not begun.   *)
(*                                                                         *)
(* Each call is an operator pair: when the node carries it out (Can...)    *)
(* and the nodes afterwards.  Whether the caller hears of the result is    *)
(* the business of the modules that make the calls.                        *)
(***************************************************************************)
EXTENDS Integers, FiniteSets

CONSTANT Nodes          \* the primary and the secondary node of the instance

ASSUME TwoNodes == \E m, n \in Nodes : m # n /\ Nodes = {m, n}

VARIABLES
  node,                 \* per node: up; net, the connection: "down" (no device),
                        \* "alone" (StandAlone), "wf" (WFConnection), "conn"
                        \* (Connected, or resync); pri, in the primary role;
                        \* dual, in dual-primary mode; data, the copy that
                        \* the device uses, or would use when assembled, "none"
                        \* if it has none; then vol is the logical volume under
                        \* the configured name: a copy, "blank" or "none"; old,
                        \* there is a replaced volume with a good copy
  vm                    \* per node: the qemu process: "off", "run", "out" (runs
                        \* and sends its memory), "inc" (waits for the memory),
                        \* "paused" (its memory has been sent)

Peer(n) == CHOOSE m \in Nodes \ {n} : TRUE

Executing(n) == vm[n] \in {"run", "out"}
InUse(n) == vm[n] # "off"
Connected == \A n \in Nodes : node[n].net = "conn"
InSync == \A n \in Nodes : node[n].data = "good"
Healthy == Connected /\ InSync

\* /proc/drbd says cs:Connected: a resync in progress is a state of its own
\* (DRBD8Status.is_connected, is_in_resync).
Steady == Connected /\ \A n \in Nodes : node[n].data # "torn"

\* GetSyncStatus: not is_degraded.
NotDegraded(n) == Steady /\ node[n].data = "good"

-------------------------------------------------------------------------------
(* The calls of the node daemon on a device.                               *)

\* n's end of the connection is taken down; the peer goes back to waiting.
Cut(n, net) == [node EXCEPT ![n].net = net,
                            ![Peer(n)].net = IF @ = "conn" THEN "wf" ELSE @]

\* DRBD8Dev.Open (drbdsetup primary): refused while the connected peer is
\* primary and the connection is not dual-primary, and on a copy torn by a
\* resync, or without one, unless the peer can serve the reads.
CanOpenOn(n, data) ==
  /\ node[n].net # "down"
  /\ \/ node[n].pri
     \/ ~(Connected /\ node[Peer(n)].pri /\ ~node[n].dual)
  /\ data \in {"torn", "none"} => Connected /\ node[Peer(n)].data = "good"
CanOpen(n) == CanOpenOn(n, node[n].data)
Open(n) == [node EXCEPT ![n].pri = TRUE]

\* BlockdevClose: fails on an unconfigured device and on one in use.
CanClose(n) == node[n].net # "down" /\ ~InUse(n)
Close(n) == [node EXCEPT ![n].pri = FALSE]

\* DrbdDisconnectNet
CanDisconnect(n) == node[n].net # "down"
Disconnect(n) == Cut(n, "alone")

\* DRBD8Dev.AttachNet: only from StandAlone.
CanAttach(n) == node[n].net = "alone"
Attach(n, multimaster) == [node EXCEPT ![n].net = "wf", ![n].dual = multimaster]

\* The condition DrbdAttachNet polls for: connected, and for dual-primary both
\* copies up to date as well.
Attached(multimaster) == Connected /\ (multimaster => InSync)

\* DRBD8Dev.Assemble: an unconfigured device is built, one without network is
\* connected in single-primary mode, one without local disk gets its volume,
\* a matching one is left as it is.  A blank volume has no metadata, a device
\* that has lost both disk and network is not handled, and the driver gives a
\* primary without connection only the copy it had.
CanAssemble(n) ==
  \/ node[n].data # "none" \/ node[n].vol = "none"
  \/ /\ node[n].vol # "blank" /\ node[n].net # "alone"
     /\ node[n].pri => Connected \/ node[n].vol = "good"
Assemble(n) ==
  LET attach == node[n].data = "none" /\ node[n].vol # "none" IN
  [node EXCEPT ![n].net = IF @ \in {"down", "alone"} THEN "wf" ELSE @,
               ![n].dual = @ /\ node[n].net \notin {"down", "alone"},
               ![n].data = IF ~attach THEN @
                           ELSE IF Connected /\ node[n].vol # "good" THEN "torn"
                           ELSE node[n].vol,
               ![n].vol = "none"]

\* BlockdevAssemble with as_primary: Assemble, then Open.
CanPromote(n) ==
  LET data == Assemble(n)[n].data IN
  /\ CanAssemble(n)
  /\ IF node[n].net \in {"down", "alone"} THEN data \in {"good", "stale"}
                                         ELSE CanOpenOn(n, data)
Promote(n) == [Assemble(n) EXCEPT ![n].pri = TRUE]

\* BlockdevShutdown: succeeds on an unconfigured device, fails on one in use.
CanShutdown(n) == ~InUse(n)
Shutdown(n) == [Cut(n, "down") EXCEPT ![n].pri = FALSE, ![n].dual = FALSE]

-------------------------------------------------------------------------------
(* The calls of the node daemon that replace the volume of a device.       *)

\* BlockdevRemovechildren: "I/Os will continue to be served from the remote
\* device.  If we don't have a remote device, this operation will fail."
CanDetach(n) ==
  LET used == node[n].pri \/ (Connected /\ node[Peer(n)].pri) IN
  /\ node[n].net # "down"
  /\ node[n].data # "none" /\ used => Connected /\ node[Peer(n)].data = "good"
Detach(n) ==
  IF node[n].data = "none" THEN node
  ELSE [node EXCEPT ![n].data = "none", ![n].vol = node[n].data]

\* BlockdevRename: the volume away, if there is one, and the new one in its place.
CanRenameOld(n) == node[n].data = "none"
RenameOld(n) == [node EXCEPT ![n].old = @ \/ node[n].vol = "good", ![n].vol = "none"]
CanRenameNew(n) == node[n].data = "none" /\ node[n].vol = "none"
RenameNew(n) == [node EXCEPT ![n].vol = "blank"]

\* BlockdevAddchildren: new metadata, and a full resync once there is a peer.
CanAdd(n) == node[n].net # "down" /\ node[n].vol = "blank"
AddDisk(n) == [node EXCEPT ![n].data = "torn", ![n].vol = "none"]

\* BlockdevRemove of a new volume, which fails if it is in use, and of an old one.
CanRemoveNew(n) == node[n].data = "none"
RemoveNew(n) == [node EXCEPT ![n].vol = "none"]
RemoveOld(n) == [node EXCEPT ![n].old = FALSE]

-------------------------------------------------------------------------------
(* The calls of the node daemon on the guest.                              *)

\* StartInstance: nothing to do when the process exists; otherwise the disks
\* are opened (_GatherAndLinkBlockDevs) and qemu is started.
CanStart(n) == InUse(n) \/ CanOpen(n)
StartedDisks(n) == IF InUse(n) THEN node ELSE Open(n)
Started(n) == [vm EXCEPT ![n] = IF InUse(n) THEN @ ELSE "run"]

\* InstanceShutdown (powerdown, in the end kill), and the kill of
\* FinalizeMigrationDst without and FinalizeMigrationSource with success.  A
\* guest whose memory has lost its receiver goes on running where it is.
Stopped(n) == [vm EXCEPT ![n] = "off", ![Peer(n)] = IF @ = "out" THEN "run" ELSE @]

\* AcceptInstance: a qemu process that waits for the memory.
CanAccept(n) == ~InUse(n) /\ node[n].pri
Accepted(n) == [vm EXCEPT ![n] = "inc"]

\* MigrateInstance: start sending the memory; returns at once, and fails later
\* if nobody is there to receive it.
CanMigrate(n) == vm[n] \in {"run", "paused"}
Migrating(n) == [vm EXCEPT ![n] = IF vm[Peer(n)] = "inc" THEN "out" ELSE "run"]

\* FinalizeMigrationSource without success: continue the guest if its process
\* is alive, whatever became of the target.
Continued(n) == [vm EXCEPT ![n] = IF @ = "paused" THEN "run" ELSE @]

-------------------------------------------------------------------------------
(* What happens by itself.                                                 *)

\* The two ends of a connection agree unless their modes differ, both are
\* primary in single-primary mode, each has writes the other has not (split
\* brain), or the one that would have to be overwritten is primary.
Compatible ==
  /\ \A m, n \in Nodes : node[m].dual = node[n].dual
  /\ \E n \in Nodes : node[n].dual \/ ~node[n].pri
  /\ \E n \in Nodes : node[n].data = "good"
  /\ \A n \in Nodes : node[n].pri => node[n].data \in {"good", "none"}

\* The handshake.  A copy that is behind becomes the target of a resync; when
\* the ends disagree, one or both of them give up (StandAlone).
Connect ==
  /\ \A n \in Nodes : node[n].up /\ node[n].net = "wf"
  /\ \/ /\ Compatible
        /\ node' = [n \in Nodes |->
             [node[n] EXCEPT !.net = "conn",
                             !.data = IF @ = "stale" THEN "torn" ELSE @]]
     \/ /\ ~Compatible
        /\ \E S \in SUBSET Nodes \ {{}} :
             node' = [n \in Nodes |-> [node[n] EXCEPT !.net = IF n \in S THEN "alone" ELSE @]]
  /\ UNCHANGED vm

SyncDone ==
  /\ Connected /\ ~Steady
  /\ \E n \in Nodes : node[n].data = "good"
  /\ node' = [n \in Nodes |-> [node[n] EXCEPT !.data = IF @ = "torn" THEN "good" ELSE @]]
  /\ UNCHANGED vm

\* The connection breaks; both ends try to connect again.
LinkDrop ==
  /\ Connected
  /\ node' = [n \in Nodes |-> [node[n] EXCEPT !.net = "wf"]]
  /\ UNCHANGED vm

\* A write reaches the copies in use on both ends of a connection, or on its own
\* node; it leaves all the others behind.
GuestWrite(n) ==
  LET reached == IF Connected THEN Nodes ELSE {n} IN
  /\ Executing(n)
  /\ \/ node[n].data \in {"good", "stale"}
     \/ Connected /\ node[Peer(n)].data = "good"
  /\ node' = [m \in Nodes |->
       [node[m] EXCEPT !.data = IF m \notin reached /\ @ = "good" THEN "stale" ELSE @,
                       !.vol = IF @ = "good" THEN "stale" ELSE @,
                       !.old = FALSE]]
  /\ node' # node
  /\ UNCHANGED vm

\* The memory has arrived: the source stops, the target runs.
TransferDone(n) ==
  /\ vm[n] = "out" /\ vm[Peer(n)] = "inc"
  /\ vm' = [vm EXCEPT ![n] = "paused", ![Peer(n)] = "run"]
  /\ UNCHANGED node

\* The transfer breaks: the receiver exits, the source goes on running.
TransferFails(n) ==
  /\ vm[n] = "out"
  /\ vm' = Stopped(Peer(n))
  /\ UNCHANGED node

\* The guest powers itself off, or qemu dies.
GuestStops(n) ==
  /\ InUse(n)
  /\ vm' = Stopped(n)
  /\ UNCHANGED node

NodeCrash(n) ==
  /\ node[n].up
  /\ node' = [Shutdown(n) EXCEPT ![n].up = FALSE]
  /\ vm' = Stopped(n)

NodeBoot(n) ==
  /\ ~node[n].up
  /\ node' = [node EXCEPT ![n].up = TRUE]
  /\ UNCHANGED vm
=============================================================================
