---------------------------- MODULE SidecarVolume ----------------------------
(***************************************************************************)
(* Sidecar volumes: NodePublishVolume and NodeUnpublishVolume in sidecar   *)
(* mode (pkg/driver/node.go) and the fd handoff of sidecarMount            *)
(* (pkg/driver/sidecar_mounter_linux.go).                                  *)
(*                                                                         *)
(* A target is one volume of one workload pod: a mount point, a volumeDir  *)
(* in the pod's emptyDir and a sidecar that waits for a socket there.      *)
(* Pods that use one PersistentVolume have targets with one volume ID, and *)
(* the short symlink under /var/run/hf-csi is named after the volume ID    *)
(* alone.  sidecarMount is a step per file system change another call can  *)
(* see; its goroutine a step per deferred function.                        *)
(***************************************************************************)
EXTENDS Integers

CONSTANTS Targets, Volumes,
          Minors,
          None,       \* no connection, no target, no minor
          Stale,      \* a socket file nobody listens on
          Slots,      \* connections a target may have at a time
          MinorReuse, \* the kernel may reuse a minor a goroutine still knows
          MaxFaults   \* restarts, failures, timeouts, deaths of a sidecar

Conns == Targets \X Slots

ASSUME SidecarAssumption ==
  /\ None \notin Targets \cup Minors \cup Conns
  /\ Stale \notin Conns \cup {None}
  /\ {"none", "driver", "closed"} \cap Targets = {}
  /\ MinorReuse \in BOOLEAN
  /\ MaxFaults \in Nat

VARIABLES
  volumeID,  \* volumeID[t]: the CSI volume ID, fixed
  kubelet,   \* what kubelet does with t: "up", "leaving", "gone"
  call,      \* control point of the call on t (kubelet makes one at a time)
  mount,     \* the connection mounted at t
  conn,      \* conn[c]: who holds the fd, the minor, the goroutine's control point
  emptyDir,  \* the Memory emptyDir of the pod is mounted
  files,     \* names in volumeDir: "dir" (itself), "error", "handoff-error", "token"
  socket,    \* volumeDir/s: None, Stale or the connection its listener hands over
  symlink,   \* symlink[v]: the target whose volumeDir it points to
  tokenFile, \* volume IDs with a token file under cacheBase
  pendingSidecarMinors, sidecarVolumes,  \* the package's maps
  sidecar,   \* "off", "waiting" (for a socket), "serving", "wedged"
  faults,
  seen       \* history: targets found mounted by a publish of this driver process

diskVars == <<emptyDir, files, socket, symlink, tokenFile>>
driverVars == <<call, pendingSidecarMinors, sidecarVolumes, seen>>
vars == <<volumeID, kubelet, mount, conn, sidecar, faults, diskVars, driverVars>>

Owner(c) == c[1]
Unused == [fd |-> "none", minor |-> None, handoff |-> "none"]

ConnRecs == [fd : {"none", "driver", "closed"} \cup Targets,
             minor : Minors \cup {None},
             handoff : {"none", "accept", "failed", "unlink", "close", "clear"}]
FileSets == {{}} \cup {{"dir"} \cup f : f \in SUBSET {"error", "handoff-error", "token"}}

TypeOK ==
  /\ volumeID \in [Targets -> Volumes]
  /\ kubelet \in [Targets -> {"up", "leaving", "gone"}]
  /\ call \in [Targets -> {"idle", "files", "unlink", "symlink", "unsocket", "listen", "cleanup", "stat"}]
  /\ mount \in [Targets -> Conns \cup {None}]
  /\ conn \in [Conns -> ConnRecs]
  /\ emptyDir \in [Targets -> BOOLEAN]
  /\ files \in [Targets -> FileSets]
  /\ socket \in [Targets -> Conns \cup {None, Stale}]
  /\ symlink \in [Volumes -> Targets \cup {None}]
  /\ tokenFile \subseteq Volumes
  /\ pendingSidecarMinors \subseteq Minors
  /\ sidecarVolumes \subseteq Targets
  /\ sidecar \in [Targets -> {"off", "waiting", "serving", "wedged"}]
  /\ faults \in 0..MaxFaults
  /\ seen \subseteq Targets

Init ==
  /\ volumeID \in [Targets -> Volumes]
  /\ kubelet \in [Targets -> {"up", "gone"}]
  /\ call = [t \in Targets |-> "idle"]
  /\ mount = [t \in Targets |-> None]
  /\ conn = [c \in Conns |-> Unused]
  /\ emptyDir = [t \in Targets |-> FALSE]
  /\ files = [t \in Targets |-> {}]
  /\ socket = [t \in Targets |-> None]
  /\ symlink = [v \in Volumes |-> None]
  /\ tokenFile = {}
  /\ pendingSidecarMinors = {}
  /\ sidecarVolumes = {}
  /\ sidecar = [t \in Targets |-> "off"]
  /\ faults \in 0..MaxFaults
  /\ seen = {}

Fault == faults > 0 /\ faults' = faults - 1

Up(t) == kubelet[t] = "up" /\ call[t] = "idle"
Mounted(t) == mount[t] # None
Served(t) == Mounted(t) /\ conn[mount[t]].fd = t /\ sidecar[t] = "serving"

\* Mutant of symlinkPath: a hash that is the same for all.
OnePath(t) == CHOOSE v \in Volumes : TRUE

\* The name of the symlink under symlinkBase: the hash of the volume ID.
symlinkPath(t) == volumeID[t]

\* The directory a path through the symlink leads to: gone with its emptyDir.
Resolved(t) ==
  LET d == symlink[symlinkPath(t)]
  IN  IF d # None /\ "dir" \in files[d] THEN d ELSE None

(***************************************************************************)
(* The end of a connection.  The kernel closes it when its last fd is      *)
(* closed, when it is aborted and when its mount is gone: the sidecar that *)
(* holds the fd gives up and waits for a new socket.                       *)
(***************************************************************************)
\* cs, with the connections in D closed.
Closed(cs, D) == [c \in Conns |-> IF c \in D /\ cs[c].fd # "none"
                                  THEN [cs[c] EXCEPT !.fd = "closed"] ELSE cs[c]]

\* A closed connection with neither mount nor goroutine is nothing any more.
Settled(cs, m) ==
  [c \in Conns |-> IF m[Owner(c)] # c /\ cs[c].handoff = "none" /\ cs[c].fd \in {"none", "closed"}
                   THEN Unused ELSE cs[c]]

\* abortFuseConnection(t); m are the mounts afterwards.
Abort(t, m) ==
  /\ mount' = m
  /\ conn' = Settled(Closed(conn, {mount[t]}), m)
  /\ sidecar' = [d \in Targets |->
       IF Mounted(t) /\ conn[mount[t]].fd = d /\ sidecar[d] # "off" THEN "waiting" ELSE sidecar[d]]

Without(t) == [mount EXCEPT ![t] = None]

(***************************************************************************)
(* NodePublishVolume of a target that is not mounted: sidecarMount.        *)
(***************************************************************************)
\* The minors the kernel may give to a new superblock.
FreeMinors ==
  {m \in Minors : \A c \in Conns :
     conn[c].minor = m => MinorReuse /\ mount[Owner(c)] # c}

FreeConns(t) == {c \in {t} \X Slots : conn[c] = Unused}

\* The token file of the volume is written; requireSidecarTmpfs refuses
\* until kubelet has mounted the emptyDir; then the kernel mount.
PublishMount(t) ==
  /\ Up(t) /\ ~Mounted(t)
  /\ tokenFile' = tokenFile \cup {volumeID[t]}
  /\ \/ ~emptyDir[t] /\ UNCHANGED <<call, mount, conn>>
     \/ /\ emptyDir[t]
        /\ FreeMinors # {} /\ FreeConns(t) # {}
        /\ LET c == CHOOSE c \in FreeConns(t) : TRUE
               m == CHOOSE m \in FreeMinors : TRUE
           IN /\ mount' = [mount EXCEPT ![t] = c]
              /\ conn' = [conn EXCEPT ![c] = [Unused EXCEPT !.fd = "driver", !.minor = m]]
        /\ call' = [call EXCEPT ![t] = "files"]
  /\ UNCHANGED <<volumeID, kubelet, sidecar, faults, emptyDir, files, socket, symlink,
                 pendingSidecarMinors, sidecarVolumes, seen>>

\* sidecarMount fails, and calls cleanup() next.
GiveUp(t) == call' = [call EXCEPT ![t] = "cleanup"] /\ UNCHANGED <<mount, conn>>

\* cleanup() unmounts and closes the fd; the error goes to kubelet.
Cleanup(t) ==
  /\ call[t] = "cleanup"
  /\ mount' = Without(t)
  /\ conn' = [conn EXCEPT ![mount[t]] = Unused]
  /\ call' = [call EXCEPT ![t] = "idle"]
  /\ UNCHANGED <<volumeID, kubelet, sidecar, faults, diskVars, pendingSidecarMinors, sidecarVolumes, seen>>

\* The error of its unmount is dropped: the mount stays, without an fd.
CleanupFails(t) ==
  /\ call[t] = "cleanup"
  /\ Fault
  /\ conn' = [conn EXCEPT ![mount[t]].fd = "closed"]
  /\ call' = [call EXCEPT ![t] = "idle"]
  /\ UNCHANGED <<volumeID, kubelet, mount, sidecar, diskVars, pendingSidecarMinors, sidecarVolumes, seen>>

\* Mutant of ClearedStatus: the error file of the sidecar stays.
HandoffErrorCleared(names) == names \ {"handoff-error"}

\* An earlier attempt's status is removed.
ClearedStatus(names) == names \ {"error", "handoff-error"}

\* volumeDir is made and cleared, the token copied if its file can be read,
\* the args written.
WriteFiles(t) ==
  /\ call[t] = "files"
  /\ files' = [files EXCEPT ![t] = ClearedStatus(@) \cup {"dir"}
                     \cup IF volumeID[t] \in tokenFile THEN {"token"} ELSE {}]
  /\ call' = [call EXCEPT ![t] = "unlink"]
  /\ UNCHANGED <<volumeID, kubelet, mount, conn, sidecar, faults, emptyDir, socket, symlink, tokenFile,
                 pendingSidecarMinors, sidecarVolumes, seen>>

RemoveSymlink(t) ==
  /\ call[t] = "unlink"
  /\ symlink' = [symlink EXCEPT ![symlinkPath(t)] = None]
  /\ call' = [call EXCEPT ![t] = "symlink"]
  /\ UNCHANGED <<volumeID, kubelet, mount, conn, sidecar, faults, emptyDir, files, socket, tokenFile,
                 pendingSidecarMinors, sidecarVolumes, seen>>

\* os.Symlink fails on a link another call has just made.
Symlink(t) ==
  /\ call[t] = "symlink"
  /\ \/ /\ symlink[symlinkPath(t)] # None
        /\ GiveUp(t)
        /\ UNCHANGED symlink
     \/ /\ symlink[symlinkPath(t)] = None
        /\ symlink' = [symlink EXCEPT ![symlinkPath(t)] = t]
        /\ call' = [call EXCEPT ![t] = "unsocket"]
        /\ UNCHANGED <<mount, conn>>
  /\ UNCHANGED <<volumeID, kubelet, sidecar, faults, emptyDir, files, socket, tokenFile,
                 pendingSidecarMinors, sidecarVolumes, seen>>

RemoveSocket(t) ==
  /\ call[t] = "unsocket"
  /\ socket' = [socket EXCEPT ![t] = None]
  /\ call' = [call EXCEPT ![t] = "listen"]
  /\ UNCHANGED <<volumeID, kubelet, mount, conn, sidecar, faults, emptyDir, files, symlink, tokenFile,
                 pendingSidecarMinors, sidecarVolumes, seen>>

\* net.Listen puts the socket where the symlink leads at that moment, or
\* fails: no such directory, or a socket is there already.  Then the minor is
\* marked, the goroutine starts and NodePublishVolume returns.
Listen(t) ==
  /\ call[t] = "listen"
  /\ LET d == Resolved(t)
         c == mount[t]
         free == d # None /\ socket[d] = None
     IN \/ /\ ~free
           /\ GiveUp(t)
           /\ UNCHANGED <<socket, pendingSidecarMinors, sidecarVolumes, seen>>
        \/ /\ free
           /\ socket' = [socket EXCEPT ![d] = c]
           /\ pendingSidecarMinors' = pendingSidecarMinors \cup {conn[c].minor}
           /\ conn' = [conn EXCEPT ![c].handoff = "accept"]
           /\ sidecarVolumes' = sidecarVolumes \cup {t}
           /\ seen' = seen \cup {t}
           /\ call' = [call EXCEPT ![t] = "idle"]
           /\ UNCHANGED mount
  /\ UNCHANGED <<volumeID, kubelet, sidecar, faults, emptyDir, files, symlink, tokenFile>>

\* Any other step of sidecarMount may fail as well.
PublishFails(t) ==
  /\ call[t] \in {"files", "unlink", "symlink", "listen"}
  /\ Fault
  /\ GiveUp(t)
  /\ UNCHANGED <<volumeID, kubelet, sidecar, diskVars, pendingSidecarMinors, sidecarVolumes, seen>>

(***************************************************************************)
(* The goroutine of sidecarMount.                                          *)
(***************************************************************************)
\* The sidecar in d finds the socket and connects; the fds are sent.  The fd
\* of a connection that has been closed meanwhile is of no use to it.
Connect(d) ==
  /\ sidecar[d] = "waiting"
  /\ socket[d] \in Conns
  /\ LET c == socket[d]
     IN /\ conn[c].handoff = "accept"
        /\ \/ /\ conn[c].fd = "driver"
              /\ conn' = [conn EXCEPT ![c].handoff = "unlink", ![c].fd = d]
              /\ sidecar' = [sidecar EXCEPT ![d] = "serving"]
              /\ UNCHANGED files
           \/ /\ conn[c].fd = "closed"
              /\ conn' = [conn EXCEPT ![c].handoff = "unlink"]
              /\ files' = [files EXCEPT ![d] = @ \cup {"error"}]
              /\ UNCHANGED sidecar
  /\ UNCHANGED <<volumeID, kubelet, mount, faults, emptyDir, socket, symlink, tokenFile, driverVars>>

\* The sidecar that could connect to the listener of c has yet to do so.
Expected(c) ==
  \E d \in Targets : socket[d] = c /\ sidecar[d] \in {"off", "waiting"} /\ kubelet[d] = "up"

\* socketAcceptTimeout passes, or SendMsgFds fails: the fd is closed.  It is
\* a fault when the sidecar could have had it.
HandoffFails(c) ==
  /\ conn[c].handoff = "accept"
  /\ conn' = [conn EXCEPT ![c].handoff = "failed", ![c].fd = "closed"]
  /\ IF Expected(c) THEN Fault ELSE UNCHANGED faults
  /\ UNCHANGED <<volumeID, kubelet, mount, sidecar, diskVars, driverVars>>

\* Mutant of RecordFailure: the failure is logged only.
FailureNotRecorded(c) ==
  /\ conn[c].handoff = "failed"
  /\ conn' = [conn EXCEPT ![c].handoff = "unlink"]
  /\ UNCHANGED <<volumeID, kubelet, mount, sidecar, faults, diskVars, driverVars>>

\* The deferred functions, in the order they run.
RecordFailure(c) ==
  /\ conn[c].handoff = "failed"
  /\ files' = [files EXCEPT ![Owner(c)] =
                 IF "dir" \in @ THEN @ \cup {"handoff-error"} ELSE @]
  /\ conn' = [conn EXCEPT ![c].handoff = "unlink"]
  /\ UNCHANGED <<volumeID, kubelet, mount, sidecar, faults, emptyDir, socket, symlink, tokenFile, driverVars>>

\* The write of the error file fails as well: that is logged only.
RecordFails(c) ==
  /\ conn[c].handoff = "failed"
  /\ Fault
  /\ conn' = [conn EXCEPT ![c].handoff = "unlink"]
  /\ UNCHANGED <<volumeID, kubelet, mount, sidecar, diskVars, driverVars>>

DropSymlink(c) ==
  /\ conn[c].handoff = "unlink"
  /\ symlink' = [symlink EXCEPT ![symlinkPath(Owner(c))] = None]
  /\ conn' = [conn EXCEPT ![c].handoff = "close"]
  /\ UNCHANGED <<volumeID, kubelet, mount, sidecar, faults, emptyDir, files, socket, tokenFile, driverVars>>

\* listener.Close unlinks the path it listened on, wherever the symlink leads
\* by now, and leaves its own socket file if the symlink is gone.
CloseListener(c) ==
  /\ conn[c].handoff = "close"
  /\ socket' = [d \in Targets |-> CASE Resolved(Owner(c)) = d -> None
                                    [] socket[d] = c /\ Resolved(Owner(c)) # d -> Stale
                                    [] OTHER -> socket[d]]
  /\ conn' = [conn EXCEPT ![c].handoff = "clear"]
  /\ UNCHANGED <<volumeID, kubelet, mount, sidecar, faults, emptyDir, files, symlink, tokenFile, driverVars>>

ClearPending(c) ==
  /\ conn[c].handoff = "clear"
  /\ pendingSidecarMinors' = pendingSidecarMinors \ {conn[c].minor}
  /\ conn' = Settled([conn EXCEPT ![c].handoff = "none"], mount)
  /\ UNCHANGED <<volumeID, kubelet, mount, sidecar, faults, diskVars, call, sidecarVolumes, seen>>

(***************************************************************************)
(* NodePublishVolume of a target that is mounted.                          *)
(***************************************************************************)
\* Mutant of sidecarHandoffPending: no guard.
NeverPending(t) == FALSE

\* The goroutine of the mount's handoff has not ended.
sidecarHandoffPending(t) == conn[mount[t]].minor \in pendingSidecarMinors

\* checkSidecarHealth returns an error.
SidecarFailed(t) == "dir" \notin files[t] \/ files[t] \cap {"error", "handoff-error"} # {}

\* refreshSidecarToken cannot write where volumeDir is gone.
RefreshedToken(t) == [files EXCEPT ![t] = IF "dir" \in @ THEN @ \cup {"token"} ELSE @]

\* Mutant of Republish: the map is not seeded again.
RepublishUntracked(t) ==
  /\ Up(t) /\ Mounted(t)
  /\ seen' = seen \cup {t}
  /\ \/ sidecarHandoffPending(t) /\ UNCHANGED files
     \/ ~sidecarHandoffPending(t) /\ ~SidecarFailed(t) /\ files' = RefreshedToken(t)
  /\ UNCHANGED <<volumeID, kubelet, mount, conn, sidecar, faults, emptyDir, socket, symlink,
                 tokenFile, call, pendingSidecarMinors, sidecarVolumes>>

\* The target is tracked again; nothing else happens while its handoff is
\* under way.  A healthy one gets a fresh token.
Republish(t) ==
  /\ Up(t) /\ Mounted(t)
  /\ sidecarVolumes' = sidecarVolumes \cup {t}
  /\ seen' = seen \cup {t}
  /\ \/ sidecarHandoffPending(t) /\ UNCHANGED files
     \/ ~sidecarHandoffPending(t) /\ ~SidecarFailed(t) /\ files' = RefreshedToken(t)
  /\ UNCHANGED <<volumeID, kubelet, mount, conn, sidecar, faults, emptyDir, socket, symlink, tokenFile,
                 call, pendingSidecarMinors>>

\* Mutant of RepublishUnhealthy: the error is reported, the mount left.
RepublishReports(t) ==
  /\ Up(t) /\ Mounted(t)
  /\ ~sidecarHandoffPending(t) /\ SidecarFailed(t)
  /\ seen' = seen \cup {t}
  /\ files' = RefreshedToken(t)
  /\ sidecarVolumes' = sidecarVolumes \cup {t}
  /\ UNCHANGED <<volumeID, kubelet, mount, conn, sidecar, faults, emptyDir, socket, symlink,
                 tokenFile, call, pendingSidecarMinors>>

\* An unhealthy one is aborted and unmounted, for the next call to mount.
\* It stays tracked when the unmount fails.
RepublishUnhealthy(t) ==
  /\ Up(t) /\ Mounted(t)
  /\ ~sidecarHandoffPending(t) /\ SidecarFailed(t)
  /\ seen' = seen \cup {t}
  /\ files' = RefreshedToken(t)
  /\ \/ Abort(t, Without(t)) /\ sidecarVolumes' = sidecarVolumes \ {t} /\ UNCHANGED faults
     \/ Abort(t, mount) /\ sidecarVolumes' = sidecarVolumes \cup {t} /\ Fault
  /\ UNCHANGED <<volumeID, kubelet, emptyDir, socket, symlink, tokenFile, call, pendingSidecarMinors>>

(***************************************************************************)
(* NodeUnpublishVolume.                                                    *)
(***************************************************************************)
\* Mutant of UnpublishCleanup: the symlink is left to the goroutine.
UnpublishKeepsSymlink(t) == tokenFile' = tokenFile \ {volumeID[t]} /\ UNCHANGED symlink

\* The deferred cleanupTokenFile and cleanupSidecarSocket.
UnpublishCleanup(t) ==
  /\ tokenFile' = tokenFile \ {volumeID[t]}
  /\ symlink' = [symlink EXCEPT ![symlinkPath(t)] = None]

Gone(t) == kubelet' = [kubelet EXCEPT ![t] = "gone"]

\* A tracked target: unpublishSidecarVolume, which waits for no daemon.  The
\* entry stays for the next try when the unmount or the removal fails.
UnpublishTracked(t) ==
  /\ kubelet[t] = "leaving" /\ call[t] = "idle"
  /\ t \in sidecarVolumes
  /\ UnpublishCleanup(t)
  /\ \/ /\ Abort(t, Without(t))
        /\ Gone(t)
        /\ sidecarVolumes' = sidecarVolumes \ {t}
        /\ UNCHANGED faults
     \/ Abort(t, mount) /\ Fault /\ UNCHANGED <<kubelet, sidecarVolumes>>
  /\ UNCHANGED <<volumeID, emptyDir, files, socket, call, pendingSidecarMinors, seen>>

\* A target this process has not published: IsMountPoint looks at the mount
\* itself.
UnpublishUntracked(t) ==
  /\ kubelet[t] = "leaving" /\ call[t] = "idle"
  /\ t \notin sidecarVolumes
  /\ call' = [call EXCEPT ![t] = "stat"]
  /\ UNCHANGED <<volumeID, kubelet, mount, conn, sidecar, faults, diskVars,
                 pendingSidecarMinors, sidecarVolumes, seen>>

\* It blocks while somebody holds the fd and does not answer.
Answers(t) ==
  Mounted(t) => /\ conn[mount[t]].fd # "driver"
                /\ \A d \in Targets : conn[mount[t]].fd = d => sidecar[d] # "wedged"

\* Then mounter.Unmount detaches the mount, or the bare directory is removed.
StatReturns(t) ==
  /\ call[t] = "stat"
  /\ Answers(t)
  /\ UnpublishCleanup(t)
  /\ Abort(t, Without(t))
  /\ Gone(t)
  /\ call' = [call EXCEPT ![t] = "idle"]
  /\ UNCHANGED <<volumeID, faults, emptyDir, files, socket, pendingSidecarMinors, sidecarVolumes, seen>>

(***************************************************************************)
(* kubelet, the sidecar (hf-mount, an external program) and the driver     *)
(* process.                                                                *)
(***************************************************************************)
EmptyDirReady(t) ==
  /\ kubelet[t] = "up" /\ ~emptyDir[t]
  /\ emptyDir' = [emptyDir EXCEPT ![t] = TRUE]
  /\ UNCHANGED <<volumeID, kubelet, mount, conn, sidecar, faults, files, socket, symlink, tokenFile, driverVars>>

Leave(t) ==
  /\ kubelet[t] = "up"
  /\ kubelet' = [kubelet EXCEPT ![t] = "leaving"]
  /\ UNCHANGED <<volumeID, mount, conn, sidecar, faults, diskVars, driverVars>>

\* Containers start once a publish has succeeded.
SidecarStart(t) ==
  /\ Up(t) /\ sidecar[t] = "off" /\ t \in sidecarVolumes
  /\ sidecar' = [sidecar EXCEPT ![t] = "waiting"]
  /\ UNCHANGED <<volumeID, kubelet, mount, conn, faults, diskVars, driverVars>>

\* The connections whose fd the sidecar of t holds.
HeldBy(t) == {c \in Conns : conn[c].fd = t}

\* The daemon fails and says so in the error file, or is killed and does not.
SidecarDies(t) ==
  /\ sidecar[t] = "serving" /\ Fault
  /\ sidecar' = [sidecar EXCEPT ![t] = "waiting"]
  /\ files' \in {files, [files EXCEPT ![t] = @ \cup {"error"}]}
  /\ conn' = Settled(Closed(conn, HeldBy(t)), mount)
  /\ UNCHANGED <<volumeID, kubelet, mount, emptyDir, socket, symlink, tokenFile, driverVars>>

\* A thread of the daemon hangs in the kernel: it neither answers nor dies.
SidecarWedges(t) ==
  /\ sidecar[t] = "serving" /\ Fault
  /\ sidecar' = [sidecar EXCEPT ![t] = "wedged"]
  /\ UNCHANGED <<volumeID, kubelet, mount, conn, diskVars, driverVars>>

\* A pod that leaves: its containers stop, its emptyDir is taken away.  A
\* daemon that hangs cannot be stopped.
PodStop(t) ==
  /\ kubelet[t] # "up" /\ sidecar[t] # "wedged"
  /\ emptyDir[t] \/ files[t] # {}
  /\ sidecar' = [sidecar EXCEPT ![t] = "off"]
  /\ conn' = Settled(Closed(conn, HeldBy(t)), mount)
  /\ emptyDir' = [emptyDir EXCEPT ![t] = FALSE]
  /\ files' = [files EXCEPT ![t] = {}]
  /\ socket' = [socket EXCEPT ![t] = None]
  /\ UNCHANGED <<volumeID, kubelet, mount, faults, symlink, tokenFile, driverVars>>

\* The node plugin is killed and starts again: its maps, its goroutines, the
\* fds it holds and the calls under way are gone; files and mounts stay.
DriverRestart ==
  /\ Fault
  /\ \A t \in Targets : call[t] = "stat" => Answers(t)
  /\ LET orphaned == Closed(conn, {c \in Conns : conn[c].fd = "driver"})
     IN conn' = Settled([c \in Conns |-> [orphaned[c] EXCEPT !.handoff = "none"]], mount)
  /\ socket' = [d \in Targets |-> IF socket[d] = None THEN None ELSE Stale]
  /\ call' = [t \in Targets |-> "idle"]
  /\ pendingSidecarMinors' = {}
  /\ sidecarVolumes' = {}
  /\ seen' = {}
  /\ UNCHANGED <<volumeID, kubelet, mount, sidecar, emptyDir, files, symlink, tokenFile>>

\* The calls kubelet makes on t, one after the other; it retries failed ones
\* and republishes periodically (requiresRepublish).
Publish(t) ==
  \/ PublishMount(t) \/ WriteFiles(t) \/ RemoveSymlink(t) \/ Symlink(t)
  \/ RemoveSocket(t) \/ Listen(t) \/ Cleanup(t)
  \/ Republish(t) \/ RepublishUnhealthy(t)
Unpublish(t) == UnpublishTracked(t) \/ UnpublishUntracked(t) \/ StatReturns(t)
Handoff(c) ==
  \/ HandoffFails(c) \/ RecordFailure(c) \/ DropSymlink(c) \/ CloseListener(c) \/ ClearPending(c)

Next ==
  \/ \E t \in Targets :
       \/ Publish(t) \/ PublishFails(t) \/ CleanupFails(t) \/ Unpublish(t)
       \/ EmptyDirReady(t) \/ Leave(t) \/ PodStop(t)
       \/ SidecarStart(t) \/ Connect(t) \/ SidecarDies(t) \/ SidecarWedges(t)
  \/ \E c \in Conns : Handoff(c) \/ RecordFails(c)
  \/ DriverRestart

(***************************************************************************)
(* Fairness: calls and goroutines go on (the accept deadline passes), the  *)
(* emptyDir gets mounted, a sidecar starts and polls for its socket, the   *)
(* containers of a deleted pod are stopped.                                *)
(***************************************************************************)
Fairness ==
  /\ \A t \in Targets : /\ WF_vars(Publish(t) \/ Unpublish(t))
                        /\ WF_vars(SidecarStart(t) \/ Connect(t))
                        /\ WF_vars(EmptyDirReady(t))
                        /\ WF_vars(PodStop(t))
  /\ \A c \in Conns : WF_vars(Handoff(c))

Spec == Init /\ [][Next]_vars /\ Fairness

-----------------------------------------------------------------------------
(* Properties. *)

Alone(t) == \A u \in Targets \ {t} : volumeID[u] # volumeID[t]

\* The sidecar in a pod never receives the fd of another volume: the socket
\* and the symlink that leads to it keep volumes apart (sidecarMount).
FdWithinVolume ==
  \A c \in Conns : conn[c].fd \in Targets => volumeID[conn[c].fd] = volumeID[Owner(c)]

\* "net.Listen on the symlink path creates the socket file in volumeDir"
\* (sidecarMount): a handoff waits in the directory of its own pod.
ListensInOwnDir ==
  \A d \in Targets : socket[d] \in Conns => Owner(socket[d]) = d

\* Nobody serves the mount of t, nothing that runs or is written says so, and
\* every republish finds it healthy.
Silent(t) ==
  /\ Mounted(t) /\ call[t] = "idle" /\ conn[mount[t]].fd = "closed"
  /\ conn[mount[t]].handoff \notin {"accept", "failed"} /\ ~SidecarFailed(t)

\* A mount is without a daemon and nobody knows only when a process was killed
\* or when, in a living driver, a second thing fails: the record of a handoff
\* that failed, or the unmount of a publish that failed.  Any other failure
\* leaves its mark (the deferred functions of sidecarMount), and no other
\* publish removes it.
SilentOnlyUnrecorded ==
  [][\A t \in Targets :
       Alone(t) /\ kubelet[t] = "up" /\ ~Silent(t) /\ Silent(t)'
         => \/ DriverRestart \/ SidecarDies(t)
            \/ RecordFails(mount[t]) \/ CleanupFails(t)]_vars

\* A republish tears down no mount that is being served: error files are of
\* the current attempt (the clearing in sidecarMount, the pending guard of
\* NodePublishVolume).
ServedStaysMounted ==
  [][\A t \in Targets : Alone(t) /\ kubelet[t] = "up" /\ Served(t) => mount'[t] = mount[t]]_vars

\* "Its cleanup must not unlink a replacement listener's socket/symlink"
\* (NodePublishVolume): never two goroutines for one target, a replacement
\* handoff begins only when the goroutine before it has run to its end.
OneHandoff ==
  \A c, e \in Conns :
    /\ c # e /\ Owner(c) = Owner(e)
    /\ conn[c].handoff # "none" /\ conn[e].handoff # "none"
    => kubelet[Owner(c)] # "up"

\* An unpublish waits for a daemon only if the driver was restarted and no
\* publish has come since: any publish that finds the mount tracks it again.
BlocksOnlyUnseen == \A t \in Targets : call[t] = "stat" /\ ~Answers(t) => t \notin seen

\* A volume whose ID no other pod uses is served again and again, and has its
\* token, unless its daemon was lost silently or hangs; that of a pod that
\* leaves is unpublished, unless that blocks as BlocksOnlyUnseen allows.
Settles ==
  \A t \in Targets : []<>
    CASE kubelet[t] = "up" -> \/ Served(t) /\ "token" \in files[t]
                              \/ Silent(t) \/ sidecar[t] = "wedged" \/ ~Alone(t)
      [] kubelet[t] = "leaving" -> call[t] = "stat" /\ ~Answers(t)
      [] kubelet[t] = "gone" -> TRUE

\* When all pods have left, goroutines end and no symlink, token file or
\* pending mark stays behind (cleanupSidecarSocket, cleanupTokenFile).
NothingLeft ==
  (\A t \in Targets : kubelet[t] = "gone") ~>
    /\ \A c \in Conns : conn[c] = Unused
    /\ \A v \in Volumes : symlink[v] = None
    /\ tokenFile = {} /\ pendingSidecarMinors = {}
=============================================================================
