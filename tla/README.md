# Verification of hf-csi-driver

TLA+ models of the node plugin and the admission webhook of hf-csi-driver, the
TLC runs that check them on small instances, and TLAPS proofs of what can be
proved for all instances.
File and line references are to the repository; Go files without a directory
are in `pkg/driver/`.

## 1. The system

The CSI driver makes Hugging Face repositories and buckets appear as volumes.
It has two ways to do so. In *mount-pod mode* every volume gets a pod that runs
the `hf-mount-fuse` daemon; the driver binds the daemon's FUSE mount (the
*source*) onto the path kubelet asked for (the *target*). In *sidecar mode* the
driver mounts FUSE itself and passes the `/dev/fuse` descriptor to a sidecar
of the workload pod.

| Component | State | Operations | Hard because |
|---|---|---|---|
| Source lock table (`podmounter.go` 52-141) | map source -> refMutex, reference counts | `acquireSourceLock`, `Lock`, `Unlock`, `releaseSourceLock` | entries come and go while goroutines wait on them |
| PodMounter (`podmounter.go`) | `binds`; behind it the mount table, mount pods, HFMounts | `Mount`, `Unmount`, `cleanupSource`, `tryHealSource`, `rebindTargets`, `lateAdopt`, `Recover`, informer callbacks, `runCleanupScan`, `cleanupStaleCRDs` | concurrent goroutines, only some under the lock; restarts lose `binds`; API calls fail; polls time out; kubelet retries |
| HFMount client (`hfmount.go`) | workload list of a custom resource | `create`, `addWorkload`, `removeWorkload`, `removeStaleWorkloads`, `updateStatus`, `delete` | read-modify-write by several callers, conflicts, lost answers; judged by pod lists that are out of date |
| Node service (`node.go`) | `sidecarVolumes`, token files | `NodePublishVolume`, `NodeUnpublishVolume` | retried, overlapping, after restarts |
| FUSE orphan sweeper (`fuse_sweeper*.go`, `fuse_mountinfo.go`) | `orphanStreak`, `aborted`, `pendingSidecarMinors` | `sweep`, `mark`/`clearSidecarHandoffPending` | four reads of a node that changes meanwhile; minors are reused; an abort is irrevocable |
| Sidecar mounter (`sidecar_mounter_linux.go`) | FUSE fds, sockets and symlinks to them, status and token files | `sidecarMount` and its goroutine, health check, token refresh, cleanup | the handoff outlives the call; files are the only memory across restarts; pods that share a PersistentVolume share names |
| Startup taint (`startup_taint.go`) | the taint list of the Node | wait for the CSINode, read, patch | other controllers change the list; answers are lost |
| vol_data reconciler (`voldata_reconciler.go`) | `vol_data.json` files | list, check, create, write | kubelet owns these files; the process may end in between |
| Process (`driver.go`, `cmd/hf-csi-driver`) | server, signal handler, goroutines | `Run`, `Stop`, signals | a stop waits for calls that wait for daemons |
| Webhook (`pkg/webhook`), resource hints (`resources.go`) | the pod it patches; the HFMount | scan, inject, merge, clamp | webhook and node driver decide the same questions separately, at different times |
| Identity, controller, fd channel, other platforms, manifests | none | - | - |

Interactions: kubelet calls the node service, which calls PodMounter or the
sidecar mounter. PodMounter talks to the API server (pods, HFMounts) and to the
mount table, shares `binds` between its goroutines under `m.mu`, and serializes
work on a source with the lock table. Pod events of the informer start
`cleanupSource`, `rebindTargets` and `lateAdopt`; `cleanupSource` starts
`tryHealSource`; a five-minute ticker starts the cleaner. The sweeper shares
`pendingSidecarMinors` with the goroutines of `sidecarMount`. The webhook sees a
pod once, when it is created; the driver sees its volumes one by one, later.

What makes each of them right: the lock table is a mutex per source and leaks
nothing; a volume is served and served again after every disturbance; what was
made for a workload is taken down; nobody unmounts what serves a live workload;
records of a volume agree; the cleaner and the sweeper, which act on old
information, destroy nothing that is in use; a handoff reaches its own sidecar
or leaves word that it failed; what belongs to kubelet or to other controllers
is left to them; the sidecar expects what the driver will hand over.

## 2. Modules

| Module | Models | Used by |
|---|---|---|
| `SourceMutex` | abstract: a mutex per source | `SourceLocks` (refinement) |
| `SourceLocks` | the reference-counted lock table | run `source_locks`, `SourceLocksProofs` |
| `HFMount` | operations on the workload list of an HFMount | `MountHost`, `HFMountObject`, `HFMountClient` |
| `HFMountObject` | abstract: atomic operations on one HFMount | `HFMountClient` (refinement) |
| `HFMountClient` | the requests of `hfMountClient` and the conflict loop | `MCHFMountClient`, `HFMountClientProofs` |
| `MountHost` | mount table, mount pods, HFMounts, workloads, daemons; mount helpers | `PodMounter` |
| `PodMounter` | PodMounter and the mount-pod side of the node service | `MCPodMounter`, `PodMounterProofs`, `PodMounterServiceProofs` |
| `FuseSweeper` | the sweep, the fd handoff, FUSE connections | `MCFuseSweeper`, `FuseSweeperProofs` |
| `SidecarVolume` | sidecar volumes: publish, handoff, republish, unpublish | `MCSidecarVolume`, `SidecarVolumeProofs` |
| `StartupTaint`, `VolData` | `RemoveStartupTaint`; the vol_data reconciler beside kubelet | `NodePlugin` |
| `NodePlugin` | the process: server, signals, exit, with the two goroutines above | run `node_plugin`, `NodePluginProofs` |
| `MountResources` | resource hints | `Webhook` |
| `Webhook` | the injector, and what the node driver makes of the same pod | `MCWebhook`, `WebhookProofs` |
| `MC...` | instances for TLC | |
| `SourceLocksProofs`, `PodMounterProofs`, `FuseSweeperProofs`, `HFMountClientProofs`, `SidecarVolumeProofs`, `NodePluginProofs`, `WebhookProofs` | theorems about the module of that name | |
| `PodMounterServiceProofs` | theorems about what PodMounter does for workloads, on top of `PodMounterProofs` | |

Operators whose comment begins with "Mutant" are faulty variants of the
definition below them; each shows that a property notices the fault.

### SourceLocks

One action per statement: `AcquireNew` and `AcquireExisting` are
`acquireSourceLock` under `m.mu`, then `Lock`, `Unlock`, `Release`. Objects of
the heap are reused once nothing points to them.

### MountHost and PodMounter

State that survives the driver is in `MountHost`. `stack[p]` is the sequence of
FUSE superblocks mounted at path `p`; a superblock is the n-th file system of a
source, `gen[s]` the latest one, and `daemon[s]` says whether that one is
serving, dead, or dead but still answering `stat` from the attribute cache
(`rebindTargets` warns of it). `pod[s]` is the mount pod as the API server
shows it, `crd[s]` the workload list of the HFMount. `IsMountPoint`,
`IsCorruptedMnt`, `GetMountRefs`, `boundToCurrentSource`, `unmountAll` and
`stackBind` are operators over `stack`.

The driver is `up`, `binds`, `lock` (the lock of a source as `SourceMutex`
promises it), `run` (a goroutine per slot: control point and locals) and
`pending` (goroutines started and events delivered that do not run yet). A step
of a goroutine goes from one API call, or one look of a polling loop, to the
next one, so everything else may happen between any two; a Delete that directly
follows a Get or a look is taken with it. Control points are named after the
method: `mount.create` is the pod creation of `Mount`, and so on.

Disturbances (`Fault`) are counted and their kinds chosen per run: `crash`
(container restarts in place), `terminal`, `evict` (mount pod dies or is
deleted), `leak` (kubelet never unpublishes), `restart` (driver), `overlap`
(kubelet calls again while a call is running), `bind` (a bind mount fails),
`slow` (a poll times out although what it waits for was coming), `api` (a
request to the API server fails).

Abstractions: the source directory is not state (removing it fails harmlessly
or not at all); `updateStatus` writes what nobody reads; the read-modify-write
of an HFMount (`retryOnConflict`) is one step, as `HFMountClient` justifies; `lateAdopt`'s `addWorkload` calls
are one step; `handlePodDelete` and `runCleanupScan` call `cleanupSource`
synchronously, the model queues it, which allows every order the code has and
more; failures of `IsMountPoint` and `GetMountRefs` other than a corrupted mount
are not modelled; the informer delivers every change once (no resync);
`attachmentTime` is reduced to whether it is older than the threshold, and a
pass of the cleaner lasts less than the threshold.

### FuseSweeper

Every connection has an identity of its own and a minor, so that reuse of a
minor can be told from life. `Mount`, `MountFails`, `MarkPending`,
`HandoffResolves` and `HandoffClears` are `sidecarMount` and its goroutine;
`ListFuseConnections`, `ListOurFuseMounts`, `ListFuseServers`, `LookAtWaiting`,
`Judge`, `Abort`, `SweepEnds` are `sweep`, one step per read or write. `Owner`
stands for what `mountHasLiveDaemon` matches (volume ID in argv, pod UID in the
cgroup). Two windows of milliseconds (mount to mark, send to receipt) do not
last from one sweep to the next, a minute later (`lagging`). A node without
fusectl, where there is nothing to sweep, is not modelled, nor is a mount whose
minor `fuseMinorForMount` cannot find. The kernel may give a minor out again as
soon as its connection is gone. `listed` and `scanned` remember who was there
when a sweep listed the mounts and the processes, for `SparesServed` to speak of.

### HFMountClient

`obj` is the object with its `resourceVersion`; the server gives every write a
new one and refuses an update read at an older one. `Get`, `Update`,
`UpdateNotFound` and `Conflict` are the loop of `retryOnConflict`, `StatusGet`
and `StatusUpdate` are `updateStatus`. `ServerError` fails a request, or loses
the answer to one that was stored. `HFMountObject` is what callers rely on:
every operation takes effect at once or fails, and one that fails may have
taken effect; the mapping is `crd <- obj.workloads`. Attachments age only while
no cleaner works and nobody holds a copy: two minutes are longer than a call.

### SidecarVolume

A target is one volume of one pod. `call[t]` is the control point of
`sidecarMount`, with a step per change of the file system that another call can
see (status files, symlink, stale socket, `net.Listen`); `conn[c]` is a FUSE
connection, with the holder of its fd and the control point of its goroutine,
a step per deferred function. The symlink is named by volume ID, as in the code,
so targets of one volume ID share it, and `net.Listen` creates the socket in
whichever directory it points to then. `Publish`, `Republish`,
`RepublishUnhealthy` and `Unpublish` are the branches of the two RPCs; `stat` is
the blocking look an unpublish takes when `sidecarVolumes` has no entry. The
sidecar is external: it waits for the socket, serves, exits with an error file,
is killed without one, or hangs. kubelet makes one call per target at a time.

Two notions of the properties: a target is `Alone` if no other pod on the node
uses its volume ID; it is `Silent` if nobody serves its mount and no file says
so. The write of `handoff-error`, whose failure is only logged, and the unmount
in the `cleanup` of a failed publish, whose error is ignored, may fail
(`RecordFails`, `CleanupFails`). `abortFuseConnection` and the removal of
symlinks, sockets and token files, errors of which are ignored as well, are
taken to succeed, and every request carries a token.

`FuseSweeper` and `SidecarVolume` look at `pendingSidecarMinors` from both
sides: there it protects the handoff from the sweep, here it makes a republish
wait for the goroutine.

### NodePlugin, StartupTaint, VolData

`StartupTaint` is the goroutine of `RemoveStartupTaint` beside controllers that
change the list; `VolData` is a sweep, one step per system call, beside kubelet,
which sets volumes up, gives them up (`wedged`: no `vol_data.json`), and tears
them down. `NodePlugin` composes them in a process: an exit, by signal, crash or
kill, drops both wherever they are, as nobody waits for them. The `os.Remove`
after a failed write may itself fail (`RemoveFails`), which the code ignores.
Polls and reads that find nothing change nothing and are not steps.

### MountResources, Webhook

A pod has up to `MaxVolumes` volumes of this driver, inline or by claim, each
with a mode, a reason to be read-only, memory hints and perhaps a log format; the
webhook may have a log format of its own (`config`). `Handle` is the webhook
(`scanHFCSIVolumes`, `injectSidecar`), which passes over claims that are not
bound or cannot be read; `Bypass` is a failing webhook under `failurePolicy:
Ignore`. `Publish` is what the node driver decides about mode, arguments and
resources of the same volume; `Heal` builds a mount pod again from the HFMount.
Only memory is modelled: CPU goes through the same code. kubelet passes the
`readOnly` field of an inline volume or of a claim on in its request (access
`field`), but not `csi.readOnly` of a PersistentVolume (access `pv`), which the
webhook looks at and the node driver never sees.

## 3. Runs

| Run | Instance | Shows |
|---|---|---|
| `source_locks` | 3 goroutines, 2 sources, 3 lock objects | mutual exclusion, no leaked entry, no starvation, refinement of `SourceMutex` |
| `serve` | 1 volume, 1 slot, any one disturbance | `Served`, `Reclaimed`, `PodReclaimed`, `ServiceKept`, `TypeOK` (every call finds the source of its target, after restarts too) |
| `races` | 1 volume, 2 slots, one disturbance | no mount on an unpublished target, lock discipline, `ServiceKept` |
| `shared_source` | 2 targets on one source, 2 slots, `api` | one unpublish leaves the other target served |
| `sweep` | a mount of a mount pod, one of a sidecar and a foreign one that take over one another's minor, one failure or restart | but for what reuse of the minor brings about, only unserved connections of ours are aborted, none mid-handoff, every orphan in the end |
| `sidecar` | one pod with three disturbances; two pods, of two volumes or of one, with none | no fd leaves its volume, handoffs do not meet, republish keeps what is served and replaces what failed, unpublish leaves nothing |
| `hfmount_client` | 2 callers, 2 targets, 2 attempts, 4 writes | every operation is atomic; an old pod list costs no running pod its attachment |
| `node_plugin` | a volume of ours, a wedged one of another driver, 1 foreign taint, 2 faults | others' taints and kubelet's files are kept, the taint goes, wedged volumes are repaired, a stop ends |
| `webhook` | all pods with up to 2 volumes of 84 kinds, 4 grace periods, 2 log formats | webhook and driver agree on mode, number of mounts, memory; what the order of volumes decides; requests within limits; healed pods are like first ones |

Deadlock is checked except in `sidecar` and `webhook`, where all pods may be
gone or done, and `hfmount_client`, which ends with its last resource version.

Bounds. One volume suffices where the property speaks of one: volumes share
only `m.mu` and the lock table. Two slots are the least with a race; with one
slot goroutines still queue in `pending` and the world moves between steps, and
liveness is affordable. `MaxGen = 2` superblocks of a source may coexist (an
old dead one below, a fresh one on top); numbers are reused as the kernel
reuses device numbers. `UnmountBound` is 1 or 2 instead of 32, and `MaxDepth`
exceeds it by one where deep stacks matter, so that the bound is met.
`CrashLoopRestartThreshold` is 2 as in the code, or 1 where a single crash shall
doom a pod. `OrphanConfirmSweeps` is 2, as in the code. `sweep` has one minor, so
that its connections follow one another on it: connections on different minors
meet only in the identity of their daemon, and the theorems allow any number of
minors. Mount IDs are 48-bit
hashes of target paths; two targets on one source need a collision, but
`Unmount`, `cleanupSource` and the HFMount list provide for it, so it is checked
too. `sidecar`: three faults are a failed handoff, the failure of its
replacement and a restart; two `Slots` are the connection being replaced and
the new one. `hfmount_client`: `MaxAttempts` is 2 instead of 5, so that a
single conflict retries and two give up; four writes suffice for a create, two
writes of the other caller and one's own. `webhook`: quantities 0 to 2 put a
limit below, at and above the two defaults.

Runs that are expected to fail, each against a sentence of the repository:

| Run | The repository says | The run shows |
|---|---|---|
| `orphaned_pod` | README: unpublish deletes the mount pod | `tryHealSource`, which has no lock, creates the pod again after `Unmount` has deleted pod and HFMount |
| `cleaner_window` | "Register the workload early so the stale cleaner doesn't kill the mount pod while we're waiting for the FUSE mount to appear" (`podmounter.go` 799) | the HFMount exists before its workload is registered, and the cleaner has no lock: it counts no workloads, `Mount` registers and creates the pod, and the cleaner deletes that pod (343) while `Mount` waits for it |
| `shared_volume` | "net.Listen on the symlink path creates the socket file in volumeDir" (`sidecar_mounter_linux.go` 332) | two pods that use one PersistentVolume share the symlink; one replaces it between the other's `os.Symlink` and `net.Listen`, and the socket is created in the wrong pod's directory |

### What the statements and the bounds leave out

Some properties make an exception in their statement, because the code has a
case where they fail. TLC finds the others when a bound is lifted. They are
consequences of the code, not of the model:

* One failed `addWorkload` (801) leaves a serving mount unregistered for good,
  and the cleaner deletes its pod again and again; `Served` excepts it. `Unmount` forgets a pod whose Delete failed (992);
  `PodReclaimed` excepts it. A failing pod creation may delete an HFMount that
  an earlier attempt created (844).
* The `Mount` that loses its pod to the cleaner (`cleaner_window`) fails and is
  called again. `Served` shows that the retry serves, with one goroutine at a
  time; with two, and the cleaner, heals that run without the lock may chase one
  another for good. That the cleaner works from an outdated *list of pods* does no
  harm: `StaleSparesLive`.
* Without `podInfoOnMount` (`node.go` 88) attachments carry an empty UID, which is
  never live, and the cleaner deletes pods that serve. Both manifests set it.
* With a container restart *and* a failed bind, `UnpublishedIsBare` fails: the
  failed rebind leaves the target bare but tracked, `NodeUnpublishVolume` of a
  bare target does not ask the mounter (`node.go` 290), and the next rebind mounts
  on it (`stackBind` makes the directory again, 719). A driver restart between
  the registration of a `Mount` and its bind leads to the same: `Recover` tracks
  the target from the HFMount, and the rebind it queues comes after the
  unpublish. So does an unpublish beside a `Mount` that kubelet gave up: the target
  is still bare, the unpublish succeeds, and the `Mount` binds.
* With two slots and the cleaner, `ServiceKept` fails: a `Mount` that registers
  and serves between the cleaner's requests loses the mount (335) to a decision
  taken before.
* With a container restart and two failed binds, `ServiceKept` fails: a `Mount` that
  found its target dead waits while a rebind repairs it, and then detaches the
  repaired layer in the fallback of `stackBind`.
* With a lost unpublish *and* a driver restart, `Reclaimed` fails: the cleaner
  has unmounted the source and deleted the HFMount (335), the cleanup that would
  have unmounted the targets dies with the driver, and nothing names them.
* With a colliding mount ID *and* a failed bind, the cleaner or a restart,
  `ServiceKept` fails: `Unmount` of a target that `binds` has lost, or that
  `Recover` has not found yet, unmounts the source without asking who uses it
  (965).
* Reuse of minors is part of `sweep`, and its properties say what it costs. A
  mount that was judged an orphan may go, and its minor be given out again,
  before the abort is written: the new connection is aborted, foreign or served
  (`SparesServed` excepts exactly this, `fuse_sweeper.go` 140). The goroutine of a
  mount that is gone clears the exemption of its minor's new owner
  (`sidecar_mounter_linux.go` 381), and the streak goes on counting:
  `SparesHandoff` excepts connections whose minor another one had. The `aborted`
  mark survives its connection (`fuse_sweeper.go` 179): `OrphanAborted` excepts
  what finds its minor marked. Each exception is needed; TLC violates the property
  without it. In `SidecarVolume` reuse is a constant, `FALSE` in the run: with
  it `OneHandoff` fails, for a republish takes the handoff under way for ended.
* A sidecar that is killed without writing an error file, a driver killed before
  the sidecar has its fd, a `handoff-error` that cannot be written
  (`sidecar_mounter_linux.go` 397) and a failed publish whose unmount fails too (271)
  leave a mount nobody serves that every republish finds healthy.
  `SilentOnlyUnrecorded` shows that these are the only ways there; `Settles`
  excepts them. A hanging sidecar is excepted as well.
* Pods that share a volume ID share the symlink and the token file: an unpublish
  of one deletes both under the other. Beyond `FdWithinVolume` and `NothingLeft`
  the properties of `SidecarVolume` speak of targets that are `Alone`.
* An exit between create and write, or a failed write whose `os.Remove` fails too
  (`voldata_reconciler.go` 179, 186), leaves a partial `vol_data.json` that later
  sweeps take for healthy: `PartialOnlyUnremoved`, excepted in `Unwedged`.
* A signal before `Run` has made the server finds nothing to stop
  (`driver.go` 115); `StopsByItself` asks only for processes that have one.
* A claim that is not bound at admission gets no sidecar (`handler.go` 218;
  the repository's `README.md` 238 says "every pod using an HF CSI volume"), and a mode that is none
  is counted by the webhook and refused by the driver; `ExpectsWhatComes`
  excepts both.
* The repository's `README.md` 258-259 says that of volumes with different resource hints
  "the first volume (in `pod.spec.volumes` order) wins". The code takes the larger
  value of each field, and its comment says why ("order-independent",
  `handler.go` 47); `OrderIndependent` states what the code does. Only the log format
  is the first volume's (155, 170), and only where the webhook is configured
  without one.
* A PersistentVolume with `csi.readOnly` counts as read-only in the webhook (165),
  but kubelet does not put that field into `NodePublishVolume`, so the driver mounts
  the volume writable (`node.go` 198) beside a sidecar with the memory request of
  a reader. `WritersGetMemory` excepts it.

## 4. Fairness

`SourceLocks`: weak fairness of `Unlock` and `Release` (the Go scheduler), and
strong fairness of `Lock`: `sync.Mutex` hands over to a waiter that has starved
for a millisecond. `PodMounter`: every goroutine keeps running (strong, because
of the locks and slots it competes for), goroutines that were started get to
run, kubelet repeats its calls (`requiresRepublish`; unpublish until success),
the ticker fires, the driver comes back after a crash. Of the world: pods start
and daemons mount in the end, caches expire, deleted pods go. Nothing is assumed
of workloads, disturbances, or `ScanBlind`. `FuseSweeper`: the ticker and the
sweep, the handoff goroutine (its accept has a deadline), the sidecar reading
its socket, the kernel failing requests of aborted connections.
`SidecarVolume`: kubelet repeats publish and unpublish, the goroutine runs, a
sidecar starts and connects, the emptyDir is mounted, containers of a deleted
pod stop. A blocked unpublish is not assumed to return. `NodePlugin`: the
goroutines and timers run, kubelet restarts, registers and in the end kills the
plugin and goes on with volumes it can unmount; nothing makes a call return, nor
stops a signal or a crash (they are bounded). `HFMountClient` and `Webhook` are
safety only.

## 5. Proofs

Proved with TLAPS for all values of the constants, from the named assumptions
of the modules only (null values are distinct, bounds are natural numbers, the
mount ID is a function from targets to sources):

* `SourceLocksProofs`: `Exclusion`, `NoEntryLeak`, `Refinement`. The inductive
  invariant says that a goroutine in its bracket points to the entry of its
  source, that entries of different sources are different objects, that the
  count of an entry is the number of goroutines pointing to it, and that the
  holder is the one that is locked. Counts are cardinalities, hence the finite
  set of goroutines. `Release` needs all of it: a count of one means nobody else
  points to the entry.
* `PodMounterProofs`: `TypeCorrect`, `Agreement`, `TargetsUnderLock`. The
  invariant `IInv` is `HostOK` and `StackOK` (every layer of a path is a
  superblock of the source of the path), `CrdOK` (an HFMount lists targets of
  its source), `BindsOK`, `RunOK` (a goroutine works on targets of one source)
  and `LockOK` (at the control points of a critical section the goroutine
  holds the lock). None is inductive alone: `Recover` fills `binds` from HFMounts
  and refs, refs come from stacks, stacks from `binds`. `TargetsUnderLock` goes
  through the steps that touch a target stack (`StackSteps`, `OtherSteps`) and
  shows each is taken by the holder.
* `PodMounterServiceProofs`: what the volumes are for. Each theorem has an
  invariant of its own on top of `IInv`, and the hypotheses it needs.
  - `ServiceIsKept` (`ServiceKept`): with distinct mount IDs (`OwnSources`), no
    failing binds, and no goroutine beside the periodic cleaner
    (`CleanerAlone`: it is off, or there is one slot). Every other disturbance,
    restarts included, is allowed, in any number. `SInv`: above a serving
    layer there are only serving layers; what a target serves is on top of its
    source too (so `recoverPod`, which unmounts a source that does not answer,
    takes nothing away); the refs a `cleanupSource` has read contain every
    served target (so it finds the live one and leaves it and the source); and
    `Unmount` is at work only where the workload has ended. `PInv`: a
    serving daemon has a running pod, and where the cleaner is about to unmount
    there is none. Section 3 has a counterexample for each of the hypotheses.
  - `UnpublishedStaysBare` (`UnpublishedIsBare`): for any number of goroutines,
    sources that collide or not, and all disturbances but those of section 3
    (`Undisturbed`). `BInv`: what `binds` tracks is mounted (so a bare target is
    not tracked, and no rebind finds it), a target has one call in flight and an
    unpublished one has none, an `Unmount` past its first step has left its target
    bare, and nothing of a start-up runs.
* `FuseSweeperProofs`: `MapsAgree`, `AbortsOnlyUnserved` and `AbortsNoHandoff`,
  with reuse of minors. The invariant ties the locals of a sweep to the node: a
  connection of ours that had a daemon at the scan makes its minor pass
  `mountHasLiveDaemon`, so it never reaches the abort; and what was there when the
  mounts were listed had a minor of its own, so that another connection found on
  the minor of a listed mount came later, and the listed one is gone. For handoffs
  `HandoffInv` says more: a connection that is mounted and not yet marked has a
  streak only from the sweep that runs or has just ended, every handoff in
  progress is marked, and what is about to be aborted is in no handoff; so the
  streak of a handoff is one at most. All of it holds for connections whose minor
  was nobody's before (`Fresh`). Hence the hypothesis
  `OrphanConfirmSweeps >= 2`; with one confirming sweep TLC finds a counterexample.
* `HFMountClientProofs`: `TypeCorrect`, `Refinement`, `CleanerSparesLive`. Key to
  the refinement is `SnapCurrent`: a copy whose version is still the object's is
  the caller's own edit of the list stored now, so that the update the server
  accepts is the atomic operation of `HFMountObject`; `VersionsBounded` says
  that versions do not come back. `CleanerSparesLive` needs `CleanerKnowsOld`:
  the list of pods a cleaner holds has every running pod with an old
  attachment.
* `SidecarVolumeProofs`: `TypeCorrect`, `FdsStayWithinVolume`,
  `OnlyUnseenBlock`, `SilentOnlyBySecondFailure`, for shared volume IDs too.
  `ConnInv` follows an fd from the mount to the daemon (who holds it, and that
  nobody holds two), `DiskInv` says that symlinks and sockets stay within a
  volume ID, `TrackInv` that a mount a publish has found is in
  `sidecarVolumes`. An fd changes hands through a socket, the socket was
  created through a symlink, the symlink is replaced by any pod of the volume:
  none of the parts is inductive without the others.
  `HandoffsFollowOneAnother` and `ServedMountsStay` hold without reuse of
  minors: `HInv` adds that minors of connections differ, that a
  goroutine is marked in `pendingSidecarMinors` until it ends (`HandoffMarked`)
  and belongs to the mount that is there (`HandoffMounted`), and that no error
  file is left of an earlier attempt while a new one is made or served
  (`CleanAttempt`).
* `NodePluginProofs`: `TypeCorrect`, `RemoverKeepsOthers`, `SweepSparesKubelet`,
  `PartialFilesOnlyUnremoved`. The invariant says what a sweep still knows after its
  look at a directory: kubelet may have written the file or removed the
  directory, but a directory still without a file is as it was (`OpenIsStale`).
* `WebhookProofs`: `TypeCorrect` and a theorem for each property of `Webhook`, for
  pods with any number of volumes. What `scanHFCSIVolumes` computes is shown by
  induction over the volumes (`ScanSummary`): it counts the volumes it sees whose
  mode is not `mountpod`, finds whether all are read-only, takes the largest hint of
  each field, and a log format some volume names, if any does. Two scans whose
  volumes are copies of one another's therefore agree on all but the log format,
  and on that too if all that name one name the same: `OrderDecidesOnlyFormat`. The induction is over the
  *set* of lengths for which the claim holds (`SetInduction`, from the
  well-foundedness of the naturals); the scan is a recursive function for that
  reason. The invariant `WInv` says that the pod is as its author wrote it or as
  the first admission that counted a volume left it, and that an HFMount holds
  the hints and arguments its mount pod was built from.

Assumptions beyond those named: `ClientNulls` of `HFMountClient` and two
conjuncts of `WebhookAssumption` say that null values are not among the values
they stand beside; `VolumeAssumption` of `Webhook` says that only a claim has a
PersistentVolume. `~MinorReuse` (of `SidecarVolume`) and `OrphanConfirmSweeps >= 2` are
hypotheses of the theorems that need them; section 3 says what happens without
the first. Every inductive invariant was checked with TLC on the instance of
its run before it was proved.

Only model-checked: all liveness properties (the prover has no ENABLED), which
are `Served`, `Reclaimed`, `PodReclaimed`, `OrphanAborted`, `Settles`,
`NothingLeft`, `TaintLifted`, `Unwedged`, `StopsByItself`. Every safety property
of a passing run is stated by a theorem. `SourcesAgree` is proved (`Agreement`)
and in no run.

## 6. Not modelled

* The fd channel (`fdchannel.go`), identity and controller services, stubs for
  other platforms, manifests: system calls, constants, configuration. The fd
  channel appears by its outcomes.
* Flag and endpoint parsing, request validation, logging, the images, labels and
  security contexts of pods: no effect on the protocol.
* `CheckHealth` and other read-only calls; resync of the informer; a node without
  fusectl; the number of cloned fds; ownership and permissions of files.
* What kubelet does between two calls on one target, beyond repeating them.

## 7. Plan

1. Done: all modules with their runs, and theorems for every safety property of
   the passing runs.
2. Open: an abstract `Volume` specification (a target is bare, served or being
   repaired) that `PodMounter` is shown to implement.
