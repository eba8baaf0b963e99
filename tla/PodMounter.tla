----------------------------- MODULE PodMounter -----------------------------
(***************************************************************************)
(* PodMounter (pkg/driver/podmounter.go) with the mount-pod side of        *)
(* NodePublishVolume and NodeUnpublishVolume (pkg/driver/node.go).         *)
(*                                                                         *)
(* A goroutine of the driver (an RPC, an informer callback, a tick of the  *)
(* cleaner, a recovery) runs in a slot g; run[g] holds its control point   *)
(* and locals.  One step of a goroutine is one call to the API server, or  *)
(* one look of a polling loop, with the mount calls and the bookkeeping up *)
(* to the next one: between two steps anything else may happen.  A Delete  *)
(* that directly follows a Get or a look is taken with it.  The lock of a  *)
(* source is taken with the first step under it and released with the last *)
(* one (SourceLocks shows that the code's reference-counted table is such  *)
(* a lock).                                                                *)
(***************************************************************************)
EXTENDS MountHost

CONSTANTS Slots,           \* goroutines that may be in flight at once
          NoSlot, NoSource, NoTarget,
          MaxDepth,        \* layers of a target beyond which kubelet is not retrying
          PeriodicCleanup, \* the five-minute ticker is running
          PodInfoOnMount   \* kubelet passes the workload pod UID

ASSUME SlotsAssumption == NoSlot \notin Slots
ASSUME DriverNulls == NoSource \notin Sources /\ NoTarget \notin Targets
ASSUME FlagAssumption == {PodInfoOnMount, PeriodicCleanup} \subseteq BOOLEAN /\ MaxDepth \in Nat

VARIABLES up,       \* the node plugin is running
          binds,    \* m.binds: target -> source, or NoSource
          lock,     \* lock[s]: the slot inside the critical section of s
          run,      \* run[g]: the goroutine in slot g
          pending   \* goroutines spawned, events delivered, not yet running

driverVars == <<up, binds, lock, run, pending>>
vars == <<hostVars, driverVars>>

Job == [op : {"add", "adopt", "cleanup", "heal", "rebind", "recover", "discard"}, src : Sources]

PCs == {"idle",
  "mount.crd", "mount.workload", "mount.create", "mount.inspect", "mount.gone",
  "mount.recreate", "mount.running", "mount.fuse", "mount.kill", "mount.drop",
  "unmount.target", "unmount.shared", "unmount.pod", "unmount.crd",
  "cleanup.refs", "cleanup.source",
  "heal.get", "heal.crd", "heal.gone", "heal.create", "heal.running",
  "rebind.lock", "rebind.poll",
  "adopt.poll", "adopt.track", "adopt.crd",
  "recover.probe", "recover.dead", "recover.poll", "recover.crd",
  "gc.stale", "gc.pod", "gc.purge"}

\* Boolean locals: this attempt created the pod; the deferred cleanup will
\* delete the pod / the HFMount; heal found a pod to replace.
Flags == {"created", "kill", "drop", "stale"}

Goroutine == [pc : PCs, src : Sources \cup {NoSource}, tgt : Targets \cup {NoTarget},
              flags : SUBSET Flags, set : SUBSET Targets]

Idle == [pc |-> "idle", src |-> NoSource, tgt |-> NoTarget, flags |-> {}, set |-> {}]

-----------------------------------------------------------------------------
(* Control flow of a goroutine. *)

At(g, label) == up /\ run[g].pc = label
Src(g) == run[g].src
Tgt(g) == run[g].tgt
Has(g, flag) == flag \in run[g].flags

Goto(g, label) == run' = [run EXCEPT ![g].pc = label]
GotoWith(g, label, flags) ==
  run' = [run EXCEPT ![g].pc = label, ![g].flags = @ \cup flags]
GotoOver(g, label, set) ==
  run' = [run EXCEPT ![g].pc = label, ![g].set = set]

\* lk.Lock() of the source of g returns.
TakeLock(g) == lock[Src(g)] = NoSlot /\ lock' = [lock EXCEPT ![Src(g)] = g]

\* The goroutine returns; its deferred function releases the lock it holds.
Return(g) ==
  /\ run' = [run EXCEPT ![g] = Idle]
  /\ lock' = [s \in Sources |-> IF lock[s] = g THEN NoSlot ELSE lock[s]]

\* "go f(source)", or an event the informer has queued.
Spawn(op, s) == pending' = pending \cup {[op |-> op, src |-> s]}

BoundTargets(s) == {t \in Targets : binds[t] = s}

SetStack(p, layers) == stack' = [stack EXCEPT ![p] = layers]
SetCRD(s, value) == crd' = [crd EXCEPT ![s] = value]

\* m.crd.delete: an API failure is logged and the resource stays.
DeleteCRD(s) == \/ SetCRD(s, NoCRD) /\ NoFault
                \/ Fault("api") /\ UNCHANGED crd

\* Pods(...).Delete, whose error every caller drops.
DeletePod(s) == \/ pod' = PodDeleted(s) /\ NoFault
                \/ Fault("api") /\ UNCHANGED pod

\* Mutant: the pod to be replaced is not deleted.
KeepStalePod(s) == UNCHANGED pod /\ NoFault

\* Delete the pod that Mount is about to replace, unless that is under way.
DeleteStalePod(s) ==
  IF pod[s].deleting THEN UNCHANGED pod /\ NoFault ELSE DeletePod(s)

\* Mutant: a target without an entry in binds has no source.
TrackedSourceOnly(t) == binds[t]

\* The source of a target: its entry in binds, or the path derived from it.
SourceOf(t) == IF binds[t] # NoSource THEN binds[t] ELSE MountID[t]

\* Mutant: the source is torn down whoever else uses it.
NeverInUse(t) == FALSE

\* After the entry of t is deleted, binds has another one for its source.
SourceInUse(t) == binds[t] # NoSource /\ BoundTargets(binds[t]) # {t}

\* Mutant: the error of os.Remove(target) is dropped.
RemoveSucceeds(layers) == FALSE

\* os.Remove(target) fails on a path that is still a mount point.
RemoveFails(layers) == layers # <<>>

\* Mutant: dropDeadPodRefs evicts every ref.
AllRefs(refs, live) == refs

\* dropDeadPodRefs: the refs whose pod is not live.
DeadPodRefs(refs, live) == refs \ live

-----------------------------------------------------------------------------
(* Mount. *)

\* RPCs of target t in flight.
Calls(t) == {g \in Slots : run[g].tgt = t}

\* kubelet issues one call per volume at a time, but gives up on a call after
\* two minutes and issues the next while the driver still works on it.
MayCall(t) == IF Calls(t) = {} THEN NoFault ELSE Fault("overlap")

\* NodePublishVolume on a target that is not mounted, or is a dead mount, goes
\* to Mount; on a mounted target it refreshes the token and returns.
Publish(g, t) ==
  /\ up /\ run[g] = Idle /\ wl[t] = "live"
  /\ ~Mounted(t)
  /\ Len(stack[t]) < MaxDepth
  /\ MayCall(t)
  /\ run' = [run EXCEPT ![g] = [Idle EXCEPT !.pc = "mount.crd",
                                           !.src = MountID[t], !.tgt = t]]
  /\ UNCHANGED <<wl, pod, crd, gen, daemon, stack, up, binds, lock, pending>>

\* Lock the source; create the HFMount, or find it there.
MountCreateCRD(g) ==
  /\ At(g, "mount.crd")
  /\ lock[Src(g)] = NoSlot
  /\ \/ /\ \/ crd[Src(g)] = NoCRD /\ SetCRD(Src(g), {})
           \/ crd[Src(g)] # NoCRD /\ UNCHANGED crd
        /\ NoFault
        /\ Goto(g, "mount.workload") /\ TakeLock(g)
     \/ /\ Fault("api") /\ UNCHANGED crd
        /\ Return(g)
  /\ UNCHANGED <<wl, pod, gen, daemon, stack, up, binds, pending>>

\* addWorkload: a failure is logged, the mount goes on.
MountAddWorkload(g) ==
  /\ At(g, "mount.workload")
  /\ \/ /\ crd[Src(g)] # NoCRD /\ NoFault
        /\ SetCRD(Src(g), AddWorkload(crd[Src(g)],
                     IF PodInfoOnMount THEN Tgt(g) ELSE NoUID, Tgt(g)))
     \/ crd[Src(g)] = NoCRD /\ UNCHANGED crd /\ NoFault
     \/ Fault("api") /\ UNCHANGED crd
  /\ Goto(g, "mount.create")
  /\ UNCHANGED <<wl, pod, gen, daemon, stack, up, binds, lock, pending>>

\* Create the mount pod; on AlreadyExists look at the one that is there.
MountCreatePod(g) ==
  /\ At(g, "mount.create")
  /\ \/ /\ pod[Src(g)] = NoPod /\ NoFault
        /\ pod' = [pod EXCEPT ![Src(g)] = NewPod]
        /\ GotoWith(g, "mount.running", {"created"})
     \/ /\ pod[Src(g)] # NoPod /\ NoFault /\ UNCHANGED pod
        /\ Goto(g, "mount.inspect")
     \/ /\ Fault("api") /\ UNCHANGED pod
        /\ GotoWith(g, "mount.drop", {"drop"})
  /\ UNCHANGED <<wl, crd, gen, daemon, stack, up, binds, lock, pending>>

\* A terminating or terminal pod is replaced, any other one reused.
MountInspectPod(g) ==
  /\ At(g, "mount.inspect")
  /\ \/ pod[Src(g)] = NoPod /\ NoFault /\ UNCHANGED pod /\ Return(g)
     \/ Fault("api") /\ UNCHANGED pod /\ Return(g)
     \/ /\ pod[Src(g)] # NoPod /\ ~Replaceable(pod[Src(g)]) /\ NoFault
        /\ UNCHANGED <<pod, lock>> /\ Goto(g, "mount.running")
     \/ /\ Replaceable(pod[Src(g)]) /\ DeleteStalePod(Src(g))
        /\ UNCHANGED lock /\ Goto(g, "mount.gone")
  /\ UNCHANGED <<wl, crd, gen, daemon, stack, up, binds, pending>>

\* waitForPodDeletion, then create again.
MountAwaitGone(g) ==
  /\ At(g, "mount.gone")
  /\ \/ pod[Src(g)] = NoPod /\ NoFault /\ Goto(g, "mount.recreate") /\ UNCHANGED lock
     \/ pod[Src(g)] # NoPod /\ TimesOut(GoneComing(Src(g))) /\ Return(g)
  /\ UNCHANGED <<wl, pod, crd, gen, daemon, stack, up, binds, pending>>

MountRecreatePod(g) ==
  /\ At(g, "mount.recreate")
  /\ \/ /\ pod[Src(g)] = NoPod /\ NoFault
        /\ pod' = [pod EXCEPT ![Src(g)] = NewPod]
        /\ GotoWith(g, "mount.running", {"created"}) /\ UNCHANGED lock
     \/ pod[Src(g)] # NoPod /\ NoFault /\ UNCHANGED pod /\ Return(g)
     \/ Fault("api") /\ UNCHANGED pod /\ Return(g)
  /\ UNCHANGED <<wl, crd, gen, daemon, stack, up, binds, pending>>

\* The flags of the deferred cleanup after a failure that dooms the pod.
Fatal(g) == {"kill"} \cup (IF Has(g, "created") THEN {"drop"} ELSE {})

\* waitForPodRunning: a pure timeout keeps pod and HFMount.
MountAwaitRunning(g) ==
  /\ At(g, "mount.running")
  /\ \/ /\ pod[Src(g)].phase = "Running" /\ NoFault
        /\ Goto(g, "mount.fuse") /\ UNCHANGED lock
     \/ /\ IsPodTerminal(pod[Src(g)]) /\ NoFault
        /\ GotoWith(g, "mount.kill", Fatal(g)) /\ UNCHANGED lock
     \/ /\ pod[Src(g)].phase \in {"None", "Pending"} /\ TimesOut(PodComing(Src(g)))
        /\ Return(g)
  /\ UNCHANGED <<wl, pod, crd, gen, daemon, stack, up, binds, pending>>

\* The pod that waitForMount looks at is beyond hope.
Doomed(s) == \/ pod[s] = NoPod
             \/ IsPodTerminal(pod[s])
             \/ pod[s].restarts >= CrashLoopRestartThreshold

\* waitForMount looks at the mount, then at the pod, then at the clock; a
\* mount is bound to the target and the target recorded.
MountAwaitFuse(g) ==
  /\ At(g, "mount.fuse")
  /\ \/ /\ Mounted(Src(g))
        /\ \/ SetStack(Tgt(g), StackBind(Src(g), Tgt(g))) /\ NoFault
           \/ SetStack(Tgt(g), FallbackBind(Src(g), Tgt(g))) /\ Fault("bind")
        /\ binds' = [binds EXCEPT ![Tgt(g)] = Src(g)]
        /\ Return(g)
     \/ /\ Mounted(Src(g)) /\ Fault("bind")
        /\ SetStack(Tgt(g), FailedBind(Tgt(g)))
        /\ GotoWith(g, "mount.kill", IF Has(g, "created") THEN {"kill", "drop"} ELSE {})
        /\ UNCHANGED <<binds, lock>>
     \/ /\ ~Mounted(Src(g)) /\ Doomed(Src(g)) /\ NoFault
        /\ GotoWith(g, "mount.kill", Fatal(g))
        /\ UNCHANGED <<stack, binds, lock>>
     \/ /\ ~Mounted(Src(g)) /\ ~Doomed(Src(g)) /\ TimesOut(MountComing(Src(g)))
        /\ Return(g)
        /\ UNCHANGED <<stack, binds>>
  /\ UNCHANGED <<wl, pod, crd, gen, daemon, up, pending>>

\* The deferred cleanup: pod first, then HFMount.
MountKillPod(g) ==
  /\ At(g, "mount.kill")
  /\ IF Has(g, "kill") THEN DeletePod(Src(g)) ELSE UNCHANGED pod /\ NoFault
  /\ IF Has(g, "drop") THEN Goto(g, "mount.drop") /\ UNCHANGED lock ELSE Return(g)
  /\ UNCHANGED <<wl, crd, gen, daemon, stack, up, binds, pending>>

MountDropCRD(g) ==
  /\ At(g, "mount.drop")
  /\ DeleteCRD(Src(g))
  /\ Return(g)
  /\ UNCHANGED <<wl, pod, gen, daemon, stack, up, binds, pending>>

MountStep(g) ==
  \/ MountCreateCRD(g) \/ MountAddWorkload(g) \/ MountCreatePod(g)
  \/ MountInspectPod(g) \/ MountAwaitGone(g) \/ MountRecreatePod(g)
  \/ MountAwaitRunning(g) \/ MountAwaitFuse(g)
  \/ MountKillPod(g) \/ MountDropCRD(g)

-----------------------------------------------------------------------------
(* Unmount. *)

\* NodeUnpublishVolume: a target that is not mounted needs no Unmount (and
\* the mount pod is then left to the cleaner); otherwise Unmount reads the
\* source of the target before it takes the lock.
Unpublish(g, t) ==
  /\ up /\ run[g] = Idle /\ wl[t] = "ended"
  /\ MayCall(t)
  /\ IF stack[t] = <<>>
     THEN wl' = [wl EXCEPT ![t] = "done"] /\ UNCHANGED run
     ELSE /\ run' = [run EXCEPT ![g] =
                [Idle EXCEPT !.pc = "unmount.target", !.tgt = t,
                             !.src = SourceOf(t)]]
          /\ UNCHANGED wl
  /\ UNCHANGED <<pod, crd, gen, daemon, stack, up, binds, lock, pending>>

\* Unmount(target) returns nil: kubelet is done with the target.
Unpublished(g) == Return(g) /\ wl' = [wl EXCEPT ![Tgt(g)] = "done"]

\* Pop the target.  A stack deeper than the bound leaves the directory busy:
\* the call fails and kubelet repeats it.  Then the entry of binds is read
\* again: an untracked target has the derived source, torn down if it
\* answers; a tracked one has the source of the entry, torn down unless
\* another target uses it.  The source goes before the pod.
UnmountTarget(g) ==
  LET t == Tgt(g)
      s == SourceOf(t)
      inUse == SourceInUse(t)
      popped == [stack EXCEPT ![t] = UnmountAll(stack[t])]
      leave == run' = [run EXCEPT ![g].src = s,
                                 ![g].pc = IF inUse THEN "unmount.shared" ELSE "unmount.pod"]
  IN /\ At(g, "unmount.target")
     /\ lock[Src(g)] = NoSlot
     /\ \/ /\ RemoveFails(popped[t])
           /\ stack' = popped
           /\ Return(g) /\ UNCHANGED <<wl, binds>>
        \/ /\ ~RemoveFails(popped[t]) /\ binds[t] = NoSource /\ ~Mounted(s)
           /\ stack' = popped
           /\ Unpublished(g) /\ UNCHANGED binds
        \/ /\ ~RemoveFails(popped[t]) /\ (binds[t] # NoSource \/ Mounted(s))
           /\ stack' = IF inUse THEN popped
                       ELSE [popped EXCEPT ![s] = UnmountAll(stack[s])]
           /\ binds' = [binds EXCEPT ![t] = NoSource]
           /\ leave /\ TakeLock(g) /\ UNCHANGED wl
     /\ UNCHANGED <<pod, crd, gen, daemon, faults, up, pending>>

\* Other targets use the source: only the attachment goes.  A missing HFMount
\* or a failing update is logged.
UnmountShared(g) ==
  /\ At(g, "unmount.shared")
  /\ \/ /\ NoFault
        /\ SetCRD(Src(g), IF crd[Src(g)] = NoCRD THEN NoCRD
                          ELSE RemoveWorkload(crd[Src(g)], Tgt(g)))
     \/ Fault("api") /\ UNCHANGED crd
  /\ Unpublished(g)
  /\ UNCHANGED <<pod, gen, daemon, stack, up, binds, pending>>

UnmountDeletePod(g) ==
  /\ At(g, "unmount.pod")
  /\ DeletePod(Src(g))
  /\ Goto(g, "unmount.crd")
  /\ UNCHANGED <<wl, crd, gen, daemon, stack, up, binds, lock, pending>>

UnmountDeleteCRD(g) ==
  /\ At(g, "unmount.crd")
  /\ DeleteCRD(Src(g))
  /\ Unpublished(g)
  /\ UNCHANGED <<pod, gen, daemon, stack, up, binds, pending>>

UnmountStep(g) ==
  \/ UnmountTarget(g) \/ UnmountShared(g)
  \/ UnmountDeletePod(g) \/ UnmountDeleteCRD(g)

-----------------------------------------------------------------------------
(* cleanupSource, tryHealSource, rebindTargets. *)

\* Enumerate the refs under the lock.
CleanupRefs(g) ==
  /\ At(g, "cleanup.refs")
  /\ TakeLock(g)
  /\ GotoOver(g, "cleanup.source", MountRefs(Src(g)))
  /\ UNCHANGED <<hostVars, up, binds, pending>>

\* dropDeadPodRefs lists the pods and pops the refs of those that are not
\* live (none if the List fails); a ref it could not unmount stays.  Refs
\* left: heal.  No refs left: unmount the source, forget and unmount every
\* target still tracked.
CleanupSource(g) ==
  LET refs == run[g].set
      dead(live) == DeadPodRefs(refs, live)
      gone(live) == {t \in dead(live) : UnmountAll(stack[t]) = <<>>}
      Finish(live) ==
        IF refs \ gone(live) # {}
        THEN /\ stack' = [p \in Paths |-> IF p \in dead(live) THEN UnmountAll(stack[p])
                                         ELSE stack[p]]
             /\ binds' = [t \in Targets |-> IF t \in gone(live) THEN NoSource ELSE binds[t]]
             /\ Spawn("heal", Src(g))
        ELSE /\ stack' = [p \in Paths |->
                            IF p \in {Src(g)} \cup refs \cup BoundTargets(Src(g))
                            THEN UnmountAll(stack[p]) ELSE stack[p]]
             /\ binds' = [t \in Targets |->
                            IF t \in refs \cup BoundTargets(Src(g)) THEN NoSource ELSE binds[t]]
             /\ UNCHANGED pending
  IN /\ At(g, "cleanup.source")
     /\ \/ NoFault /\ Finish(LivePodUIDs)
        \/ refs # {} /\ Fault("api") /\ Finish(Targets)
     /\ Return(g)
     /\ UNCHANGED <<wl, pod, crd, gen, daemon, up>>

\* tryHealSource, without the lock: a usable pod only needs its targets
\* re-bound.
HealGetPod(g) ==
  /\ At(g, "heal.get")
  /\ \/ Fault("api") /\ Return(g)
     \/ /\ pod[Src(g)] # NoPod /\ ~Replaceable(pod[Src(g)])
        /\ NoFault /\ Goto(g, "rebind.lock") /\ UNCHANGED lock
     \/ /\ Replaceable(pod[Src(g)])
        /\ NoFault /\ GotoWith(g, "heal.crd", {"stale"}) /\ UNCHANGED lock
     \/ /\ pod[Src(g)] = NoPod
        /\ NoFault /\ Goto(g, "heal.crd") /\ UNCHANGED lock
  /\ UNCHANGED <<wl, pod, crd, gen, daemon, stack, up, binds, pending>>

\* The mount args come from the HFMount; a stale pod is deleted first.
HealReadCRD(g) ==
  /\ At(g, "heal.crd")
  /\ \/ crd[Src(g)] = NoCRD /\ NoFault /\ UNCHANGED pod /\ Return(g)
     \/ Fault("api") /\ UNCHANGED pod /\ Return(g)
     \/ /\ crd[Src(g)] # NoCRD /\ Has(g, "stale")
        /\ DeletePod(Src(g)) /\ Goto(g, "heal.gone") /\ UNCHANGED lock
     \/ /\ crd[Src(g)] # NoCRD /\ ~Has(g, "stale")
        /\ NoFault /\ UNCHANGED pod /\ Goto(g, "heal.create") /\ UNCHANGED lock
  /\ UNCHANGED <<wl, crd, gen, daemon, stack, up, binds, pending>>

HealAwaitGone(g) ==
  /\ At(g, "heal.gone")
  /\ \/ pod[Src(g)] = NoPod /\ NoFault /\ Goto(g, "heal.create") /\ UNCHANGED lock
     \/ pod[Src(g)] # NoPod /\ TimesOut(GoneComing(Src(g))) /\ Return(g)
  /\ UNCHANGED <<wl, pod, crd, gen, daemon, stack, up, binds, pending>>

HealCreatePod(g) ==
  /\ At(g, "heal.create")
  /\ \/ /\ pod[Src(g)] = NoPod /\ NoFault
        /\ pod' = [pod EXCEPT ![Src(g)] = NewPod]
        /\ Goto(g, "heal.running") /\ UNCHANGED lock
     \/ pod[Src(g)] # NoPod /\ NoFault /\ UNCHANGED pod /\ Return(g)
     \/ Fault("api") /\ UNCHANGED pod /\ Return(g)
  /\ UNCHANGED <<wl, crd, gen, daemon, stack, up, binds, pending>>

\* Unlike Mount, a heal deletes the pod on a timeout too.
HealAwaitRunning(g) ==
  /\ At(g, "heal.running")
  /\ \/ /\ pod[Src(g)].phase = "Running"
        /\ NoFault /\ UNCHANGED pod /\ Goto(g, "rebind.lock") /\ UNCHANGED lock
     \/ /\ pod[Src(g)].phase # "Running" /\ Return(g)
        /\ \/ TimesOut(PodComing(Src(g))) /\ pod' = PodDeleted(Src(g))
           \/ Fault("api") /\ UNCHANGED pod
  /\ UNCHANGED <<wl, crd, gen, daemon, stack, up, binds, pending>>

\* Mutant: rebindTargets runs without the lock.
RebindUnlocked(g) ==
  /\ At(g, "rebind.lock")
  /\ Goto(g, "rebind.poll")
  /\ UNCHANGED <<hostVars, up, binds, lock, pending>>

\* rebindTargets holds the lock while it polls for the mount.
RebindLock(g) ==
  /\ At(g, "rebind.lock")
  /\ TakeLock(g)
  /\ Goto(g, "rebind.poll")
  /\ UNCHANGED <<hostVars, up, binds, pending>>

\* A bind is stacked on every tracked target that does not already show the
\* superblock on top of the source; one that fails does not stop the others.
RebindPoll(g) ==
  LET stale == {t \in BoundTargets(Src(g)) : ~BoundToCurrentSource(t, Src(g))}
  IN /\ At(g, "rebind.poll")
     /\ \/ ~Mounted(Src(g)) /\ TimesOut(MountComing(Src(g))) /\ UNCHANGED stack
        \/ /\ Mounted(Src(g)) /\ NoFault
           /\ stack' = [p \in Paths |-> IF p \in stale THEN StackBind(Src(g), p) ELSE stack[p]]
        \/ /\ Mounted(Src(g)) /\ Fault("bind")
           /\ \E f \in stale : \E layers \in {FallbackBind(Src(g), f), FailedBind(f)} :
                stack' = [p \in Paths |-> IF p = f THEN layers
                                         ELSE IF p \in stale THEN StackBind(Src(g), p)
                                         ELSE stack[p]]
     /\ Return(g)
     /\ UNCHANGED <<wl, pod, crd, gen, daemon, up, binds, pending>>

RepairStep(g) ==
  \/ CleanupRefs(g) \/ CleanupSource(g)
  \/ HealGetPod(g) \/ HealReadCRD(g) \/ HealAwaitGone(g)
  \/ HealCreatePod(g) \/ HealAwaitRunning(g)
  \/ RebindLock(g) \/ RebindPoll(g)

-----------------------------------------------------------------------------
(* Start-up: the informer's Add events (lateAdopt) and Recover.  Neither     *)
(* takes the lock of the source.                                             *)

\* AddFunc: a running pod without tracked binds is adopted late.
HandleAdd(s) ==
  /\ up /\ [op |-> "add", src |-> s] \in pending
  /\ pending' = (pending \ {[op |-> "add", src |-> s]}) \cup
                  (IF BoundTargets(s) = {} THEN {[op |-> "adopt", src |-> s]} ELSE {})
  /\ UNCHANGED <<hostVars, up, binds, lock, run>>

\* lateAdopt reads the refs once the source is mounted,
AdoptPoll(g) ==
  /\ At(g, "adopt.poll")
  /\ IF Mounted(Src(g))
     THEN GotoOver(g, "adopt.track", MountRefs(Src(g))) /\ NoFault /\ UNCHANGED lock
     ELSE Return(g) /\ TimesOut(MountComing(Src(g)))
  /\ UNCHANGED <<wl, pod, crd, gen, daemon, stack, up, binds, pending>>

\* and gives those without an entry in binds one.
AdoptTrack(g) ==
  LET restored == {t \in run[g].set : binds[t] = NoSource}
  IN /\ At(g, "adopt.track")
     /\ binds' = [t \in Targets |-> IF t \in restored THEN Src(g) ELSE binds[t]]
     /\ GotoOver(g, "adopt.crd", restored)
     /\ UNCHANGED <<hostVars, up, lock, pending>>

\* addWorkload for each restored target, with the UID of its path.
AdoptSyncCRD(g) ==
  /\ At(g, "adopt.crd")
  /\ \/ /\ crd[Src(g)] # NoCRD /\ NoFault
        /\ SetCRD(Src(g), crd[Src(g)] \cup
             UNION {AddWorkload(crd[Src(g)], t, t) : t \in run[g].set})
     \/ crd[Src(g)] = NoCRD /\ UNCHANGED crd /\ NoFault
     \/ run[g].set # {} /\ Fault("api") /\ UNCHANGED crd
  /\ Spawn("rebind", Src(g))
  /\ Return(g)
  /\ UNCHANGED <<wl, pod, gen, daemon, stack, up, binds>>

\* recoverPod: a mount is adopted with its refs; a dead mount loses one layer
\* and its pod; without a mount a pod that Recover listed as terminal goes and
\* any other is waited for.
RecoverProbe(g) ==
  /\ At(g, "recover.probe") \/ At(g, "recover.dead")
  /\ \/ /\ Mounted(Src(g)) /\ NoFault
        /\ GotoOver(g, "recover.crd", MountRefs(Src(g))) /\ UNCHANGED <<pod, stack, lock>>
     \/ /\ Corrupted(Src(g))
        /\ SetStack(Src(g), FuseUnmount(stack[Src(g)])) /\ DeletePod(Src(g)) /\ Return(g)
     \/ /\ stack[Src(g)] = <<>> /\ At(g, "recover.dead")
        /\ DeletePod(Src(g)) /\ Return(g) /\ UNCHANGED stack
     \/ /\ stack[Src(g)] = <<>> /\ At(g, "recover.probe") /\ NoFault
        /\ Goto(g, "recover.poll") /\ UNCHANGED <<pod, stack, lock>>
  /\ UNCHANGED <<wl, crd, gen, daemon, up, binds, pending>>

RecoverPoll(g) ==
  /\ At(g, "recover.poll")
  /\ IF Mounted(Src(g))
     THEN GotoOver(g, "recover.crd", MountRefs(Src(g))) /\ NoFault /\ UNCHANGED lock
     ELSE Return(g) /\ TimesOut(MountComing(Src(g)))
  /\ UNCHANGED <<wl, pod, crd, gen, daemon, stack, up, binds, pending>>

\* kubelet has removed the directory that holds the target path.
TargetDirGone(t) == wl[t] = "done" /\ stack[t] = <<>>

\* The targets an HFMount lists whose directory exists.
ListedTargets(s) ==
  {t \in Targets : ~TargetDirGone(t) /\ \E w \in crd[s] : w.target = t}

\* The refs and the targets the HFMount lists, if it can be read, are recorded.
RecoverCRD(g) ==
  LET Track(targets) == binds' = [t \in Targets |-> IF t \in targets THEN Src(g) ELSE binds[t]]
  IN /\ At(g, "recover.crd")
     /\ \/ crd[Src(g)] # NoCRD /\ NoFault /\ Track(run[g].set \cup ListedTargets(Src(g)))
        \/ crd[Src(g)] = NoCRD /\ NoFault /\ Track(run[g].set)
        \/ Fault("api") /\ Track(run[g].set)
     /\ Spawn("rebind", Src(g))
     /\ Return(g)
     /\ UNCHANGED <<wl, pod, crd, gen, daemon, stack, up>>

StartupStep(g) ==
  \/ AdoptPoll(g) \/ AdoptTrack(g) \/ AdoptSyncCRD(g)
  \/ RecoverProbe(g) \/ RecoverPoll(g) \/ RecoverCRD(g)

-----------------------------------------------------------------------------
(* The periodic cleaner: runCleanupScan, then cleanupStaleCRDs.  The latter  *)
(* does not take the lock of the source.                                     *)

\* runCleanupScan: something is mounted at s and its pod is gone or going.
Scan(s) ==
  /\ PeriodicCleanup /\ up /\ stack[s] # <<>>
  /\ pod[s] = NoPod \/ Replaceable(pod[s])
  /\ Spawn("cleanup", s)
  /\ UNCHANGED <<hostVars, up, binds, lock, run>>

\* When its List fails, runCleanupScan finds no pod at all: every mount looks
\* orphaned.
ScanBlind(s) ==
  /\ PeriodicCleanup /\ up /\ stack[s] # <<>>
  /\ Fault("api")
  /\ Spawn("cleanup", s)
  /\ UNCHANGED <<wl, pod, crd, gen, daemon, stack, up, binds, lock, run>>

\* There is one cleaner.
CleanerIdle(s) ==
  \A g \in Slots : run[g].src = s => run[g].pc \notin {"gc.stale", "gc.pod", "gc.purge"}

\* cleanupStaleCRDs lists the HFMounts, then the live pods; by now the
\* attachments may be more than two minutes old, those added during the pass
\* will not be.  (A pass over an HFMount whose attachments all belong to live
\* pods changes nothing.)
CleanerLists(g, s) ==
  /\ PeriodicCleanup /\ up /\ run[g] = Idle /\ CleanerIdle(s)
  /\ crd[s] # NoCRD
  /\ crd[s] = {} \/ \E w \in crd[s] : w.uid \notin LivePodUIDs
  /\ SetCRD(s, crd[s]) \/ SetCRD(s, Aged(crd[s]))
  /\ run' = [run EXCEPT ![g] = [Idle EXCEPT !.pc = "gc.stale", !.src = s,
                                           !.set = LivePodUIDs]]
  /\ UNCHANGED <<wl, pod, gen, daemon, stack, faults, up, binds, lock, pending>>

\* removeStaleWorkloads; an HFMount that still has workloads is left alone.
\* The next pass is five minutes away: what this one leaves is old by then.
CleanerPrunes(g) ==
  /\ At(g, "gc.stale")
  /\ \/ crd[Src(g)] = NoCRD /\ UNCHANGED crd /\ NoFault /\ Return(g)
     \/ Fault("api") /\ UNCHANGED crd /\ Return(g)
     \/ /\ crd[Src(g)] # NoCRD /\ NoFault
        /\ SetCRD(Src(g), Aged(RemainingWorkloads(crd[Src(g)], run[g].set)))
        /\ IF RemainingWorkloads(crd[Src(g)], run[g].set) = {}
           THEN Goto(g, "gc.pod") /\ UNCHANGED lock ELSE Return(g)
  /\ UNCHANGED <<wl, pod, gen, daemon, stack, up, binds, pending>>

\* Mutant: a pod without workloads is left running.
CleanerKeepsPod(g) ==
  /\ At(g, "gc.pod")
  /\ \/ pod[Src(g)] = NoPod /\ UNCHANGED lock /\ Goto(g, "gc.purge")
     \/ pod[Src(g)] # NoPod /\ Return(g)
  /\ UNCHANGED <<hostVars, up, binds, pending>>

\* No workloads: delete the pod, or, once it is gone, the rest.
CleanerGetsPod(g) ==
  /\ At(g, "gc.pod")
  /\ \/ pod[Src(g)] = NoPod /\ NoFault /\ UNCHANGED <<pod, lock>> /\ Goto(g, "gc.purge")
     \/ pod[Src(g)] # NoPod /\ DeletePod(Src(g)) /\ Return(g)
     \/ Fault("api") /\ UNCHANGED pod /\ Return(g)
  /\ UNCHANGED <<wl, crd, gen, daemon, stack, up, binds, pending>>

\* One fuseUnmount, the directory, the HFMount.
CleanerPurges(g) ==
  /\ At(g, "gc.purge")
  /\ SetStack(Src(g), FuseUnmount(stack[Src(g)]))
  /\ DeleteCRD(Src(g))
  /\ Return(g)
  /\ UNCHANGED <<wl, pod, gen, daemon, up, binds, pending>>

CleanerStep(g) == CleanerPrunes(g) \/ CleanerGetsPod(g) \/ CleanerPurges(g)

-----------------------------------------------------------------------------
(* Goroutines start; the driver stops and starts. *)

FirstLabel == [adopt |-> "adopt.poll", cleanup |-> "cleanup.refs", heal |-> "heal.get",
               rebind |-> "rebind.lock", recover |-> "recover.probe", discard |-> "recover.dead"]

StartJob(g, j) ==
  /\ up /\ run[g] = Idle
  /\ j \in pending /\ j.op # "add"
  /\ pending' = pending \ {j}
  /\ run' = [run EXCEPT ![g] = [Idle EXCEPT !.pc = FirstLabel[j.op], !.src = j.src]]
  /\ UNCHANGED <<hostVars, up, binds, lock>>

\* Everything in the memory of the process is lost.
DriverStops ==
  /\ up /\ Fault("restart")
  /\ up' = FALSE
  /\ binds' = [t \in Targets |-> NoSource]
  /\ lock' = [s \in Sources |-> NoSlot]
  /\ run' = [g \in Slots |-> Idle]
  /\ pending' = {}
  /\ UNCHANGED <<wl, pod, crd, gen, daemon, stack>>

\* Run: the informer lists the pods (Add events for the running ones), and
\* Recover lists them too, those being deleted it skips; it is not repeated
\* when its List fails.
DriverStarts ==
  /\ ~up /\ up' = TRUE
  /\ LET adds == {[op |-> "add", src |-> s] :
                    s \in {r \in Sources : pod[r].phase = "Running"}}
         recovers == {[op |-> IF IsPodTerminal(pod[s]) THEN "discard" ELSE "recover", src |-> s] :
                    s \in {r \in Sources : pod[r] # NoPod /\ ~pod[r].deleting}}
     IN \/ pending' = adds \cup recovers /\ NoFault
        \/ pending' = adds /\ Fault("api")
  /\ UNCHANGED <<wl, pod, crd, gen, daemon, stack, binds, lock, run>>

-----------------------------------------------------------------------------
(* The world moves; the informer turns pod changes into goroutines           *)
(* (handlePodUpdate, handlePodDelete) while the driver is up.                *)

Notify(op, s) == IF up THEN Spawn(op, s) ELSE UNCHANGED pending

HostStep ==
  \/ /\ \E t \in Targets : HostWorkloadStarts(t) \/ HostWorkloadEnds(t) \/ HostKubeletLeaks(t)
     /\ UNCHANGED driverVars
  \/ /\ \E s \in Sources : HostCacheExpires(s) \/ HostDaemonMounts(s) \/ HostPodEvicted(s)
     /\ UNCHANGED driverVars
  \/ \E s \in Sources :
       /\ (HostPodStarts(s) \/ HostContainerRestarts(s))
       /\ Notify("rebind", s) /\ UNCHANGED <<up, binds, lock, run>>
  \/ \E s \in Sources :
       /\ (HostPodTerminates(s) \/ HostDaemonExits(s) \/ HostPodRemoved(s))
       /\ Notify("cleanup", s) /\ UNCHANGED <<up, binds, lock, run>>

\* The pod starts, or its daemon mounts.
PodProgress(s) ==
  \/ HostPodStarts(s) /\ Notify("rebind", s) /\ UNCHANGED <<up, binds, lock, run>>
  \/ HostDaemonMounts(s) /\ UNCHANGED driverVars

Step(g) == MountStep(g) \/ UnmountStep(g) \/ RepairStep(g) \/ StartupStep(g) \/ CleanerStep(g)

DriverStep ==
  \/ \E g \in Slots : Step(g)
  \/ \E g \in Slots, t \in Targets : Publish(g, t) \/ Unpublish(g, t)
  \/ \E g \in Slots, s \in Sources : CleanerLists(g, s)
  \/ \E g \in Slots, j \in Job : StartJob(g, j)
  \/ \E s \in Sources : HandleAdd(s) \/ Scan(s) \/ ScanBlind(s)
  \/ DriverStops
  \/ DriverStarts

\* Nothing in flight: the periodic calls that find nothing to do.
Quiescent == /\ up /\ pending = {} /\ \A g \in Slots : run[g] = Idle
             /\ UNCHANGED vars

Init == /\ HostInit
        /\ up = TRUE
        /\ binds = [t \in Targets |-> NoSource]
        /\ lock = [s \in Sources |-> NoSlot]
        /\ run = [g \in Slots |-> Idle]
        /\ pending = {}

Next == HostStep \/ DriverStep \/ Quiescent

SafeSpec == Init /\ [][Next]_vars

\* The scheduler runs every goroutine and the source mutexes starve nobody;
\* kubelet repeats its calls (requiresRepublish, and NodeUnpublishVolume until
\* it succeeds) and the ticker of the cleaner fires again and again, however
\* often other work occupies the slots.
DriverFairness ==
  /\ \A g \in Slots : SF_vars(Step(g))
  /\ SF_vars(\E g \in Slots, j \in Job : StartJob(g, j))
  /\ \A t \in Targets : SF_vars(\E g \in Slots : Publish(g, t) \/ Unpublish(g, t))
  /\ \A s \in Sources : SF_vars(\E g \in Slots : CleanerLists(g, s))
  /\ \A s \in Sources : WF_vars(HandleAdd(s)) /\ WF_vars(Scan(s))
  /\ WF_vars(DriverStarts)

\* A mount pod is started and mounts quickly enough at some attempt; caches
\* expire, sessions end, deleted pods go.
HostFairness ==
  /\ \A s \in Sources : WF_vars(PodProgress(s))
  /\ \A s \in Sources : WF_vars(HostStep /\ (HostCacheExpires(s) \/ HostPodRemoved(s) \/ HostDaemonExits(s)))

Spec == SafeSpec /\ DriverFairness /\ HostFairness

-----------------------------------------------------------------------------

TopServing(t) == stack[t] # <<>> /\ Serving(Top(t))
LayersNext(p) == {stack'[p][i] : i \in DOMAIN stack'[p]}

\* Types.  A goroutine that runs has a source (SourceOf finds one for every
\* target), and only such a goroutine.
TypeOK ==
  /\ HostTypeOK
  /\ up \in BOOLEAN
  /\ binds \in [Targets -> Sources \cup {NoSource}]
  /\ lock \in [Sources -> Slots \cup {NoSlot}]
  /\ run \in [Slots -> Goroutine]
  /\ \A g \in Slots : run[g].pc # "idle" => run[g].src \in Sources
  /\ pending \in SUBSET Job

\* The entries of binds, the locals of every goroutine and the mount table
\* agree on the source of a target: what lateAdopt and recoverPod restore from
\* mountinfo and the HFMount is what Mount would have recorded.  So the lock
\* Unmount takes for the source it read early is the lock of the source it
\* tears down.
SourcesAgree ==
  /\ \A t \in Targets : binds[t] \in {NoSource, MountID[t]}
  /\ \A t \in Targets : \A b \in Layers(t) : b.src = MountID[t]
  /\ \A s \in Sources : \A b \in Layers(s) : b.src = s
  /\ \A g \in Slots : run[g].tgt # NoTarget => run[g].src = MountID[run[g].tgt]
  /\ \A g \in Slots : run[g].pc \notin {"idle", "gc.stale", "gc.pod", "gc.purge"} =>
                        \A t \in run[g].set : MountID[t] = run[g].src
  /\ \A s \in Sources : crd[s] # NoCRD => \A w \in crd[s] : MountID[w.target] = s

\* While a goroutine is inside the critical section of a source, no other
\* one mounts on or unmounts from a target of that source (Unmount:
\* "serializing with rebindTargets and handlePodDelete").
StackUnderLock ==
  [][\A t \in Targets :
       LET holder == lock[MountID[t]]
       IN (stack'[t] # stack[t] /\ holder # NoSlot) => run'[holder] # run[holder]]_vars

\* Nothing is left, or put back by a repair in flight, at a target whose
\* NodeUnpublishVolume succeeded.
UnpublishedIsBare == \A t \in Targets : wl[t] = "done" => stack[t] = <<>>

\* No goroutine unmounts, at the target of a live workload or at the source
\* beneath it, the file system that is serving the workload.
ServiceKept ==
  [][\A t \in Targets : \A p \in {t, MountID[t]} :
       (wl[t] = "live" /\ TopServing(t) /\ Top(t) \in Layers(p))
         => Top(t) \in LayersNext(p)]_vars

\* cleanupStaleCRDs never deletes the mount pod that a Mount waits for once its
\* workload is registered (Mount: "Register the workload early so the stale
\* cleaner doesn't kill the mount pod while we're waiting").
CleanerSparesMounting ==
  [][\A g, h \in Slots :
       LET s == run[g].src
       IN (/\ run[g].pc = "gc.pod" /\ run'[g] = Idle
           /\ run[h].pc \in {"mount.running", "mount.fuse"} /\ run[h].src = s
           /\ crd[s] # NoCRD /\ \E w \in crd[s] : w.target = run[h].tgt)
          => pod'[s] = pod[s]]_vars

\* When every workload is unpublished and nothing is in flight, a mount pod is
\* deleted, or its HFMount is there for the cleaner to find it.
NoPodLeft ==
  (up /\ pending = {} /\ (\A g \in Slots : run[g] = Idle) /\ \A t \in Targets : wl[t] = "done")
    => \A s \in Sources : pod[s] = NoPod \/ pod[s].deleting \/ crd[s] # NoCRD

\* A live workload is served, and served again after every disturbance but a
\* failed call to the API server (a workload left unregistered makes cleaner
\* and heal delete and create its pod in turn, pass after pass).
Served == \A t \in Targets : wl[t] = "live" ~> (wl[t] # "live" \/ TopServing(t) \/ faults.api)

\* What is mounted for an ended workload goes and stays away, even if kubelet
\* never calls NodeUnpublishVolume.
Reclaimed == \A t \in Targets : wl[t] = "ended" ~> [](stack[t] = <<>>)

\* The mount pods of unpublished workloads go, if their deletion did not fail:
\* Unmount drops the HFMount, by which the cleaner would find them, all the same.
PodReclaimed ==
  (\A t \in Targets : wl[t] = "done") ~> (faults.api \/ \A s \in Sources : pod[s] = NoPod)
=============================================================================
