------------------------------ MODULE MountHost ------------------------------
(***************************************************************************)
(* The world PodMounter works in: the mount table of the node, the mount   *)
(* pods and HFMount resources of the API server, the workload pods.  All   *)
(* of it survives a restart of the CSI driver.                             *)
(*                                                                         *)
(* The helpers that read or change the mount table are the code's own      *)
(* (unmountAll, stackBind, boundToCurrentSource) or the ones it calls in   *)
(* k8s.io/mount-utils (IsMountPoint, GetMountRefs); the actions are        *)
(* kubelet, the kubelet-run mount pods and the hf-mount daemons, modelled  *)
(* from how the driver uses them.                                          *)
(***************************************************************************)
EXTENDS Integers, Sequences, FiniteSets, HFMount

CONSTANTS Sources,      \* mount IDs: source path, mount pod and HFMount of one FUSE mount
          MountID,      \* mountID: the source of a target path
          NoCRD,
          UnmountBound, \* layers unmountAll pops at most (32 in the code)
          CrashLoopRestartThreshold, \* 2 in the code
          MaxGen,       \* superblocks of one source that may coexist
          MaxFaults,    \* disturbances in a behaviour
          FaultKinds    \* the disturbances that may happen

ASSUME MountIDAssumption == MountID \in [Targets -> Sources]
ASSUME PathsDistinct == Targets \cap Sources = {}
ASSUME BoundsAssumption == /\ UnmountBound \in Nat \ {0}
                           /\ CrashLoopRestartThreshold \in Nat \ {0}
                           /\ MaxGen \in Nat \ {0}
                           /\ MaxFaults \in Nat

VARIABLES wl,      \* wl[t]: "none", "live", "ended" or "done" (unpublished)
          pod,     \* pod[s]: the mount pod of s, or NoPod
          crd,     \* crd[s]: the workloads of the HFMount of s, or NoCRD
          gen,     \* gen[s]: the superblock the latest daemon of s mounted
          daemon,  \* daemon[s]: whether that superblock is "serving", dead
                   \* but answering stat from the attribute cache ("warm"), or "dead"
          stack,   \* stack[p]: superblocks mounted at path p, bottom first
          faults   \* disturbances left, and whether an API call has failed

hostVars == <<wl, pod, crd, gen, daemon, stack, faults>>

Paths == Sources \cup Targets

\* A superblock: the n-th FUSE file system of a source.
Superblock == [src : Sources, n : 1..MaxGen]

\* A mount pod as the API server shows it; phase "None" is no pod.
MountPod == [phase : {"None", "Pending", "Running", "Terminal"},
             deleting : BOOLEAN,
             restarts : 0..CrashLoopRestartThreshold]

NoPod  == [phase |-> "None", deleting |-> FALSE, restarts |-> 0]
NewPod == [phase |-> "Pending", deleting |-> FALSE, restarts |-> 0]

Faults == [left : 0..MaxFaults, api : BOOLEAN]

-----------------------------------------------------------------------------
(* Reading the mount table. *)

Top(p) == stack[p][Len(stack[p])]
Layers(p) == {stack[p][i] : i \in DOMAIN stack[p]}

Serving(b) == b.n = gen[b.src] /\ daemon[b.src] = "serving"

\* stat() on the root of b succeeds.
Answers(b) == b.n = gen[b.src] /\ daemon[b.src] # "dead"

\* IsMountPoint(p) = true, and IsMountPoint(p) fails with ENOTCONN.
Mounted(p) == stack[p] # <<>> /\ Answers(Top(p))
Corrupted(p) == stack[p] # <<>> /\ ~Answers(Top(p))

\* GetMountRefs(s): the targets with a layer of the file system on top of s.
\* A path that does not answer stat has no refs.
MountRefs(s) == {t \in Targets : Mounted(s) /\ Top(s) \in Layers(t)}

\* boundToCurrentSource: the tops of both stacks are one superblock.
BoundToCurrentSource(t, s) ==
  stack[t] # <<>> /\ stack[s] # <<>> /\ Top(t) = Top(s)

(* Changing a stack. *)

\* fuseUnmount: MNT_DETACH pops the top layer, EINVAL on a bare path.
FuseUnmount(layers) == SubSeq(layers, 1, Len(layers) - 1)

\* unmountAll: at most UnmountBound layers.
UnmountAll(layers) == SubSeq(layers, 1, Len(layers) - UnmountBound)

\* stackBind(s, t): the stack of t after a bind, after a bind that needed the
\* fallback (detach, then bind), and after one that failed there too.
StackBind(s, t) == Append(stack[t], Top(s))
FallbackBind(s, t) == Append(UnmountAll(stack[t]), Top(s))
FailedBind(t) == UnmountAll(stack[t])

-----------------------------------------------------------------------------
(* API server. *)

IsPodTerminal(pd) == pd.phase = "Terminal"
Replaceable(pd) == pd.deleting \/ IsPodTerminal(pd)

\* The pods listLivePodUIDsOnNode reports: present and not terminal.
LivePodUIDs == {t \in Targets : wl[t] = "live"}

\* Delete on a pod sets its deletion timestamp; kubelet removes it later.
PodDeleted(s) == IF pod[s] = NoPod THEN pod
                 ELSE [pod EXCEPT ![s].deleting = TRUE]

\* One disturbance of a kind that is allowed.
Fault(kind) ==
  /\ kind \in FaultKinds /\ faults.left > 0
  /\ faults' = [left |-> faults.left - 1, api |-> faults.api \/ kind = "api"]
NoFault == faults' = faults

\* Superblock numbers of s that no mount refers to; the kernel hands out the
\* lowest free one.
Unused(s) == {n \in 1..MaxGen : \A p \in Paths : [src |-> s, n |-> n] \notin Layers(p)}

\* What a polling loop may wait for: the pod starts, its daemon mounts, a
\* deleted pod goes.
PodComing(s) == pod[s].phase = "Pending" /\ ~pod[s].deleting
MountComing(s) == \/ PodComing(s)
                  \/ pod[s].phase = "Running" /\ daemon[s] # "serving" /\ Unused(s) # {}
GoneComing(s) == pod[s].deleting

\* The deadline of a polling loop passes: the normal end of a wait for what
\* will not come, a disturbance ("slow") if it is on its way.
TimesOut(coming) == IF coming THEN Fault("slow") ELSE NoFault

-----------------------------------------------------------------------------
(* Workloads, mount pods and daemons (external). *)

HostInit ==
  /\ wl = [t \in Targets |-> "none"]
  /\ pod = [s \in Sources |-> NoPod]
  /\ crd = [s \in Sources |-> NoCRD]
  /\ gen = [s \in Sources |-> 0]
  /\ daemon = [s \in Sources |-> "dead"]
  /\ stack = [p \in Paths |-> <<>>]
  /\ faults = [left |-> MaxFaults, api |-> FALSE]

\* A workload pod is scheduled on the node, and later ends or is deleted.
HostWorkloadStarts(t) ==
  /\ wl[t] = "none" /\ wl' = [wl EXCEPT ![t] = "live"]
  /\ UNCHANGED <<pod, crd, gen, daemon, stack, faults>>

HostWorkloadEnds(t) ==
  /\ wl[t] = "live" /\ wl' = [wl EXCEPT ![t] = "ended"]
  /\ UNCHANGED <<pod, crd, gen, daemon, stack, faults>>

\* kubelet loses track of an ended pod: no NodeUnpublishVolume will come.
HostKubeletLeaks(t) ==
  /\ wl[t] = "ended" /\ Fault("leak")
  /\ wl' = [wl EXCEPT ![t] = "done"]
  /\ UNCHANGED <<pod, crd, gen, daemon, stack>>

\* The attribute cache of a dead superblock expires (metadata_ttl).
HostCacheExpires(s) ==
  /\ daemon[s] = "warm" /\ daemon' = [daemon EXCEPT ![s] = "dead"]
  /\ UNCHANGED <<wl, pod, crd, gen, stack, faults>>

\* The mount pod of s starts running.
HostPodStarts(s) ==
  /\ pod[s].phase = "Pending" /\ ~pod[s].deleting
  /\ pod' = [pod EXCEPT ![s].phase = "Running"]
  /\ UNCHANGED <<wl, crd, gen, daemon, stack, faults>>

\* The hf-mount daemon mounts a fresh superblock over what is there.
HostDaemonMounts(s) ==
  /\ pod[s].phase = "Running" /\ daemon[s] # "serving"
  /\ \E n \in Unused(s) :
       /\ \A m \in Unused(s) : n <= m
       /\ gen' = [gen EXCEPT ![s] = n]
       /\ stack' = [stack EXCEPT ![s] = Append(@, [src |-> s, n |-> n])]
  /\ daemon' = [daemon EXCEPT ![s] = "serving"]
  /\ UNCHANGED <<wl, pod, crd, faults>>

\* How a daemon that stops serving is seen: its attributes may be cached.
Died(d) == IF d = "serving" THEN {"warm", "dead"} ELSE {d}

\* The container dies and is restarted in place (restartPolicy OnFailure).
HostContainerRestarts(s) ==
  /\ pod[s].phase = "Running" /\ ~pod[s].deleting
  /\ pod[s].restarts < CrashLoopRestartThreshold
  /\ Fault("crash")
  /\ pod' = [pod EXCEPT ![s].restarts = @ + 1]
  /\ \E d \in Died(daemon[s]) : daemon' = [daemon EXCEPT ![s] = d]
  /\ UNCHANGED <<wl, crd, gen, stack>>

\* The pod is evicted or its container exits for good.
HostPodTerminates(s) ==
  /\ pod[s].phase = "Running"
  /\ Fault("terminal")
  /\ pod' = [pod EXCEPT ![s].phase = "Terminal"]
  /\ \E d \in Died(daemon[s]) : daemon' = [daemon EXCEPT ![s] = d]
  /\ UNCHANGED <<wl, crd, gen, stack>>

\* The last mount of the superblock is gone: the session of its daemon ends
\* and the container exits with success.
HostDaemonExits(s) ==
  /\ pod[s].phase = "Running" /\ daemon[s] = "serving"
  /\ \A p \in Paths : [src |-> s, n |-> gen[s]] \notin Layers(p)
  /\ pod' = [pod EXCEPT ![s].phase = "Terminal"]
  /\ daemon' = [daemon EXCEPT ![s] = "dead"]
  /\ UNCHANGED <<wl, crd, gen, stack, faults>>

\* Somebody else deletes the pod (node drain, kubectl).
HostPodEvicted(s) ==
  /\ pod[s] # NoPod /\ ~pod[s].deleting
  /\ Fault("evict")
  /\ pod' = PodDeleted(s)
  /\ UNCHANGED <<wl, crd, gen, daemon, stack>>

\* kubelet has stopped the containers of a deleted pod; the object goes.
HostPodRemoved(s) ==
  /\ pod[s].deleting
  /\ pod' = [pod EXCEPT ![s] = NoPod]
  /\ \E d \in Died(daemon[s]) : daemon' = [daemon EXCEPT ![s] = d]
  /\ UNCHANGED <<wl, crd, gen, stack, faults>>

-----------------------------------------------------------------------------

HostTypeOK ==
  /\ wl \in [Targets -> {"none", "live", "ended", "done"}]
  /\ pod \in [Sources -> MountPod]
  /\ crd \in [Sources -> (SUBSET Workload) \cup {NoCRD}]
  /\ gen \in [Sources -> 0..MaxGen]
  /\ daemon \in [Sources -> {"serving", "warm", "dead"}]
  /\ stack \in [Paths -> Seq(Superblock)]
  /\ faults \in Faults
=============================================================================
