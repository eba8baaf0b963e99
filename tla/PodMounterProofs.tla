-------------------------- MODULE PodMounterProofs --------------------------
(***************************************************************************)
(* Proofs about PodMounter, for any number of targets, sources (colliding  *)
(* or not), goroutines and disturbances.                                   *)
(***************************************************************************)
EXTENDS PodMounter, SequenceTheorems, TLAPS

-----------------------------------------------------------------------------
(* The inductive invariant. *)

\* The superblocks of one source, and the source a path belongs to.
BlocksOf(s) == [src : {s}, n : 1..MaxGen]
PathSource(p) == IF p \in Sources THEN p ELSE MountID[p]

\* Every layer of a path is a superblock of the source of the path.
StackOK == /\ stack = [p \in Paths |-> stack[p]]
           /\ \A p \in Paths : stack[p] \in Seq(BlocksOf(PathSource(p)))

\* The host variables, the mount table apart.
HostOK == /\ wl \in [Targets -> {"none", "live", "ended", "done"}]
          /\ pod \in [Sources -> MountPod]
          /\ gen \in [Sources -> 0..MaxGen]
          /\ daemon \in [Sources -> {"serving", "warm", "dead"}]
          /\ faults \in Faults

\* An HFMount lists targets of its source only.
WorkloadsOf(s) == {w \in Workload : MountID[w.target] = s}
CrdOK == /\ crd = [s \in Sources |-> crd[s]]
         /\ \A s \in Sources : crd[s] = NoCRD \/ crd[s] \subseteq WorkloadsOf(s)

BindsOK == /\ binds = [t \in Targets |-> binds[t]]
           /\ \A t \in Targets : binds[t] \in {NoSource, MountID[t]}

\* The control points inside the critical section of the source.
Locked == {"mount.workload", "mount.create", "mount.inspect", "mount.gone", "mount.recreate",
           "mount.running", "mount.fuse", "mount.kill", "mount.drop",
           "unmount.shared", "unmount.pod", "unmount.crd", "cleanup.source", "rebind.poll"}

Cleaner == {"gc.stale", "gc.pod", "gc.purge"}

\* The labels that Mount, Unmount and their steps use.
Calling == {"mount.crd", "mount.workload", "mount.create", "mount.inspect", "mount.gone",
            "mount.recreate", "mount.running", "mount.fuse", "mount.kill", "mount.drop",
            "unmount.target", "unmount.shared", "unmount.pod", "unmount.crd"}

\* A goroutine works for one source, that of its target, on targets of it.
GoodRun(r) ==
  /\ r \in Goroutine
  /\ r.pc # "idle" => r.src \in Sources
  /\ r.tgt # NoTarget => r.src = MountID[r.tgt]
  /\ r.pc \in Calling => r.tgt \in Targets
  /\ r.pc \notin {"idle"} \cup Cleaner => \A t \in r.set : MountID[t] = r.src

RunOK == /\ run = [g \in Slots |-> run[g]]
         /\ \A g \in Slots : GoodRun(run[g])

\* A goroutine inside the critical section holds the lock.
LockOK == /\ lock \in [Sources -> Slots \cup {NoSlot}]
          /\ \A g \in Slots : run[g].pc \in Locked => lock[run[g].src] = g

IInv == /\ HostOK /\ StackOK /\ CrdOK /\ BindsOK /\ RunOK /\ LockOK
        /\ up \in BOOLEAN /\ pending \subseteq Job

-----------------------------------------------------------------------------
(* Stacks. *)

\* fuseUnmount and unmountAll leave layers that were there, a bind adds one.
LEMMA StackOps ==
  ASSUME NEW S, NEW q \in Seq(S)
  PROVE  /\ FuseUnmount(q) \in Seq(S)
         /\ UnmountAll(q) \in Seq(S)
         /\ \A b \in S : Append(q, b) \in Seq(S) /\ Append(UnmountAll(q), b) \in Seq(S)
         /\ q # <<>> => q[Len(q)] \in S
<1>1. Len(q) \in Nat /\ \A i \in 1..Len(q) : q[i] \in S
  BY LenProperties, ElementOfSeq
<1>2. FuseUnmount(q) \in Seq(S)
  <2>1. \A i \in 1..(Len(q) - 1) : q[i] \in S BY <1>1
  <2> QED BY <1>1, <2>1, SubSeqProperties DEF FuseUnmount
<1>3. UnmountAll(q) \in Seq(S)
  <2>1. UnmountBound \in Nat BY BoundsAssumption
  <2>2. \A i \in 1..(Len(q) - UnmountBound) : q[i] \in S BY <1>1, <2>1
  <2> QED BY <1>1, <2>1, <2>2, SubSeqProperties DEF UnmountAll
<1>4. q # <<>> => q[Len(q)] \in S
  <2> SUFFICES ASSUME q # <<>> PROVE q[Len(q)] \in S OBVIOUS
  <2>1. Len(q) # 0 BY EmptySeq
  <2> QED BY <1>1, <2>1
<1> QED
  BY <1>2, <1>3, <1>4, AppendProperties

\* The top layer of a source that is mounted is a superblock of that source.
LEMMA TopOfSource ==
  ASSUME StackOK, NEW s \in Sources, Mounted(s)
  PROVE  Top(s) \in BlocksOf(s)
  BY StackOps DEF StackOK, Mounted, Top, PathSource, Paths

\* A target with a layer of the file system of s is a target of s.
LEMMA RefsOfSource ==
  ASSUME StackOK, NEW s \in Sources, NEW t \in MountRefs(s)
  PROVE  MountID[t] = s
<1>1. t \in Targets /\ Mounted(s) /\ Top(s) \in Layers(t)
  BY DEF MountRefs
<1>2. Top(s) \in BlocksOf(s)
  BY <1>1, TopOfSource
<1>3. stack[t] \in Seq(BlocksOf(MountID[t]))
  BY <1>1, PathsDistinct DEF StackOK, PathSource, Paths
<1>4. PICK i \in DOMAIN stack[t] : Top(s) = stack[t][i]
  BY <1>1 DEF Layers
<1>5. stack[t][i] \in BlocksOf(MountID[t])
  BY <1>3, <1>4, ElementOfSeq, LenProperties
<1> QED
  BY <1>2, <1>4, <1>5 DEF BlocksOf

-----------------------------------------------------------------------------
(* Control flow. *)

\* A goroutine may go from one label to another: RPCs stay RPCs, the cleaner
\* stays the cleaner, and nobody walks into a critical section.
Follows(old, new) ==
  /\ {old, new} \subseteq PCs \ {"idle"}
  /\ new \in Calling => old \in Calling
  /\ new \in Locked => old \in Locked
  /\ old \in Cleaner <=> new \in Cleaner

\* The same, by way of the lock.
Enters(old, new) ==
  /\ {old, new} \subseteq PCs \ ({"idle"} \cup Cleaner)
  /\ new \in Calling => old \in Calling

\* The record of one goroutine changes.
LEMMA RunSet ==
  ASSUME RunOK, NEW g \in Slots, NEW r, GoodRun(r), run' = [run EXCEPT ![g] = r]
  PROVE  RunOK' /\ run'[g] = r /\ \A h \in Slots \ {g} : run'[h] = run[h]
<1>1. run'[g] = r /\ \A h \in Slots \ {g} : run'[h] = run[h]
  BY DEF RunOK
<1>2. run' = [h \in Slots |-> run'[h]]
  BY DEF RunOK
<1>3. \A h \in Slots : GoodRun(run'[h])
  BY <1>1 DEF RunOK
<1>4. (\A h \in Slots : GoodRun(run[h]))' 
  BY <1>3 DEF GoodRun
<1> QED
  BY <1>1, <1>2, <1>4 DEF RunOK

\* ... without touching the lock, with the lock taken, on return.
LEMMA LockKept ==
  ASSUME LockOK, RunOK, NEW g \in Slots, UNCHANGED lock,
         \A h \in Slots \ {g} : run'[h] = run[h],
         run'[g].pc \in Locked => run[g].pc \in Locked /\ run'[g].src = run[g].src
  PROVE  LockOK'
  BY DEF LockOK

LEMMA LockTaken ==
  ASSUME LockOK, RunOK, NEW g \in Slots, TakeLock(g), run[g].pc # "idle",
         \A h \in Slots \ {g} : run'[h] = run[h],
         run'[g].src = run[g].src
  PROVE  LockOK'
<1>1. run[g].src \in Sources
  BY DEF RunOK, GoodRun
<1>2. \A h \in Slots : run[h].pc \in Locked => run[h].src \in Sources
  BY DEF RunOK, GoodRun, Locked
<1> QED
  BY <1>1, <1>2, SlotsAssumption DEF LockOK, TakeLock, Src

LEMMA IdleGood == GoodRun(Idle)
  BY DEF GoodRun, Idle, Goroutine, PCs, Calling

LEMMA ReturnKeeps ==
  ASSUME RunOK, LockOK, NEW g \in Slots, Return(g)
  PROVE  RunOK' /\ LockOK' /\ run'[g] = Idle
<1>1. RunOK' /\ run'[g] = Idle /\ \A h \in Slots \ {g} : run'[h] = run[h]
  BY RunSet, IdleGood DEF Return
<1>2. \A h \in Slots : run[h].pc \in Locked => run[h].src \in Sources
  BY DEF RunOK, GoodRun, Locked
<1>3. lock' \in [Sources -> Slots \cup {NoSlot}]
  BY DEF Return, LockOK
<1>4. \A h \in Slots : run'[h].pc \in Locked => lock'[run'[h].src] = h
  BY <1>1, <1>2 DEF Return, LockOK, Idle, Locked
<1> QED
  BY <1>1, <1>3, <1>4 DEF LockOK

\* Goto, GotoWith and GotoOver are one change of a record.
LEMMA GotoRecord ==
  ASSUME RunOK, NEW g \in Slots, NEW label, NEW F \in SUBSET Flags, NEW S \in SUBSET Targets,
         run[g].pc # "idle",
         \/ Goto(g, label)
         \/ GotoWith(g, label, F)
         \/ GotoOver(g, label, S) /\ \A t \in S : MountID[t] = run[g].src,
         Follows(run[g].pc, label) \/ Enters(run[g].pc, label)
  PROVE  /\ RunOK'
         /\ run'[g].pc = label /\ run'[g].src = run[g].src
         /\ \A h \in Slots \ {g} : run'[h] = run[h]
<1>1. GoodRun(run[g]) /\ run[g].src \in Sources
  BY DEF RunOK, GoodRun
<1>2. label \in PCs \ {"idle"} /\ (label \in Calling => run[g].pc \in Calling)
      /\ (label \in Cleaner <=> run[g].pc \in Cleaner)
  BY DEF Follows, Enters
<1>3. CASE Goto(g, label)
  <2> DEFINE r == [run[g] EXCEPT !.pc = label]
  <2>1. run' = [run EXCEPT ![g] = r]
    BY <1>3 DEF Goto, RunOK
  <2>2. GoodRun(r) /\ r.pc = label /\ r.src = run[g].src
    BY <1>1, <1>2 DEF GoodRun, Goroutine
  <2> QED BY <2>1, <2>2, RunSet
<1>4. CASE GotoWith(g, label, F)
  <2> DEFINE r == [run[g] EXCEPT !.pc = label, !.flags = @ \cup F]
  <2>1. run' = [run EXCEPT ![g] = r]
    BY <1>4 DEF GotoWith, RunOK
  <2>2. GoodRun(r) /\ r.pc = label /\ r.src = run[g].src
    BY <1>1, <1>2 DEF GoodRun, Goroutine
  <2> QED BY <2>1, <2>2, RunSet
<1>5. CASE GotoOver(g, label, S) /\ \A t \in S : MountID[t] = run[g].src
  <2> DEFINE r == [run[g] EXCEPT !.pc = label, !.set = S]
  <2>1. run' = [run EXCEPT ![g] = r]
    BY <1>5 DEF GotoOver, RunOK
  <2>2. GoodRun(r) /\ r.pc = label /\ r.src = run[g].src
    BY <1>1, <1>2, <1>5 DEF GoodRun, Goroutine
  <2> QED BY <2>1, <2>2, RunSet
<1> QED
  BY <1>3, <1>4, <1>5

LEMMA GotoKeeps ==
  ASSUME RunOK, LockOK, NEW g \in Slots, NEW label, Goto(g, label), UNCHANGED lock,
         Follows(run[g].pc, label)
  PROVE  RunOK' /\ LockOK'
<1>1. run[g].pc # "idle" BY DEF Follows
<1>2. {} \in SUBSET Flags /\ {} \in SUBSET Targets OBVIOUS
<1>3. /\ RunOK' /\ run'[g].pc = label /\ run'[g].src = run[g].src
      /\ \A h \in Slots \ {g} : run'[h] = run[h]
  BY <1>1, <1>2, GotoRecord
<1> QED
  BY <1>3, LockKept DEF Follows

LEMMA GotoWithKeeps ==
  ASSUME RunOK, LockOK, NEW g \in Slots, NEW label, NEW F \in SUBSET Flags,
         GotoWith(g, label, F), UNCHANGED lock, Follows(run[g].pc, label)
  PROVE  RunOK' /\ LockOK'
<1>1. run[g].pc # "idle" BY DEF Follows
<1>2. {} \in SUBSET Targets OBVIOUS
<1>3. /\ RunOK' /\ run'[g].pc = label /\ run'[g].src = run[g].src
      /\ \A h \in Slots \ {g} : run'[h] = run[h]
  BY <1>1, <1>2, GotoRecord
<1> QED
  BY <1>3, LockKept DEF Follows

LEMMA GotoOverKeeps ==
  ASSUME RunOK, LockOK, NEW g \in Slots, NEW label, NEW S \in SUBSET Targets,
         GotoOver(g, label, S), \A t \in S : MountID[t] = run[g].src,
         UNCHANGED lock, Follows(run[g].pc, label)
  PROVE  RunOK' /\ LockOK'
<1>1. run[g].pc # "idle" BY DEF Follows
<1>2. {} \in SUBSET Flags OBVIOUS
<1>3. /\ RunOK' /\ run'[g].pc = label /\ run'[g].src = run[g].src
      /\ \A h \in Slots \ {g} : run'[h] = run[h]
  BY <1>1, <1>2, GotoRecord
<1> QED
  BY <1>3, LockKept DEF Follows

\* A step into the critical section.
LEMMA GotoLocks ==
  ASSUME RunOK, LockOK, NEW g \in Slots, NEW label, NEW F \in SUBSET Flags,
         NEW S \in SUBSET Targets,
         \/ Goto(g, label)
         \/ GotoWith(g, label, F)
         \/ GotoOver(g, label, S) /\ \A t \in S : MountID[t] = run[g].src,
         TakeLock(g), Enters(run[g].pc, label)
  PROVE  RunOK' /\ LockOK'
<1>1. run[g].pc # "idle" BY DEF Enters
<1>2. /\ RunOK' /\ run'[g].pc = label /\ run'[g].src = run[g].src
      /\ \A h \in Slots \ {g} : run'[h] = run[h]
  BY <1>1, GotoRecord
<1> QED
  BY <1>1, <1>2, LockTaken

-----------------------------------------------------------------------------
(* What a step leaves alone, and small changes of the host. *)

LEMMA KeepStack == ASSUME StackOK, UNCHANGED stack PROVE StackOK'
  BY DEF StackOK, PathSource

LEMMA KeepCrd == ASSUME CrdOK, UNCHANGED crd PROVE CrdOK'
  BY DEF CrdOK

LEMMA KeepBinds == ASSUME BindsOK, UNCHANGED binds PROVE BindsOK'
  BY DEF BindsOK

LEMMA KeepRun == ASSUME RunOK, LockOK, UNCHANGED <<run, lock>> PROVE RunOK' /\ LockOK'
  BY DEF RunOK, LockOK, GoodRun

\* A disturbance is counted.
LEMMA FaultOK ==
  ASSUME HostOK, NEW k, Fault(k) \/ NoFault \/ UNCHANGED faults
  PROVE  faults' \in Faults
<1>1. faults \in Faults
  BY DEF HostOK
<1>2. ASSUME Fault(k) PROVE faults' \in Faults
  <2>1. faults.left - 1 \in 0..MaxFaults
    BY <1>1, <1>2, BoundsAssumption DEF Faults, Fault
  <2>2. (faults.api \/ k = "api") \in BOOLEAN
    OBVIOUS
  <2> QED
    BY <1>2, <2>1, <2>2, Zenon DEF Faults, Fault
<1> QED
  BY <1>1, <1>2 DEF NoFault

\* The host moves on in well-typed steps.
LEMMA HostMoves ==
  ASSUME HostOK, faults' \in Faults,
         wl' \in [Targets -> {"none", "live", "ended", "done"}],
         pod' \in [Sources -> MountPod], UNCHANGED <<gen, daemon>>
  PROVE  HostOK'
  BY DEF HostOK

\* DeletePod and the creation of a pod.
LEMMA PodChanges ==
  ASSUME HostOK, NEW s \in Sources
  PROVE  /\ PodDeleted(s) \in [Sources -> MountPod]
         /\ [pod EXCEPT ![s] = NewPod] \in [Sources -> MountPod]
         /\ [pod EXCEPT ![s] = NoPod] \in [Sources -> MountPod]
<1>1. pod \in [Sources -> MountPod] /\ 0 \in 0..CrashLoopRestartThreshold
  BY BoundsAssumption DEF HostOK
<1>2. PodDeleted(s) \in [Sources -> MountPod]
  BY <1>1 DEF PodDeleted, MountPod
<1>3. NewPod \in MountPod /\ NoPod \in MountPod
  BY <1>1 DEF NewPod, NoPod, MountPod
<1> QED
  BY <1>1, <1>2, <1>3

\* A pod changes its phase, or counts a restart.
LEMMA PodMoves ==
  ASSUME HostOK, NEW s \in Sources, NEW ph \in {"None", "Pending", "Running", "Terminal"}
  PROVE  /\ [pod EXCEPT ![s].phase = ph] \in [Sources -> MountPod]
         /\ pod[s].restarts < CrashLoopRestartThreshold
              => [pod EXCEPT ![s].restarts = @ + 1] \in [Sources -> MountPod]
<1>1. pod \in [Sources -> MountPod] /\ pod[s] \in MountPod
  BY DEF HostOK
<1>2. [pod[s] EXCEPT !.phase = ph] \in MountPod
  BY <1>1 DEF MountPod
<1>3. ASSUME pod[s].restarts < CrashLoopRestartThreshold
      PROVE  [pod[s] EXCEPT !.restarts = @ + 1] \in MountPod
  BY <1>1, <1>3, BoundsAssumption DEF MountPod
<1> QED
  BY <1>1, <1>2, <1>3

LEMMA DeletesOK ==
  ASSUME HostOK, NEW s \in Sources, DeletePod(s) \/ DeleteStalePod(s)
  PROVE  pod' \in [Sources -> MountPod] /\ faults' \in Faults
  BY PodChanges, FaultOK DEF DeletePod, DeleteStalePod, HostOK, NoFault

\* An HFMount of s is replaced.
LEMMA SetCrdOK ==
  ASSUME CrdOK, NEW s \in Sources, NEW v, v = NoCRD \/ v \subseteq WorkloadsOf(s), SetCRD(s, v)
  PROVE  CrdOK'
  BY DEF CrdOK, SetCRD

LEMMA DeleteCrdOK ==
  ASSUME CrdOK, HostOK, NEW s \in Sources, DeleteCRD(s)
  PROVE  CrdOK' /\ faults' \in Faults
  BY SetCrdOK, KeepCrd, FaultOK DEF DeleteCRD, HostOK, NoFault

LEMMA WorkloadOps ==
  ASSUME NEW s \in Sources, NEW W \in SUBSET WorkloadsOf(s)
  PROVE  /\ \A t \in Targets, uid \in PodUIDs : MountID[t] = s =>
                AddWorkload(W, uid, t) \subseteq WorkloadsOf(s)
         /\ \A t \in Targets : RemoveWorkload(W, t) \subseteq WorkloadsOf(s)
         /\ \A L : Aged(RemainingWorkloads(W, L)) \subseteq WorkloadsOf(s)
         /\ Aged(W) \subseteq WorkloadsOf(s)
<1>1. ASSUME NEW V \in SUBSET W PROVE Aged(V) \subseteq WorkloadsOf(s)
  BY DEF Aged, WorkloadsOf, Workload
<1>2. \A L : RemainingWorkloads(W, L) \in SUBSET W
  BY DEF RemainingWorkloads
<1>3. \A t \in Targets, uid \in PodUIDs : MountID[t] = s =>
                AddWorkload(W, uid, t) \subseteq WorkloadsOf(s)
  <2> SUFFICES ASSUME NEW t \in Targets, NEW uid \in PodUIDs, MountID[t] = s
               PROVE  AddWorkload(W, uid, t) \subseteq WorkloadsOf(s)
    OBVIOUS
  <2>1. [uid |-> uid, target |-> t, old |-> FALSE] \in Workload
    BY DEF Workload
  <2>2. [uid |-> uid, target |-> t, old |-> FALSE] \in WorkloadsOf(s)
    BY <2>1 DEF WorkloadsOf
  <2> QED BY <2>2 DEF AddWorkload
<1> QED
  BY <1>1, <1>2, <1>3 DEF RemoveWorkload

\* The stack of a path is replaced.
LEMMA SetStackOK ==
  ASSUME StackOK, NEW p \in Paths, NEW q \in Seq(BlocksOf(PathSource(p))), SetStack(p, q)
  PROVE  StackOK'
  BY DEF StackOK, SetStack, PathSource

-----------------------------------------------------------------------------
(* Steps of a goroutine. *)

\* The edges of the control flow, by goroutine.
LEMMA MountEdges ==
  /\ Enters("mount.crd", "mount.workload")
  /\ Follows("mount.workload", "mount.create")
  /\ Follows("mount.create", "mount.running")
  /\ Follows("mount.create", "mount.inspect")
  /\ Follows("mount.create", "mount.drop")
  /\ Follows("mount.inspect", "mount.running")
  /\ Follows("mount.inspect", "mount.gone")
  /\ Follows("mount.gone", "mount.recreate")
  /\ Follows("mount.recreate", "mount.running")
  /\ Follows("mount.running", "mount.fuse")
  /\ Follows("mount.running", "mount.kill")
  /\ Follows("mount.fuse", "mount.kill")
  /\ Follows("mount.kill", "mount.drop")
  BY DEF Follows, Enters, PCs, Calling, Locked, Cleaner

\* A running goroutine has a source; an RPC has a target of that source.
LEMMA Locals ==
  ASSUME RunOK, NEW g \in Slots
  PROVE  /\ run[g].pc # "idle" => Src(g) \in Sources
         /\ run[g].pc \in Calling => Tgt(g) \in Targets /\ MountID[Tgt(g)] = Src(g)
         /\ run[g].set \subseteq Targets
         /\ run[g].pc \notin {"idle"} \cup Cleaner =>
               \A t \in run[g].set : MountID[t] = run[g].src
<1>1. GoodRun(run[g])
  BY DEF RunOK
<1>2. run[g].pc \in Calling => run[g].pc # "idle" /\ run[g].tgt # NoTarget
  BY <1>1, DriverNulls DEF GoodRun, Calling
<1> QED
  BY <1>1, <1>2 DEF GoodRun, Src, Tgt, Goroutine

\* Mount: what its steps do to the host, the HFMount, the mount table and the
\* binds keeps them in shape.
LEMMA MountKeeps ==
  ASSUME IInv, NEW g \in Slots, MountStep(g) PROVE IInv'
<1> USE DEF IInv
<1>0. /\ run[g].pc # "idle" => Src(g) \in Sources
      /\ run[g].pc \in Calling => Tgt(g) \in Targets /\ MountID[Tgt(g)] = Src(g)
  BY Locals
<1>1. CASE MountCreateCRD(g)
  <2>1. Src(g) \in Sources /\ {} \in SUBSET Targets
    BY <1>0, <1>1 DEF MountCreateCRD, At
  <2>2. RunOK' /\ LockOK'
    BY <1>1, <2>1, MountEdges, GotoLocks, ReturnKeeps DEF MountCreateCRD, At
  <2>3. CrdOK'
    BY <1>1, <2>1, SetCrdOK, KeepCrd DEF MountCreateCRD
  <2>4. HostOK'
    BY <1>1, FaultOK, HostMoves DEF MountCreateCRD, NoFault, HostOK
  <2> QED BY <1>1, <2>2, <2>3, <2>4, KeepStack, KeepBinds DEF MountCreateCRD
<1>2. CASE MountAddWorkload(g)
  <2>1. Src(g) \in Sources /\ Tgt(g) \in Targets /\ MountID[Tgt(g)] = Src(g)
    BY <1>0, <1>2 DEF MountAddWorkload, At, Calling
  <2>2. RunOK' /\ LockOK'
    BY <1>2, MountEdges, GotoKeeps DEF MountAddWorkload, At
  <2>3. (IF PodInfoOnMount THEN Tgt(g) ELSE NoUID) \in PodUIDs
    BY <2>1 DEF PodUIDs
  <2>4. CrdOK'
    BY <1>2, <2>1, <2>3, WorkloadOps, SetCrdOK, KeepCrd DEF MountAddWorkload, CrdOK
  <2>5. HostOK'
    BY <1>2, FaultOK, HostMoves DEF MountAddWorkload, NoFault, HostOK
  <2> QED BY <1>2, <2>2, <2>4, <2>5, KeepStack, KeepBinds DEF MountAddWorkload
<1>3. CASE MountCreatePod(g) \/ MountRecreatePod(g)
  <2>1. Src(g) \in Sources /\ {"created"} \in SUBSET Flags /\ {"drop"} \in SUBSET Flags
    BY <1>0, <1>3 DEF MountCreatePod, MountRecreatePod, At, Flags
  <2>2. RunOK' /\ LockOK'
    BY <1>3, <2>1, MountEdges, GotoKeeps, GotoWithKeeps, ReturnKeeps
    DEF MountCreatePod, MountRecreatePod, At
  <2>3. HostOK'
    BY <1>3, <2>1, PodChanges, FaultOK, HostMoves
    DEF MountCreatePod, MountRecreatePod, NoFault, HostOK
  <2> QED BY <1>3, <2>2, <2>3, KeepStack, KeepCrd, KeepBinds DEF MountCreatePod, MountRecreatePod
<1>4. CASE MountInspectPod(g)
  <2>1. Src(g) \in Sources
    BY <1>0, <1>4 DEF MountInspectPod, At
  <2>2. RunOK' /\ LockOK'
    BY <1>4, <2>1, MountEdges, GotoKeeps, ReturnKeeps DEF MountInspectPod, At
  <2>3. pod' \in [Sources -> MountPod] /\ faults' \in Faults
    BY <1>4, <2>1, DeletesOK, FaultOK DEF MountInspectPod, NoFault, HostOK
  <2> QED BY <1>4, <2>2, <2>3, HostMoves, KeepStack, KeepCrd, KeepBinds DEF MountInspectPod, HostOK
<1>5. CASE MountAwaitGone(g) \/ MountAwaitRunning(g)
  <2>1. Fatal(g) \in SUBSET Flags
    BY DEF Fatal, Flags
  <2>2. RunOK' /\ LockOK'
    BY <1>5, <2>1, MountEdges, GotoKeeps, GotoWithKeeps, ReturnKeeps
    DEF MountAwaitGone, MountAwaitRunning, At
  <2>3. HostOK'
    BY <1>5, FaultOK, HostMoves DEF MountAwaitGone, MountAwaitRunning, TimesOut, NoFault, HostOK
  <2> QED BY <1>5, <2>2, <2>3, KeepStack, KeepCrd, KeepBinds DEF MountAwaitGone, MountAwaitRunning
<1>6. CASE MountAwaitFuse(g)
  <2>1. /\ Src(g) \in Sources /\ Tgt(g) \in Targets /\ MountID[Tgt(g)] = Src(g)
        /\ Fatal(g) \in SUBSET Flags
        /\ (IF Has(g, "created") THEN {"kill", "drop"} ELSE {}) \in SUBSET Flags
    BY <1>0, <1>6 DEF MountAwaitFuse, At, Calling, Fatal, Flags
  <2>2. RunOK' /\ LockOK'
    BY <1>6, <2>1, MountEdges, GotoWithKeeps, ReturnKeeps DEF MountAwaitFuse, At
  <2>3. HostOK'
    BY <1>6, FaultOK, HostMoves DEF MountAwaitFuse, TimesOut, NoFault, HostOK
  <2>4. Tgt(g) \in Paths /\ PathSource(Tgt(g)) = Src(g)
    BY <2>1, PathsDistinct DEF Paths, PathSource
  <2>5. stack[Tgt(g)] \in Seq(BlocksOf(Src(g)))
    BY <2>4 DEF StackOK
  <2>6. /\ FailedBind(Tgt(g)) \in Seq(BlocksOf(Src(g)))
        /\ Mounted(Src(g)) => /\ StackBind(Src(g), Tgt(g)) \in Seq(BlocksOf(Src(g)))
                              /\ FallbackBind(Src(g), Tgt(g)) \in Seq(BlocksOf(Src(g)))
    BY <2>1, <2>5, StackOps, TopOfSource DEF FailedBind, StackBind, FallbackBind
  <2>7. StackOK'
    BY <1>6, <2>4, <2>6, SetStackOK, KeepStack DEF MountAwaitFuse
  <2>8. BindsOK'
    BY <1>6, <2>1, KeepBinds DEF MountAwaitFuse, BindsOK
  <2> QED BY <1>6, <2>2, <2>3, <2>7, <2>8, KeepCrd DEF MountAwaitFuse
<1>7. CASE MountKillPod(g)
  <2>1. Src(g) \in Sources
    BY <1>0, <1>7 DEF MountKillPod, At
  <2>2. RunOK' /\ LockOK'
    BY <1>7, MountEdges, GotoKeeps, ReturnKeeps DEF MountKillPod, At
  <2>3. pod' \in [Sources -> MountPod] /\ faults' \in Faults
    BY <1>7, <2>1, DeletesOK, FaultOK DEF MountKillPod, NoFault, HostOK
  <2> QED BY <1>7, <2>2, <2>3, HostMoves, KeepStack, KeepCrd, KeepBinds DEF MountKillPod, HostOK
<1>8. CASE MountDropCRD(g)
  <2>1. Src(g) \in Sources
    BY <1>0, <1>8 DEF MountDropCRD, At
  <2>2. RunOK' /\ LockOK'
    BY <1>8, ReturnKeeps DEF MountDropCRD
  <2>3. CrdOK' /\ faults' \in Faults
    BY <1>8, <2>1, DeleteCrdOK DEF MountDropCRD
  <2> QED BY <1>8, <2>2, <2>3, HostMoves, KeepStack, KeepBinds DEF MountDropCRD, HostOK
<1> QED
  BY <1>1, <1>2, <1>3, <1>4, <1>5, <1>6, <1>7, <1>8 DEF MountStep

\* The stacks of some paths are replaced by layers of their sources.
LEMMA StacksOK ==
  ASSUME StackOK, NEW f, stack' = [p \in Paths |-> f[p]],
         \A p \in Paths : f[p] \in Seq(BlocksOf(PathSource(p)))
  PROVE  StackOK'
  BY DEF StackOK, PathSource

\* Unmount: the source read before the lock is the source torn down under it.
LEMMA UnmountKeeps ==
  ASSUME IInv, NEW g \in Slots, UnmountStep(g) PROVE IInv'
<1> USE DEF IInv
<1>0. /\ run[g].pc # "idle" => Src(g) \in Sources
      /\ run[g].pc \in Calling => Tgt(g) \in Targets /\ MountID[Tgt(g)] = Src(g)
  BY Locals
<1>1. CASE UnmountTarget(g)
  <2>0. Src(g) \in Sources /\ Tgt(g) \in Targets /\ MountID[Tgt(g)] = Src(g)
    BY <1>0, <1>1 DEF UnmountTarget, At, Calling
  <2> DEFINE t == Tgt(g)
             popped == [stack EXCEPT ![t] = UnmountAll(stack[t])]
             both == [popped EXCEPT ![Src(g)] = UnmountAll(stack[Src(g)])]
  <2>1. SourceOf(t) = Src(g)
    BY <2>0, DriverNulls DEF SourceOf, BindsOK
  <2>2. t \in Paths /\ Src(g) \in Paths /\ PathSource(t) = Src(g) /\ PathSource(Src(g)) = Src(g)
    BY <2>0, PathsDistinct DEF Paths, PathSource
  <2>3. /\ UnmountAll(stack[t]) \in Seq(BlocksOf(Src(g)))
        /\ UnmountAll(stack[Src(g)]) \in Seq(BlocksOf(Src(g)))
    BY <2>2, StackOps DEF StackOK
  <2>4. StackOK'
    <3>1. stack' = popped \/ stack' = both
      BY <1>1, <2>1 DEF UnmountTarget
    <3>2. \A p \in Paths : /\ popped[p] \in Seq(BlocksOf(PathSource(p)))
                           /\ both[p] \in Seq(BlocksOf(PathSource(p)))
      BY <2>2, <2>3 DEF StackOK
    <3>3. popped = [p \in Paths |-> popped[p]] /\ both = [p \in Paths |-> both[p]]
      BY DEF StackOK
    <3> HIDE DEF popped, both
    <3> QED BY <3>1, <3>2, <3>3, StacksOK
  <2>5. BindsOK'
    BY <1>1, <2>0, KeepBinds DEF UnmountTarget, BindsOK
  <2>6. wl' \in [Targets -> {"none", "live", "ended", "done"}]
    BY <1>1, <2>0 DEF UnmountTarget, Unpublished, HostOK
  <2>7. HostOK'
    BY <1>1, <2>6, FaultOK, HostMoves DEF UnmountTarget, HostOK
  <2>8. RunOK' /\ LockOK'
    <3>1. CASE Return(g)
      BY <3>1, ReturnKeeps
    <3>2. ASSUME NEW l \in {"unmount.shared", "unmount.pod"}, TakeLock(g),
                 run' = [run EXCEPT ![g].src = Src(g), ![g].pc = l]
          PROVE  RunOK' /\ LockOK'
      <4> DEFINE r == [run[g] EXCEPT !.src = Src(g), !.pc = l]
      <4>1. run' = [run EXCEPT ![g] = r]
        BY <3>2 DEF RunOK
      <4>2. GoodRun(run[g]) /\ run[g].pc = "unmount.target" /\ run[g].src = Src(g)
        BY <1>1 DEF RunOK, UnmountTarget, At, Src
      <4>3. GoodRun(r) /\ r.src = Src(g)
        BY <2>0, <4>2 DEF GoodRun, Goroutine, PCs, Calling, Cleaner
      <4>4. RunOK' /\ run'[g] = r /\ \A h \in Slots \ {g} : run'[h] = run[h]
        BY <4>1, <4>3, RunSet
      <4> HIDE DEF r
      <4> QED BY <3>2, <4>2, <4>3, <4>4, LockTaken
    <3> QED
      BY <1>1, <2>1, <3>1, <3>2 DEF UnmountTarget, Unpublished
  <2> QED BY <1>1, <2>4, <2>5, <2>7, <2>8, KeepCrd DEF UnmountTarget
<1>2. CASE UnmountShared(g)
  <2>1. Src(g) \in Sources /\ Tgt(g) \in Targets
    BY <1>0, <1>2 DEF UnmountShared, At, Calling
  <2>2. RunOK' /\ LockOK'
    BY <1>2, ReturnKeeps DEF UnmountShared, Unpublished
  <2> DEFINE rest == IF crd[Src(g)] = NoCRD THEN NoCRD ELSE RemoveWorkload(crd[Src(g)], Tgt(g))
  <2>3. rest = NoCRD \/ rest \subseteq WorkloadsOf(Src(g))
    BY <2>1, WorkloadOps DEF CrdOK
  <2>4. SetCRD(Src(g), rest) \/ UNCHANGED crd
    BY <1>2 DEF UnmountShared
  <2>5. CrdOK'
    <3> HIDE DEF rest
    <3> QED BY <2>1, <2>3, <2>4, SetCrdOK, KeepCrd
  <2>6. wl' \in [Targets -> {"none", "live", "ended", "done"}] /\ faults' \in Faults
    BY <1>2, <2>1, FaultOK DEF UnmountShared, Unpublished, HostOK, NoFault
  <2> QED BY <1>2, <2>2, <2>5, <2>6, HostMoves, KeepStack, KeepBinds DEF UnmountShared, HostOK
<1>3. CASE UnmountDeletePod(g)
  <2>1. Src(g) \in Sources /\ Follows("unmount.pod", "unmount.crd")
    BY <1>0, <1>3 DEF UnmountDeletePod, At, Follows, PCs, Calling, Locked, Cleaner
  <2>2. RunOK' /\ LockOK'
    BY <1>3, <2>1, GotoKeeps DEF UnmountDeletePod, At
  <2>3. pod' \in [Sources -> MountPod] /\ faults' \in Faults
    BY <1>3, <2>1, DeletesOK DEF UnmountDeletePod
  <2> QED BY <1>3, <2>2, <2>3, HostMoves, KeepStack, KeepCrd, KeepBinds DEF UnmountDeletePod, HostOK
<1>4. CASE UnmountDeleteCRD(g)
  <2>1. Src(g) \in Sources /\ Tgt(g) \in Targets
    BY <1>0, <1>4 DEF UnmountDeleteCRD, At, Calling
  <2>2. RunOK' /\ LockOK'
    BY <1>4, ReturnKeeps DEF UnmountDeleteCRD, Unpublished
  <2>3. CrdOK' /\ faults' \in Faults
    BY <1>4, <2>1, DeleteCrdOK DEF UnmountDeleteCRD
  <2>4. wl' \in [Targets -> {"none", "live", "ended", "done"}]
    BY <1>4, <2>1 DEF UnmountDeleteCRD, Unpublished, HostOK
  <2> QED BY <1>4, <2>2, <2>3, <2>4, HostMoves, KeepStack, KeepBinds DEF UnmountDeleteCRD, HostOK
<1> QED
  BY <1>1, <1>2, <1>3, <1>4 DEF UnmountStep

LEMMA RepairEdges ==
  /\ Enters("cleanup.refs", "cleanup.source")
  /\ Enters("rebind.lock", "rebind.poll")
  /\ Follows("heal.get", "rebind.lock")
  /\ Follows("heal.get", "heal.crd")
  /\ Follows("heal.crd", "heal.gone")
  /\ Follows("heal.crd", "heal.create")
  /\ Follows("heal.gone", "heal.create")
  /\ Follows("heal.create", "heal.running")
  /\ Follows("heal.running", "rebind.lock")
  BY DEF Follows, Enters, PCs, Calling, Locked, Cleaner

LEMMA SpawnOK ==
  ASSUME pending \subseteq Job, NEW s \in Sources,
         NEW op \in {"add", "adopt", "cleanup", "heal", "rebind", "recover", "discard"},
         Spawn(op, s) \/ Notify(op, s)
  PROVE  pending' \subseteq Job
  BY DEF Spawn, Notify, Job

\* cleanupSource, tryHealSource, rebindTargets.
LEMMA RepairKeeps ==
  ASSUME IInv, NEW g \in Slots, RepairStep(g) PROVE IInv'
<1> USE DEF IInv
<1>0. /\ run[g].pc # "idle" => Src(g) \in Sources
      /\ run[g].set \subseteq Targets
  BY Locals
<1>1. CASE CleanupRefs(g)
  <2>1. Src(g) \in Sources /\ {} \in SUBSET Flags /\ run[g].src = Src(g)
    BY <1>0, <1>1 DEF CleanupRefs, At, Src
  <2>2. MountRefs(Src(g)) \in SUBSET Targets /\ \A t \in MountRefs(Src(g)) : MountID[t] = run[g].src
    BY <2>1, RefsOfSource DEF MountRefs
  <2>3. RunOK' /\ LockOK'
    BY <1>1, <2>1, <2>2, RepairEdges, GotoLocks DEF CleanupRefs, At
  <2>4. HostOK'
    BY <1>1, FaultOK, HostMoves DEF CleanupRefs, hostVars, HostOK
  <2> QED BY <1>1, <2>3, <2>4, KeepStack, KeepCrd, KeepBinds DEF CleanupRefs, hostVars
<1>2. CASE CleanupSource(g)
  <2>1. Src(g) \in Sources
    BY <1>0, <1>2 DEF CleanupSource, At
  <2>2. RunOK' /\ LockOK'
    BY <1>2, ReturnKeeps DEF CleanupSource
  <2>3. HostOK'
    BY <1>2, FaultOK, HostMoves DEF CleanupSource, NoFault, HostOK
  <2>4. PICK P \in SUBSET Paths : stack' = [p \in Paths |-> IF p \in P THEN UnmountAll(stack[p])
                                                            ELSE stack[p]]
    <3> DEFINE A == run[g].set \ LivePodUIDs
               B == run[g].set \ Targets
               C == {Src(g)} \cup run[g].set \cup BoundTargets(Src(g))
    <3>1. A \in SUBSET Paths /\ B \in SUBSET Paths /\ C \in SUBSET Paths
      BY <1>0, <2>1 DEF Paths, BoundTargets
    <3>2. \/ stack' = [p \in Paths |-> IF p \in A THEN UnmountAll(stack[p]) ELSE stack[p]]
          \/ stack' = [p \in Paths |-> IF p \in B THEN UnmountAll(stack[p]) ELSE stack[p]]
          \/ stack' = [p \in Paths |-> IF p \in C THEN UnmountAll(stack[p]) ELSE stack[p]]
      BY <1>2 DEF CleanupSource, DeadPodRefs
    <3> HIDE DEF A, B, C
    <3> QED BY <3>1, <3>2
  <2>5. StackOK'
    <3> DEFINE f == [p \in Paths |-> IF p \in P THEN UnmountAll(stack[p]) ELSE stack[p]]
    <3>1. \A p \in Paths : UnmountAll(stack[p]) \in Seq(BlocksOf(PathSource(p)))
      BY StackOps DEF StackOK
    <3>2. \A p \in Paths : f[p] \in Seq(BlocksOf(PathSource(p)))
      BY <3>1 DEF StackOK
    <3>3. stack' = [p \in Paths |-> f[p]]
      BY <2>4
    <3> HIDE DEF f
    <3> QED BY <3>2, <3>3, StacksOK
  <2>6. BindsOK'
    BY <1>2 DEF CleanupSource, BindsOK
  <2>7. pending' \subseteq Job
    BY <1>2, <2>1, SpawnOK DEF CleanupSource
  <2> QED BY <1>2, <2>2, <2>3, <2>5, <2>6, <2>7, KeepCrd DEF CleanupSource
<1>3. CASE HealGetPod(g) \/ HealAwaitGone(g)
  <2>1. {"stale"} \in SUBSET Flags
    BY DEF Flags
  <2>2. RunOK' /\ LockOK'
    BY <1>3, <2>1, RepairEdges, GotoKeeps, GotoWithKeeps, ReturnKeeps DEF HealGetPod, HealAwaitGone, At
  <2>3. HostOK'
    BY <1>3, FaultOK, HostMoves DEF HealGetPod, HealAwaitGone, TimesOut, NoFault, HostOK
  <2> QED BY <1>3, <2>2, <2>3, KeepStack, KeepCrd, KeepBinds DEF HealGetPod, HealAwaitGone
<1>4. CASE HealReadCRD(g)
  <2>1. Src(g) \in Sources
    BY <1>0, <1>4 DEF HealReadCRD, At
  <2>2. RunOK' /\ LockOK'
    BY <1>4, RepairEdges, GotoKeeps, ReturnKeeps DEF HealReadCRD, At
  <2>3. pod' \in [Sources -> MountPod] /\ faults' \in Faults
    BY <1>4, <2>1, DeletesOK, FaultOK DEF HealReadCRD, NoFault, HostOK
  <2> QED BY <1>4, <2>2, <2>3, HostMoves, KeepStack, KeepCrd, KeepBinds DEF HealReadCRD, HostOK
<1>5. CASE HealCreatePod(g) \/ HealAwaitRunning(g)
  <2>1. Src(g) \in Sources
    BY <1>0, <1>5 DEF HealCreatePod, HealAwaitRunning, At
  <2>2. RunOK' /\ LockOK'
    BY <1>5, RepairEdges, GotoKeeps, ReturnKeeps DEF HealCreatePod, HealAwaitRunning, At
  <2>3. pod' \in [Sources -> MountPod] /\ faults' \in Faults
    BY <1>5, <2>1, PodChanges, FaultOK
    DEF HealCreatePod, HealAwaitRunning, TimesOut, NoFault, HostOK
  <2> QED BY <1>5, <2>2, <2>3, HostMoves, KeepStack, KeepCrd, KeepBinds
          DEF HealCreatePod, HealAwaitRunning, HostOK
<1>6. CASE RebindLock(g)
  <2>1. {} \in SUBSET Flags /\ {} \in SUBSET Targets
    OBVIOUS
  <2>2. RunOK' /\ LockOK'
    BY <1>6, <2>1, RepairEdges, GotoLocks DEF RebindLock, At
  <2>3. HostOK'
    BY <1>6, FaultOK, HostMoves DEF RebindLock, hostVars, HostOK
  <2> QED BY <1>6, <2>2, <2>3, KeepStack, KeepCrd, KeepBinds DEF RebindLock, hostVars
<1>7. CASE RebindPoll(g)
  <2>1. Src(g) \in Sources
    BY <1>0, <1>7 DEF RebindPoll, At
  <2>2. RunOK' /\ LockOK'
    BY <1>7, ReturnKeeps DEF RebindPoll
  <2>3. HostOK'
    BY <1>7, FaultOK, HostMoves DEF RebindPoll, TimesOut, NoFault, HostOK
  <2>4. CASE UNCHANGED stack
    BY <1>7, <2>2, <2>3, <2>4, KeepStack, KeepCrd, KeepBinds DEF RebindPoll
  <2>5. ASSUME ~(UNCHANGED stack) PROVE StackOK'
    <3> DEFINE stale == {t \in BoundTargets(Src(g)) : ~BoundToCurrentSource(t, Src(g))}
    <3>1. Mounted(Src(g))
      BY <1>7, <2>5 DEF RebindPoll
    <3>2. \A t \in stale : t \in Targets /\ t \in Paths /\ PathSource(t) = Src(g)
      BY <2>1, PathsDistinct, DriverNulls DEF BoundTargets, BindsOK, Paths, PathSource
    <3>3. \A t \in stale : /\ StackBind(Src(g), t) \in Seq(BlocksOf(PathSource(t)))
                           /\ FallbackBind(Src(g), t) \in Seq(BlocksOf(PathSource(t)))
                           /\ FailedBind(t) \in Seq(BlocksOf(PathSource(t)))
      BY <2>1, <3>1, <3>2, StackOps, TopOfSource DEF StackOK, StackBind, FallbackBind, FailedBind
    <3>4. CASE stack' = [p \in Paths |-> IF p \in stale THEN StackBind(Src(g), p) ELSE stack[p]]
      <4> DEFINE f == [p \in Paths |-> IF p \in stale THEN StackBind(Src(g), p) ELSE stack[p]]
      <4>1. \A p \in Paths : f[p] \in Seq(BlocksOf(PathSource(p)))
        BY <3>3 DEF StackOK
      <4>2. stack' = [p \in Paths |-> f[p]]
        BY <3>4
      <4> HIDE DEF f
      <4> QED BY <4>1, <4>2, StacksOK
    <3>5. ASSUME NEW u \in stale, NEW layers \in {FallbackBind(Src(g), u), FailedBind(u)},
                 stack' = [p \in Paths |-> IF p = u THEN layers
                                           ELSE IF p \in stale THEN StackBind(Src(g), p)
                                           ELSE stack[p]]
          PROVE  StackOK'
      <4> DEFINE f == [p \in Paths |-> IF p = u THEN layers
                                       ELSE IF p \in stale THEN StackBind(Src(g), p)
                                       ELSE stack[p]]
      <4>1. \A p \in Paths : f[p] \in Seq(BlocksOf(PathSource(p)))
        BY <3>3, <3>5 DEF StackOK
      <4>2. stack' = [p \in Paths |-> f[p]]
        BY <3>5
      <4> HIDE DEF f
      <4> QED BY <4>1, <4>2, StacksOK
    <3> HIDE DEF stale
    <3>6. \/ stack' = [p \in Paths |-> IF p \in stale THEN StackBind(Src(g), p) ELSE stack[p]]
          \/ \E u \in stale : \E layers \in {FallbackBind(Src(g), u), FailedBind(u)} :
               stack' = [p \in Paths |-> IF p = u THEN layers
                                         ELSE IF p \in stale THEN StackBind(Src(g), p)
                                         ELSE stack[p]]
      BY <1>7, <2>5 DEF RebindPoll, stale
    <3> QED BY <3>4, <3>5, <3>6
  <2> QED BY <1>7, <2>2, <2>3, <2>4, <2>5, KeepCrd, KeepBinds DEF RebindPoll
<1> QED
  BY <1>1, <1>2, <1>3, <1>4, <1>5, <1>6, <1>7 DEF RepairStep

LEMMA StartupEdges ==
  /\ Follows("adopt.poll", "adopt.track")
  /\ Follows("adopt.track", "adopt.crd")
  /\ Follows("recover.probe", "recover.poll")
  /\ Follows("recover.probe", "recover.crd")
  /\ Follows("recover.dead", "recover.crd")
  /\ Follows("recover.poll", "recover.crd")
  BY DEF Follows, PCs, Calling, Locked, Cleaner

\* Targets of s are recorded as such.
LEMMA TrackOK ==
  ASSUME BindsOK, NEW s \in Sources, NEW T \in SUBSET Targets, \A t \in T : MountID[t] = s,
         binds' = [t \in Targets |-> IF t \in T THEN s ELSE binds[t]]
  PROVE  BindsOK'
  BY DEF BindsOK

\* lateAdopt and recoverPod: mountinfo and the HFMount give back what Mount had
\* recorded.
LEMMA StartupKeeps ==
  ASSUME IInv, NEW g \in Slots, StartupStep(g) PROVE IInv'
<1> USE DEF IInv
<1>0. /\ run[g].pc # "idle" => Src(g) \in Sources
      /\ run[g].set \subseteq Targets
      /\ run[g].pc \notin {"idle"} \cup Cleaner => \A t \in run[g].set : MountID[t] = run[g].src
  BY Locals
<1>1. ASSUME Src(g) \in Sources
      PROVE  MountRefs(Src(g)) \in SUBSET Targets /\ \A t \in MountRefs(Src(g)) : MountID[t] = run[g].src
  BY <1>1, RefsOfSource DEF MountRefs, Src
<1>2. CASE AdoptPoll(g) \/ RecoverPoll(g)
  <2>1. Src(g) \in Sources
    BY <1>0, <1>2 DEF AdoptPoll, RecoverPoll, At
  <2>2. RunOK' /\ LockOK'
    BY <1>1, <1>2, <2>1, StartupEdges, GotoOverKeeps, ReturnKeeps DEF AdoptPoll, RecoverPoll, At
  <2>3. HostOK'
    BY <1>2, FaultOK, HostMoves DEF AdoptPoll, RecoverPoll, TimesOut, NoFault, HostOK
  <2> QED BY <1>2, <2>2, <2>3, KeepStack, KeepCrd, KeepBinds DEF AdoptPoll, RecoverPoll
<1>3. CASE AdoptTrack(g)
  <2> DEFINE restored == {t \in run[g].set : binds[t] = NoSource}
  <2>1. Src(g) \in Sources /\ Src(g) = run[g].src /\ run[g].pc = "adopt.track"
    BY <1>0, <1>3 DEF AdoptTrack, At, Src
  <2>2. restored \in SUBSET Targets /\ \A t \in restored : MountID[t] = run[g].src
    BY <1>0, <2>1 DEF Cleaner
  <2>3. /\ GotoOver(g, "adopt.crd", restored) /\ UNCHANGED lock
        /\ binds' = [t \in Targets |-> IF t \in restored THEN Src(g) ELSE binds[t]]
    BY <1>3 DEF AdoptTrack
  <2> HIDE DEF restored
  <2>4. RunOK' /\ LockOK'
    BY <2>1, <2>2, <2>3, StartupEdges, GotoOverKeeps
  <2>5. BindsOK'
    BY <2>1, <2>2, <2>3, TrackOK
  <2>6. HostOK'
    BY <1>3, FaultOK, HostMoves DEF AdoptTrack, hostVars, HostOK
  <2> QED BY <1>3, <2>4, <2>5, <2>6, KeepStack, KeepCrd DEF AdoptTrack, hostVars
<1>4. CASE AdoptSyncCRD(g)
  <2>1. Src(g) \in Sources /\ Src(g) = run[g].src /\ run[g].pc = "adopt.crd"
    BY <1>0, <1>4 DEF AdoptSyncCRD, At, Src
  <2>2. RunOK' /\ LockOK'
    BY <1>4, ReturnKeeps DEF AdoptSyncCRD
  <2>3. CrdOK'
    <3> DEFINE added == UNION {AddWorkload(crd[Src(g)], t, t) : t \in run[g].set}
    <3>1. CASE UNCHANGED crd
      BY <3>1, KeepCrd
    <3>2. CASE crd[Src(g)] # NoCRD /\ SetCRD(Src(g), crd[Src(g)] \cup added)
      <4>1. crd[Src(g)] \in SUBSET WorkloadsOf(Src(g))
        BY <2>1, <3>2 DEF CrdOK
      <4>2. \A t \in run[g].set : t \in Targets /\ t \in PodUIDs /\ MountID[t] = Src(g)
        BY <1>0, <2>1 DEF PodUIDs, Cleaner
      <4>3. \A t \in run[g].set : AddWorkload(crd[Src(g)], t, t) \subseteq WorkloadsOf(Src(g))
        BY <2>1, <4>1, <4>2, WorkloadOps
      <4>4. added \subseteq WorkloadsOf(Src(g))
        BY <4>3
      <4> HIDE DEF added
      <4> QED BY <2>1, <3>2, <4>1, <4>4, SetCrdOK
    <3> QED BY <1>4, <3>1, <3>2 DEF AdoptSyncCRD
  <2>4. HostOK'
    BY <1>4, FaultOK, HostMoves DEF AdoptSyncCRD, NoFault, HostOK
  <2>5. pending' \subseteq Job
    BY <1>4, <2>1, SpawnOK DEF AdoptSyncCRD
  <2> QED BY <1>4, <2>2, <2>3, <2>4, <2>5, KeepStack, KeepBinds DEF AdoptSyncCRD
<1>5. CASE RecoverProbe(g)
  <2>1. Src(g) \in Sources
    BY <1>0, <1>5 DEF RecoverProbe, At
  <2>2. RunOK' /\ LockOK'
    BY <1>1, <1>5, <2>1, StartupEdges, GotoKeeps, GotoOverKeeps, ReturnKeeps DEF RecoverProbe, At
  <2>3. pod' \in [Sources -> MountPod] /\ faults' \in Faults
    BY <1>5, <2>1, DeletesOK, FaultOK DEF RecoverProbe, NoFault, HostOK
  <2>4. StackOK'
    <3>1. Src(g) \in Paths
      BY <2>1 DEF Paths
    <3>2. FuseUnmount(stack[Src(g)]) \in Seq(BlocksOf(PathSource(Src(g))))
      BY <3>1, StackOps DEF StackOK
    <3> QED BY <1>5, <3>1, <3>2, SetStackOK, KeepStack DEF RecoverProbe
  <2> QED BY <1>5, <2>2, <2>3, <2>4, HostMoves, KeepCrd, KeepBinds DEF RecoverProbe, HostOK
<1>6. CASE RecoverCRD(g)
  <2>1. Src(g) \in Sources /\ Src(g) = run[g].src /\ run[g].pc = "recover.crd"
    BY <1>0, <1>6 DEF RecoverCRD, At, Src
  <2>2. RunOK' /\ LockOK'
    BY <1>6, ReturnKeeps DEF RecoverCRD
  <2>3. BindsOK'
    <3>1. run[g].set \in SUBSET Targets /\ \A t \in run[g].set : MountID[t] = Src(g)
      BY <1>0, <2>1 DEF Cleaner
    <3>2. CASE binds' = [t \in Targets |-> IF t \in run[g].set THEN Src(g) ELSE binds[t]]
      BY <2>1, <3>1, <3>2, TrackOK
    <3>3. CASE /\ crd[Src(g)] # NoCRD
               /\ binds' = [t \in Targets |-> IF t \in run[g].set \cup ListedTargets(Src(g))
                                              THEN Src(g) ELSE binds[t]]
      <4> DEFINE T == run[g].set \cup ListedTargets(Src(g))
      <4>1. crd[Src(g)] \subseteq WorkloadsOf(Src(g))
        BY <2>1, <3>3 DEF CrdOK
      <4>2. \A t \in ListedTargets(Src(g)) : t \in Targets /\ MountID[t] = Src(g)
        BY <4>1 DEF ListedTargets, WorkloadsOf
      <4>3. T \in SUBSET Targets /\ \A t \in T : MountID[t] = Src(g)
        BY <3>1, <4>2
      <4> HIDE DEF T
      <4>4. binds' = [t \in Targets |-> IF t \in T THEN Src(g) ELSE binds[t]]
        BY <3>3 DEF T
      <4> QED BY <2>1, <4>3, <4>4, TrackOK
    <3> QED BY <1>6, <3>2, <3>3 DEF RecoverCRD
  <2>4. HostOK'
    BY <1>6, FaultOK, HostMoves DEF RecoverCRD, NoFault, HostOK
  <2>5. pending' \subseteq Job
    BY <1>6, <2>1, SpawnOK DEF RecoverCRD
  <2> QED BY <1>6, <2>2, <2>3, <2>4, <2>5, KeepStack, KeepCrd DEF RecoverCRD
<1> QED
  BY <1>2, <1>3, <1>4, <1>5, <1>6 DEF StartupStep

\* cleanupStaleCRDs.
LEMMA CleanerKeeps ==
  ASSUME IInv, NEW g \in Slots, CleanerStep(g) PROVE IInv'
<1> USE DEF IInv
<1>0. run[g].pc # "idle" => Src(g) \in Sources
  BY Locals
<1>1. Follows("gc.stale", "gc.pod") /\ Follows("gc.pod", "gc.purge")
  BY DEF Follows, PCs, Calling, Locked, Cleaner
<1>2. CASE CleanerPrunes(g)
  <2>1. Src(g) \in Sources
    BY <1>0, <1>2 DEF CleanerPrunes, At
  <2>2. RunOK' /\ LockOK'
    BY <1>1, <1>2, GotoKeeps, ReturnKeeps DEF CleanerPrunes, At
  <2>3. CrdOK'
    BY <1>2, <2>1, WorkloadOps, SetCrdOK, KeepCrd DEF CleanerPrunes, CrdOK
  <2>4. HostOK'
    BY <1>2, FaultOK, HostMoves DEF CleanerPrunes, NoFault, HostOK
  <2> QED BY <1>2, <2>2, <2>3, <2>4, KeepStack, KeepBinds DEF CleanerPrunes
<1>3. CASE CleanerGetsPod(g)
  <2>1. Src(g) \in Sources
    BY <1>0, <1>3 DEF CleanerGetsPod, At
  <2>2. RunOK' /\ LockOK'
    BY <1>1, <1>3, GotoKeeps, ReturnKeeps DEF CleanerGetsPod, At
  <2>3. pod' \in [Sources -> MountPod] /\ faults' \in Faults
    BY <1>3, <2>1, DeletesOK, FaultOK DEF CleanerGetsPod, NoFault, HostOK
  <2> QED BY <1>3, <2>2, <2>3, HostMoves, KeepStack, KeepCrd, KeepBinds DEF CleanerGetsPod, HostOK
<1>4. CASE CleanerPurges(g)
  <2>1. Src(g) \in Sources /\ Src(g) \in Paths
    BY <1>0, <1>4 DEF CleanerPurges, At, Paths
  <2>2. RunOK' /\ LockOK'
    BY <1>4, ReturnKeeps DEF CleanerPurges
  <2>3. StackOK'
    <3>1. FuseUnmount(stack[Src(g)]) \in Seq(BlocksOf(PathSource(Src(g))))
      BY <2>1, StackOps DEF StackOK
    <3> QED BY <1>4, <2>1, <3>1, SetStackOK DEF CleanerPurges
  <2>4. CrdOK' /\ faults' \in Faults
    BY <1>4, <2>1, DeleteCrdOK DEF CleanerPurges
  <2> QED BY <1>4, <2>2, <2>3, <2>4, HostMoves, KeepBinds DEF CleanerPurges, HostOK
<1> QED
  BY <1>2, <1>3, <1>4 DEF CleanerStep

-----------------------------------------------------------------------------
(* Goroutines start, the driver restarts, the host moves. *)

\* A goroutine starts in an idle slot.
LEMMA StartKeeps ==
  ASSUME RunOK, LockOK, NEW g \in Slots, NEW r, GoodRun(r), r.pc \notin Locked,
         run' = [run EXCEPT ![g] = r], UNCHANGED lock
  PROVE  RunOK' /\ LockOK'
<1>1. RunOK' /\ run'[g] = r /\ \A h \in Slots \ {g} : run'[h] = run[h]
  BY RunSet
<1> QED
  BY <1>1, LockKept

LEMMA CallsKeep ==
  ASSUME IInv, NEW g \in Slots, NEW t \in Targets, Publish(g, t) \/ Unpublish(g, t) PROVE IInv'
<1> USE DEF IInv
<1>1. MountID[t] \in Sources /\ t # NoTarget
  BY MountIDAssumption, DriverNulls
<1>2. SourceOf(t) = MountID[t]
  BY DriverNulls DEF SourceOf, BindsOK
<1>3. ASSUME NEW l \in {"mount.crd", "unmount.target"}
      PROVE  /\ GoodRun([Idle EXCEPT !.pc = l, !.src = MountID[t], !.tgt = t])
             /\ [Idle EXCEPT !.pc = l, !.src = MountID[t], !.tgt = t].pc \notin Locked
  BY <1>1 DEF GoodRun, Goroutine, Idle, PCs, Calling, Locked
<1>4. faults' \in Faults
  BY FaultOK DEF Publish, Unpublish, MayCall, NoFault
<1>5. CASE Publish(g, t)
  <2>1. RunOK' /\ LockOK'
    BY <1>3, <1>5, StartKeeps DEF Publish
  <2> QED BY <1>4, <1>5, <2>1, HostMoves, KeepStack, KeepCrd, KeepBinds DEF Publish, HostOK
<1>6. CASE Unpublish(g, t)
  <2>1. [Idle EXCEPT !.pc = "unmount.target", !.tgt = t, !.src = SourceOf(t)]
          = [Idle EXCEPT !.pc = "unmount.target", !.src = MountID[t], !.tgt = t]
    BY <1>2 DEF Idle
  <2>2. RunOK' /\ LockOK'
    BY <1>3, <1>6, <2>1, StartKeeps, KeepRun DEF Unpublish
  <2>3. wl' \in [Targets -> {"none", "live", "ended", "done"}]
    BY <1>6 DEF Unpublish, HostOK
  <2> QED BY <1>4, <1>6, <2>2, <2>3, HostMoves, KeepStack, KeepCrd, KeepBinds DEF Unpublish, HostOK
<1> QED
  BY <1>5, <1>6

LEMMA JobsKeep ==
  ASSUME IInv, NEW g \in Slots, NEW j \in Job, StartJob(g, j) PROVE IInv'
<1> USE DEF IInv
<1>1. j.src \in Sources /\ FirstLabel[j.op] \in
        {"adopt.poll", "cleanup.refs", "heal.get", "rebind.lock", "recover.probe",
         "recover.dead"}
  BY DEF StartJob, Job, FirstLabel
<1> DEFINE r == [Idle EXCEPT !.pc = FirstLabel[j.op], !.src = j.src]
<1>2. GoodRun(r) /\ r.pc \notin Locked
  <2> DEFINE l == FirstLabel[j.op]
  <2>1. l \in {"adopt.poll", "cleanup.refs", "heal.get", "rebind.lock", "recover.probe",
                "recover.dead"}
    BY <1>1
  <2> HIDE DEF l
  <2>2. GoodRun([Idle EXCEPT !.pc = l, !.src = j.src])
        /\ [Idle EXCEPT !.pc = l, !.src = j.src].pc \notin Locked
    BY <1>1, <2>1 DEF GoodRun, Goroutine, Idle, PCs, Calling, Locked
  <2> QED BY <2>2 DEF l
<1>3. run' = [run EXCEPT ![g] = r] /\ UNCHANGED lock
  BY DEF StartJob
<1> HIDE DEF r
<1>4. RunOK' /\ LockOK'
  BY <1>2, <1>3, StartKeeps
<1>5. HostOK'
  BY FaultOK, HostMoves DEF StartJob, hostVars, HostOK
<1> QED
  BY <1>4, <1>5, KeepStack, KeepCrd, KeepBinds DEF StartJob, hostVars

LEMMA CleanerStartKeeps ==
  ASSUME IInv, NEW g \in Slots, NEW s \in Sources, CleanerLists(g, s) PROVE IInv'
<1> USE DEF IInv
<1>1. /\ GoodRun([Idle EXCEPT !.pc = "gc.stale", !.src = s, !.set = LivePodUIDs])
      /\ [Idle EXCEPT !.pc = "gc.stale", !.src = s, !.set = LivePodUIDs].pc \notin Locked
  BY DEF GoodRun, Goroutine, Idle, PCs, Calling, Cleaner, Locked, LivePodUIDs
<1>2. RunOK' /\ LockOK'
  BY <1>1, StartKeeps DEF CleanerLists
<1>3. CrdOK'
  BY WorkloadOps, SetCrdOK DEF CleanerLists, CrdOK
<1>4. HostOK'
  BY FaultOK, HostMoves DEF CleanerLists, HostOK
<1> QED
  BY <1>2, <1>3, <1>4, KeepStack, KeepBinds DEF CleanerLists

LEMMA EventsKeep ==
  ASSUME IInv, NEW s \in Sources, HandleAdd(s) \/ Scan(s) \/ ScanBlind(s) PROVE IInv'
<1> USE DEF IInv
<1>1. pending' \subseteq Job
  BY SpawnOK DEF HandleAdd, Scan, ScanBlind, Job
<1>2. HostOK'
  <2>1. CASE HandleAdd(s) \/ Scan(s)
    BY <2>1, HostMoves DEF HandleAdd, Scan, hostVars, HostOK
  <2>2. CASE ScanBlind(s)
    BY <2>2, FaultOK, HostMoves DEF ScanBlind, HostOK
  <2> QED BY <2>1, <2>2
<1> QED
  BY <1>1, <1>2, KeepStack, KeepCrd, KeepBinds, KeepRun DEF HandleAdd, Scan, ScanBlind, hostVars

LEMMA RestartKeeps ==
  ASSUME IInv, DriverStops \/ DriverStarts PROVE IInv'
<1> USE DEF IInv
<1>1. HostOK'
  BY FaultOK, HostMoves DEF DriverStops, DriverStarts, NoFault, HostOK
<1>2. CASE DriverStops
  <2>1. BindsOK'
    BY <1>2 DEF DriverStops, BindsOK
  <2>2. RunOK'
    <3>1. \A g \in Slots : GoodRun(run'[g])
      BY <1>2, IdleGood DEF DriverStops
    <3>2. run' = [g \in Slots |-> run'[g]]
      BY <1>2 DEF DriverStops
    <3>3. (\A g \in Slots : GoodRun(run[g]))'
      BY <3>1 DEF GoodRun
    <3> QED BY <3>2, <3>3 DEF RunOK
  <2>3. LockOK'
    BY <1>2 DEF DriverStops, LockOK, Idle, Locked
  <2> QED BY <1>1, <1>2, <2>1, <2>2, <2>3, KeepStack, KeepCrd DEF DriverStops
<1>3. CASE DriverStarts
  <2>1. pending' \subseteq Job
    BY <1>3 DEF DriverStarts, Job
  <2> QED BY <1>1, <1>3, <2>1, KeepStack, KeepCrd, KeepBinds, KeepRun DEF DriverStarts
<1> QED
  BY <1>2, <1>3

\* Workloads, mount pods and daemons; a fresh superblock of s is mounted at s.
LEMMA HostKeeps ==
  ASSUME IInv, HostStep PROVE IInv'
<1> USE DEF IInv
<1>1. ASSUME NEW t \in Targets,
             HostWorkloadStarts(t) \/ HostWorkloadEnds(t) \/ HostKubeletLeaks(t),
             UNCHANGED driverVars
      PROVE  IInv'
  <2>1. HostOK'
    BY <1>1, FaultOK, HostMoves
    DEF HostWorkloadStarts, HostWorkloadEnds, HostKubeletLeaks, HostOK
  <2> QED BY <1>1, <2>1, KeepStack, KeepCrd, KeepBinds, KeepRun
          DEF HostWorkloadStarts, HostWorkloadEnds, HostKubeletLeaks, driverVars
<1>2. ASSUME NEW s \in Sources, HostCacheExpires(s), UNCHANGED driverVars PROVE IInv'
  <2>1. HostOK'
    BY <1>2, FaultOK DEF HostCacheExpires, HostOK
  <2> QED BY <1>2, <2>1, KeepStack, KeepCrd, KeepBinds, KeepRun DEF HostCacheExpires, driverVars
<1>3. ASSUME NEW s \in Sources, HostDaemonMounts(s), UNCHANGED driverVars PROVE IInv'
  <2>1. PICK n \in Unused(s) : /\ gen' = [gen EXCEPT ![s] = n]
                               /\ stack' = [stack EXCEPT ![s] = Append(@, [src |-> s, n |-> n])]
    BY <1>3 DEF HostDaemonMounts
  <2>2. n \in 1..MaxGen /\ n \in 0..MaxGen
    BY BoundsAssumption DEF Unused
  <2>3. HostOK'
    BY <1>3, <2>1, <2>2, FaultOK DEF HostDaemonMounts, HostOK
  <2>4. [src |-> s, n |-> n] \in BlocksOf(s) /\ s \in Paths /\ PathSource(s) = s
    BY <2>2 DEF BlocksOf, Paths, PathSource
  <2>5. Append(stack[s], [src |-> s, n |-> n]) \in Seq(BlocksOf(PathSource(s)))
    BY <2>4, StackOps DEF StackOK
  <2>6. SetStack(s, Append(stack[s], [src |-> s, n |-> n]))
    BY <2>1 DEF SetStack
  <2>7. StackOK'
    BY <2>4, <2>5, <2>6, SetStackOK
  <2> QED BY <1>3, <2>3, <2>7, KeepCrd, KeepBinds, KeepRun DEF HostDaemonMounts, driverVars
<1>4. ASSUME NEW s \in Sources, HostPodEvicted(s), UNCHANGED driverVars PROVE IInv'
  <2>1. HostOK'
    BY <1>4, PodChanges, FaultOK, HostMoves DEF HostPodEvicted, HostOK
  <2> QED BY <1>4, <2>1, KeepStack, KeepCrd, KeepBinds, KeepRun DEF HostPodEvicted, driverVars
<1>5. ASSUME NEW s \in Sources, HostPodStarts(s) \/ HostContainerRestarts(s),
             Notify("rebind", s), UNCHANGED <<up, binds, lock, run>>
      PROVE  IInv'
  <2>1. pod' \in [Sources -> MountPod]
    BY <1>5, PodMoves DEF HostPodStarts, HostContainerRestarts
  <2>2. HostOK'
    BY <1>5, <2>1, FaultOK DEF HostPodStarts, HostContainerRestarts, Died, HostOK
  <2>3. pending' \subseteq Job
    BY <1>5, SpawnOK
  <2> QED BY <1>5, <2>2, <2>3, KeepStack, KeepCrd, KeepBinds, KeepRun
          DEF HostPodStarts, HostContainerRestarts
<1>6. ASSUME NEW s \in Sources,
             HostPodTerminates(s) \/ HostDaemonExits(s) \/ HostPodRemoved(s),
             Notify("cleanup", s), UNCHANGED <<up, binds, lock, run>>
      PROVE  IInv'
  <2>1. pod' \in [Sources -> MountPod]
    <3>1. pod' = [pod EXCEPT ![s].phase = "Terminal"] \/ pod' = [pod EXCEPT ![s] = NoPod]
      BY <1>6 DEF HostPodTerminates, HostDaemonExits, HostPodRemoved
    <3>2. [pod EXCEPT ![s].phase = "Terminal"] \in [Sources -> MountPod]
      BY PodMoves
    <3> QED BY <3>1, <3>2, PodChanges
  <2>2. HostOK'
    BY <1>6, <2>1, FaultOK
    DEF HostPodTerminates, HostDaemonExits, HostPodRemoved, Died, HostOK
  <2>3. pending' \subseteq Job
    BY <1>6, SpawnOK
  <2> QED BY <1>6, <2>2, <2>3, KeepStack, KeepCrd, KeepBinds, KeepRun
          DEF HostPodTerminates, HostDaemonExits, HostPodRemoved
<1> QED
  BY <1>1, <1>2, <1>3, <1>4, <1>5, <1>6 DEF HostStep

-----------------------------------------------------------------------------
(* The theorems. *)

LEMMA InitIInv == Init => IInv
<1> SUFFICES ASSUME Init PROVE IInv
  OBVIOUS
<1>1. HostOK
  <2>1. faults \in Faults
    <3>1. MaxFaults \in 0..MaxFaults /\ FALSE \in BOOLEAN
      BY BoundsAssumption
    <3> QED
      BY <3>1, Zenon DEF Init, HostInit, Faults
  <2> QED
    BY <2>1, BoundsAssumption DEF Init, HostInit, HostOK, MountPod, NoPod
<1>2. StackOK
  BY EmptySeq DEF Init, HostInit, StackOK
<1>3. CrdOK /\ BindsOK
  BY DEF Init, HostInit, CrdOK, BindsOK
<1>4. RunOK
  BY IdleGood DEF Init, RunOK
<1>5. LockOK
  BY DEF Init, LockOK, Idle, Locked
<1> QED
  BY <1>1, <1>2, <1>3, <1>4, <1>5 DEF Init, IInv

LEMMA NextIInv == IInv /\ [Next]_vars => IInv'
<1> SUFFICES ASSUME IInv, [Next]_vars PROVE IInv'
  OBVIOUS
<1>1. CASE HostStep
  BY <1>1, HostKeeps
<1>2. CASE DriverStep
  BY <1>2, MountKeeps, UnmountKeeps, RepairKeeps, StartupKeeps, CleanerKeeps, CallsKeep,
     JobsKeep, CleanerStartKeeps, EventsKeep, RestartKeeps DEF DriverStep, Step
<1>3. CASE UNCHANGED vars
  <2>1. HostOK'
    BY <1>3 DEF IInv, HostOK, vars, hostVars
  <2> QED BY <1>3, <2>1, KeepStack, KeepCrd, KeepBinds, KeepRun DEF IInv, vars, hostVars, driverVars
<1> QED
  BY <1>1, <1>2, <1>3 DEF Next, Quiescent

LEMMA Invariance == SafeSpec => []IInv
  BY InitIInv, NextIInv, PTL DEF SafeSpec

\* The layers of a path, as members of the invariant's sequences.
LEMMA LayersOfSource ==
  ASSUME StackOK, NEW p \in Paths, NEW b \in Layers(p)
  PROVE  b.src = PathSource(p)
<1>1. PICK i \in DOMAIN stack[p] : b = stack[p][i]
  BY DEF Layers
<1>2. b \in BlocksOf(PathSource(p))
  BY <1>1, ElementOfSeq, LenProperties DEF StackOK
<1> QED
  BY <1>2 DEF BlocksOf

\* Type correctness of PodMounter: a goroutine that runs has a source, and
\* all state keeps its shape, through every repair, adoption and restart.
THEOREM TypeCorrect == SafeSpec => []TypeOK
<1>1. IInv => TypeOK
  <2> SUFFICES ASSUME IInv PROVE TypeOK
    OBVIOUS
  <2>1. \A p \in Paths : stack[p] \in Seq(Superblock)
    <3> SUFFICES ASSUME NEW p \in Paths PROVE stack[p] \in Seq(Superblock)
      OBVIOUS
    <3>1. PathSource(p) \in Sources
      BY MountIDAssumption DEF PathSource, Paths
    <3>2. BlocksOf(PathSource(p)) \subseteq Superblock
      BY <3>1 DEF BlocksOf, Superblock
    <3> QED BY <3>2, SeqMonotonic DEF IInv, StackOK
  <2>2. stack \in [Paths -> Seq(Superblock)]
    BY <2>1 DEF IInv, StackOK
  <2>3. crd \in [Sources -> (SUBSET Workload) \cup {NoCRD}]
    BY DEF IInv, CrdOK, WorkloadsOf
  <2>4. binds \in [Targets -> Sources \cup {NoSource}]
    BY MountIDAssumption DEF IInv, BindsOK
  <2>5. run \in [Slots -> Goroutine] /\ \A g \in Slots : run[g].pc # "idle" => run[g].src \in Sources
    BY DEF IInv, RunOK, GoodRun
  <2> QED
    BY <2>2, <2>3, <2>4, <2>5 DEF IInv, TypeOK, HostTypeOK, HostOK, LockOK
<1> QED
  BY <1>1, Invariance, PTL

\* binds, the HFMounts, the mount table and the locals of every goroutine
\* agree on the source of a target, also after lateAdopt and recoverPod have
\* rebuilt binds from mountinfo and the HFMounts.
THEOREM Agreement == SafeSpec => []SourcesAgree
<1>1. IInv => SourcesAgree
  <2> SUFFICES ASSUME IInv PROVE SourcesAgree
    OBVIOUS
  <2>1. \A t \in Targets : binds[t] \in {NoSource, MountID[t]}
    BY DEF IInv, BindsOK
  <2>2. \A t \in Targets : \A b \in Layers(t) : b.src = MountID[t]
    BY LayersOfSource, PathsDistinct DEF IInv, Paths, PathSource
  <2>3. \A s \in Sources : \A b \in Layers(s) : b.src = s
    BY LayersOfSource DEF IInv, Paths, PathSource
  <2>4. \A g \in Slots : run[g].tgt # NoTarget => run[g].src = MountID[run[g].tgt]
    BY DEF IInv, RunOK, GoodRun
  <2>5. \A g \in Slots : run[g].pc \notin {"idle", "gc.stale", "gc.pod", "gc.purge"} =>
                        \A t \in run[g].set : MountID[t] = run[g].src
    BY DEF IInv, RunOK, GoodRun, Cleaner
  <2>6. \A s \in Sources : crd[s] # NoCRD => \A w \in crd[s] : MountID[w.target] = s
    BY DEF IInv, CrdOK, WorkloadsOf
  <2> QED
    BY <2>1, <2>2, <2>3, <2>4, <2>5, <2>6 DEF SourcesAgree
<1> QED
  BY <1>1, Invariance, PTL

\* A goroutine that returns, or leaves for the deferred cleanup of Mount, has
\* moved.
LEMMA Moved ==
  ASSUME RunOK, LockOK, NEW g \in Slots, run[g].pc \in Locked,
         \/ Return(g)
         \/ run[g].pc = "mount.fuse" /\ \E F \in SUBSET Flags : GotoWith(g, "mount.kill", F)
  PROVE  lock[run[g].src] = g /\ run'[g] # run[g]
<1>1. lock[run[g].src] = g
  BY DEF LockOK
<1>2. CASE Return(g)
  BY <1>1, <1>2, ReturnKeeps DEF Idle, Locked
<1>3. ASSUME NEW F \in SUBSET Flags, run[g].pc = "mount.fuse", GotoWith(g, "mount.kill", F)
      PROVE  run'[g] # run[g]
  <2>1. Follows("mount.fuse", "mount.kill") /\ {} \in SUBSET Targets
    BY MountEdges
  <2>2. run'[g].pc = "mount.kill"
    BY <1>3, <2>1, GotoRecord
  <2> QED BY <1>3, <2>2
<1> QED
  BY <1>1, <1>2, <1>3

\* The steps of a goroutine that mount on or unmount from targets: only
\* inside the critical section, and only targets of its source.
LEMMA StackSteps ==
  ASSUME IInv, NEW g \in Slots, Step(g), NEW t \in Targets, stack'[t] # stack[t]
  PROVE  \/ lock[MountID[t]] = g /\ run'[g] # run[g]
         \/ lock[MountID[t]] = NoSlot
<1> USE DEF IInv
<1>0. /\ run[g].pc # "idle" => Src(g) \in Sources
      /\ run[g].pc \in Calling => Tgt(g) \in Targets /\ MountID[Tgt(g)] = Src(g)
      /\ run[g].pc \notin {"idle"} \cup Cleaner => \A u \in run[g].set : MountID[u] = run[g].src
  BY Locals
<1>1. t \in Paths /\ t \notin Sources /\ ~(UNCHANGED stack)
  BY PathsDistinct DEF Paths
<1>2. CASE MountAwaitFuse(g)
  <2>1. run[g].pc = "mount.fuse" /\ run[g].pc \in Locked /\ run[g].src = MountID[Tgt(g)]
    BY <1>0, <1>2 DEF MountAwaitFuse, At, Calling, Locked, Src
  <2>2. t = Tgt(g)
    BY <1>1, <1>2 DEF MountAwaitFuse, SetStack, StackOK
  <2>3. (IF Has(g, "created") THEN {"kill", "drop"} ELSE {}) \in SUBSET Flags
        /\ Fatal(g) \in SUBSET Flags
    BY DEF Flags, Fatal
  <2>4. Return(g) \/ \E F \in SUBSET Flags : GotoWith(g, "mount.kill", F)
    BY <1>2, <2>3 DEF MountAwaitFuse
  <2> QED BY <2>1, <2>2, <2>4, Moved
<1>3. CASE UnmountTarget(g)
  <2>1. /\ Src(g) \in Sources /\ Tgt(g) \in Targets /\ MountID[Tgt(g)] = Src(g)
        /\ lock[Src(g)] = NoSlot
    BY <1>0, <1>3 DEF UnmountTarget, At, Calling
  <2>2. SourceOf(Tgt(g)) = Src(g)
    BY <2>1, DriverNulls DEF SourceOf, BindsOK
  <2>3. t = Tgt(g)
    BY <1>1, <1>3, <2>1, <2>2 DEF UnmountTarget, StackOK
  <2> QED BY <2>1, <2>3
<1>4. CASE CleanupSource(g)
  <2>1. /\ run[g].pc \in Locked /\ Src(g) = run[g].src /\ Src(g) \in Sources
        /\ \A u \in run[g].set : MountID[u] = run[g].src
    BY <1>0, <1>4 DEF CleanupSource, At, Locked, Cleaner, Src
  <2>2. t \in {Src(g)} \cup run[g].set \cup BoundTargets(Src(g))
    BY <1>1, <1>4 DEF CleanupSource, DeadPodRefs
  <2>3. MountID[t] = run[g].src
    BY <1>1, <2>1, <2>2, DriverNulls DEF BoundTargets, BindsOK
  <2> QED BY <1>4, <2>1, <2>3, Moved DEF CleanupSource
<1>5. CASE RebindPoll(g)
  <2>1. run[g].pc \in Locked /\ Src(g) = run[g].src /\ Src(g) \in Sources
    BY <1>0, <1>5 DEF RebindPoll, At, Locked, Src
  <2>2. t \in BoundTargets(Src(g))
    BY <1>1, <1>5 DEF RebindPoll
  <2>3. MountID[t] = run[g].src
    BY <2>1, <2>2, DriverNulls DEF BoundTargets, BindsOK
  <2> QED BY <1>5, <2>1, <2>3, Moved DEF RebindPoll
<1>6. CASE RecoverProbe(g) \/ CleanerPurges(g)
  <2>1. Src(g) \in Sources
    BY <1>0, <1>6 DEF RecoverProbe, CleanerPurges, At
  <2> QED BY <1>1, <1>6, <2>1 DEF RecoverProbe, CleanerPurges, SetStack, StackOK
<1>7. \/ MountAwaitFuse(g) \/ UnmountTarget(g) \/ CleanupSource(g) \/ RebindPoll(g)
      \/ RecoverProbe(g) \/ CleanerPurges(g)
  <2>1. CASE MountStep(g)
    BY <1>1, <2>1 DEF MountStep, MountCreateCRD, MountAddWorkload, MountCreatePod, MountInspectPod,
       MountAwaitGone, MountRecreatePod, MountAwaitRunning, MountKillPod, MountDropCRD
  <2>2. CASE UnmountStep(g)
    BY <1>1, <2>2 DEF UnmountStep, UnmountShared, UnmountDeletePod, UnmountDeleteCRD
  <2>3. CASE RepairStep(g)
    BY <1>1, <2>3 DEF RepairStep, CleanupRefs, HealGetPod, HealReadCRD, HealAwaitGone,
       HealCreatePod, HealAwaitRunning, RebindLock, hostVars
  <2>4. CASE StartupStep(g)
    BY <1>1, <2>4 DEF StartupStep, AdoptPoll, AdoptTrack, AdoptSyncCRD, RecoverPoll, RecoverCRD,
       hostVars
  <2>5. CASE CleanerStep(g)
    BY <1>1, <2>5 DEF CleanerStep, CleanerPrunes, CleanerGetsPod
  <2> QED BY <2>1, <2>2, <2>3, <2>4, <2>5 DEF Step
<1> QED
  BY <1>2, <1>3, <1>4, <1>5, <1>6, <1>7

\* Nothing else in the system touches the mounts on a target.
LEMMA OtherSteps ==
  ASSUME IInv, [Next]_vars, NEW t \in Targets, stack'[t] # stack[t]
  PROVE  \E g \in Slots : Step(g)
<1>1. t \in Paths /\ t \notin Sources /\ ~(UNCHANGED stack)
  BY PathsDistinct DEF Paths
<1>2. ~HostStep
  <2>1. ASSUME NEW s \in Sources, HostDaemonMounts(s) PROVE FALSE
    BY <1>1, <2>1 DEF HostDaemonMounts, IInv, StackOK
  <2> QED BY <1>1, <2>1 DEF HostStep, HostWorkloadStarts, HostWorkloadEnds, HostKubeletLeaks,
             HostCacheExpires, HostPodEvicted, HostPodStarts, HostContainerRestarts,
             HostPodTerminates, HostDaemonExits, HostPodRemoved
<1>3. ASSUME NEW g \in Slots, NEW u \in Targets PROVE ~(Publish(g, u) \/ Unpublish(g, u))
  BY <1>1 DEF Publish, Unpublish
<1>4. ASSUME NEW g \in Slots, NEW s \in Sources PROVE ~CleanerLists(g, s)
  BY <1>1 DEF CleanerLists
<1>5. ASSUME NEW g \in Slots, NEW j \in Job PROVE ~StartJob(g, j)
  BY <1>1 DEF StartJob, hostVars
<1>6. ASSUME NEW s \in Sources PROVE ~(HandleAdd(s) \/ Scan(s) \/ ScanBlind(s))
  BY <1>1 DEF HandleAdd, Scan, ScanBlind, hostVars
<1>7. ~DriverStops /\ ~DriverStarts /\ ~Quiescent /\ ~(UNCHANGED vars)
  BY <1>1 DEF DriverStops, DriverStarts, Quiescent, vars, hostVars
<1> QED
  BY <1>2, <1>3, <1>4, <1>5, <1>6, <1>7 DEF Next, DriverStep

\* While a goroutine is inside the critical section of a source, nobody else
\* mounts on or unmounts from a target of that source: Mount, Unmount,
\* cleanupSource and rebindTargets exclude each other, and Recover, lateAdopt,
\* tryHealSource and the cleaner, which run without the lock, leave targets
\* alone.
THEOREM TargetsUnderLock == SafeSpec => StackUnderLock
<1>1. IInv /\ [Next]_vars =>
        [\A t \in Targets :
           LET holder == lock[MountID[t]]
           IN (stack'[t] # stack[t] /\ holder # NoSlot) => run'[holder] # run[holder]]_vars
  <2> SUFFICES ASSUME IInv, [Next]_vars, NEW t \in Targets, stack'[t] # stack[t],
                      lock[MountID[t]] # NoSlot
               PROVE  run'[lock[MountID[t]]] # run[lock[MountID[t]]]
    OBVIOUS
  <2>1. PICK g \in Slots : Step(g)
    BY OtherSteps
  <2>2. lock[MountID[t]] = g /\ run'[g] # run[g]
    BY <2>1, StackSteps
  <2> QED BY <2>2
<1> QED
  BY <1>1, Invariance, PTL DEF SafeSpec, StackUnderLock
=============================================================================
