---------------------- MODULE PodMounterServiceProofs ----------------------
(***************************************************************************)
(* What PodMounter does for the workloads, for any number of targets,      *)
(* sources, goroutines and disturbances: nothing unmounts what serves a    *)
(* live workload (ServiceIsKept), and nothing is left at, or put back to,  *)
(* an unpublished target (UnpublishedStaysBare).  Each has an inductive    *)
(* invariant of its own on top of IInv, and holds under the conditions its *)
(* theorem names.                                                          *)
(***************************************************************************)
EXTENDS PodMounterProofs

-----------------------------------------------------------------------------
(* The moves of one goroutine, for the proofs that follow it. *)

\* Goroutine g goes to a label, or returns; the others stay where they are.
Jumps(g, label) ==
  /\ run'[g].pc = label /\ run'[g].src = run[g].src /\ run'[g].tgt = run[g].tgt
  /\ \A h \in Slots \ {g} : run'[h] = run[h]
Leaves(g) == run'[g] = Idle /\ \A h \in Slots \ {g} : run'[h] = run[h]

\* The ways the steps move a goroutine.
LEMMA Jumping ==
  ASSUME RunOK, NEW g \in Slots
  PROVE  /\ \A label : Goto(g, label) => Jumps(g, label)
         /\ \A label, F : GotoWith(g, label, F) => Jumps(g, label)
         /\ \A label, S : GotoOver(g, label, S) => Jumps(g, label) /\ run'[g].set = S
         /\ Return(g) => Leaves(g)
<1>1. run[g] \in Goroutine
  BY DEF RunOK, GoodRun
<1>2. ASSUME NEW label, Goto(g, label) PROVE Jumps(g, label)
  <2> DEFINE r == [run[g] EXCEPT !.pc = label]
  <2>1. run'[g] = r /\ \A h \in Slots \ {g} : run'[h] = run[h]
    BY <1>2 DEF Goto, RunOK
  <2>2. r.pc = label /\ r.src = run[g].src /\ r.tgt = run[g].tgt
    BY <1>1 DEF Goroutine
  <2> HIDE DEF r
  <2> QED BY <2>1, <2>2 DEF Jumps
<1>3. ASSUME NEW label, NEW F, GotoWith(g, label, F) PROVE Jumps(g, label)
  <2> DEFINE r == [run[g] EXCEPT !.pc = label, !.flags = @ \cup F]
  <2>1. run'[g] = r /\ \A h \in Slots \ {g} : run'[h] = run[h]
    BY <1>3 DEF GotoWith, RunOK
  <2>2. r.pc = label /\ r.src = run[g].src /\ r.tgt = run[g].tgt
    BY <1>1 DEF Goroutine
  <2> HIDE DEF r
  <2> QED BY <2>1, <2>2 DEF Jumps
<1>4. ASSUME NEW label, NEW S, GotoOver(g, label, S) PROVE Jumps(g, label) /\ run'[g].set = S
  <2> DEFINE r == [run[g] EXCEPT !.pc = label, !.set = S]
  <2>1. run'[g] = r /\ \A h \in Slots \ {g} : run'[h] = run[h]
    BY <1>4 DEF GotoOver, RunOK
  <2>2. r.pc = label /\ r.src = run[g].src /\ r.tgt = run[g].tgt /\ r.set = S
    BY <1>1 DEF Goroutine
  <2> HIDE DEF r
  <2> QED BY <2>1, <2>2 DEF Jumps
<1>5. Return(g) => Leaves(g)
  BY DEF Return, Leaves, RunOK
<1> QED
  BY <1>2, <1>3, <1>4, <1>5

\* The labels, by the method they belong to: publish, unpublish, repair, start-up.
Mounting == {"mount.crd", "mount.workload", "mount.create", "mount.inspect", "mount.gone",
             "mount.recreate", "mount.running", "mount.fuse", "mount.kill", "mount.drop"}
Leaving == {"unmount.shared", "unmount.pod", "unmount.crd"}
Repairing == {"cleanup.refs", "heal.get", "heal.crd", "heal.gone", "heal.create",
              "heal.running", "rebind.lock", "rebind.poll"}
Starting == {"adopt.poll", "adopt.track", "adopt.crd",
             "recover.probe", "recover.dead", "recover.poll", "recover.crd"}

\* Where one step of a goroutine leads: every family of labels is closed,
\* but for the returns.
LEMMA StepMoves ==
  ASSUME IInv, NEW g \in Slots, Step(g)
  PROVE  \/ Leaves(g)
         \/ \E l \in Mounting : Jumps(g, l) /\ MountStep(g) /\ run[g].pc \in Mounting
         \/ Jumps(g, "unmount.crd") /\ run[g].pc \in Leaving
         \/ \E l \in Leaving : Jumps(g, l) /\ UnmountTarget(g)
         \/ Jumps(g, "cleanup.source") /\ CleanupRefs(g)
         \/ \E l \in Repairing : Jumps(g, l) /\ run[g].pc \in Repairing
         \/ \E l \in Starting : Jumps(g, l) /\ run[g].pc \in Starting
         \/ \E l \in Cleaner : Jumps(g, l) /\ run[g].pc \in Cleaner
<1>0. RunOK
  BY DEF IInv
<1>1. CASE MountStep(g)
  <2>1. run[g].pc \in Mounting
    BY <1>1 DEF MountStep, MountCreateCRD, MountAddWorkload, MountCreatePod, MountInspectPod,
       MountAwaitGone, MountRecreatePod, MountAwaitRunning, MountAwaitFuse, MountKillPod,
       MountDropCRD, At, Mounting
  <2>2. Leaves(g) \/ \E l \in Mounting : Jumps(g, l)
    <3>1. CASE MountCreateCRD(g) \/ MountAddWorkload(g) \/ MountCreatePod(g) \/ MountInspectPod(g)
      BY <1>0, <3>1, Jumping DEF MountCreateCRD, MountAddWorkload, MountCreatePod, MountInspectPod, Mounting
    <3>2. CASE MountAwaitGone(g) \/ MountRecreatePod(g) \/ MountAwaitRunning(g)
      BY <1>0, <3>2, Jumping DEF MountAwaitGone, MountRecreatePod, MountAwaitRunning, Mounting
    <3>3. CASE MountAwaitFuse(g) \/ MountKillPod(g) \/ MountDropCRD(g)
      BY <1>0, <3>3, Jumping DEF MountAwaitFuse, MountKillPod, MountDropCRD, Mounting
    <3> QED BY <1>1, <3>1, <3>2, <3>3 DEF MountStep
  <2> QED BY <1>1, <2>1, <2>2
<1>2. CASE UnmountStep(g)
  <2>1. CASE UnmountTarget(g)
    <3>1. CASE Return(g)
      BY <1>0, <3>1, Jumping
    <3>2. ASSUME NEW l \in Leaving, NEW s,  s = run[g].src,
                 run' = [run EXCEPT ![g].src = s, ![g].pc = l]
          PROVE  Jumps(g, l)
      <4> DEFINE r == [run[g] EXCEPT !.src = s, !.pc = l]
      <4>1. run'[g] = r /\ \A h \in Slots \ {g} : run'[h] = run[h]
        BY <1>0, <3>2 DEF RunOK
      <4>2. run[g] \in Goroutine
        BY <1>0 DEF RunOK, GoodRun
      <4>3. r.pc = l /\ r.src = run[g].src /\ r.tgt = run[g].tgt
        BY <3>2, <4>2 DEF Goroutine
      <4> HIDE DEF r
      <4> QED BY <4>1, <4>3 DEF Jumps
    <3>3. Tgt(g) \in Targets /\ MountID[Tgt(g)] = Src(g)
      BY <1>0, <2>1, Locals DEF UnmountTarget, At, Calling
    <3>4. SourceOf(Tgt(g)) = run[g].src
      BY <3>3, DriverNulls DEF SourceOf, BindsOK, IInv, Src
    <3>5. \/ Return(g)
          \/ \E l \in Leaving : run' = [run EXCEPT ![g].src = SourceOf(Tgt(g)), ![g].pc = l]
      BY <2>1 DEF UnmountTarget, Unpublished, Leaving
    <3> QED BY <2>1, <3>1, <3>2, <3>4, <3>5
  <2>2. CASE UnmountShared(g) \/ UnmountDeletePod(g) \/ UnmountDeleteCRD(g)
    BY <1>0, <2>2, Jumping
    DEF UnmountShared, UnmountDeletePod, UnmountDeleteCRD, Unpublished, At, Leaving
  <2> QED BY <1>2, <2>1, <2>2 DEF UnmountStep
<1>3. CASE RepairStep(g)
  <2>1. CASE CleanupRefs(g)
    BY <1>0, <2>1, Jumping DEF CleanupRefs
  <2>2. CASE CleanupSource(g) \/ RebindPoll(g)
    BY <1>0, <2>2, Jumping DEF CleanupSource, RebindPoll
  <2>3. CASE HealGetPod(g) \/ HealReadCRD(g) \/ HealAwaitGone(g) \/ HealCreatePod(g)
    BY <1>0, <2>3, Jumping DEF HealGetPod, HealReadCRD, HealAwaitGone, HealCreatePod, At, Repairing
  <2>4. CASE HealAwaitRunning(g) \/ RebindLock(g)
    BY <1>0, <2>4, Jumping DEF HealAwaitRunning, RebindLock, At, Repairing
  <2> QED BY <1>3, <2>1, <2>2, <2>3, <2>4 DEF RepairStep
<1>4. CASE StartupStep(g)
  BY <1>0, <1>4, Jumping DEF StartupStep, AdoptPoll, AdoptTrack, AdoptSyncCRD, RecoverProbe,
     RecoverPoll, RecoverCRD, At, Starting
<1>5. CASE CleanerStep(g)
  BY <1>0, <1>5, Jumping DEF CleanerStep, CleanerPrunes, CleanerGetsPod, CleanerPurges, At, Cleaner
<1> QED
  BY <1>1, <1>2, <1>3, <1>4, <1>5 DEF Step

-----------------------------------------------------------------------------
(* Service is kept. *)

\* Above a layer that serves there are only layers that serve: a bind shows
\* what answers on top of the source.
ServingOnTop ==
  \A p \in Paths : \A i, j \in 1..Len(stack[p]) :
    (i <= j /\ Serving(stack[p][i])) => Serving(stack[p][j])

\* A target that serves shows the file system on top of its source.
SourceServes ==
  \A t \in Targets : TopServing(t) => TopServing(MountID[t])

\* cleanupSource has every target that serves among the refs it enumerated.
RefsServe ==
  \A g \in Slots : run[g].pc = "cleanup.source" =>
    \A t \in Targets : (MountID[t] = run[g].src /\ TopServing(t)) => t \in run[g].set

\* Unmount is called for workloads that have ended only.
UnmountsEnded ==
  \A g \in Slots : run[g].pc = "unmount.target" => wl[run[g].tgt] \in {"ended", "done"}

\* The inductive invariant of ServiceKept, with PInv.
SInv == ServingOnTop /\ SourceServes /\ RefsServe /\ UnmountsEnded

\* The layers of a path are superblocks of its source.
LEMMA Layer ==
  ASSUME StackOK, NEW p \in Paths
  PROVE  /\ Len(stack[p]) \in Nat
         /\ stack[p] # <<>> <=> Len(stack[p]) > 0
         /\ DOMAIN stack[p] = 1..Len(stack[p])
         /\ \A i \in 1..Len(stack[p]) : /\ stack[p][i] \in BlocksOf(PathSource(p))
                                        /\ stack[p][i].src = PathSource(p)
         /\ stack[p] # <<>> => Len(stack[p]) \in 1..Len(stack[p])
<1>1. stack[p] \in Seq(BlocksOf(PathSource(p)))
  BY DEF StackOK
<1>2. \A i \in 1..Len(stack[p]) : stack[p][i] \in BlocksOf(PathSource(p))
  BY <1>1, ElementOfSeq
<1>3. Len(stack[p]) \in Nat /\ (stack[p] # <<>> <=> Len(stack[p]) > 0)
      /\ DOMAIN stack[p] = 1..Len(stack[p])
  BY <1>1, LenProperties, EmptySeq
<1> QED
  BY <1>2, <1>3 DEF BlocksOf

\* The serving layers of one source are one superblock.
LEMMA OneServes ==
  ASSUME NEW s \in Sources, NEW b \in BlocksOf(s), NEW c \in BlocksOf(s), Serving(b), Serving(c)
  PROVE  b = c
  BY DEF BlocksOf, Serving

\* A path is a target of its source, or the source itself.
LEMMA SourceOfPath ==
  /\ \A t \in Targets : t \in Paths /\ PathSource(t) = MountID[t] /\ MountID[t] \in Sources
  /\ \A s \in Sources : s \in Paths /\ PathSource(s) = s
  BY MountIDAssumption, PathsDistinct DEF Paths, PathSource

\* A step that leaves the mounts alone and starts neither a cleanup nor an
\* Unmount.
LEMMA QuietKeepsService ==
  ASSUME IInv, SInv, UNCHANGED <<stack, gen>>,
         \A s \in Sources : daemon'[s] = "serving" => daemon[s] = "serving",
         \A t \in Targets : wl[t] \in {"ended", "done"} => wl'[t] \in {"ended", "done"},
         \A g \in Slots : run'[g].pc \in {"cleanup.source", "unmount.target"} => run'[g] = run[g]
  PROVE  SInv'
<1>1. \A p \in Paths : \A i \in 1..Len(stack[p]) :
        /\ stack[p][i].src = PathSource(p) /\ PathSource(p) \in Sources
        /\ Serving(stack[p][i])' => Serving(stack[p][i])
  BY Layer, SourceOfPath DEF IInv, Serving, Paths
<1>2. \A p \in Paths : \A i, j \in 1..Len(stack[p]) :
        (Serving(stack[p][i])' /\ Serving(stack[p][j])) => Serving(stack[p][j])'
  BY <1>1 DEF Serving
<1>3. ServingOnTop'
  BY <1>1, <1>2 DEF SInv, ServingOnTop
<1>4. ASSUME NEW p \in Paths PROVE TopServing(p)' => TopServing(p)
  <2>1. stack[p] # <<>> => Len(stack[p]) \in 1..Len(stack[p])
    BY Layer DEF IInv
  <2> QED BY <1>1, <2>1 DEF TopServing, Top
<1>5. SourceServes'
  <2> SUFFICES ASSUME NEW t \in Targets, TopServing(t)' PROVE TopServing(MountID[t])'
    BY DEF SourceServes
  <2>1. TopServing(t) /\ TopServing(MountID[t])
    BY <1>4, SourceOfPath DEF SInv, SourceServes
  <2>2. t \in Paths /\ MountID[t] \in Paths /\ PathSource(t) = MountID[t] /\ PathSource(MountID[t]) = MountID[t]
    BY SourceOfPath
  <2>3. Len(stack[t]) \in 1..Len(stack[t]) /\ Len(stack[MountID[t]]) \in 1..Len(stack[MountID[t]])
    BY <2>1, <2>2, Layer DEF IInv, TopServing
  <2> QED BY <1>1, <2>1, <2>2, <2>3 DEF TopServing, Top, Serving
<1>6. RefsServe'
  BY <1>4, SourceOfPath DEF SInv, RefsServe
<1>7. UnmountsEnded'
  <2> SUFFICES ASSUME NEW g \in Slots, run'[g].pc = "unmount.target"
               PROVE  wl'[run'[g].tgt] \in {"ended", "done"}
    BY DEF UnmountsEnded
  <2>1. run'[g] = run[g] /\ run[g].tgt \in Targets /\ wl[run[g].tgt] \in {"ended", "done"}
    BY Locals DEF SInv, UnmountsEnded, IInv, Tgt, Calling
  <2> QED BY <2>1
<1> QED
  BY <1>3, <1>5, <1>6, <1>7 DEF SInv

\* Layers go: no target starts to serve, and the file system that a target
\* shows may go from the source only when the target goes as well.
LEMMA ShrinkKeepsService ==
  ASSUME IInv, IInv', ServingOnTop, SourceServes, UNCHANGED <<gen, daemon>>,
         \A p \in Paths : /\ Len(stack'[p]) <= Len(stack[p])
                          /\ \A i \in 1..Len(stack'[p]) : stack'[p][i] = stack[p][i],
         \A t \in Targets : \/ stack'[MountID[t]] = stack[MountID[t]]
                            \/ stack'[t] = <<>>
                            \/ ~TopServing(t)
  PROVE  ServingOnTop' /\ SourceServes' /\ \A t \in Targets : TopServing(t)' => TopServing(t)
<1>1. \A b : Serving(b)' <=> Serving(b)
  BY DEF Serving
<1>2. ASSUME NEW p \in Paths
      PROVE  /\ Len(stack[p]) \in Nat /\ Len(stack'[p]) \in Nat
             /\ stack[p] # <<>> <=> Len(stack[p]) > 0
             /\ stack'[p] # <<>> <=> Len(stack'[p]) > 0
  <2>1. /\ Len(stack[p]) \in Nat
        /\ stack[p] # <<>> <=> Len(stack[p]) > 0
    BY Layer DEF IInv
  <2>2. stack'[p] \in Seq(BlocksOf(PathSource(p)'))
    BY DEF IInv, StackOK
  <2>3. /\ Len(stack'[p]) \in Nat
        /\ stack'[p] # <<>> <=> Len(stack'[p]) > 0
    BY <2>2, LenProperties, EmptySeq
  <2> QED BY <2>1, <2>3
<1>3. ServingOnTop'
  <2> SUFFICES ASSUME NEW p \in Paths, NEW i \in 1..Len(stack'[p]), NEW j \in 1..Len(stack'[p]),
                      i <= j, Serving(stack'[p][i])
               PROVE  Serving(stack'[p][j])
    BY <1>1 DEF ServingOnTop
  <2>1. i \in 1..Len(stack[p]) /\ j \in 1..Len(stack[p])
    BY <1>2
  <2> QED BY <2>1 DEF ServingOnTop
<1>4. ASSUME NEW t \in Targets, TopServing(t)' PROVE TopServing(t) /\ stack'[t] # <<>>
  <2>1. stack'[t] # <<>> /\ Serving(stack'[t][Len(stack'[t])])
    BY <1>1, <1>4 DEF TopServing, Top
  <2>2. t \in Paths
    BY SourceOfPath
  <2>3. /\ Len(stack'[t]) \in 1..Len(stack[t]) /\ Len(stack[t]) \in 1..Len(stack[t])
        /\ Len(stack'[t]) <= Len(stack[t]) /\ stack[t] # <<>>
        /\ stack'[t][Len(stack'[t])] = stack[t][Len(stack'[t])]
    BY <1>2, <2>1, <2>2
  <2>4. Serving(stack[t][Len(stack[t])])
    BY <2>1, <2>2, <2>3 DEF ServingOnTop
  <2> QED BY <2>1, <2>3, <2>4 DEF TopServing, Top
<1>5. SourceServes'
  <2> SUFFICES ASSUME NEW t \in Targets, TopServing(t)' PROVE TopServing(MountID[t])'
    BY DEF SourceServes
  <2>1. TopServing(t) /\ stack'[MountID[t]] = stack[MountID[t]]
    BY <1>4
  <2>2. TopServing(MountID[t])
    BY <2>1 DEF SourceServes
  <2> QED BY <1>1, <2>1, <2>2 DEF TopServing, Top
<1> QED
  BY <1>3, <1>4, <1>5

\* Binds: targets of a source that answers get its top layer.
LEMMA BindKeepsService ==
  ASSUME IInv, IInv', ServingOnTop, SourceServes, UNCHANGED <<gen, daemon>>,
         NEW s \in Sources, Mounted(s), NEW B \in SUBSET Targets,
         \A t \in B : MountID[t] = s,
         stack' = [p \in Paths |-> IF p \in B THEN StackBind(s, p) ELSE stack[p]]
  PROVE  /\ ServingOnTop' /\ SourceServes'
         /\ \A t \in Targets : (MountID[t] # s /\ TopServing(t)') => TopServing(t)
         /\ \A p \in Paths : Layers(p) \subseteq LayersNext(p)
<1>1. \A b : Serving(b)' <=> Serving(b)
  BY DEF Serving
<1>2. /\ s \in Paths /\ s \notin B /\ PathSource(s) = s /\ stack'[s] = stack[s]
      /\ stack[s] # <<>> /\ Top(s) = stack[s][Len(stack[s])] /\ Top(s) \in BlocksOf(s)
      /\ Top(s).n = gen[s] /\ Top(s).src = s
  <2>1. s \in Paths /\ s \notin B /\ PathSource(s) = s
    BY PathsDistinct, SourceOfPath
  <2>2. Top(s) \in BlocksOf(s)
    BY TopOfSource DEF IInv
  <2> QED BY <2>1, <2>2 DEF Mounted, Answers, BlocksOf, Top
<1>3. ASSUME NEW p \in B
      PROVE  /\ p \in Paths /\ PathSource(p) = s
             /\ Len(stack'[p]) = Len(stack[p]) + 1 /\ Len(stack[p]) \in Nat
             /\ stack'[p][Len(stack[p]) + 1] = Top(s)
             /\ \A i \in 1..Len(stack[p]) : stack'[p][i] = stack[p][i] /\ stack[p][i].src = s
  <2>1. p \in Paths /\ PathSource(p) = s
    BY SourceOfPath
  <2>2. stack'[p] = Append(stack[p], Top(s)) /\ stack[p] \in Seq(BlocksOf(s))
    BY <2>1 DEF StackBind, IInv, StackOK
  <2>3. \A i \in 1..Len(stack[p]) : stack[p][i].src = s
    BY <2>1, Layer DEF IInv
  <2> QED BY <1>2, <2>1, <2>2, <2>3, AppendProperties, LenProperties
<1>4. ServingOnTop'
  <2> SUFFICES ASSUME NEW p \in Paths, NEW i \in 1..Len(stack'[p]), NEW j \in 1..Len(stack'[p]),
                      i <= j, Serving(stack'[p][i])
               PROVE  Serving(stack'[p][j])
    BY <1>1 DEF ServingOnTop
  <2>1. CASE p \notin B
    BY <2>1 DEF ServingOnTop
  <2>2. CASE p \in B
    <3>0. /\ i = Len(stack[p]) + 1 \/ i \in 1..Len(stack[p])
          /\ j = Len(stack[p]) + 1 \/ j \in 1..Len(stack[p])
      <4>1. Len(stack[p]) \in Nat /\ Len(stack'[p]) = Len(stack[p]) + 1
        BY <1>3, <2>2
      <4>2. \A n \in Nat : \A k \in 1..(n + 1) : k = n + 1 \/ k \in 1..n
        OBVIOUS
      <4> QED BY <4>1, <4>2
    <3>1. stack'[p][i].src = s
      BY <1>2, <1>3, <2>2, <3>0
    <3>2. Serving(Top(s))
      BY <1>2, <3>1 DEF Serving
    <3>3. CASE j = Len(stack[p]) + 1
      BY <1>3, <2>2, <3>2, <3>3
    <3>4. CASE j # Len(stack[p]) + 1
      <4>1. i \in 1..Len(stack[p]) /\ j \in 1..Len(stack[p])
        <5>1. Len(stack[p]) \in Nat
          BY <1>3, <2>2
        <5>2. \A n \in Nat : \A k \in 1..n : i <= k => i # n + 1
          OBVIOUS
        <5> QED BY <3>0, <3>4, <5>1, <5>2
      <4> QED BY <1>3, <2>2, <4>1 DEF ServingOnTop
    <3> QED BY <3>3, <3>4
  <2> QED BY <2>1, <2>2
<1>5. ASSUME NEW t \in Targets, t \notin B PROVE TopServing(t)' <=> TopServing(t)
  <2>1. stack'[t] = stack[t]
    BY <1>5, SourceOfPath
  <2> QED BY <1>1, <2>1 DEF TopServing, Top
<1>6. TopServing(s)' <=> TopServing(s)
  BY <1>1, <1>2 DEF TopServing, Top
<1>7. SourceServes'
  <2> SUFFICES ASSUME NEW t \in Targets, TopServing(t)' PROVE TopServing(MountID[t])'
    BY DEF SourceServes
  <2>1. CASE t \in B
    <3>1. Serving(Top(s))
      BY <1>1, <1>3, <2>1 DEF TopServing, Top
    <3> QED BY <1>2, <1>6, <2>1, <3>1 DEF TopServing
  <2>2. CASE t \notin B
    <3>1. TopServing(MountID[t])
      BY <1>5, <2>2 DEF SourceServes
    <3>2. stack'[MountID[t]] = stack[MountID[t]]
      BY PathsDistinct, SourceOfPath
    <3> QED BY <1>1, <3>1, <3>2 DEF TopServing, Top
  <2> QED BY <2>1, <2>2
<1>8. ASSUME NEW p \in Paths PROVE Layers(p) \subseteq LayersNext(p)
  <2>1. CASE p \notin B
    BY <2>1 DEF Layers, LayersNext
  <2>2. CASE p \in B
    <3>1. stack[p] \in Seq(BlocksOf(s)) /\ stack'[p] = Append(stack[p], Top(s))
      BY <1>3, <2>2 DEF StackBind, IInv, StackOK
    <3>2. DOMAIN stack[p] = 1..Len(stack[p]) /\ DOMAIN stack'[p] = 1..(Len(stack[p]) + 1)
      BY <1>2, <3>1, LenProperties, AppendProperties
    <3>3. \A i \in DOMAIN stack[p] : i \in DOMAIN stack'[p] /\ stack'[p][i] = stack[p][i]
      <4>1. \A n \in Nat : \A k \in 1..n : k \in 1..(n + 1)
        OBVIOUS
      <4> QED BY <1>3, <2>2, <3>2, <4>1
    <3> QED BY <3>3 DEF Layers, LayersNext
  <2> QED BY <2>1, <2>2
<1> QED
  BY <1>4, <1>5, <1>7, <1>8

\* What a step of a goroutine may change of the host.
LEMMA StepTouches ==
  ASSUME NEW g \in Slots, Step(g)
  PROVE  /\ UNCHANGED <<gen, daemon>>
         /\ UNCHANGED wl \/ (Unpublished(g) /\ run[g].pc \in {"unmount.target"} \cup Leaving)
         /\ \/ UNCHANGED stack
            \/ MountAwaitFuse(g) \/ UnmountTarget(g) \/ CleanupSource(g) \/ RebindPoll(g)
            \/ RecoverProbe(g) \/ CleanerPurges(g)
<1>1. CASE MountStep(g)
  BY <1>1 DEF MountStep, MountCreateCRD, MountAddWorkload, MountCreatePod, MountInspectPod,
     MountAwaitGone, MountRecreatePod, MountAwaitRunning, MountAwaitFuse, MountKillPod, MountDropCRD
<1>2. CASE UnmountStep(g)
  BY <1>2 DEF UnmountStep, UnmountTarget, UnmountShared, UnmountDeletePod, UnmountDeleteCRD,
     At, Leaving
<1>3. CASE RepairStep(g)
  BY <1>3 DEF RepairStep, CleanupRefs, CleanupSource, HealGetPod, HealReadCRD, HealAwaitGone,
     HealCreatePod, HealAwaitRunning, RebindLock, RebindPoll, hostVars
<1>4. CASE StartupStep(g)
  BY <1>4 DEF StartupStep, AdoptPoll, AdoptTrack, AdoptSyncCRD, RecoverProbe, RecoverPoll,
     RecoverCRD, hostVars
<1>5. CASE CleanerStep(g)
  BY <1>5 DEF CleanerStep, CleanerPrunes, CleanerGetsPod, CleanerPurges
<1> QED
  BY <1>1, <1>2, <1>3, <1>4, <1>5 DEF Step

\* Unless it enumerates refs, a step takes no goroutine to the labels that
\* SInv speaks of.
LEMMA MovesQuietly ==
  ASSUME IInv, NEW g \in Slots, Step(g), ~CleanupRefs(g)
  PROVE  \A h \in Slots : run'[h].pc \in {"cleanup.source", "unmount.target"} => run'[h] = run[h]
<1>1. \A h \in Slots \ {g} : run'[h] = run[h]
  BY StepMoves DEF Leaves, Jumps
<1>2. run'[g].pc \notin {"cleanup.source", "unmount.target"}
  BY StepMoves DEF Leaves, Jumps, Idle, Mounting, Leaving, Repairing, Starting, Cleaner
<1> QED
  BY <1>1, <1>2

\* No goroutine revives a workload.
LEMMA EndedStay ==
  ASSUME IInv, NEW g \in Slots, Step(g), NEW t \in Targets, wl[t] \in {"ended", "done"}
  PROVE  wl'[t] \in {"ended", "done"}
<1>1. Unpublished(g) => wl' = [wl EXCEPT ![Tgt(g)] = "done"]
  BY DEF Unpublished
<1> QED
  BY <1>1, StepTouches DEF IInv, HostOK

\* The file system that serves a live workload stays, at the target and at
\* the source.
KeepsService ==
  \A t \in Targets : \A p \in {t, MountID[t]} :
    (wl[t] = "live" /\ TopServing(t) /\ Top(t) \in Layers(p)) => Top(t) \in LayersNext(p)

\* What mounts and unmounts nothing keeps the service.
LEMMA StackStays ==
  ASSUME UNCHANGED stack PROVE KeepsService
  BY DEF KeepsService, Layers, LayersNext

\* unmountAll and fuseUnmount leave the lower layers.
LEMMA Lower ==
  ASSUME NEW S, NEW q \in Seq(S)
  PROVE  /\ Len(UnmountAll(q)) \in Nat /\ Len(UnmountAll(q)) <= Len(q)
         /\ \A i \in 1..Len(UnmountAll(q)) : UnmountAll(q)[i] = q[i]
         /\ Len(FuseUnmount(q)) \in Nat /\ Len(FuseUnmount(q)) <= Len(q)
         /\ \A i \in 1..Len(FuseUnmount(q)) : FuseUnmount(q)[i] = q[i]
<1>1. Len(q) \in Nat /\ \A i \in 1..Len(q) : q[i] \in S
  BY LenProperties, ElementOfSeq
<1>2. ASSUME NEW k \in Nat
      PROVE  /\ Len(SubSeq(q, 1, Len(q) - k)) \in Nat /\ Len(SubSeq(q, 1, Len(q) - k)) <= Len(q)
             /\ \A i \in 1..Len(SubSeq(q, 1, Len(q) - k)) : SubSeq(q, 1, Len(q) - k)[i] = q[i]
  <2>1. \A i \in 1..(Len(q) - k) : q[i] \in S
    BY <1>1
  <2>2. /\ Len(SubSeq(q, 1, Len(q) - k)) = IF 1 <= Len(q) - k THEN Len(q) - k - 1 + 1 ELSE 0
        /\ \A i \in 1..(Len(q) - k - 1 + 1) : SubSeq(q, 1, Len(q) - k)[i] = q[1 + i - 1]
    BY <1>1, <2>1, SubSeqProperties
  <2> QED BY <1>1, <2>2
<1> QED
  BY <1>2, BoundsAssumption DEF UnmountAll, FuseUnmount

\* Mount and rebindTargets bind under the lock of their source: no cleanup of
\* that source is between its look at the refs and its unmounts.
LEMMA BindsService ==
  ASSUME IInv, IInv', SInv, "bind" \notin FaultKinds, NEW g \in Slots,
         MountAwaitFuse(g) \/ RebindPoll(g)
  PROVE  SInv' /\ KeepsService
<1>1. /\ Src(g) \in Sources /\ run[g].src = Src(g) /\ run[g].pc \in Locked
      /\ run[g].pc \in {"mount.fuse", "rebind.poll"} /\ lock[Src(g)] = g
      /\ run[g].pc = "mount.fuse" => Tgt(g) \in Targets /\ MountID[Tgt(g)] = Src(g)
  <2>1. run[g].pc \in Locked /\ run[g].pc \in {"mount.fuse", "rebind.poll"}
    BY DEF MountAwaitFuse, RebindPoll, At, Locked
  <2> QED BY <2>1, Locals DEF IInv, LockOK, Src, Calling
<1>2. Step(g) /\ ~CleanupRefs(g)
  BY <1>1 DEF Step, MountStep, RepairStep, CleanupRefs, At
<1>3. UNCHANGED <<wl, gen, daemon>> /\ (\A k : Fault(k) => k # "bind")
  BY DEF MountAwaitFuse, RebindPoll, Fault
<1>4. CASE UNCHANGED stack
  BY <1>2, <1>3, <1>4, MovesQuietly, QuietKeepsService, StackStays DEF SInv
<1>5. ASSUME NEW B \in SUBSET Targets, Mounted(Src(g)), \A t \in B : MountID[t] = Src(g),
             stack' = [p \in Paths |-> IF p \in B THEN StackBind(Src(g), p) ELSE stack[p]]
      PROVE  SInv' /\ KeepsService
  <2>1. /\ ServingOnTop' /\ SourceServes'
        /\ \A t \in Targets : (MountID[t] # Src(g) /\ TopServing(t)') => TopServing(t)
        /\ \A p \in Paths : Layers(p) \subseteq LayersNext(p)
    BY <1>1, <1>3, <1>5, BindKeepsService DEF SInv
  <2>2. RefsServe'
    <3> SUFFICES ASSUME NEW h \in Slots, run'[h].pc = "cleanup.source", NEW t \in Targets,
                        MountID[t] = run'[h].src, TopServing(t)'
                 PROVE  t \in run'[h].set
      BY DEF RefsServe
    <3>1. run'[h] = run[h]
      BY <1>2, MovesQuietly DEF SInv
    <3>2. run[h].pc = "cleanup.source" /\ lock[run[h].src] = h
      BY <3>1 DEF IInv, LockOK, Locked
    <3>3. run[h].src # Src(g)
      BY <1>1, <3>2
    <3>4. TopServing(t)
      BY <2>1, <3>1, <3>3
    <3> QED BY <3>1, <3>2, <3>4 DEF SInv, RefsServe
  <2>3. UnmountsEnded'
    BY <1>2, <1>3, MovesQuietly DEF SInv, UnmountsEnded
  <2>4. KeepsService
    BY <2>1, SourceOfPath DEF KeepsService
  <2> QED BY <2>1, <2>2, <2>3, <2>4 DEF SInv
<1>6. CASE MountAwaitFuse(g)
  <2>1. UNCHANGED stack \/ (Mounted(Src(g)) /\ SetStack(Tgt(g), StackBind(Src(g), Tgt(g))))
    BY <1>3, <1>6 DEF MountAwaitFuse
  <2>2. ASSUME SetStack(Tgt(g), StackBind(Src(g), Tgt(g)))
        PROVE  stack' = [p \in Paths |-> IF p \in {Tgt(g)} THEN StackBind(Src(g), p) ELSE stack[p]]
    BY <2>2 DEF SetStack, IInv, StackOK
  <2>3. {Tgt(g)} \in SUBSET Targets /\ \A t \in {Tgt(g)} : MountID[t] = Src(g)
    BY <1>1, <1>6 DEF MountAwaitFuse, At
  <2> QED BY <1>4, <1>5, <2>1, <2>2, <2>3
<1>7. CASE RebindPoll(g)
  <2> DEFINE B == {t \in BoundTargets(Src(g)) : ~BoundToCurrentSource(t, Src(g))}
  <2>1. \/ UNCHANGED stack
        \/ /\ Mounted(Src(g))
           /\ stack' = [p \in Paths |-> IF p \in B THEN StackBind(Src(g), p) ELSE stack[p]]
    BY <1>3, <1>7 DEF RebindPoll
  <2>2. B \in SUBSET Targets /\ \A t \in B : MountID[t] = Src(g)
    BY <1>1, DriverNulls DEF BoundTargets, IInv, BindsOK
  <2> HIDE DEF B
  <2> QED BY <1>4, <1>5, <2>1, <2>2
<1> QED
  BY <1>6, <1>7

\* A step that only removes layers.
LEMMA ShrinksService ==
  ASSUME IInv, IInv', SInv, NEW g \in Slots, Step(g), ~CleanupRefs(g),
         \A p \in Paths : /\ Len(stack'[p]) <= Len(stack[p])
                          /\ \A i \in 1..Len(stack'[p]) : stack'[p][i] = stack[p][i],
         \A t \in Targets : \/ stack'[MountID[t]] = stack[MountID[t]]
                            \/ stack'[t] = <<>>
                            \/ ~TopServing(t)
  PROVE  SInv'
<1>1. UNCHANGED <<gen, daemon>>
  BY StepTouches
<1>2. ServingOnTop' /\ SourceServes' /\ \A t \in Targets : TopServing(t)' => TopServing(t)
  BY <1>1, ShrinkKeepsService DEF SInv
<1>3. RefsServe'
  BY <1>2, MovesQuietly DEF SInv, RefsServe
<1>4. UnmountsEnded'
  <2> SUFFICES ASSUME NEW h \in Slots, run'[h].pc = "unmount.target"
               PROVE  wl'[run'[h].tgt] \in {"ended", "done"}
    BY DEF UnmountsEnded
  <2>1. run'[h] = run[h] /\ run[h].tgt \in Targets /\ wl[run[h].tgt] \in {"ended", "done"}
    BY MovesQuietly, Locals DEF SInv, UnmountsEnded, IInv, Tgt, Calling
  <2> QED BY <2>1, EndedStay
<1> QED
  BY <1>2, <1>3, <1>4 DEF SInv

\* Distinct target paths have distinct mount IDs: no hashes collide.
OwnSources == \A t, u \in Targets : MountID[t] = MountID[u] => t = u

\* Unmount takes the target of a workload that has ended, and the source
\* only once that target is bare.
LEMMA UnmountsService ==
  ASSUME IInv, IInv', SInv, OwnSources, NEW g \in Slots, UnmountTarget(g)
  PROVE  SInv' /\ KeepsService
<1> DEFINE t == Tgt(g)
           s == Src(g)
           popped == [stack EXCEPT ![t] = UnmountAll(stack[t])]
           both == [popped EXCEPT ![s] = UnmountAll(stack[s])]
<1>1. /\ run[g].pc = "unmount.target" /\ s \in Sources /\ t \in Targets /\ MountID[t] = s
      /\ t \in Paths /\ s \in Paths /\ t # s
  BY Locals, PathsDistinct DEF UnmountTarget, At, Calling, IInv, Paths
<1>2. SourceOf(t) = s
  BY <1>1, DriverNulls DEF SourceOf, BindsOK, IInv
<1>3. \/ stack' = popped
      \/ stack' = both /\ popped[t] = <<>>
  BY <1>2 DEF UnmountTarget, RemoveFails
<1>4. /\ \A p \in Paths \ {s, t} : stack'[p] = stack[p]
      /\ stack'[t] = UnmountAll(stack[t])
      /\ stack'[s] = stack[s] \/ (stack'[s] = UnmountAll(stack[s]) /\ stack'[t] = <<>>)
  BY <1>1, <1>3 DEF IInv, StackOK
<1>5. wl[t] # "live"
  BY <1>1 DEF SInv, UnmountsEnded, Tgt
<1> HIDE DEF popped, both
<1>6. \A p \in Paths : /\ Len(stack'[p]) <= Len(stack[p])
                       /\ \A i \in 1..Len(stack'[p]) : stack'[p][i] = stack[p][i]
  <2> SUFFICES ASSUME NEW p \in Paths
               PROVE  /\ Len(stack'[p]) <= Len(stack[p])
                      /\ \A i \in 1..Len(stack'[p]) : stack'[p][i] = stack[p][i]
    OBVIOUS
  <2>1. stack[p] \in Seq(BlocksOf(PathSource(p))) /\ Len(stack[p]) \in Nat
    BY Layer DEF IInv, StackOK
  <2>2. stack'[p] = stack[p] \/ stack'[p] = UnmountAll(stack[p])
    BY <1>1, <1>4
  <2> QED BY <2>1, <2>2, Lower
<1>7. ASSUME NEW u \in Targets
      PROVE  stack'[MountID[u]] = stack[MountID[u]] \/ (u = t /\ stack'[t] = <<>>)
  <2>1. MountID[u] \in Paths /\ MountID[u] # t
    BY <1>1, SourceOfPath, PathsDistinct
  <2>2. MountID[u] = s => u = t
    BY <1>1 DEF OwnSources
  <2>3. MountID[u] # s => stack'[MountID[u]] = stack[MountID[u]]
    BY <1>4, <2>1
  <2> QED BY <1>4, <2>2, <2>3
<1>8. Step(g) /\ ~CleanupRefs(g)
  BY <1>1 DEF Step, UnmountStep, CleanupRefs, At
<1>9. SInv'
  BY <1>6, <1>7, <1>8, ShrinksService
<1>10. KeepsService
  <2> SUFFICES ASSUME NEW u \in Targets, wl[u] = "live", NEW p \in {u, MountID[u]}
               PROVE  stack'[p] = stack[p]
    BY DEF KeepsService, Layers, LayersNext
  <2>1. u # t /\ u \in Paths /\ u # s
    BY <1>1, <1>5, SourceOfPath, PathsDistinct
  <2> QED BY <1>4, <1>7, <2>1
<1> QED
  BY <1>9, <1>10

\* cleanupSource: a target that serves is among the refs; while one of those
\* belongs to a live pod, source and target stay.
LEMMA CleanupsService ==
  ASSUME IInv, IInv', SInv, NEW g \in Slots, CleanupSource(g)
  PROVE  SInv' /\ KeepsService
<1> DEFINE s == Src(g)
           refs == run[g].set
<1>1. /\ run[g].pc = "cleanup.source" /\ s \in Sources /\ refs \subseteq Targets /\ s = run[g].src
      /\ \A u \in refs : MountID[u] = s
  BY Locals DEF CleanupSource, At, Cleaner, IInv, Src
<1>2. PICK live \in {LivePodUIDs, Targets} :
        \/ /\ \E u \in refs : u \in live \/ UnmountAll(stack[u]) # <<>>
           /\ stack' = [p \in Paths |-> IF p \in refs \ live THEN UnmountAll(stack[p]) ELSE stack[p]]
        \/ /\ \A u \in refs : u \notin live /\ UnmountAll(stack[u]) = <<>>
           /\ stack' = [p \in Paths |-> IF p \in {s} \cup refs \cup BoundTargets(s)
                                       THEN UnmountAll(stack[p]) ELSE stack[p]]
  <2> DEFINE Outcome(live) ==
        \/ /\ \E u \in refs : u \in live \/ UnmountAll(stack[u]) # <<>>
           /\ stack' = [p \in Paths |-> IF p \in refs \ live THEN UnmountAll(stack[p]) ELSE stack[p]]
        \/ /\ \A u \in refs : u \notin live /\ UnmountAll(stack[u]) = <<>>
           /\ stack' = [p \in Paths |-> IF p \in {s} \cup refs \cup BoundTargets(s)
                                       THEN UnmountAll(stack[p]) ELSE stack[p]]
  <2>1. Outcome(LivePodUIDs) \/ Outcome(Targets)
    BY DEF CleanupSource, DeadPodRefs
  <2> QED BY <2>1
<1>3. \A u \in Targets : wl[u] = "live" => u \in live
  BY DEF LivePodUIDs
<1>4. \A u \in Targets : MountID[u] = s /\ TopServing(u) => u \in refs
  BY <1>1 DEF SInv, RefsServe
<1>5. ASSUME NEW p \in Paths
      PROVE  /\ stack'[p] = stack[p] \/ stack'[p] = UnmountAll(stack[p])
             /\ stack'[p] # stack[p] => p \in {s} \cup refs \cup BoundTargets(s)
  BY <1>2
<1>6. ASSUME NEW p \in Paths
      PROVE  /\ Len(stack'[p]) <= Len(stack[p])
             /\ \A i \in 1..Len(stack'[p]) : stack'[p][i] = stack[p][i]
  <2>1. stack[p] \in Seq(BlocksOf(PathSource(p))) /\ Len(stack[p]) \in Nat
    BY Layer DEF IInv, StackOK
  <2> QED BY <1>5, <2>1, Lower
<1>7. ASSUME NEW u \in Targets, stack'[MountID[u]] # stack[MountID[u]], TopServing(u)
      PROVE  stack'[u] = <<>> /\ wl[u] # "live"
  <2>1. MountID[u] \in Sources /\ MountID[u] \in Paths /\ MountID[u] \notin Targets /\ u \in Paths
    BY SourceOfPath, PathsDistinct
  <2>2. MountID[u] = s
    BY <1>1, <1>5, <1>7, <2>1 DEF BoundTargets
  <2>3. u \in refs
    BY <1>4, <1>7, <2>2
  <2>4. MountID[u] \notin refs
    BY <1>1, <2>1
  <2>5. u \notin live /\ UnmountAll(stack[u]) = <<>> /\ stack'[u] = UnmountAll(stack[u])
    BY <1>2, <1>7, <2>1, <2>3, <2>4
  <2> QED BY <1>3, <2>5
<1>8. Step(g) /\ ~CleanupRefs(g)
  BY <1>1 DEF Step, RepairStep, CleanupRefs, At
<1>9. SInv'
  BY <1>6, <1>7, <1>8, ShrinksService
<1>10. KeepsService
  <2> SUFFICES ASSUME NEW u \in Targets, wl[u] = "live", TopServing(u), NEW p \in {u, MountID[u]}
               PROVE  stack'[p] = stack[p]
    BY DEF KeepsService, Layers, LayersNext
  <2>1. stack'[MountID[u]] = stack[MountID[u]]
    BY <1>7
  <2>2. stack'[u] = stack[u]
    <3> SUFFICES ASSUME stack'[u] # stack[u] PROVE FALSE
      OBVIOUS
    <3>1. u \in Paths /\ u # s /\ u \in live
      BY <1>1, <1>3, SourceOfPath, PathsDistinct
    <3>2. u \in refs \cup BoundTargets(s)
      BY <1>5, <3>1
    <3>3. MountID[u] = s
      BY <1>1, <3>2, DriverNulls DEF BoundTargets, IInv, BindsOK
    <3>4. u \in refs
      BY <1>4, <3>3
    <3> QED BY <1>2, <3>1, <3>4
  <2> QED BY <2>1, <2>2
<1> QED
  BY <1>9, <1>10

\* recoverPod unmounts a source that does not answer: nothing of it serves.
LEMMA RecoversService ==
  ASSUME IInv, IInv', SInv, NEW g \in Slots, RecoverProbe(g)
  PROVE  SInv' /\ KeepsService
<1>1. /\ run[g].pc \in {"recover.probe", "recover.dead"} /\ Src(g) \in Sources
      /\ Step(g) /\ ~CleanupRefs(g)
  BY Locals DEF RecoverProbe, At, IInv, Step, StartupStep, CleanupRefs
<1>2. /\ \A p \in Paths \ {Src(g)} : stack'[p] = stack[p]
      /\ stack'[Src(g)] = stack[Src(g)] \/
           (stack'[Src(g)] = FuseUnmount(stack[Src(g)]) /\ Corrupted(Src(g)))
  BY <1>1, SourceOfPath DEF RecoverProbe, SetStack, IInv, StackOK
<1>3. ASSUME NEW p \in Paths
      PROVE  /\ Len(stack'[p]) <= Len(stack[p])
             /\ \A i \in 1..Len(stack'[p]) : stack'[p][i] = stack[p][i]
  <2>1. stack[p] \in Seq(BlocksOf(PathSource(p))) /\ Len(stack[p]) \in Nat
    BY Layer DEF IInv, StackOK
  <2> QED BY <1>2, <2>1, Lower
<1>4. ASSUME NEW u \in Targets, TopServing(u)
      PROVE  stack'[u] = stack[u] /\ stack'[MountID[u]] = stack[MountID[u]]
  <2>1. u \in Paths /\ u # Src(g) /\ MountID[u] \in Paths
    BY <1>1, SourceOfPath, PathsDistinct
  <2>2. ~Corrupted(MountID[u])
    BY <1>4 DEF SInv, SourceServes, TopServing, Corrupted, Answers, Serving
  <2> QED BY <1>2, <2>1, <2>2
<1>5. SInv'
  BY <1>1, <1>3, <1>4, ShrinksService
<1>6. KeepsService
  BY <1>4 DEF KeepsService, Layers, LayersNext
<1> QED
  BY <1>5, <1>6

\* cleanupSource enumerates the refs: every target that serves shows what is
\* on top of the source.
LEMMA RefsService ==
  ASSUME IInv, SInv, NEW g \in Slots, CleanupRefs(g)
  PROVE  SInv' /\ KeepsService
<1>1. /\ run[g].pc = "cleanup.refs" /\ Src(g) \in Sources /\ Src(g) = run[g].src
      /\ UNCHANGED <<wl, gen, daemon, stack>>
  BY Locals DEF CleanupRefs, At, IInv, Src, hostVars
<1>2. /\ run'[g].src = Src(g) /\ run'[g].set = MountRefs(Src(g)) /\ run'[g].pc = "cleanup.source"
      /\ \A h \in Slots \ {g} : run'[h] = run[h]
  BY <1>1, Jumping DEF CleanupRefs, Jumps, IInv
<1>3. ASSUME NEW t \in Targets, MountID[t] = Src(g), TopServing(t) PROVE t \in MountRefs(Src(g))
  <2>1. t \in Paths /\ Src(g) \in Paths /\ PathSource(t) = Src(g) /\ PathSource(Src(g)) = Src(g)
    BY <1>1, <1>3, SourceOfPath
  <2>2. TopServing(Src(g))
    BY <1>3 DEF SInv, SourceServes
  <2>3. /\ Len(stack[t]) \in 1..Len(stack[t]) /\ DOMAIN stack[t] = 1..Len(stack[t])
        /\ Top(t) \in BlocksOf(Src(g)) /\ Top(Src(g)) \in BlocksOf(Src(g))
    BY <1>3, <2>1, <2>2, Layer DEF IInv, TopServing, Top
  <2>4. Top(Src(g)) = Top(t)
    BY <1>1, <1>3, <2>2, <2>3, OneServes DEF TopServing
  <2>5. Top(t) \in Layers(t)
    BY <2>3 DEF Layers, Top
  <2>6. Mounted(Src(g))
    BY <2>2 DEF TopServing, Mounted, Answers, Serving
  <2> QED BY <2>4, <2>5, <2>6 DEF MountRefs
<1>4. \A p : TopServing(p)' <=> TopServing(p)
  BY <1>1 DEF TopServing, Top, Serving
<1>5. ServingOnTop' /\ SourceServes'
  BY <1>1, <1>4 DEF SInv, ServingOnTop, SourceServes, Serving
<1>6. RefsServe'
  BY <1>2, <1>3, <1>4 DEF SInv, RefsServe
<1>7. UnmountsEnded'
  BY <1>1, <1>2 DEF SInv, UnmountsEnded
<1> QED
  BY <1>1, <1>5, <1>6, <1>7, StackStays DEF SInv

\* A daemon serves from a running pod; when the cleaner unmounts a source, no
\* pod is there that could have mounted it.
PInv == /\ \A s \in Sources : daemon[s] = "serving" => pod[s].phase = "Running"
        /\ \A g \in Slots : run[g].pc = "gc.purge" => pod[run[g].src] = NoPod
        /\ \A g \in Slots : run[g].pc \in Cleaner => PeriodicCleanup

\* Nobody works beside the cleaner.
CleanerAlone == PeriodicCleanup => \A g, h \in Slots : g = h

\* The driver deletes pods and creates them where there is none.
LEMMA PodFates ==
  ASSUME HostOK, NEW s \in Sources, NEW new,
         \/ new = pod \/ new = PodDeleted(s)
         \/ new = [pod EXCEPT ![s] = NewPod] /\ pod[s] = NoPod
  PROVE  \A r \in Sources : pod[r].phase = "Running" => new[r].phase = "Running"
<1>1. pod \in [Sources -> MountPod] /\ NoPod.phase # "Running"
  BY DEF HostOK, NoPod
<1>2. [pod EXCEPT ![s].deleting = TRUE][s].phase = pod[s].phase
  BY <1>1 DEF MountPod
<1> QED
  BY <1>1, <1>2 DEF PodDeleted

\* No goroutine stops a running pod; the cleaner purges where its Get found none.
LEMMA StepPods ==
  ASSUME IInv, NEW g \in Slots, Step(g)
  PROVE  /\ \A s \in Sources : pod[s].phase = "Running" => pod'[s].phase = "Running"
         /\ run'[g].pc = "gc.purge" => run[g].pc \in Cleaner /\ UNCHANGED pod /\ pod[run'[g].src] = NoPod
<1>1. run[g].pc # "idle" /\ Src(g) \in Sources
  <2>1. run[g].pc # "idle"
    BY DEF Step, MountStep, UnmountStep, RepairStep, StartupStep, CleanerStep, At,
       MountCreateCRD, MountAddWorkload, MountCreatePod, MountInspectPod,
       MountAwaitGone, MountRecreatePod, MountAwaitRunning, MountAwaitFuse, MountKillPod, MountDropCRD,
       UnmountTarget, UnmountShared, UnmountDeletePod, UnmountDeleteCRD,
       CleanupRefs, CleanupSource, HealGetPod, HealReadCRD, HealAwaitGone,
       HealCreatePod, HealAwaitRunning, RebindLock, RebindPoll,
       AdoptPoll, AdoptTrack, AdoptSyncCRD, RecoverProbe, RecoverPoll, RecoverCRD,
       CleanerPrunes, CleanerGetsPod, CleanerPurges
  <2> QED BY <2>1, Locals DEF IInv
<1>2. \/ pod' = pod \/ pod' = PodDeleted(Src(g))
      \/ pod' = [pod EXCEPT ![Src(g)] = NewPod] /\ pod[Src(g)] = NoPod
  <2>1. CASE MountStep(g)
    BY <2>1 DEF MountStep, MountCreateCRD, MountAddWorkload, MountCreatePod, MountInspectPod,
       MountAwaitGone, MountRecreatePod, MountAwaitRunning, MountAwaitFuse, MountKillPod, MountDropCRD,
       DeletePod, DeleteStalePod
  <2>2. CASE UnmountStep(g)
    BY <2>2 DEF UnmountStep, UnmountTarget, UnmountShared, UnmountDeletePod, UnmountDeleteCRD, DeletePod
  <2>3. CASE RepairStep(g)
    BY <2>3 DEF RepairStep, CleanupRefs, CleanupSource, HealGetPod, HealReadCRD, HealAwaitGone,
       HealCreatePod, HealAwaitRunning, RebindLock, RebindPoll, hostVars, DeletePod
  <2>4. CASE StartupStep(g)
    BY <2>4 DEF StartupStep, AdoptPoll, AdoptTrack, AdoptSyncCRD, RecoverProbe, RecoverPoll,
       RecoverCRD, hostVars, DeletePod
  <2>5. CASE CleanerStep(g)
    BY <2>5 DEF CleanerStep, CleanerPrunes, CleanerGetsPod, CleanerPurges, DeletePod
  <2> QED BY <2>1, <2>2, <2>3, <2>4, <2>5 DEF Step
<1>3. \A s \in Sources : pod[s].phase = "Running" => pod'[s].phase = "Running"
  BY <1>1, <1>2, PodFates DEF IInv
<1>4. ASSUME run'[g].pc = "gc.purge"
      PROVE  run[g].pc \in Cleaner /\ UNCHANGED pod /\ pod[run'[g].src] = NoPod
  <2>1. run[g].pc \in Cleaner
    BY <1>4, StepMoves DEF Leaves, Jumps, Idle, Mounting, Leaving, Repairing, Starting, Cleaner
  <2>2. CleanerStep(g)
    BY <2>1 DEF Step, MountStep, UnmountStep, RepairStep, StartupStep, At, Cleaner,
       MountCreateCRD, MountAddWorkload, MountCreatePod, MountInspectPod,
       MountAwaitGone, MountRecreatePod, MountAwaitRunning, MountAwaitFuse, MountKillPod, MountDropCRD,
       UnmountTarget, UnmountShared, UnmountDeletePod, UnmountDeleteCRD,
       CleanupRefs, CleanupSource, HealGetPod, HealReadCRD, HealAwaitGone,
       HealCreatePod, HealAwaitRunning, RebindLock, RebindPoll,
       AdoptPoll, AdoptTrack, AdoptSyncCRD, RecoverProbe, RecoverPoll, RecoverCRD
  <2>3. ~Leaves(g)
    BY <1>4 DEF Leaves, Idle
  <2>4. ~Jumps(g, "gc.pod")
    BY <1>4 DEF Jumps
  <2>5. UNCHANGED pod /\ pod[Src(g)] = NoPod /\ Jumps(g, "gc.purge")
    BY <2>2, <2>3, <2>4, Jumping DEF CleanerStep, CleanerPrunes, CleanerGetsPod, CleanerPurges, IInv
  <2> QED BY <2>1, <2>5 DEF Jumps, Src
<1> QED
  BY <1>3, <1>4

\* PInv is kept by the steps of a goroutine.
LEMMA StepKeepsPods ==
  ASSUME IInv, PInv, CleanerAlone, NEW g \in Slots, Step(g) PROVE PInv'
<1>1. \A s \in Sources : daemon'[s] = "serving" => pod'[s].phase = "Running"
  BY StepTouches, StepPods DEF PInv
<1>2. \A h \in Slots \ {g} : run'[h] = run[h]
  BY StepMoves DEF Leaves, Jumps
<1>3. run'[g].pc \in Cleaner => run[g].pc \in Cleaner
  BY StepMoves DEF Leaves, Jumps, Idle, Mounting, Leaving, Repairing, Starting, Cleaner
<1>4. \A h \in Slots : run'[h].pc \in Cleaner => PeriodicCleanup
  BY <1>2, <1>3 DEF PInv
<1>5. ASSUME NEW h \in Slots, run'[h].pc = "gc.purge" PROVE pod'[run'[h].src] = NoPod
  <2>1. h = g
    BY <1>4, <1>5 DEF Cleaner, CleanerAlone
  <2> QED BY <1>5, <2>1, StepPods
<1>6. (\A h \in Slots : run[h].pc = "gc.purge" => pod[run[h].src] = NoPod)'
  BY <1>5 DEF NoPod
<1> QED
  BY <1>1, <1>4, <1>6 DEF PInv

\* The cleaner unmounts a source without a pod: nothing of it serves.
LEMMA PurgesService ==
  ASSUME IInv, IInv', SInv, PInv, NEW g \in Slots, CleanerPurges(g)
  PROVE  SInv' /\ KeepsService
<1>1. /\ run[g].pc = "gc.purge" /\ Src(g) \in Sources /\ Src(g) = run[g].src
      /\ Step(g) /\ ~CleanupRefs(g)
  BY Locals DEF CleanerPurges, At, IInv, Src, Step, CleanerStep, CleanupRefs
<1>2. daemon[Src(g)] # "serving"
  BY <1>1 DEF PInv, NoPod
<1>3. /\ \A p \in Paths \ {Src(g)} : stack'[p] = stack[p]
      /\ stack'[Src(g)] = FuseUnmount(stack[Src(g)])
  BY <1>1, SourceOfPath DEF CleanerPurges, SetStack, IInv, StackOK
<1>4. ASSUME NEW p \in Paths
      PROVE  /\ Len(stack'[p]) <= Len(stack[p])
             /\ \A i \in 1..Len(stack'[p]) : stack'[p][i] = stack[p][i]
  <2>1. stack[p] \in Seq(BlocksOf(PathSource(p))) /\ Len(stack[p]) \in Nat
    BY Layer DEF IInv, StackOK
  <2> QED BY <1>3, <2>1, Lower
<1>5. ASSUME NEW u \in Targets, TopServing(u)
      PROVE  stack'[u] = stack[u] /\ stack'[MountID[u]] = stack[MountID[u]]
  <2>1. u \in Paths /\ u # Src(g) /\ MountID[u] \in Paths /\ PathSource(u) = MountID[u]
    BY <1>1, SourceOfPath, PathsDistinct
  <2>2. Top(u).src = MountID[u]
    BY <1>5, <2>1, Layer DEF IInv, TopServing, Top
  <2>3. MountID[u] # Src(g)
    BY <1>2, <1>5, <2>2 DEF TopServing, Serving
  <2> QED BY <1>3, <2>1, <2>3
<1>6. SInv'
  BY <1>1, <1>4, <1>5, ShrinksService
<1>7. KeepsService
  BY <1>5 DEF KeepsService, Layers, LayersNext
<1> QED
  BY <1>6, <1>7

\* SInv and the service are kept by the steps of a goroutine.
LEMMA StepKeepsService ==
  ASSUME IInv, IInv', SInv, PInv, OwnSources, "bind" \notin FaultKinds, NEW g \in Slots, Step(g)
  PROVE  SInv' /\ KeepsService
<1>1. CASE CleanupRefs(g)
  BY <1>1, RefsService
<1>2. CASE UNCHANGED stack /\ ~CleanupRefs(g)
  <2>1. UNCHANGED <<gen, daemon>>
    BY StepTouches
  <2> QED BY <1>2, <2>1, MovesQuietly, EndedStay, QuietKeepsService, StackStays
<1> QED
  BY <1>1, <1>2, StepTouches, BindsService, UnmountsService, CleanupsService, RecoversService,
     PurgesService

\* Calls, jobs and events start goroutines or queue them.
LEMMA StartsService ==
  ASSUME IInv, SInv, PInv, NEW g \in Slots,
         \/ \E t \in Targets : Publish(g, t) \/ Unpublish(g, t)
         \/ \E s \in Sources : CleanerLists(g, s)
         \/ \E j \in Job : StartJob(g, j)
  PROVE  SInv' /\ PInv' /\ UNCHANGED stack
<1>1. UNCHANGED <<stack, gen, daemon, pod>>
  BY DEF Publish, Unpublish, CleanerLists, StartJob, hostVars
<1>2. \A h \in Slots \ {g} : run'[h] = run[h]
  BY DEF Publish, Unpublish, CleanerLists, StartJob, IInv, RunOK
<1>3. \/ run'[g] = run[g]
      \/ run'[g].pc \notin {"cleanup.source", "unmount.target"} \cup Cleaner
      \/ run'[g].pc = "gc.stale" /\ PeriodicCleanup
      \/ \E t \in Targets : Unpublish(g, t) /\ run'[g].tgt = t /\ wl[t] = "ended" /\ UNCHANGED wl
                            /\ run'[g].pc = "unmount.target"
  <2>1. ASSUME NEW t \in Targets, Publish(g, t)
        PROVE  run'[g].pc \notin {"cleanup.source", "unmount.target"} \cup Cleaner
    BY <2>1 DEF Publish, IInv, RunOK, Idle, Cleaner
  <2>2. ASSUME NEW t \in Targets, Unpublish(g, t)
        PROVE  \/ run'[g] = run[g]
               \/ run'[g].tgt = t /\ wl[t] = "ended" /\ UNCHANGED wl /\ run'[g].pc = "unmount.target"
    BY <2>2 DEF Unpublish, IInv, RunOK, Idle
  <2>3. ASSUME NEW s \in Sources, CleanerLists(g, s) PROVE run'[g].pc = "gc.stale" /\ PeriodicCleanup
    BY <2>3 DEF CleanerLists, IInv, RunOK, Idle
  <2>4. ASSUME NEW j \in Job, StartJob(g, j)
        PROVE  run'[g].pc \notin {"cleanup.source", "unmount.target"} \cup Cleaner
    <3> DEFINE l == FirstLabel[j.op]
               r == [Idle EXCEPT !.pc = l, !.src = j.src]
    <3>1. l \notin {"cleanup.source", "unmount.target"} \cup Cleaner
      <4>1. j.op \in {"adopt", "cleanup", "heal", "rebind", "recover", "discard"}
        BY <2>4 DEF StartJob, Job
      <4> QED BY <4>1 DEF FirstLabel, Cleaner
    <3>2. run' = [run EXCEPT ![g] = r]
      BY <2>4 DEF StartJob
    <3> HIDE DEF l
    <3>3. r.pc = l
      BY DEF Idle
    <3> HIDE DEF r
    <3>4. run'[g] = r
      BY <3>2 DEF IInv, RunOK
    <3> QED BY <3>1, <3>3, <3>4
  <2> QED BY <2>1, <2>2, <2>3, <2>4
<1>4. \A t \in Targets : wl[t] \in {"ended", "done"} => wl'[t] \in {"ended", "done"}
  BY DEF Publish, Unpublish, CleanerLists, StartJob, hostVars, IInv, HostOK
<1>5. PInv'
  <2>1. /\ \A s \in Sources : daemon'[s] = "serving" => pod'[s].phase = "Running"
        /\ \A h \in Slots : run'[h].pc = "gc.purge" => pod'[run'[h].src] = NoPod
        /\ \A h \in Slots : run'[h].pc \in Cleaner => PeriodicCleanup
    BY <1>1, <1>2, <1>3 DEF PInv, Cleaner
  <2>2. (\A h \in Slots : run[h].pc = "gc.purge" => pod[run[h].src] = NoPod)'
    BY <2>1 DEF NoPod
  <2> QED BY <2>1, <2>2 DEF PInv
<1>6. SInv'
  <2>1. CASE run'[g].pc # "unmount.target" \/ run'[g] = run[g]
    <3>1. \A h \in Slots : run'[h].pc \in {"cleanup.source", "unmount.target"} => run'[h] = run[h]
      BY <1>2, <1>3, <2>1 DEF Cleaner
    <3> QED BY <1>1, <1>4, <3>1, QuietKeepsService
  <2>2. CASE run'[g].pc = "unmount.target" /\ run'[g] # run[g]
    <3>1. wl'[run'[g].tgt] \in {"ended", "done"} /\ UNCHANGED wl
      BY <1>3, <2>2 DEF Cleaner
    <3>2. \A p : TopServing(p)' <=> TopServing(p)
      BY <1>1 DEF TopServing, Top, Serving
    <3>3. ServingOnTop' /\ SourceServes'
      BY <1>1, <3>2 DEF SInv, ServingOnTop, SourceServes, Serving
    <3>4. RefsServe'
      BY <1>2, <2>2, <3>2 DEF SInv, RefsServe
    <3>5. UnmountsEnded'
      BY <1>2, <3>1 DEF SInv, UnmountsEnded
    <3> QED BY <3>3, <3>4, <3>5 DEF SInv
  <2> QED BY <2>1, <2>2
<1> QED
  BY <1>1, <1>5, <1>6

\* Pod events, the FUSE scan and restarts unmount nothing.
LEMMA EventsService ==
  ASSUME IInv, SInv, PInv,
         \/ \E s \in Sources : HandleAdd(s) \/ Scan(s) \/ ScanBlind(s)
         \/ DriverStops \/ DriverStarts \/ UNCHANGED vars
  PROVE  SInv' /\ PInv' /\ UNCHANGED stack
<1>1. UNCHANGED <<stack, gen, daemon, pod, wl>>
  BY DEF HandleAdd, Scan, ScanBlind, DriverStops, DriverStarts, hostVars, vars
<1>2. \A h \in Slots : run'[h] = run[h] \/ run'[h] = Idle
  BY DEF HandleAdd, Scan, ScanBlind, DriverStops, DriverStarts, vars, driverVars
<1>3. SInv'
  BY <1>1, <1>2, QuietKeepsService DEF Idle
<1>4. PInv'
  <2>1. /\ \A s \in Sources : daemon'[s] = "serving" => pod'[s].phase = "Running"
        /\ \A h \in Slots : run'[h].pc = "gc.purge" => pod'[run'[h].src] = NoPod
        /\ \A h \in Slots : run'[h].pc \in Cleaner => PeriodicCleanup
    BY <1>1, <1>2 DEF PInv, Cleaner, Idle
  <2>2. (\A h \in Slots : run[h].pc = "gc.purge" => pod[run[h].src] = NoPod)'
    BY <2>1 DEF NoPod
  <2> QED BY <2>1, <2>2 DEF PInv
<1> QED
  BY <1>1, <1>3, <1>4

\* A fresh superblock: nobody shows it yet.
LEMMA DaemonMounts ==
  ASSUME IInv, IInv', SInv, NEW s \in Sources, HostDaemonMounts(s), UNCHANGED driverVars
  PROVE  SInv' /\ KeepsService
<1>1. PICK n \in Unused(s) : /\ gen' = [gen EXCEPT ![s] = n]
                             /\ stack' = [stack EXCEPT ![s] = Append(@, [src |-> s, n |-> n])]
  BY DEF HostDaemonMounts
<1>2. /\ daemon[s] # "serving" /\ daemon' = [daemon EXCEPT ![s] = "serving"]
      /\ UNCHANGED <<wl, run>>
  BY DEF HostDaemonMounts, driverVars
<1>3. \A p \in Paths : [src |-> s, n |-> n] \notin Layers(p)
  BY DEF Unused
<1>4. /\ \A p \in Paths \ {s} : stack'[p] = stack[p]
      /\ s \in Paths /\ stack'[s] = Append(stack[s], [src |-> s, n |-> n])
      /\ \A r \in Sources \ {s} : gen'[r] = gen[r] /\ daemon'[r] = daemon[r]
      /\ gen'[s] = n /\ daemon'[s] = "serving"
  BY <1>1, <1>2, SourceOfPath DEF IInv, StackOK, HostOK
<1>5. ASSUME NEW p \in Paths, NEW i \in 1..Len(stack[p])
      PROVE  Serving(stack[p][i])' <=> Serving(stack[p][i])
  <2>1. stack[p][i] \in BlocksOf(PathSource(p)) /\ stack[p][i] \in Layers(p)
        /\ stack[p][i].src = PathSource(p) /\ PathSource(p) \in Sources
    BY <1>5, Layer, SourceOfPath DEF IInv, Layers, Paths
  <2>2. CASE PathSource(p) # s
    BY <1>4, <2>1, <2>2 DEF Serving
  <2>3. CASE PathSource(p) = s
    <3>1. ~Serving(stack[p][i])
      BY <1>2, <2>1, <2>3 DEF Serving
    <3>2. stack[p][i].n # n
      BY <1>3, <2>1, <2>3 DEF BlocksOf
    <3> QED BY <1>4, <2>1, <2>3, <3>1, <3>2 DEF Serving
  <2> QED BY <2>2, <2>3
<1>6. DOMAIN stack[s] = 1..Len(stack[s]) /\ Len(stack[s]) \in Nat
      /\ Len(stack'[s]) = Len(stack[s]) + 1
      /\ stack'[s][Len(stack[s]) + 1] = [src |-> s, n |-> n]
      /\ \A i \in 1..Len(stack[s]) : stack'[s][i] = stack[s][i]
  <2>1. stack[s] \in Seq(BlocksOf(s)) /\ n \in 1..MaxGen
    BY <1>1, SourceOfPath DEF IInv, StackOK, Unused
  <2>2. [src |-> s, n |-> n] \in BlocksOf(s)
    BY <2>1 DEF BlocksOf
  <2> QED BY <1>4, <2>1, <2>2, AppendProperties, LenProperties
<1>7. Serving([src |-> s, n |-> n])'
  BY <1>4 DEF Serving
<1>8. ServingOnTop'
  <2> SUFFICES ASSUME NEW p \in Paths, NEW i \in 1..Len(stack'[p]), NEW j \in 1..Len(stack'[p]),
                      i <= j, Serving(stack[p][i])'
               PROVE  Serving(stack[p][j])'
    BY DEF ServingOnTop
  <2>1. CASE p # s
    BY <1>4, <1>5, <2>1 DEF SInv, ServingOnTop
  <2>2. CASE p = s
    <3>1. CASE j = Len(stack[s]) + 1
      BY <1>6, <1>7, <2>2, <3>1
    <3>2. CASE j # Len(stack[s]) + 1
      <4>1. i \in 1..Len(stack[s]) /\ j \in 1..Len(stack[s])
        <5>1. \A k \in Nat : \A x, y \in 1..(k + 1) : (x <= y /\ y # k + 1) => (x \in 1..k /\ y \in 1..k)
          OBVIOUS
        <5> QED BY <1>6, <2>2, <3>2, <5>1
      <4> QED BY <1>4, <1>5, <2>2, <4>1 DEF SInv, ServingOnTop
    <3> QED BY <3>1, <3>2
  <2> QED BY <2>1, <2>2
<1>9. ASSUME NEW t \in Targets PROVE TopServing(t)' <=> TopServing(t)
  <2>1. t \in Paths /\ t # s /\ stack'[t] = stack[t]
    BY <1>4, SourceOfPath, PathsDistinct
  <2>2. stack[t] # <<>> => Len(stack[t]) \in 1..Len(stack[t])
    BY <2>1, Layer DEF IInv
  <2> QED BY <1>5, <2>1, <2>2 DEF TopServing, Top
<1>10. SourceServes'
  <2> SUFFICES ASSUME NEW t \in Targets, TopServing(t)' PROVE TopServing(MountID[t])'
    BY DEF SourceServes
  <2>1. TopServing(t) /\ TopServing(MountID[t]) /\ MountID[t] \in Paths
    BY <1>9, SourceOfPath DEF SInv, SourceServes
  <2>2. MountID[t] # s
    <3>1. Top(t).src = MountID[t]
      BY <2>1, Layer, SourceOfPath DEF IInv, TopServing, Top
    <3> QED BY <1>2, <2>1, <3>1 DEF TopServing, Serving
  <2>3. stack'[MountID[t]] = stack[MountID[t]]
    BY <1>4, <2>1, <2>2
  <2>4. Len(stack[MountID[t]]) \in 1..Len(stack[MountID[t]])
    BY <2>1, Layer DEF IInv, TopServing
  <2> QED BY <1>5, <2>1, <2>3, <2>4 DEF TopServing, Top
<1>11. RefsServe' /\ UnmountsEnded'
  BY <1>2, <1>9 DEF SInv, RefsServe, UnmountsEnded
<1>12. KeepsService
  <2>1. \A p \in Paths : Layers(p) \subseteq LayersNext(p)
    <3> SUFFICES ASSUME NEW p \in Paths PROVE Layers(p) \subseteq LayersNext(p)
      OBVIOUS
    <3>1. CASE p # s
      BY <1>4, <3>1 DEF Layers, LayersNext
    <3>2. CASE p = s
      <4>1. DOMAIN stack'[s] = 1..(Len(stack[s]) + 1)
        <5>1. stack'[s] \in Seq(BlocksOf(PathSource(s)'))
          BY <1>4 DEF IInv, StackOK
        <5> QED BY <1>6, <5>1, LenProperties
      <4>2. \A i \in DOMAIN stack[s] : i \in DOMAIN stack'[s] /\ stack'[s][i] = stack[s][i]
        <5>1. \A k \in Nat : \A i \in 1..k : i \in 1..(k + 1)
          OBVIOUS
        <5> QED BY <1>6, <4>1, <5>1
      <4> QED BY <3>2, <4>2 DEF Layers, LayersNext
    <3> QED BY <3>1, <3>2
  <2> QED BY <2>1, SourceOfPath DEF KeepsService
<1> QED
  BY <1>8, <1>10, <1>11, <1>12 DEF SInv

\* Workloads, mount pods and daemons.
LEMMA HostService ==
  ASSUME IInv, IInv', SInv, PInv, HostStep PROVE SInv' /\ PInv' /\ KeepsService
<1>0. UNCHANGED run /\ \A g \in Slots : run[g].pc = "gc.purge" => run[g].src \in Sources
  BY Locals DEF HostStep, driverVars, IInv, Src
<1>1. /\ \A s \in Sources : daemon'[s] = "serving" => pod'[s].phase = "Running"
      /\ \A s \in Sources : pod[s] = NoPod => pod'[s] = NoPod
  <2>0. /\ pod \in [Sources -> MountPod] /\ daemon \in [Sources -> {"serving", "warm", "dead"}]
        /\ \A s \in Sources : daemon[s] = "serving" => pod[s].phase = "Running"
        /\ NoPod.phase = "None" /\ NoPod.deleting = FALSE
    BY DEF IInv, HostOK, PInv, NoPod
  <2>1. ASSUME NEW t \in Targets,
               HostWorkloadStarts(t) \/ HostWorkloadEnds(t) \/ HostKubeletLeaks(t)
        PROVE  UNCHANGED <<pod, daemon>>
    BY <2>1 DEF HostWorkloadStarts, HostWorkloadEnds, HostKubeletLeaks
  <2>2. ASSUME NEW s \in Sources, HostCacheExpires(s)
        PROVE  UNCHANGED pod /\ \A r \in Sources : daemon'[r] = "serving" => daemon[r] = "serving"
    BY <2>0, <2>2 DEF HostCacheExpires
  <2>3. ASSUME NEW s \in Sources, HostDaemonMounts(s)
        PROVE  UNCHANGED pod /\ \A r \in Sources : daemon'[r] = "serving" => pod[r].phase = "Running"
    BY <2>0, <2>3 DEF HostDaemonMounts
  <2>4. ASSUME NEW s \in Sources, HostPodEvicted(s)
        PROVE  /\ UNCHANGED daemon /\ \A r \in Sources : pod[r] = NoPod => pod'[r] = NoPod
               /\ \A r \in Sources : pod'[r].phase = pod[r].phase
    <3>1. [pod EXCEPT ![s].deleting = TRUE][s].phase = pod[s].phase
      BY <2>0 DEF MountPod
    <3> QED BY <2>0, <2>4, <3>1 DEF HostPodEvicted, PodDeleted
  <2>5. ASSUME NEW s \in Sources,
               \/ HostPodStarts(s) \/ HostContainerRestarts(s)
               \/ HostPodTerminates(s) \/ HostDaemonExits(s) \/ HostPodRemoved(s)
        PROVE  /\ pod[s] # NoPod
               /\ \A r \in Sources \ {s} : pod'[r] = pod[r] /\ daemon'[r] = daemon[r]
               /\ daemon'[s] = "serving" => daemon[s] = "serving" /\ pod'[s].phase = "Running"
    <3>1. /\ [pod EXCEPT ![s].phase = "Running"][s].phase = "Running"
          /\ [pod EXCEPT ![s].restarts = @ + 1][s].phase = pod[s].phase
      BY <2>0 DEF MountPod
    <3>2. CASE HostPodStarts(s)
      BY <2>0, <3>1, <3>2 DEF HostPodStarts
    <3>3. CASE HostContainerRestarts(s)
      BY <2>0, <3>1, <3>3 DEF HostContainerRestarts, Died
    <3>4. CASE HostPodTerminates(s) \/ HostDaemonExits(s) \/ HostPodRemoved(s)
      BY <2>0, <3>4 DEF HostPodTerminates, HostDaemonExits, HostPodRemoved, Died
    <3> QED BY <2>5, <3>2, <3>3, <3>4
  <2>6. CASE \E t \in Targets : HostWorkloadStarts(t) \/ HostWorkloadEnds(t) \/ HostKubeletLeaks(t)
    BY <2>0, <2>1, <2>6
  <2>7. CASE \E s \in Sources : HostCacheExpires(s) \/ HostDaemonMounts(s) \/ HostPodEvicted(s)
    BY <2>0, <2>2, <2>3, <2>4, <2>7
  <2>8. CASE \E s \in Sources : \/ HostPodStarts(s) \/ HostContainerRestarts(s)
                               \/ HostPodTerminates(s) \/ HostDaemonExits(s) \/ HostPodRemoved(s)
    BY <2>0, <2>5, <2>8
  <2> QED BY <2>6, <2>7, <2>8 DEF HostStep
<1>2. PInv'
  <2>1. /\ \A h \in Slots : run'[h].pc = "gc.purge" => pod'[run'[h].src] = NoPod
        /\ \A h \in Slots : run'[h].pc \in Cleaner => PeriodicCleanup
    BY <1>0, <1>1 DEF PInv
  <2>2. (\A h \in Slots : run[h].pc = "gc.purge" => pod[run[h].src] = NoPod)'
    BY <2>1 DEF NoPod
  <2> QED BY <1>1, <2>1, <2>2 DEF PInv
<1>3. ASSUME NEW s \in Sources, HostDaemonMounts(s), UNCHANGED driverVars PROVE SInv' /\ KeepsService
  BY <1>3, DaemonMounts
<1>4. ASSUME UNCHANGED <<stack, gen>>,
             \A s \in Sources : daemon'[s] = "serving" => daemon[s] = "serving",
             \A t \in Targets : wl[t] \in {"ended", "done"} => wl'[t] \in {"ended", "done"}
      PROVE  SInv' /\ KeepsService
  BY <1>0, <1>4, QuietKeepsService, StackStays
<1>5. \/ \E s \in Sources : HostDaemonMounts(s) /\ UNCHANGED driverVars
      \/ /\ UNCHANGED <<stack, gen>>
         /\ \A s \in Sources : daemon'[s] = "serving" => daemon[s] = "serving"
         /\ \A t \in Targets : wl[t] \in {"ended", "done"} => wl'[t] \in {"ended", "done"}
  <2>1. daemon \in [Sources -> {"serving", "warm", "dead"}] /\ wl \in [Targets -> {"none", "live", "ended", "done"}]
    BY DEF IInv, HostOK
  <2>2. CASE \E t \in Targets : HostWorkloadStarts(t) \/ HostWorkloadEnds(t) \/ HostKubeletLeaks(t)
    BY <2>1, <2>2 DEF HostWorkloadStarts, HostWorkloadEnds, HostKubeletLeaks
  <2>3. CASE \E s \in Sources : HostCacheExpires(s) \/ HostPodEvicted(s)
    BY <2>1, <2>3 DEF HostCacheExpires, HostPodEvicted
  <2>4. CASE \E s \in Sources : \/ HostPodStarts(s) \/ HostContainerRestarts(s)
                               \/ HostPodTerminates(s) \/ HostDaemonExits(s) \/ HostPodRemoved(s)
    BY <2>1, <2>4 DEF HostPodStarts, HostContainerRestarts, HostPodTerminates, HostDaemonExits,
       HostPodRemoved, Died
  <2> QED BY <2>2, <2>3, <2>4 DEF HostStep
<1> QED
  BY <1>2, <1>3, <1>4, <1>5

\* Every step keeps SInv, PInv and the service.
LEMMA NextService ==
  ASSUME OwnSources, CleanerAlone, "bind" \notin FaultKinds, IInv, IInv', SInv, PInv, [Next]_vars
  PROVE  SInv' /\ PInv' /\ KeepsService
<1>1. CASE HostStep
  BY <1>1, HostService
<1>2. ASSUME NEW g \in Slots, Step(g) PROVE SInv' /\ PInv' /\ KeepsService
  BY <1>2, StepKeepsPods, StepKeepsService
<1>3. ASSUME NEW g \in Slots,
             \/ \E t \in Targets : Publish(g, t) \/ Unpublish(g, t)
             \/ \E s \in Sources : CleanerLists(g, s)
             \/ \E j \in Job : StartJob(g, j)
      PROVE  SInv' /\ PInv' /\ KeepsService
  BY <1>3, StartsService, StackStays
<1>4. CASE \/ \E s \in Sources : HandleAdd(s) \/ Scan(s) \/ ScanBlind(s)
           \/ DriverStops \/ DriverStarts \/ UNCHANGED vars
  BY <1>4, EventsService, StackStays
<1> QED
  BY <1>1, <1>2, <1>3, <1>4 DEF Next, DriverStep, Quiescent

\* Nothing is mounted and nothing runs at first.
LEMMA InitService == Init => SInv /\ PInv
<1> SUFFICES ASSUME Init PROVE SInv /\ PInv
  OBVIOUS
<1>1. /\ \A p \in Paths : stack[p] = <<>> /\ Len(stack[p]) = 0
      /\ \A g \in Slots : run[g].pc = "idle"
      /\ \A s \in Sources : daemon[s] = "dead"
  BY EmptySeq DEF Init, HostInit, Idle
<1>2. SInv
  BY <1>1, SourceOfPath DEF SInv, ServingOnTop, SourceServes, RefsServe, UnmountsEnded, TopServing
<1>3. PInv
  BY <1>1 DEF PInv, Cleaner
<1> QED
  BY <1>2, <1>3

\* No goroutine unmounts, at a target or at the source beneath it, the file
\* system that serves a live workload: not Mount or Unmount of another target,
\* not cleanupSource, not recoverPod, not the cleaner, whatever pods, daemons
\* and the API server do meanwhile and however often the driver restarts.
\* Three things are excluded because each of them breaks it.  Two target paths
\* with one mount ID: after a restart, Unmount of a target that is not tracked
\* yet tears down the source that the other one uses.  A goroutine beside the
\* periodic cleaner: cleanupStaleCRDs unmounts without the lock what a new
\* mount pod has mounted after its Get found none.  A bind that fails: the
\* fallback of stackBind detaches a target that was repaired meanwhile.
THEOREM ServiceIsKept ==
  ASSUME OwnSources, CleanerAlone, "bind" \notin FaultKinds
  PROVE  SafeSpec => ServiceKept
<1>1. SafeSpec => [](IInv /\ SInv /\ PInv)
  <2>1. IInv /\ SInv /\ PInv /\ [Next]_vars => (IInv /\ SInv /\ PInv)'
    BY NextIInv, NextService
  <2> QED BY <2>1, InitIInv, InitService, PTL DEF SafeSpec
<1>2. IInv /\ SInv /\ PInv /\ [Next]_vars =>
        [\A t \in Targets : \A p \in {t, MountID[t]} :
           (wl[t] = "live" /\ TopServing(t) /\ Top(t) \in Layers(p))
             => Top(t) \in LayersNext(p)]_vars
  <2> SUFFICES ASSUME IInv, SInv, PInv, [Next]_vars PROVE KeepsService
    BY DEF KeepsService
  <2>1. IInv'
    BY NextIInv
  <2> QED BY <2>1, NextService
<1> QED
  BY <1>1, <1>2, PTL DEF SafeSpec, ServiceKept

-----------------------------------------------------------------------------
(* Unpublished targets are bare. *)

\* What binds records is mounted.
TrackedMounted == \A t \in Targets : binds[t] # NoSource => stack[t] # <<>>

\* kubelet has one call of a target in flight, and none of an unpublished one.
OneCall ==
  /\ \A g, h \in Slots : (run[g].tgt # NoTarget /\ run[g].tgt = run[h].tgt) => g = h
  /\ \A g \in Slots : run[g].tgt # NoTarget <=> run[g].pc \in Calling
  /\ \A g \in Slots : run[g].pc \in Calling => wl[run[g].tgt] \in {"live", "ended"}
  /\ \A g \in Slots : run[g].pc \in {"unmount.target"} \cup Leaving => wl[run[g].tgt] = "ended"

\* An Unmount past its first step has left the target bare.
LeftBare == \A g \in Slots : run[g].pc \in Leaving => stack[run[g].tgt] = <<>>

\* Nothing of a start-up is under way: the driver has not restarted.
NoStartup == /\ up = TRUE
             /\ \A j \in pending : j.op \in {"cleanup", "heal", "rebind"}
             /\ \A g \in Slots : run[g].pc \notin Starting

\* The inductive invariant of UnpublishedIsBare.
BInv == TrackedMounted /\ OneCall /\ LeftBare /\ NoStartup /\ UnpublishedIsBare

\* No bind fails, every call is answered before the next one, nothing restarts.
Undisturbed == {"bind", "leak", "overlap", "restart"} \cap FaultKinds = {}

\* The families of labels are disjoint, and a call is publish or unpublish.
LEMMA Labels ==
  /\ Calling = Mounting \cup {"unmount.target"} \cup Leaving
  /\ {"idle", "cleanup.source"} \cap (Calling \cup Starting) = {}
  /\ Repairing \cap (Calling \cup Starting) = {} /\ Cleaner \cap (Calling \cup Starting) = {}
  /\ Starting \cap Calling = {} /\ Mounting \cap ({"unmount.target"} \cup Leaving) = {}
  /\ "unmount.target" \notin Leaving
  BY DEF Calling, Mounting, Leaving, Repairing, Starting, Cleaner

\* A step of a goroutine that calls nobody leaves no trace in the calls.
LEMMA StepCalls ==
  ASSUME IInv, OneCall, NoStartup, NEW g \in Slots, Step(g), UNCHANGED wl
  PROVE  OneCall' /\ (\A h \in Slots : run'[h].pc \notin Starting)
<1>1. \A h \in Slots \ {g} : run'[h] = run[h]
  BY StepMoves DEF Leaves, Jumps
<1>2. \/ run'[g] = Idle
      \/ run'[g].tgt = run[g].tgt /\ run'[g].pc \in Calling \ {"unmount.target"} /\ run[g].pc \in Calling
         /\ (run'[g].pc \in Leaving => run[g].pc \in {"unmount.target"} \cup Leaving)
      \/ run'[g].tgt = run[g].tgt /\ run'[g].pc \notin Calling \cup Starting
         /\ run[g].pc \notin Calling
  <2>1. UnmountTarget(g) => run[g].pc = "unmount.target"
    BY DEF UnmountTarget, At
  <2>2. CleanupRefs(g) => run[g].pc = "cleanup.refs"
    BY DEF CleanupRefs, At
  <2>3. "cleanup.refs" \in Repairing /\ "unmount.crd" \in Leaving
    BY DEF Repairing, Leaving
  <2>4. run[g].pc \notin Starting
    BY DEF NoStartup
  <2> QED BY <2>1, <2>2, <2>3, <2>4, StepMoves, Labels DEF Leaves, Jumps
<1>3. Idle.tgt = NoTarget /\ Idle.pc \notin Calling \cup Starting
  BY Labels DEF Idle
<1>4. \A h \in Slots : run'[h].tgt \in {NoTarget, run[h].tgt}
  BY <1>1, <1>2, <1>3
<1>5. \A h, k \in Slots : (run'[h].tgt # NoTarget /\ run'[h].tgt = run'[k].tgt) => h = k
  BY <1>4 DEF OneCall
<1>6. \A h \in Slots : run'[h].tgt # NoTarget <=> run'[h].pc \in Calling
  BY <1>1, <1>2, <1>3 DEF OneCall
<1>7. \A h \in Slots : run'[h].pc \in Calling => wl'[run'[h].tgt] \in {"live", "ended"}
  BY <1>1, <1>2, <1>3 DEF OneCall
<1>8. \A h \in Slots : run'[h].pc \in {"unmount.target"} \cup Leaving => wl'[run'[h].tgt] = "ended"
  BY <1>1, <1>2, <1>3, Labels DEF OneCall
<1>9. \A h \in Slots : run'[h].pc \notin Starting
  BY <1>1, <1>2, <1>3, Labels DEF NoStartup
<1> QED
  BY <1>5, <1>6, <1>7, <1>8, <1>9 DEF OneCall

\* The jobs a step of a goroutine may spawn.
LEMMA StepSpawns ==
  ASSUME NoStartup, NEW g \in Slots, Step(g)
  PROVE  up' = TRUE /\ \A j \in pending' : j.op \in {"cleanup", "heal", "rebind"}
<1>1. ~StartupStep(g)
  BY DEF NoStartup, StartupStep, AdoptPoll, AdoptTrack, AdoptSyncCRD, RecoverProbe, RecoverPoll,
     RecoverCRD, At, Starting
<1>2. UNCHANGED up /\ (UNCHANGED pending \/ Spawn("heal", Src(g)))
  <2>1. CASE MountStep(g)
    BY <2>1 DEF MountStep, MountCreateCRD, MountAddWorkload, MountCreatePod, MountInspectPod,
       MountAwaitGone, MountRecreatePod, MountAwaitRunning, MountAwaitFuse, MountKillPod, MountDropCRD
  <2>2. CASE UnmountStep(g)
    BY <2>2 DEF UnmountStep, UnmountTarget, UnmountShared, UnmountDeletePod, UnmountDeleteCRD
  <2>3. CASE RepairStep(g)
    BY <2>3 DEF RepairStep, CleanupRefs, CleanupSource, HealGetPod, HealReadCRD, HealAwaitGone,
       HealCreatePod, HealAwaitRunning, RebindLock, RebindPoll
  <2>4. CASE CleanerStep(g)
    BY <2>4 DEF CleanerStep, CleanerPrunes, CleanerGetsPod, CleanerPurges
  <2> QED BY <1>1, <2>1, <2>2, <2>3, <2>4 DEF Step
<1> QED
  BY <1>2 DEF NoStartup, Spawn

\* A goroutine that leaves a bare target is there already, or pops it now.
LEMMA StepLeaves ==
  ASSUME IInv, NEW g \in Slots, Step(g), ~UnmountTarget(g),
         NEW h \in Slots, run'[h].pc \in Leaving
  PROVE  run[h].pc \in Leaving /\ run'[h].tgt = run[h].tgt
<1>1. Idle.pc \notin Leaving /\ "cleanup.source" \notin Leaving /\ Mounting \cap Leaving = {}
      /\ Repairing \cap Leaving = {} /\ Starting \cap Leaving = {} /\ Cleaner \cap Leaving = {}
  BY DEF Idle, Mounting, Leaving, Repairing, Starting, Cleaner
<1> QED
  BY <1>1, StepMoves DEF Leaves, Jumps

\* A bare path stays bare.
LEMMA BareStays == UnmountAll(<<>>) = <<>>
<1>1. <<>> \in Seq({}) /\ Len(<<>>) = 0
  BY EmptySeq
<1>2. Len(UnmountAll(<<>>)) \in Nat /\ Len(UnmountAll(<<>>)) <= 0 /\ UnmountAll(<<>>) \in Seq({})
  BY <1>1, Lower, StackOps
<1> QED
  BY <1>2, EmptySeq

\* A call is under way for one goroutine only.
LEMMA MyCall ==
  ASSUME IInv, OneCall, NEW g \in Slots, run[g].pc \in Calling, NEW h \in Slots, h # g,
         run[h].pc \in Calling
  PROVE  Tgt(g) \in Targets /\ run[h].tgt \in Targets /\ run[h].tgt # Tgt(g)
  BY Locals DEF IInv, OneCall, Tgt

\* Steps that leave targets, binds and workloads alone.
LEMMA QuietKeepsBare ==
  ASSUME IInv, BInv, NEW g \in Slots, Step(g), UNCHANGED <<binds, wl>>,
         \A t \in Targets : stack'[t] = stack[t], ~UnmountTarget(g)
  PROVE  BInv'
<1>1. OneCall' /\ NoStartup'
  BY StepCalls, StepSpawns DEF BInv, NoStartup
<1>2. TrackedMounted' /\ UnpublishedIsBare'
  BY DEF BInv, TrackedMounted, UnpublishedIsBare
<1>3. LeftBare'
  <2> SUFFICES ASSUME NEW h \in Slots, run'[h].pc \in Leaving PROVE stack'[run'[h].tgt] = <<>>
    BY DEF LeftBare
  <2>1. run[h].pc \in Leaving /\ run'[h].tgt = run[h].tgt
    BY StepLeaves
  <2>2. run[h].tgt \in Targets
    BY <2>1, Locals, Labels DEF IInv, Tgt
  <2> QED BY <2>1, <2>2 DEF BInv, LeftBare
<1> QED
  BY <1>1, <1>2, <1>3 DEF BInv

\* NodeUnpublishVolume returns: the target is bare, and nobody works on it.
LEMMA UnpublishedKeepsBare ==
  ASSUME IInv, BInv, NEW g \in Slots, run[g].pc \in {"unmount.target"} \cup Leaving, Unpublished(g),
         stack'[Tgt(g)] = <<>>, \A t \in Targets \ {Tgt(g)} : stack'[t] = stack[t],
         UNCHANGED <<up, binds, pending>>, binds[Tgt(g)] = NoSource
  PROVE  BInv'
<1>1. /\ run[g].pc \in Calling /\ Tgt(g) \in Targets /\ Tgt(g) = run[g].tgt
      /\ wl' = [wl EXCEPT ![Tgt(g)] = "done"] /\ wl \in [Targets -> {"none", "live", "ended", "done"}]
  BY Labels, Locals DEF IInv, HostOK, Tgt, Unpublished
<1>2. run'[g] = Idle /\ \A h \in Slots \ {g} : run'[h] = run[h]
  BY DEF Unpublished, Return, IInv, RunOK
<1>3. Idle.tgt = NoTarget /\ Idle.pc \notin Calling \cup Starting
  BY Labels DEF Idle
<1>4. \A h \in Slots : run'[h].pc \in Calling =>
        /\ h # g /\ run'[h] = run[h] /\ run[h].tgt \in Targets /\ run[h].tgt # Tgt(g)
        /\ wl'[run[h].tgt] = wl[run[h].tgt] /\ stack'[run[h].tgt] = stack[run[h].tgt]
  BY <1>1, <1>2, <1>3, MyCall DEF BInv
<1>5. OneCall'
  <2>1. \A h, k \in Slots : (run'[h].tgt # NoTarget /\ run'[h].tgt = run'[k].tgt) => h = k
    BY <1>2, <1>3 DEF BInv, OneCall
  <2>2. \A h \in Slots : run'[h].tgt # NoTarget <=> run'[h].pc \in Calling
    BY <1>2, <1>3 DEF BInv, OneCall
  <2>3. \A h \in Slots : run'[h].pc \in Calling => wl'[run'[h].tgt] \in {"live", "ended"}
    BY <1>4 DEF BInv, OneCall
  <2>4. \A h \in Slots : run'[h].pc \in {"unmount.target"} \cup Leaving => wl'[run'[h].tgt] = "ended"
    BY <1>4, Labels DEF BInv, OneCall
  <2> QED BY <2>1, <2>2, <2>3, <2>4 DEF OneCall
<1>6. LeftBare'
  BY <1>4, Labels DEF BInv, LeftBare
<1>7. TrackedMounted' /\ UnpublishedIsBare'
  BY <1>1 DEF BInv, TrackedMounted, UnpublishedIsBare
<1>8. NoStartup'
  BY <1>2, <1>3 DEF BInv, NoStartup
<1> QED
  BY <1>5, <1>6, <1>7, <1>8 DEF BInv

\* Mount binds at the target of its call.
LEMMA MountKeepsBare ==
  ASSUME IInv, BInv, Undisturbed, NEW g \in Slots, MountAwaitFuse(g) PROVE BInv'
<1>1. /\ run[g].pc = "mount.fuse" /\ run[g].pc \in Calling /\ Tgt(g) \in Targets /\ Tgt(g) = run[g].tgt
      /\ Src(g) \in Sources /\ Src(g) # NoSource /\ Step(g) /\ ~UnmountTarget(g)
      /\ wl[Tgt(g)] # "done" /\ UNCHANGED wl
  <2>1. run[g].pc = "mount.fuse" /\ run[g].pc \in Calling /\ Step(g) /\ ~UnmountTarget(g) /\ UNCHANGED wl
    BY DEF MountAwaitFuse, UnmountTarget, At, Calling, Step, MountStep
  <2> QED BY <2>1, Locals, DriverNulls DEF IInv, Tgt, BInv, OneCall
<1>2. \/ UNCHANGED <<stack, binds>>
      \/ /\ stack' = [stack EXCEPT ![Tgt(g)] = Append(stack[Tgt(g)], Top(Src(g)))]
         /\ binds' = [binds EXCEPT ![Tgt(g)] = Src(g)]
  BY DEF MountAwaitFuse, Undisturbed, Fault, SetStack, StackBind
<1>3. CASE UNCHANGED <<stack, binds>>
  BY <1>1, <1>3, QuietKeepsBare
<1>4. CASE /\ stack' = [stack EXCEPT ![Tgt(g)] = Append(stack[Tgt(g)], Top(Src(g)))]
           /\ binds' = [binds EXCEPT ![Tgt(g)] = Src(g)]
  <2>1. \A t \in Targets \ {Tgt(g)} : stack'[t] = stack[t] /\ binds'[t] = binds[t]
    BY <1>4, SourceOfPath DEF IInv, StackOK, BindsOK
  <2>2. stack'[Tgt(g)] # <<>>
    <3>1. Tgt(g) \in Paths /\ stack[Tgt(g)] \in Seq(BlocksOf(PathSource(Tgt(g))))
      BY <1>1, SourceOfPath DEF IInv, StackOK
    <3>2. stack'[Tgt(g)] = Append(stack[Tgt(g)], Top(Src(g)))
      BY <1>4, <3>1 DEF IInv, StackOK
    <3>3. stack[Tgt(g)] \in Seq(BlocksOf(PathSource(Tgt(g))) \cup {Top(Src(g))})
      BY <3>1, SeqMonotonic
    <3> QED BY <3>2, <3>3, AppendProperties
  <2>3. TrackedMounted' /\ UnpublishedIsBare'
    BY <1>1, <2>1, <2>2 DEF BInv, TrackedMounted, UnpublishedIsBare
  <2>4. OneCall' /\ NoStartup'
    BY <1>1, StepCalls, StepSpawns DEF BInv, NoStartup
  <2>5. LeftBare'
    <3> SUFFICES ASSUME NEW h \in Slots, run'[h].pc \in Leaving PROVE stack'[run'[h].tgt] = <<>>
      BY DEF LeftBare
    <3>1. run[h].pc \in Leaving /\ run'[h].tgt = run[h].tgt /\ run[h].pc \in Calling /\ h # g
      BY <1>1, StepLeaves, Labels DEF Leaving
    <3>2. run[h].tgt \in Targets \ {Tgt(g)}
      BY <1>1, <3>1, MyCall DEF BInv
    <3> QED BY <2>1, <3>1, <3>2 DEF BInv, LeftBare
  <2> QED BY <2>3, <2>4, <2>5 DEF BInv
<1> QED
  BY <1>2, <1>3, <1>4

\* rebindTargets binds at tracked targets, which are mounted.
LEMMA RebindKeepsBare ==
  ASSUME IInv, BInv, Undisturbed, NEW g \in Slots, RebindPoll(g) PROVE BInv'
<1>1. /\ run[g].pc = "rebind.poll" /\ Src(g) \in Sources /\ Step(g) /\ ~UnmountTarget(g)
      /\ UNCHANGED <<wl, binds>>
  BY Locals DEF RebindPoll, UnmountTarget, At, Step, RepairStep, IInv
<1>2. ASSUME NEW t \in Targets, stack'[t] # stack[t]
      PROVE  stack[t] # <<>> /\ stack'[t] # <<>>
  <2>1. t \in BoundTargets(Src(g)) /\ stack'[t] = Append(stack[t], Top(Src(g)))
    BY <1>2, SourceOfPath DEF RebindPoll, Undisturbed, Fault, StackBind
  <2>2. stack[t] # <<>>
    BY <1>1, <2>1, DriverNulls DEF BoundTargets, BInv, TrackedMounted
  <2>3. stack[t] \in Seq(BlocksOf(PathSource(t)) \cup {Top(Src(g))})
    BY SourceOfPath, SeqMonotonic DEF IInv, StackOK
  <2> QED BY <2>1, <2>2, <2>3, AppendProperties
<1>3. TrackedMounted' /\ UnpublishedIsBare'
  BY <1>1, <1>2 DEF BInv, TrackedMounted, UnpublishedIsBare
<1>4. OneCall' /\ NoStartup'
  BY <1>1, StepCalls, StepSpawns DEF BInv, NoStartup
<1>5. LeftBare'
  <2> SUFFICES ASSUME NEW h \in Slots, run'[h].pc \in Leaving PROVE stack'[run'[h].tgt] = <<>>
    BY DEF LeftBare
  <2>1. run[h].pc \in Leaving /\ run'[h].tgt = run[h].tgt
    BY <1>1, StepLeaves
  <2>2. run[h].tgt \in Targets
    BY <2>1, Locals, Labels DEF IInv, Tgt
  <2> QED BY <1>2, <2>1, <2>2 DEF BInv, LeftBare
<1> QED
  BY <1>3, <1>4, <1>5 DEF BInv

\* cleanupSource forgets what it leaves bare.
LEMMA CleanupKeepsBare ==
  ASSUME IInv, BInv, NEW g \in Slots, CleanupSource(g) PROVE BInv'
<1>1. /\ run[g].pc = "cleanup.source" /\ Src(g) \in Sources /\ Step(g) /\ ~UnmountTarget(g)
      /\ UNCHANGED wl /\ run[g].set \subseteq Targets
  BY Locals DEF CleanupSource, UnmountTarget, At, Step, RepairStep, IInv
<1>2. ASSUME NEW t \in Targets
      PROVE  /\ stack'[t] = stack[t] \/ stack'[t] = UnmountAll(stack[t])
             /\ binds'[t] = NoSource \/ binds'[t] = binds[t]
             /\ stack'[t] = stack[t] \/ stack'[t] # <<>> \/ binds'[t] = NoSource
  <2>1. t \in Paths /\ t # Src(g)
    BY <1>1, SourceOfPath, PathsDistinct
  <2> QED BY <2>1 DEF CleanupSource, DeadPodRefs
<1>3. \A t \in Targets : stack[t] = <<>> => stack'[t] = <<>>
  BY <1>2, BareStays
<1>4. TrackedMounted' /\ UnpublishedIsBare'
  BY <1>1, <1>2, <1>3 DEF BInv, TrackedMounted, UnpublishedIsBare
<1>5. OneCall' /\ NoStartup'
  BY <1>1, StepCalls, StepSpawns DEF BInv, NoStartup
<1>6. LeftBare'
  <2> SUFFICES ASSUME NEW h \in Slots, run'[h].pc \in Leaving PROVE stack'[run'[h].tgt] = <<>>
    BY DEF LeftBare
  <2>1. run[h].pc \in Leaving /\ run'[h].tgt = run[h].tgt
    BY <1>1, StepLeaves
  <2>2. run[h].tgt \in Targets
    BY <2>1, Locals, Labels DEF IInv, Tgt
  <2> QED BY <1>3, <2>1, <2>2 DEF BInv, LeftBare
<1> QED
  BY <1>4, <1>5, <1>6 DEF BInv

\* Unmount pops the target, and goes on only if that leaves it bare.
LEMMA UnmountKeepsBare ==
  ASSUME IInv, BInv, NEW g \in Slots, UnmountTarget(g) PROVE BInv'
<1> DEFINE t == Tgt(g)
<1>1. /\ run[g].pc = "unmount.target" /\ run[g].pc \in Calling /\ t \in Targets /\ t = run[g].tgt
      /\ MountID[t] = Src(g) /\ Src(g) \in Sources /\ Step(g) /\ wl[t] = "ended" /\ t \in Paths
  <2>1. run[g].pc = "unmount.target" /\ run[g].pc \in Calling /\ Step(g)
    BY DEF UnmountTarget, At, Calling, Step, UnmountStep
  <2> QED BY <2>1, Locals, SourceOfPath DEF IInv, Tgt, BInv, OneCall
<1>2. SourceOf(t) = Src(g)
  BY <1>1, DriverNulls DEF SourceOf, BindsOK, IInv
<1>3. /\ \A u \in Targets \ {t} : stack'[u] = stack[u]
      /\ stack'[t] = UnmountAll(stack[t])
  BY <1>1, <1>2, SourceOfPath, PathsDistinct DEF UnmountTarget, IInv, StackOK
<1>4. [stack EXCEPT ![t] = UnmountAll(stack[t])][t] = UnmountAll(stack[t])
  BY <1>1 DEF IInv, StackOK
<1>5. \/ stack'[t] # <<>> /\ UNCHANGED <<wl, binds>> /\ Return(g)
      \/ stack'[t] = <<>> /\ Unpublished(g) /\ UNCHANGED binds /\ binds[t] = NoSource
      \/ stack'[t] = <<>> /\ UNCHANGED wl /\ binds' = [binds EXCEPT ![t] = NoSource]
  BY <1>3, <1>4 DEF UnmountTarget, RemoveFails
<1>6. CASE stack'[t] = <<>> /\ Unpublished(g) /\ UNCHANGED binds /\ binds[t] = NoSource
  <2>1. UNCHANGED <<up, pending>>
    BY DEF UnmountTarget
  <2> QED BY <1>1, <1>3, <1>6, <2>1, UnpublishedKeepsBare
<1>7. ASSUME UNCHANGED wl,
             \/ stack'[t] # <<>> /\ UNCHANGED binds /\ Return(g)
             \/ stack'[t] = <<>> /\ binds' = [binds EXCEPT ![t] = NoSource]
      PROVE  BInv'
  <2>1. TrackedMounted' /\ UnpublishedIsBare'
    BY <1>1, <1>3, <1>7 DEF BInv, TrackedMounted, UnpublishedIsBare, IInv, BindsOK
  <2>2. OneCall' /\ NoStartup'
    BY <1>1, <1>7, StepCalls, StepSpawns DEF BInv, NoStartup
  <2>3. LeftBare'
    <3> SUFFICES ASSUME NEW h \in Slots, run'[h].pc \in Leaving PROVE stack'[run'[h].tgt] = <<>>
      BY DEF LeftBare
    <3>1. \A k \in Slots \ {g} : run'[k] = run[k]
      BY <1>1, StepMoves DEF Leaves, Jumps
    <3>2. CASE h = g
      <4>1. ~Return(g)
        BY <3>2 DEF Return, IInv, RunOK, Idle, Leaving
      <4>2. run'[g].tgt = t
        BY <1>1, <3>2, StepMoves DEF Leaves, Jumps, Idle, Leaving
      <4> QED BY <1>7, <3>2, <4>1, <4>2
    <3>3. CASE h # g
      <4>1. run'[h] = run[h] /\ run[h].pc \in Calling
        BY <3>1, <3>3, Labels
      <4>2. run[h].tgt \in Targets \ {t}
        BY <1>1, <3>3, <4>1, MyCall DEF BInv
      <4> QED BY <1>3, <4>1, <4>2 DEF BInv, LeftBare
    <3> QED BY <3>2, <3>3
  <2> QED BY <2>1, <2>2, <2>3 DEF BInv
<1> QED
  BY <1>5, <1>6, <1>7

\* BInv is kept by the steps of a goroutine.
LEMMA StepKeepsBare ==
  ASSUME IInv, BInv, Undisturbed, NEW g \in Slots, Step(g) PROVE BInv'
<1>1. CASE MountAwaitFuse(g) \/ RebindPoll(g) \/ CleanupSource(g) \/ UnmountTarget(g)
  BY <1>1, MountKeepsBare, RebindKeepsBare, CleanupKeepsBare, UnmountKeepsBare
<1>2. CASE UnmountShared(g) \/ UnmountDeleteCRD(g)
  <2>1. /\ run[g].pc \in Leaving /\ Unpublished(g) /\ UNCHANGED <<stack, up, binds, pending>>
    BY <1>2 DEF UnmountShared, UnmountDeleteCRD, At, Leaving
  <2>2. Tgt(g) \in Targets /\ Tgt(g) = run[g].tgt
    BY <2>1, Locals, Labels DEF IInv, Tgt
  <2>3. stack[Tgt(g)] = <<>> /\ binds[Tgt(g)] = NoSource
    BY <2>1, <2>2 DEF BInv, LeftBare, TrackedMounted
  <2> QED BY <2>1, <2>3, UnpublishedKeepsBare
<1>3. CASE CleanerPurges(g)
  <2>1. UNCHANGED <<wl, binds>> /\ ~UnmountTarget(g) /\ run[g].pc = "gc.purge"
    BY <1>3 DEF CleanerPurges, UnmountTarget, At
  <2>2. \A t \in Targets : stack'[t] = stack[t]
    <3>1. Src(g) \in Sources
      BY <2>1, Locals DEF IInv
    <3> QED BY <1>3, <3>1, SourceOfPath, PathsDistinct DEF CleanerPurges, SetStack, IInv, StackOK
  <2> QED BY <2>1, <2>2, QuietKeepsBare
<1>4. CASE ~(\/ MountAwaitFuse(g) \/ RebindPoll(g) \/ CleanupSource(g) \/ UnmountTarget(g)
             \/ UnmountShared(g) \/ UnmountDeleteCRD(g) \/ CleanerPurges(g))
  <2>1. ~StartupStep(g)
    BY DEF BInv, NoStartup, StartupStep, AdoptPoll, AdoptTrack, AdoptSyncCRD, RecoverProbe,
       RecoverPoll, RecoverCRD, At, Starting
  <2>2. UNCHANGED <<stack, binds, wl>>
    <3>1. CASE MountStep(g)
      BY <1>4, <3>1 DEF MountStep, MountCreateCRD, MountAddWorkload, MountCreatePod, MountInspectPod,
         MountAwaitGone, MountRecreatePod, MountAwaitRunning, MountKillPod, MountDropCRD
    <3>2. CASE UnmountStep(g)
      BY <1>4, <3>2 DEF UnmountStep, UnmountDeletePod
    <3>3. CASE RepairStep(g)
      BY <1>4, <3>3 DEF RepairStep, CleanupRefs, HealGetPod, HealReadCRD, HealAwaitGone,
         HealCreatePod, HealAwaitRunning, RebindLock, hostVars
    <3>4. CASE CleanerStep(g)
      BY <1>4, <3>4 DEF CleanerStep, CleanerPrunes, CleanerGetsPod
    <3> QED BY <2>1, <3>1, <3>2, <3>3, <3>4 DEF Step
  <2> QED BY <1>4, <2>2, QuietKeepsBare
<1> QED
  BY <1>1, <1>2, <1>3, <1>4

\* A goroutine starts, and not in the middle of an Unmount or of a start-up.
LEMMA StartKeepsBare ==
  ASSUME IInv, BInv, NEW g \in Slots, NEW r, run' = [run EXCEPT ![g] = r],
         UNCHANGED <<stack, wl, up, binds>>, pending' \subseteq pending,
         r.pc \notin Leaving \cup Starting,
         \/ r.tgt = NoTarget /\ r.pc \notin Calling
         \/ /\ r.tgt \in Targets /\ Calls(r.tgt) = {}
            /\ \/ r.pc \in Mounting /\ wl[r.tgt] = "live"
               \/ r.pc = "unmount.target" /\ wl[r.tgt] = "ended"
  PROVE  BInv'
<1>1. run'[g] = r /\ \A h \in Slots \ {g} : run'[h] = run[h]
  BY DEF IInv, RunOK
<1>2. r.tgt # NoTarget <=> r.pc \in Calling
  BY DriverNulls, Labels
<1>3. OneCall'
  <2>1. \A h, k \in Slots : (run'[h].tgt # NoTarget /\ run'[h].tgt = run'[k].tgt) => h = k
    <3>1. \A h \in Slots : r.tgt # NoTarget => run[h].tgt # r.tgt
      BY DEF Calls
    <3> QED BY <1>1, <3>1 DEF BInv, OneCall
  <2>2. \A h \in Slots : run'[h].tgt # NoTarget <=> run'[h].pc \in Calling
    BY <1>1, <1>2 DEF BInv, OneCall
  <2>3. \A h \in Slots : run'[h].pc \in Calling => wl'[run'[h].tgt] \in {"live", "ended"}
    BY <1>1, Labels DEF BInv, OneCall
  <2>4. \A h \in Slots : run'[h].pc \in {"unmount.target"} \cup Leaving => wl'[run'[h].tgt] = "ended"
    BY <1>1, Labels DEF BInv, OneCall
  <2> QED BY <2>1, <2>2, <2>3, <2>4 DEF OneCall
<1>4. TrackedMounted' /\ UnpublishedIsBare' /\ LeftBare' /\ NoStartup'
  BY <1>1 DEF BInv, TrackedMounted, UnpublishedIsBare, LeftBare, NoStartup
<1> QED
  BY <1>3, <1>4 DEF BInv

\* BInv is kept by kubelet's calls: a target with a call in flight gets no other.
LEMMA CallsKeepBare ==
  ASSUME IInv, BInv, Undisturbed, NEW g \in Slots, NEW t \in Targets, Publish(g, t) \/ Unpublish(g, t)
  PROVE  BInv'
<1>1. Calls(t) = {} /\ up' = up /\ UNCHANGED <<stack, binds, pending>>
  BY DEF Publish, Unpublish, MayCall, Undisturbed, Fault
<1>2. ASSUME NEW l, NEW s
      PROVE  /\ [Idle EXCEPT !.pc = l, !.src = s, !.tgt = t].pc = l
             /\ [Idle EXCEPT !.pc = l, !.src = s, !.tgt = t].tgt = t
             /\ [Idle EXCEPT !.pc = l, !.tgt = t, !.src = s].pc = l
             /\ [Idle EXCEPT !.pc = l, !.tgt = t, !.src = s].tgt = t
  BY DEF Idle
<1>3. "mount.crd" \in Mounting /\ {"mount.crd", "unmount.target"} \cap (Leaving \cup Starting) = {}
  BY DEF Mounting, Leaving, Starting
<1>4. CASE Publish(g, t)
  <2> DEFINE r == [Idle EXCEPT !.pc = "mount.crd", !.src = MountID[t], !.tgt = t]
  <2>1. run' = [run EXCEPT ![g] = r] /\ wl[t] = "live" /\ UNCHANGED wl
    BY <1>4 DEF Publish
  <2>2. r.pc = "mount.crd" /\ r.tgt = t
    BY <1>2
  <2> HIDE DEF r
  <2> QED BY <1>1, <1>3, <2>1, <2>2, StartKeepsBare
<1>5. ASSUME Unpublish(g, t), stack[t] # <<>> PROVE BInv'
  <2> DEFINE r == [Idle EXCEPT !.pc = "unmount.target", !.tgt = t, !.src = SourceOf(t)]
  <2>1. run' = [run EXCEPT ![g] = r] /\ wl[t] = "ended" /\ UNCHANGED wl
    BY <1>5 DEF Unpublish
  <2>2. r.pc = "unmount.target" /\ r.tgt = t
    BY <1>2
  <2> HIDE DEF r
  <2> QED BY <1>1, <1>3, <2>1, <2>2, StartKeepsBare
<1>6. ASSUME Unpublish(g, t), stack[t] = <<>> PROVE BInv'
  <2>1. wl' = [wl EXCEPT ![t] = "done"] /\ UNCHANGED run
    BY <1>6 DEF Unpublish
  <2>2. \A u \in Targets \ {t} : wl'[u] = wl[u]
    BY <2>1 DEF IInv, HostOK
  <2>3. \A h \in Slots : run[h].pc \in Calling => run[h].tgt \in Targets \ {t}
    BY <1>1, Locals DEF Calls, IInv, Tgt
  <2>4. OneCall'
    BY <2>1, <2>2, <2>3, Labels DEF BInv, OneCall
  <2>5. TrackedMounted' /\ UnpublishedIsBare' /\ LeftBare' /\ NoStartup'
    BY <1>1, <1>6, <2>1, <2>2 DEF BInv, TrackedMounted, UnpublishedIsBare, LeftBare, NoStartup
  <2> QED BY <2>4, <2>5 DEF BInv
<1> QED
  BY <1>4, <1>5, <1>6

\* BInv is kept by the background work that starts.
LEMMA JobsKeepBare ==
  ASSUME IInv, BInv, NEW g \in Slots,
         (\E j \in Job : StartJob(g, j)) \/ (\E s \in Sources : CleanerLists(g, s))
  PROVE  BInv'
<1>1. ASSUME NEW l, NEW s, NEW S
      PROVE  /\ [Idle EXCEPT !.pc = l, !.src = s].pc = l
             /\ [Idle EXCEPT !.pc = l, !.src = s].tgt = NoTarget
             /\ [Idle EXCEPT !.pc = l, !.src = s, !.set = S].pc = l
             /\ [Idle EXCEPT !.pc = l, !.src = s, !.set = S].tgt = NoTarget
  BY DEF Idle
<1>2. {"cleanup.refs", "heal.get", "rebind.lock", "gc.stale"} \cap (Leaving \cup Starting \cup Calling) = {}
  BY DEF Leaving, Starting, Calling
<1>3. ASSUME NEW j \in Job, StartJob(g, j) PROVE BInv'
  <2> DEFINE l == FirstLabel[j.op]
             r == [Idle EXCEPT !.pc = l, !.src = j.src]
  <2>1. l \in {"cleanup.refs", "heal.get", "rebind.lock"}
    <3>1. j.op \in {"cleanup", "heal", "rebind"}
      BY <1>3 DEF StartJob, BInv, NoStartup
    <3> QED BY <3>1 DEF FirstLabel
  <2>2. /\ run' = [run EXCEPT ![g] = r] /\ UNCHANGED <<stack, wl, up, binds>>
        /\ pending' \subseteq pending
    BY <1>3 DEF StartJob, hostVars
  <2> HIDE DEF l
  <2>3. r.pc = l /\ r.tgt = NoTarget
    BY <1>1
  <2> HIDE DEF r
  <2> QED BY <1>2, <2>1, <2>2, <2>3, StartKeepsBare
<1>4. ASSUME NEW s \in Sources, CleanerLists(g, s) PROVE BInv'
  <2> DEFINE r == [Idle EXCEPT !.pc = "gc.stale", !.src = s, !.set = LivePodUIDs]
  <2>1. /\ run' = [run EXCEPT ![g] = r] /\ UNCHANGED <<stack, wl, up, binds>>
        /\ pending' \subseteq pending
    BY <1>4 DEF CleanerLists
  <2>2. r.pc = "gc.stale" /\ r.tgt = NoTarget
    BY <1>1
  <2> HIDE DEF r
  <2> QED BY <1>2, <2>1, <2>2, StartKeepsBare
<1> QED
  BY <1>3, <1>4

\* Events and the host: the mounts of targets stay, workloads begin and end.
LEMMA OthersKeepBare ==
  ASSUME IInv, BInv, Undisturbed,
         \/ HostStep \/ UNCHANGED vars \/ DriverStops \/ DriverStarts
         \/ \E s \in Sources : HandleAdd(s) \/ Scan(s) \/ ScanBlind(s)
  PROVE  BInv'
<1>1. ASSUME UNCHANGED <<up, binds, run>>,
             \A t \in Targets : stack'[t] = stack[t],
             \A t \in Targets : \/ wl'[t] = wl[t]
                                \/ wl[t] = "none" /\ wl'[t] = "live"
                                \/ wl[t] = "live" /\ wl'[t] = "ended",
             \A j \in pending' : j \in pending \/ j.op \in {"cleanup", "rebind"}
      PROVE  BInv'
  <2>1. \A h \in Slots : run[h].pc \in Calling => run[h].tgt \in Targets
    BY Locals DEF IInv, Tgt
  <2>2. OneCall'
    BY <1>1, <2>1, Labels DEF BInv, OneCall
  <2>3. TrackedMounted' /\ UnpublishedIsBare' /\ LeftBare' /\ NoStartup'
    BY <1>1, <2>1, Labels DEF BInv, TrackedMounted, UnpublishedIsBare, LeftBare, NoStartup
  <2> QED BY <2>2, <2>3 DEF BInv
<1>2. ~DriverStops /\ ~DriverStarts /\ \A s \in Sources : ~HandleAdd(s)
  BY DEF DriverStops, DriverStarts, HandleAdd, Undisturbed, Fault, BInv, NoStartup
<1>3. ASSUME NEW s \in Sources, Scan(s) \/ ScanBlind(s) PROVE BInv'
  BY <1>1, <1>3 DEF Scan, ScanBlind, Spawn, hostVars
<1>4. CASE UNCHANGED vars
  BY <1>1, <1>4 DEF vars, hostVars, driverVars
<1>5. CASE HostStep
  <2>1. UNCHANGED <<up, binds, run>>
    BY <1>5 DEF HostStep, driverVars
  <2>2. \A t \in Targets : stack'[t] = stack[t]
    <3>1. ASSUME NEW s \in Sources, HostDaemonMounts(s) PROVE \A t \in Targets : stack'[t] = stack[t]
      BY <3>1, SourceOfPath, PathsDistinct DEF HostDaemonMounts, IInv, StackOK
    <3> QED BY <1>5, <3>1 DEF HostStep, HostWorkloadStarts, HostWorkloadEnds, HostKubeletLeaks,
             HostCacheExpires, HostPodEvicted, HostPodStarts, HostContainerRestarts,
             HostPodTerminates, HostDaemonExits, HostPodRemoved
  <2>3. \A t \in Targets : \/ wl'[t] = wl[t]
                           \/ wl[t] = "none" /\ wl'[t] = "live"
                           \/ wl[t] = "live" /\ wl'[t] = "ended"
    <3>1. wl \in [Targets -> {"none", "live", "ended", "done"}]
      BY DEF IInv, HostOK
    <3> QED BY <1>5, <3>1 DEF HostStep, HostWorkloadStarts, HostWorkloadEnds, HostKubeletLeaks, Undisturbed, Fault,
             HostCacheExpires, HostDaemonMounts, HostPodEvicted, HostPodStarts, HostContainerRestarts,
             HostPodTerminates, HostDaemonExits, HostPodRemoved
  <2>4. \A j \in pending' : j \in pending \/ j.op \in {"cleanup", "rebind"}
    BY <1>5 DEF HostStep, driverVars, Notify, Spawn
  <2> QED BY <1>1, <2>1, <2>2, <2>3, <2>4
<1> QED
  BY <1>2, <1>3, <1>4, <1>5

\* Every step keeps BInv.
LEMMA NextBare ==
  ASSUME Undisturbed, IInv, BInv, [Next]_vars PROVE BInv'
<1>1. ASSUME NEW g \in Slots, Step(g) PROVE BInv'
  BY <1>1, StepKeepsBare
<1>2. ASSUME NEW g \in Slots, NEW t \in Targets, Publish(g, t) \/ Unpublish(g, t) PROVE BInv'
  BY <1>2, CallsKeepBare
<1>3. ASSUME NEW g \in Slots,
             (\E j \in Job : StartJob(g, j)) \/ (\E s \in Sources : CleanerLists(g, s))
      PROVE  BInv'
  BY <1>3, JobsKeepBare
<1>4. CASE \/ HostStep \/ UNCHANGED vars \/ DriverStops \/ DriverStarts
           \/ \E s \in Sources : HandleAdd(s) \/ Scan(s) \/ ScanBlind(s)
  BY <1>4, OthersKeepBare
<1> QED
  BY <1>1, <1>2, <1>3, <1>4 DEF Next, DriverStep, Quiescent

\* No workload has started at first.
LEMMA InitBare == Init => BInv
<1> SUFFICES ASSUME Init PROVE BInv
  OBVIOUS
<1>1. /\ \A t \in Targets : binds[t] = NoSource /\ wl[t] = "none"
      /\ \A g \in Slots : run[g].pc = "idle" /\ run[g].tgt = NoTarget
      /\ up = TRUE /\ pending = {}
  BY DEF Init, HostInit, Idle
<1>2. "idle" \notin Calling \cup Starting \cup Leaving
  BY DEF Calling, Starting, Leaving
<1> QED
  BY <1>1, <1>2, Labels DEF BInv, TrackedMounted, OneCall, LeftBare, NoStartup, UnpublishedIsBare

\* Nothing is mounted at a target whose NodeUnpublishVolume has succeeded, and
\* no repair in flight mounts there again: what rebindTargets binds is tracked,
\* what is tracked is mounted, and Unmount forgets a target in the step that
\* leaves it bare.  The disturbances excluded are those that break it: kubelet
\* that never calls ("leak"), a call beside one that was given up ("overlap"),
\* a restart while a target is listed and not yet bound, and a failed bind,
\* after either of which an entry of binds stands for a bare target.
THEOREM UnpublishedStaysBare ==
  ASSUME Undisturbed
  PROVE  SafeSpec => []UnpublishedIsBare
<1>1. IInv /\ BInv /\ [Next]_vars => (IInv /\ BInv)'
  BY NextIInv, NextBare
<1>2. BInv => UnpublishedIsBare
  BY DEF BInv
<1> QED
  BY <1>1, <1>2, InitIInv, InitBare, PTL DEF SafeSpec
=============================================================================
