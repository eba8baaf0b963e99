-------------------------- MODULE NodePluginProofs --------------------------
(***************************************************************************)
(* For every set of taints and volumes and any number of faults, the       *)
(* goroutines of the node plugin leave the taints of other controllers     *)
(* and the files of kubelet alone, and a partial vol_data.json survives    *)
(* only the end of the process or a failing removal.                       *)
(***************************************************************************)
EXTENDS NodePlugin, TLAPS

\* The reconciler dies with the process.
DownIsOff == ~up => sweep = "off"

\* A sweep looks at volumes of this driver only.
SweepsOurs == todo \subseteq Ours /\ (at # NoVolume => at \in Ours)

\* Before kubelet has set a volume up there is nothing on disk.
BareUntilSetUp == \A v \in Volumes : kubelet[v] = "none" => dir[v] = "none" /\ file[v] = "none"

\* Between the look at the directory and the creation of the file: kubelet may
\* have written its own file or taken the directory away, but a directory that
\* is still without a file has not been touched since.
OpenIsStale ==
  sweep = "open" => /\ kubelet[at] # "none"
                    /\ dir[at] # "none" /\ file[at] = "none" => dir[at] = "stale"

\* TypeOK and the parts above, by component.
VolInv == VolTypeOK /\ SweepsOurs /\ BareUntilSetUp /\ OpenIsStale
ProcInv ==
  /\ up \in BOOLEAN
  /\ server \in {"none", "made", "serving"}
  /\ handler \in {"waiting", "stopping", "draining", "finished"}
  /\ calls \in 0..MaxCalls
  /\ faults \in 0..MaxFaults
  /\ handler = "draining" => server # "none"
  /\ calls > 0 => server = "serving"

IInv == TaintTypeOK /\ VolInv /\ ProcInv /\ DownIsOff

-----------------------------------------------------------------------------

LEMMA InitIInv == Init => IInv
<1> SUFFICES ASSUME Init PROVE IInv
  OBVIOUS
<1>1. TaintTypeOK
  <2>1. taints \subseteq StartupTaints \cup OtherTaints /\ read \subseteq StartupTaints \cup OtherTaints
    BY DEF Init, TaintInit
  <2>2. changes \in 0..MaxChanges
    BY TaintAssumption DEF Init, TaintInit
  <2> QED
    BY <2>1, <2>2 DEF Init, TaintInit, TaintTypeOK
<1>2. VolTypeOK
  BY VolumeAssumption DEF Init, VolInit, VolTypeOK
<1>3. SweepsOurs /\ BareUntilSetUp /\ OpenIsStale
  BY VolumeAssumption DEF Init, VolInit, SweepsOurs, BareUntilSetUp, OpenIsStale
<1>4. ProcInv /\ DownIsOff
  BY ProcessAssumption DEF Init, ProcInv, DownIsOff
<1> QED
  BY <1>1, <1>2, <1>3, <1>4 DEF IInv, VolInv

\* The steps of a sweep keep what is known of the volumes.
LEMMA ReconcileStep ==
  ASSUME VolInv, Reconcile \/ WriteFails \/ RemoveFails \/ SweeperStops
  PROVE  VolInv'
<1> USE VolumeAssumption DEF VolInv, VolTypeOK, Continue
<1>1. CASE List
  BY <1>1 DEF List, ownedVolumes, SweepsOurs, BareUntilSetUp, OpenIsStale
<1>2. ASSUME NEW v \in Volumes, LstatData(v)
      PROVE  VolInv'
  BY <1>2 DEF LstatData, SweepsOurs, BareUntilSetUp, OpenIsStale
<1>3. CASE LstatDir
  BY <1>3 DEF LstatDir, SweepsOurs, BareUntilSetUp, OpenIsStale
<1>4. CASE OpenFile
  BY <1>4 DEF OpenFile, SweepsOurs, BareUntilSetUp, OpenIsStale
<1>5. CASE WriteAndClose
  <2>0. at \in Volumes /\ UNCHANGED <<todo, pod, kubelet, dir>>
    BY <1>5 DEF WriteAndClose
  <2>1. Written(at) \in {"none", "recovery", "mixed"} /\ (file[at] = "none" => Written(at) = "none")
    BY DEF Written
  <2> QED
    BY <1>5, <2>0, <2>1 DEF WriteAndClose, SweepsOurs, BareUntilSetUp, OpenIsStale
<1>6. CASE Remove
  BY <1>6 DEF Remove, SweepsOurs, BareUntilSetUp, OpenIsStale
<1>7. CASE WriteFails \/ RemoveFails \/ SweeperStops
  BY <1>7 DEF WriteFails, RemoveFails, SweeperStops, SweepsOurs, BareUntilSetUp, OpenIsStale
<1> QED
  BY <1>1, <1>2, <1>3, <1>4, <1>5, <1>6, <1>7 DEF Reconcile

\* So do kubelet, the API server and the clock.
LEMMA KubeletStepStep ==
  ASSUME VolInv, KubeletStep
  PROVE  VolInv'
<1> PICK v \in Volumes : \/ SetUp(v) \/ SaveVolData(v) \/ PodDeleted(v)
                         \/ TearDown(v) \/ PodFinalized(v) \/ DirAges(v)
  BY DEF KubeletStep
<1> USE DEF VolInv, VolTypeOK, SweepsOurs, BareUntilSetUp, OpenIsStale
<1>1. CASE SetUp(v)
  BY <1>1 DEF SetUp
<1>2. CASE SaveVolData(v)
  BY <1>2 DEF SaveVolData
<1>3. CASE PodDeleted(v)
  BY <1>3 DEF PodDeleted
<1>4. CASE TearDown(v)
  BY <1>4 DEF TearDown
<1>5. CASE PodFinalized(v) \/ DirAges(v)
  BY <1>5 DEF PodFinalized, DirAges
<1> QED
  BY <1>1, <1>2, <1>3, <1>4, <1>5

\* The goroutine of the startup taint, and those who change the list besides.
LEMMA TaintStep ==
  ASSUME TaintTypeOK,
         \/ waitForCSINodeDriver \/ GetNode \/ PatchNode \/ PatchTimesOut \/ RemoverCancelled
         \/ KubeletLists(TRUE) \/ KubeletLists(FALSE)
         \/ \E t \in OtherTaints : OthersChange(t)
  PROVE  TaintTypeOK'
<1> USE TaintAssumption DEF TaintTypeOK
<1>1. CASE waitForCSINodeDriver \/ GetNode \/ RemoverCancelled
  BY <1>1 DEF waitForCSINodeDriver, GetNode, RemoverCancelled
<1>2. CASE PatchNode \/ PatchTimesOut
  BY <1>2 DEF PatchNode, PatchTimesOut, Kept
<1>3. CASE KubeletLists(TRUE) \/ KubeletLists(FALSE)
  BY <1>3 DEF KubeletLists
<1>4. CASE \E t \in OtherTaints : OthersChange(t)
  BY <1>4 DEF OthersChange
<1> QED
  BY <1>1, <1>2, <1>3, <1>4

\* The end of the process, in whatever way it comes.
LEMMA ExitStep ==
  ASSUME IInv, Exit, faults' \in 0..MaxFaults
  PROVE  IInv'
<1>1. TaintTypeOK'
  BY DEF IInv, TaintTypeOK, Exit
<1>2. ProcInv'
  <2>1. calls' \in 0..MaxCalls /\ ~(calls' > 0)
    BY ProcessAssumption, SMT DEF Exit
  <2>2. up' \in BOOLEAN
    BY Zenon DEF Exit
  <2>3. /\ server' \in {"none", "made", "serving"}
        /\ handler' \in {"waiting", "stopping", "draining", "finished"}
        /\ handler' # "draining"
    BY Zenon DEF Exit
  <2> QED
    BY <2>1, <2>2, <2>3, Zenon DEF ProcInv
<1>3. VolInv' /\ DownIsOff'
  BY VolumeAssumption
     DEF IInv, VolInv, VolTypeOK, Exit, DownIsOff, SweepsOurs, BareUntilSetUp, OpenIsStale
<1> QED
  BY <1>1, <1>2, <1>3 DEF IInv

LEMMA NextIInv == IInv /\ [Next]_vars => IInv'
<1> SUFFICES ASSUME IInv, [Next]_vars PROVE IInv'
  OBVIOUS
<1>0. TaintTypeOK /\ VolInv /\ ProcInv /\ DownIsOff
  BY DEF IInv
<1>v. UNCHANGED volVars => VolInv'
  BY <1>0 DEF volVars, VolInv, VolTypeOK, SweepsOurs, BareUntilSetUp, OpenIsStale
<1>t. UNCHANGED taintVars => TaintTypeOK'
  BY <1>0 DEF taintVars, TaintTypeOK
<1>p. UNCHANGED procVars => ProcInv'
  BY <1>0 DEF procVars, ProcInv
<1>f. Fault => faults' \in 0..MaxFaults
  BY <1>0, ProcessAssumption DEF Fault, ProcInv
<1>1. CASE Listen \/ Serve \/ Signal \/ Stop \/ Call \/ CallReturns
  <2>1. ProcInv' /\ up' = up
    BY <1>0, <1>1, ProcessAssumption
       DEF ProcInv, Listen, Serve, Signal, Fault, Stop, Call, CallReturns
  <2>2. UNCHANGED volVars /\ UNCHANGED taintVars
    BY <1>1 DEF Listen, Serve, Signal, Stop, Call, CallReturns
  <2>3. DownIsOff'
    BY <1>0, <2>1, <2>2 DEF DownIsOff, volVars
  <2> QED
    BY <1>v, <1>t, <2>1, <2>2, <2>3 DEF IInv
<1>2. CASE Crash
  BY <1>2, <1>f, ExitStep DEF Crash
<1>3. CASE Drained \/ StopTimesOut \/ Killed
  <2>1. faults' \in 0..MaxFaults
    BY <1>0, <1>3 DEF Drained, StopTimesOut, Killed, ProcInv
  <2> QED
    BY <1>3, <2>1, ExitStep DEF Drained, StopTimesOut, Killed
<1>4. CASE Start
  <2>1. sweep = "off" /\ todo = {} /\ at = NoVolume
    BY <1>0, <1>4 DEF Start, DownIsOff, VolInv, VolTypeOK
  <2>2. TaintTypeOK' /\ ProcInv' /\ DownIsOff'
    BY <1>0, <1>4 DEF Start, TaintTypeOK, ProcInv, DownIsOff
  <2>3. VolInv'
    BY <1>0, <1>4, <2>1 DEF Start, VolInv, VolTypeOK, SweepsOurs, BareUntilSetUp, OpenIsStale
  <2> QED
    BY <2>2, <2>3 DEF IInv
<1>5. CASE RemoverStep \/ RemoverStops
  <2>1. TaintTypeOK'
    BY <1>0, <1>5, TaintStep DEF RemoverStep, RemoverStops
  <2>2. UNCHANGED <<volVars, procVars>>
    BY <1>5 DEF RemoverStep, RemoverStops
  <2>3. DownIsOff'
    BY <1>0, <2>2 DEF DownIsOff, volVars, procVars
  <2> QED
    BY <1>v, <1>p, <2>1, <2>2, <2>3 DEF IInv
<1>6. CASE RemoverFails
  <2>1. TaintTypeOK'
    BY <1>0, <1>6, TaintStep DEF RemoverFails
  <2>2. ProcInv'
    BY <1>0, <1>6, <1>f DEF RemoverFails, ProcInv
  <2>3. DownIsOff' /\ UNCHANGED volVars
    BY <1>0, <1>6 DEF RemoverFails, DownIsOff, volVars
  <2> QED
    BY <1>v, <2>1, <2>2, <2>3 DEF IInv
<1>7. CASE ReconcilerStep \/ ReconcilerStops
  <2>1. VolInv'
    BY <1>0, <1>7, ReconcileStep DEF ReconcilerStep, ReconcilerStops
  <2>2. up /\ UNCHANGED <<taintVars, procVars>>
    BY <1>7 DEF ReconcilerStep, ReconcilerStops
  <2>3. DownIsOff'
    BY <2>2 DEF DownIsOff, procVars
  <2> QED
    BY <1>t, <1>p, <2>1, <2>2, <2>3 DEF IInv
<1>8. CASE ReconcilerFails
  <2>1. VolInv'
    BY <1>0, <1>8, ReconcileStep DEF ReconcilerFails
  <2>2. ProcInv'
    BY <1>0, <1>8, <1>f DEF ReconcilerFails, ProcInv
  <2>3. DownIsOff' /\ UNCHANGED taintVars
    BY <1>8 DEF ReconcilerFails, DownIsOff
  <2> QED
    BY <1>t, <2>1, <2>2, <2>3 DEF IInv
<1>9. CASE Registration \/ OtherControllers
  <2>1. TaintTypeOK'
    BY <1>0, <1>9, TaintStep DEF Registration, OtherControllers
  <2>2. UNCHANGED <<volVars, procVars>>
    BY <1>9 DEF Registration, OtherControllers
  <2>3. DownIsOff'
    BY <1>0, <2>2 DEF DownIsOff, volVars, procVars
  <2> QED
    BY <1>v, <1>p, <2>1, <2>2, <2>3 DEF IInv
<1>10. CASE KubeletMoves
  <2>1. VolInv'
    BY <1>0, <1>10, KubeletStepStep DEF KubeletMoves
  <2>2. UNCHANGED <<taintVars, procVars>>
    BY <1>10 DEF KubeletMoves
  <2>3. UNCHANGED sweep
    BY <1>10 DEF KubeletMoves, KubeletStep, SetUp, SaveVolData, PodDeleted, TearDown,
                 PodFinalized, DirAges
  <2>4. DownIsOff'
    BY <1>0, <2>2, <2>3 DEF DownIsOff, procVars
  <2> QED
    BY <1>t, <1>p, <2>1, <2>2, <2>4 DEF IInv
<1>11. CASE UNCHANGED vars
  <2>1. UNCHANGED volVars /\ UNCHANGED taintVars /\ UNCHANGED procVars
    BY <1>11 DEF vars
  <2>2. DownIsOff'
    BY <1>0, <2>1 DEF DownIsOff, volVars, procVars
  <2> QED
    BY <1>v, <1>t, <1>p, <2>1, <2>2 DEF IInv
<1> QED
  BY <1>1, <1>2, <1>3, <1>4, <1>5, <1>6, <1>7, <1>8, <1>9, <1>10, <1>11
     DEF Next, Process

LEMMA IInvAlways == Spec => []IInv
  BY InitIInv, NextIInv, PTL DEF Spec

\* The state of the process and its goroutines stays well typed: GracefulStop
\* has a server, a call in flight a serving one.
THEOREM TypeCorrect == Spec => []TypeOK
<1>1. IInv => TypeOK
  BY Zenon DEF IInv, VolInv, ProcInv, TypeOK
<1> QED
  BY <1>1, IInvAlways, PTL

-----------------------------------------------------------------------------
(* The action properties. *)

\* A step that leaves the list of taints alone, or replaces it by what the
\* remover keeps of it, keeps the taints of the others.
LEMMA NextTaints ==
  ASSUME IInv, [Next]_vars
  PROVE  taints' = taints \/ taints' = Kept(taints) \/ OtherControllers
<1>1. CASE RemoverStep
  BY <1>1 DEF RemoverStep, waitForCSINodeDriver, GetNode, PatchNode
<1>2. CASE RemoverFails
  BY <1>2 DEF RemoverFails, PatchTimesOut
<1>3. CASE RemoverStops \/ Registration
  BY <1>3 DEF RemoverStops, Registration, RemoverCancelled, KubeletLists
<1>4. CASE Listen \/ Serve \/ Signal \/ Stop \/ Call \/ CallReturns
  BY <1>4 DEF Listen, Serve, Signal, Stop, Call, CallReturns, taintVars
<1>5. CASE Crash \/ Drained \/ StopTimesOut \/ Killed \/ Start
  BY <1>5 DEF Crash, Drained, StopTimesOut, Killed, Start, Exit
<1>6. CASE ReconcilerStep \/ ReconcilerFails \/ ReconcilerStops \/ KubeletMoves
  BY <1>6 DEF ReconcilerStep, ReconcilerFails, ReconcilerStops, KubeletMoves, taintVars
<1>7. CASE UNCHANGED vars
  BY <1>7 DEF vars, taintVars
<1> QED
  BY <1>1, <1>2, <1>3, <1>4, <1>5, <1>6, <1>7 DEF Next, Process

\* tryRemoveNodeTaint never adds or drops a taint of another controller,
\* whatever these do between its read and its patch.
THEOREM RemoverKeepsOthers == Spec => OthersTaintsKept
<1>1. IInv /\ [Next]_vars => [Kept(taints') # Kept(taints) => OtherControllers]_vars
  <2> SUFFICES ASSUME IInv, [Next]_vars, Kept(taints') # Kept(taints)
               PROVE  OtherControllers
    OBVIOUS
  <2>1. Kept(Kept(taints)) = Kept(taints)
    BY DEF Kept
  <2> QED
    BY <2>1, NextTaints
<1> QED
  BY <1>1, IInvAlways, PTL DEF Spec, OthersTaintsKept

\* What a step can do to vol_data.json: kubelet's own steps leave the sweep
\* where it is, the rest of the process leaves the files alone.
LEMMA NextFiles ==
  ASSUME IInv, [Next]_vars
  PROVE  \/ UNCHANGED sweep /\ UNCHANGED at
         \/ UNCHANGED file /\ (~up' \/ sweep \notin {"write", "remove"})
         \/ UNCHANGED <<file, at>> /\ sweep = "write" /\ sweep' = "remove"
         \/ OpenFile \/ WriteAndClose \/ Remove
         \/ UNCHANGED file /\ sweep = "remove" /\ faults' < faults
<1>1. CASE ReconcilerStep
  BY <1>1 DEF ReconcilerStep, Reconcile, List, LstatData, LstatDir
<1>2. CASE ReconcilerFails
  BY <1>2 DEF ReconcilerFails, WriteFails, RemoveFails, Fault, IInv, ProcInv
<1>3. CASE ReconcilerStops
  BY <1>3 DEF ReconcilerStops, SweeperStops
<1>4. CASE Crash \/ Drained \/ StopTimesOut \/ Killed
  BY <1>4 DEF Crash, Drained, StopTimesOut, Killed, Exit
<1>5. CASE Start
  BY <1>5 DEF Start, IInv, DownIsOff
<1>6. CASE Listen \/ Serve \/ Signal \/ Stop \/ Call \/ CallReturns
  BY <1>6 DEF Listen, Serve, Signal, Stop, Call, CallReturns, volVars
<1>7. CASE \/ RemoverStep \/ RemoverFails \/ RemoverStops
           \/ Registration \/ OtherControllers
  BY <1>7 DEF RemoverStep, RemoverFails, RemoverStops, Registration, OtherControllers, volVars
<1>8. CASE KubeletMoves
  BY <1>8 DEF KubeletMoves, KubeletStep, SetUp, SaveVolData, PodDeleted, TearDown,
              PodFinalized, DirAges
<1>9. CASE UNCHANGED vars
  BY <1>9 DEF vars, volVars
<1> QED
  BY <1>1, <1>2, <1>3, <1>4, <1>5, <1>6, <1>7, <1>8, <1>9 DEF Next, Process

\* A sweep creates vol_data.json only for a volume of this driver, in a
\* directory that has had no file and no change since it looked, and touches
\* no other file.
THEOREM SweepSparesKubelet == Spec => FileOfKubeletKept
<1>1. IInv /\ [Next]_vars =>
        [\A v \in Volumes :
           file'[v] # file[v] /\ sweep' # sweep /\ ~Repairing(v)
             => /\ file[v] = "none" /\ v \in Ours
                /\ dir[v] = "stale"]_vars
  <2> SUFFICES ASSUME IInv, [Next]_vars, NEW v \in Volumes,
                      file'[v] # file[v], sweep' # sweep, ~Repairing(v)
               PROVE  file[v] = "none" /\ v \in Ours /\ dir[v] = "stale"
    OBVIOUS
  <2> USE DEF IInv, VolInv, VolTypeOK
  <2>1. CASE OpenFile
    BY <2>1 DEF OpenFile, SweepsOurs, OpenIsStale
  <2>2. CASE WriteAndClose \/ Remove
    BY <2>2 DEF WriteAndClose, Remove, Repairing
  <2> QED
    BY <2>1, <2>2, NextFiles
<1> QED
  BY <1>1, IInvAlways, PTL DEF Spec, FileOfKubeletKept

\* A repair that is broken off leaves no unparsable file behind, unless the
\* process ends in between or the removal after a failed write fails as well.
THEOREM PartialFilesOnlyUnremoved == Spec => PartialOnlyUnremoved
<1>1. IInv /\ [Next]_vars =>
        [\A v \in Volumes :
           (file[v] = "partial" /\ Repairing(v)) /\ (file'[v] = "partial" /\ ~Repairing(v)')
             => ~up' \/ (sweep = "remove" /\ faults' < faults)]_vars
  <2> SUFFICES ASSUME IInv, [Next]_vars, NEW v \in Volumes,
                      file[v] = "partial", Repairing(v),
                      file'[v] = "partial", ~Repairing(v)'
               PROVE  ~up' \/ (sweep = "remove" /\ faults' < faults)
    OBVIOUS
  <2> USE DEF IInv, VolInv, VolTypeOK, Repairing
  <2>1. CASE OpenFile
    BY <2>1 DEF OpenFile
  <2>2. CASE WriteAndClose
    BY <2>2 DEF WriteAndClose, Written
  <2>3. CASE Remove
    BY <2>3 DEF Remove
  <2> QED
    BY <2>1, <2>2, <2>3, NextFiles
<1> QED
  BY <1>1, IInvAlways, PTL DEF Spec, PartialOnlyUnremoved
=============================================================================
