----------------------------- MODULE NodePlugin -----------------------------
(***************************************************************************)
(* The node plugin process (runNode in cmd/hf-csi-driver/main.go, Run and  *)
(* Stop in pkg/driver/driver.go): the CSI server, the signal handler and   *)
(* the two goroutines of StartupTaint and VolData, which die with the      *)
(* process wherever they are and begin anew with the next one.             *)
(***************************************************************************)
EXTENDS StartupTaint, VolData

CONSTANTS MaxCalls,  \* calls in flight
          MaxFaults  \* signals, crashes and failing requests or writes

ASSUME ProcessAssumption == MaxCalls \in Nat /\ MaxFaults \in Nat

VARIABLES up,       \* the process runs
          server,   \* "none", "made" (d.srv set) or "serving"
          handler,  \* the signal handler: "waiting", "stopping" (stop channels
                    \* closed), "draining" (GracefulStop) or "finished"
          calls,    \* RPCs in flight
          faults

procVars == <<up, server, handler, calls, faults>>
vars == <<taintVars, volVars, procVars>>

Fault == faults > 0 /\ faults' = faults - 1
Stopped == handler # "waiting"

Init ==
  /\ TaintInit
  /\ VolInit
  /\ up = TRUE /\ server = "none" /\ handler = "waiting" /\ calls = 0
  /\ faults = MaxFaults

-----------------------------------------------------------------------------
(* The process. *)

\* Run removes a stale socket, starts watcher and recovery, listens and makes
\* the server.
Listen ==
  /\ up /\ server = "none" /\ server' = "made"
  /\ UNCHANGED <<taintVars, volVars, up, handler, calls, faults>>

\* Serve; it returns at once if the server has been stopped before.
Serve ==
  /\ up /\ server = "made" /\ handler # "draining" /\ server' = "serving"
  /\ UNCHANGED <<taintVars, volVars, up, handler, calls, faults>>

\* main returns: nobody waits for the goroutines.
Exit ==
  /\ up' = FALSE /\ server' = "none" /\ handler' = "waiting" /\ calls' = 0
  /\ remover' = "off" /\ read' = {}
  /\ sweep' = "off" /\ todo' = {} /\ at' = NoVolume
  /\ UNCHANGED <<taints, listed, changes, pod, kubelet, dir, file>>

Crash == up /\ Fault /\ Exit

Start ==
  /\ ~up /\ up' = TRUE
  /\ remover' = "wait" /\ sweep' = "idle"
  /\ UNCHANGED <<taints, listed, read, changes, pod, kubelet, dir, file, todo, at>>
  /\ UNCHANGED <<server, handler, calls, faults>>

\* The handler cancels the taint context and closes the stop channels.
Signal ==
  /\ up /\ handler = "waiting" /\ Fault
  /\ handler' = "stopping"
  /\ UNCHANGED <<taintVars, volVars, up, server, calls>>

\* Stop: without a server there is nothing to stop.
Stop ==
  /\ up /\ handler = "stopping"
  /\ handler' = IF server = "none" THEN "finished" ELSE "draining"
  /\ UNCHANGED <<taintVars, volVars, up, server, calls, faults>>

\* GracefulStop returns when no call is in flight; Serve and main return.
Drained == up /\ handler = "draining" /\ calls = 0 /\ Exit /\ UNCHANGED faults

\* Mutant of StopTimesOut: GracefulStop without a deadline.
NeverTimesOut == FALSE /\ UNCHANGED vars

\* After ten seconds the calls in flight are cut off.
StopTimesOut == up /\ handler = "draining" /\ Exit /\ UNCHANGED faults

\* kubelet kills the process at the end of its grace period (external).
Killed == up /\ handler = "finished" /\ Exit /\ UNCHANGED faults

\* A call of kubelet comes, and may take any time (external).
Call ==
  /\ up /\ server = "serving" /\ handler # "draining" /\ calls < MaxCalls
  /\ calls' = calls + 1
  /\ UNCHANGED <<taintVars, volVars, up, server, handler, faults>>
CallReturns ==
  /\ calls > 0 /\ calls' = calls - 1
  /\ UNCHANGED <<taintVars, volVars, up, server, handler, faults>>

-----------------------------------------------------------------------------
(* The goroutines in the process. *)

RemoverStep ==
  /\ up
  /\ waitForCSINodeDriver \/ GetNode \/ PatchNode
  /\ UNCHANGED <<volVars, procVars>>
RemoverFails ==
  /\ up /\ PatchTimesOut /\ Fault
  /\ UNCHANGED <<volVars, up, server, handler, calls>>
RemoverStops ==
  /\ up /\ Stopped /\ RemoverCancelled
  /\ UNCHANGED <<volVars, procVars>>

ReconcilerStep ==
  /\ up /\ Reconcile
  /\ UNCHANGED <<taintVars, procVars>>
ReconcilerFails ==
  /\ up /\ (WriteFails \/ RemoveFails) /\ Fault
  /\ UNCHANGED <<taintVars, up, server, handler, calls>>
ReconcilerStops ==
  /\ up /\ Stopped /\ SweeperStops
  /\ UNCHANGED <<taintVars, procVars>>

\* node-driver-registrar finds the socket, kubelet lists the driver; it drops
\* the driver when the process is gone.
Registration ==
  /\ \/ up /\ server = "serving" /\ KubeletLists(TRUE)
     \/ ~up /\ KubeletLists(FALSE)
  /\ UNCHANGED <<volVars, procVars>>

OtherControllers == (\E t \in OtherTaints : OthersChange(t)) /\ UNCHANGED <<volVars, procVars>>
KubeletMoves == KubeletStep /\ UNCHANGED <<taintVars, procVars>>

Process == Listen \/ Serve \/ Start \/ Stop \/ Drained \/ StopTimesOut

Next ==
  \/ Process \/ Crash \/ Signal \/ Killed \/ Call \/ CallReturns
  \/ RemoverStep \/ RemoverFails \/ RemoverStops
  \/ ReconcilerStep \/ ReconcilerFails \/ ReconcilerStops
  \/ Registration \/ OtherControllers \/ KubeletMoves

\* The scheduler runs the goroutines and the timers fire; kubelet restarts and
\* registers the plugin, kills one that overstays its grace period, and goes
\* on with volumes of deleted pods; time passes.  Nothing makes a call return.
Fairness ==
  /\ WF_vars(Process) /\ WF_vars(Killed)
  /\ WF_vars(RemoverStep) /\ WF_vars(ReconcilerStep)
  /\ WF_vars(up /\ Registration)
  /\ \A v \in Volumes : WF_vars(KubeletMoves /\ (TearDown(v) \/ DirAges(v)))

Spec == Init /\ [][Next]_vars /\ Fairness

-----------------------------------------------------------------------------
(* Properties. *)

\* Types.  GracefulStop has a server, a call in flight a serving one.
TypeOK ==
  /\ TaintTypeOK /\ VolTypeOK
  /\ up \in BOOLEAN
  /\ server \in {"none", "made", "serving"}
  /\ handler \in {"waiting", "stopping", "draining", "finished"}
  /\ calls \in 0..MaxCalls
  /\ faults \in 0..MaxFaults
  /\ handler = "draining" => server # "none"
  /\ calls > 0 => server = "serving"

\* The taints of other controllers are changed by these controllers only,
\* whatever they do between the read and the patch (tryRemoveNodeTaint).
OthersTaintsKept == [][Kept(taints') # Kept(taints) => OtherControllers]_vars

\* The startup taint goes for good, through conflicts, lost answers, signals
\* and crashes, once other controllers leave the list alone.
TaintLifted == <>[]~Tainted

Repairing(v) == at = v /\ sweep \in {"write", "remove"}

\* A sweep touches a vol_data.json of kubelet's, or a directory kubelet is
\* busy with, only if it had created the file before (repairVolData: "we leave
\* the real file untouched").
FileOfKubeletKept ==
  [][\A v \in Volumes :
       file'[v] # file[v] /\ sweep' # sweep /\ ~Repairing(v)
         => /\ file[v] = "none" /\ v \in Ours
            /\ dir[v] = "stale"]_vars

\* A file kubelet cannot parse stays behind only if the process dies in the
\* repair, or if after the write its removal fails too: one failing system call
\* does not do it ("don't leave a partial file the next sweep would skip").
PartialOnlyUnremoved ==
  [][\A v \in Volumes :
       (file[v] = "partial" /\ Repairing(v)) /\ (file'[v] = "partial" /\ ~Repairing(v)')
         => ~up' \/ (sweep = "remove" /\ faults' < faults)]_vars

\* A volume of ours that kubelet cannot unmount for want of vol_data.json is
\* unmounted in the end, unless an exit or a removal that failed has left a
\* partial file.
Unwedged ==
  \A v \in Ours : kubelet[v] = "wedged"
                    ~> (kubelet[v] = "clean" \/ (file[v] = "partial" /\ ~Repairing(v)))

\* A process that is told to stop when it has its server ends by itself, even
\* if a call never returns.
StopsByItself == (handler = "stopping" /\ server # "none") ~> ~up
=============================================================================
