------------------------------- MODULE HFMount -------------------------------
(***************************************************************************)
(* What the methods of hfMountClient (pkg/driver/hfmount.go) do to the     *)
(* workload list of an HFMount custom resource.  The list is a set of      *)
(* attachments; "old" says that attachmentTime lies more than              *)
(* staleThreshold (two minutes) back.                                      *)
(***************************************************************************)

CONSTANTS Targets,  \* kubelet target paths, each of one workload pod
          NoUID     \* the pod UID of a request without podInfoOnMount

\* The workload pod that owns target path t is written t as well: kubelet
\* puts the pod UID into the path, one volume of one pod has one path.
PodUIDs == Targets \cup {NoUID}

Workload == [uid : PodUIDs, target : Targets, old : BOOLEAN]

\* Mutant: no attachment is ever stale.
RemainingWorkloadsKeep(workloads, livePodUIDs) == workloads

\* Mutant: no threshold, only the list of pods counts.
RemainingWorkloadsNow(workloads, livePodUIDs) == {w \in workloads : w.uid \in livePodUIDs}

\* addWorkload: at most one attachment per target path; a path that is
\* already listed keeps its first UID and time.
AddWorkload(workloads, podUID, targetPath) ==
  IF \E w \in workloads : w.target = targetPath
  THEN workloads
  ELSE workloads \cup {[uid |-> podUID, target |-> targetPath, old |-> FALSE]}

\* removeWorkload
RemoveWorkload(workloads, targetPath) ==
  {w \in workloads : w.target # targetPath}

\* removeStaleWorkloads: an attachment stays if its pod is live or if it is
\* younger than the threshold.
RemainingWorkloads(workloads, livePodUIDs) ==
  {w \in workloads : w.uid \in livePodUIDs \/ ~w.old}

\* Time passes: every attachment crosses the threshold.
Aged(workloads) == {[w EXCEPT !.old = TRUE] : w \in workloads}
=============================================================================
