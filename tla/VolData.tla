------------------------------- MODULE VolData -------------------------------
(***************************************************************************)
(* The vol_data reconciler (pkg/driver/voldata_reconciler.go) and the      *)
(* volume directories it shares with kubelet.  A pod deleted while its     *)
(* volume is being set up leaves a directory without vol_data.json, and    *)
(* kubelet cannot unmount the volume until one that parses is there.       *)
(* Every system call of a repair is a step.                                *)
(***************************************************************************)
EXTENDS FiniteSets, Naturals

CONSTANTS Volumes,  \* CSI volume directories, each of a pod of its own
          Ours,     \* those whose pod spec names this driver inline
          Wedged,   \* those given up halfway before the driver starts
          NoVolume

ASSUME VolumeAssumption == /\ Ours \subseteq Volumes /\ Wedged \subseteq Volumes
                           /\ NoVolume \notin Volumes

VARIABLES pod,      \* pod[v]: "live", "terminating" or "gone" in the API server
          kubelet,  \* kubelet[v]: "none", "setup" (directory made), "published",
                    \* "wedged" (given up in between) or "clean"
          dir,      \* dir[v]: "none", "fresh" or "stale" (volDataStaleThreshold)
          file,     \* file[v]: vol_data.json is "none", "partial", "kubelet"'s,
                    \* the "recovery" one or "mixed" of both
          sweep,    \* where the reconciler is
          todo,     \* volumes of the listing still to look at
          at        \* the volume it repairs

volVars == <<pod, kubelet, dir, file, sweep, todo, at>>

VolInit ==
  /\ pod = [v \in Volumes |-> IF v \in Wedged THEN "terminating" ELSE "live"]
  /\ kubelet = [v \in Volumes |-> IF v \in Wedged THEN "wedged" ELSE "none"]
  /\ dir = [v \in Volumes |-> IF v \in Wedged THEN "stale" ELSE "none"]
  /\ file = [v \in Volumes |-> "none"]
  /\ sweep = "idle" /\ todo = {} /\ at = NoVolume

-----------------------------------------------------------------------------
(* A sweep. *)

\* The next volume, or the end of the sweep.
Continue == /\ at' = NoVolume
            /\ sweep' = IF todo' = {} THEN "idle" ELSE "loop"

\* Mutant of ownedVolumes: pods that are being deleted are left out.
LivePodVolumes == {v \in Ours : pod[v] = "live"}

\* The inline volumes of this driver, from the specs of the pods that exist.
ownedVolumes == {v \in Ours : pod[v] # "gone"}

\* A listing that fails ends the sweep and changes nothing.
List ==
  /\ sweep = "idle" /\ ownedVolumes # {}
  /\ sweep' = "loop" /\ todo' = ownedVolumes /\ at' = NoVolume
  /\ UNCHANGED <<pod, kubelet, dir, file>>

LstatData(v) ==
  /\ sweep = "loop" /\ v \in todo
  /\ todo' = todo \ {v}
  /\ \/ file[v] # "none" /\ Continue
     \/ file[v] = "none" /\ sweep' = "stat" /\ at' = v
  /\ UNCHANGED <<pod, kubelet, dir, file>>

LstatDir ==
  /\ sweep = "stat"
  /\ \/ dir[at] = "stale" /\ sweep' = "open" /\ UNCHANGED <<todo, at>>
     \/ dir[at] # "stale" /\ UNCHANGED todo /\ Continue
  /\ UNCHANGED <<pod, kubelet, dir, file>>

\* Mutant of OpenFile: without O_EXCL, truncating.
OpenTruncating ==
  /\ sweep = "open"
  /\ \/ /\ dir[at] # "none"
        /\ file' = [file EXCEPT ![at] = "partial"]
        /\ dir' = [dir EXCEPT ![at] = "fresh"]
        /\ sweep' = "write" /\ UNCHANGED <<todo, at>>
     \/ dir[at] = "none" /\ UNCHANGED <<todo, dir, file>> /\ Continue
  /\ UNCHANGED <<pod, kubelet>>

\* O_EXCL: whoever has created the file keeps it.
OpenFile ==
  /\ sweep = "open"
  /\ \/ /\ dir[at] # "none" /\ file[at] = "none"
        /\ file' = [file EXCEPT ![at] = "partial"]
        /\ dir' = [dir EXCEPT ![at] = "fresh"]
        /\ sweep' = "write" /\ UNCHANGED <<todo, at>>
     \/ /\ dir[at] = "none" \/ file[at] # "none"
        /\ UNCHANGED <<todo, dir, file>> /\ Continue
  /\ UNCHANGED <<pod, kubelet>>

\* What is in the file after a write through our descriptor: over the bytes of
\* kubelet, if it has rewritten the file we made; nowhere, if that is gone.
Written(v) == CASE file[v] = "none" -> "none"
                [] file[v] = "partial" -> "recovery"
                [] OTHER -> "mixed"

WriteAndClose ==
  /\ sweep = "write"
  /\ file' = [file EXCEPT ![at] = Written(at)]
  /\ UNCHANGED todo /\ Continue
  /\ UNCHANGED <<pod, kubelet, dir>>

\* Mutant of WriteFails: the partial file stays.
WriteFailsKeeping ==
  /\ sweep = "write"
  /\ UNCHANGED <<todo, file>> /\ Continue
  /\ UNCHANGED <<pod, kubelet, dir>>

\* Write or Close fails; the file is removed next.
WriteFails ==
  /\ sweep = "write"
  /\ sweep' = "remove"
  /\ UNCHANGED <<pod, kubelet, dir, file, todo, at>>

Remove ==
  /\ sweep = "remove"
  /\ file' = [file EXCEPT ![at] = "none"]
  /\ dir' = [dir EXCEPT ![at] = IF file[at] = "none" THEN @ ELSE "fresh"]
  /\ UNCHANGED todo /\ Continue
  /\ UNCHANGED <<pod, kubelet>>

\* The error of os.Remove is dropped: the file stays, and the sweep goes on.
RemoveFails ==
  /\ sweep = "remove"
  /\ UNCHANGED <<pod, kubelet, dir, file, todo>> /\ Continue

\* stopCh is closed.
SweeperStops ==
  /\ sweep = "idle" /\ sweep' = "off"
  /\ UNCHANGED <<pod, kubelet, dir, file, todo, at>>

Reconcile == \/ List \/ LstatDir \/ OpenFile \/ WriteAndClose \/ Remove
             \/ \E v \in Volumes : LstatData(v)

-----------------------------------------------------------------------------
(* kubelet, the API server and the clock (external). *)

SetUp(v) ==
  /\ pod[v] = "live" /\ kubelet[v] = "none"
  /\ kubelet' = [kubelet EXCEPT ![v] = "setup"]
  /\ dir' = [dir EXCEPT ![v] = "fresh"]
  /\ UNCHANGED <<pod, file, sweep, todo, at>>

\* kubelet creates or rewrites vol_data.json.
SaveVolData(v) ==
  /\ kubelet[v] = "setup"
  /\ kubelet' = [kubelet EXCEPT ![v] = "published"]
  /\ file' = [file EXCEPT ![v] = "kubelet"]
  /\ dir' = [dir EXCEPT ![v] = IF file[v] = "none" THEN "fresh" ELSE @]
  /\ UNCHANGED <<pod, sweep, todo, at>>

\* The pod is deleted; a set-up that has not come to vol_data.json is given up.
PodDeleted(v) ==
  /\ pod[v] = "live"
  /\ pod' = [pod EXCEPT ![v] = "terminating"]
  /\ kubelet' = [kubelet EXCEPT ![v] = CASE @ = "setup" -> "wedged" [] @ = "none" -> "clean" [] OTHER -> @]
  /\ UNCHANGED <<dir, file, sweep, todo, at>>

\* NewUnmounter reads vol_data.json; then NodeUnpublishVolume, and the
\* directory goes.  A mixed file may parse.
Parses(v) == file[v] \in {"kubelet", "recovery", "mixed"}
TearDown(v) ==
  /\ pod[v] = "terminating" /\ kubelet[v] \in {"published", "wedged"} /\ Parses(v)
  /\ kubelet' = [kubelet EXCEPT ![v] = "clean"]
  /\ dir' = [dir EXCEPT ![v] = "none"]
  /\ file' = [file EXCEPT ![v] = "none"]
  /\ UNCHANGED <<pod, sweep, todo, at>>

PodFinalized(v) ==
  /\ pod[v] = "terminating" /\ kubelet[v] = "clean"
  /\ pod' = [pod EXCEPT ![v] = "gone"]
  /\ UNCHANGED <<kubelet, dir, file, sweep, todo, at>>

\* Two minutes pass without a change to the directory.
DirAges(v) ==
  /\ dir[v] = "fresh" /\ dir' = [dir EXCEPT ![v] = "stale"]
  /\ UNCHANGED <<pod, kubelet, file, sweep, todo, at>>

KubeletStep == \E v \in Volumes : \/ SetUp(v) \/ SaveVolData(v) \/ PodDeleted(v)
                                  \/ TearDown(v) \/ PodFinalized(v) \/ DirAges(v)

VolTypeOK ==
  /\ pod \in [Volumes -> {"live", "terminating", "gone"}]
  /\ kubelet \in [Volumes -> {"none", "setup", "published", "wedged", "clean"}]
  /\ dir \in [Volumes -> {"none", "fresh", "stale"}]
  /\ file \in [Volumes -> {"none", "partial", "kubelet", "recovery", "mixed"}]
  /\ sweep \in {"off", "idle", "loop", "stat", "open", "write", "remove"}
  /\ todo \subseteq Volumes /\ (sweep \in {"off", "idle"} => todo = {})
  /\ at \in Volumes \cup {NoVolume}
  /\ at # NoVolume <=> sweep \in {"stat", "open", "write", "remove"}
=============================================================================
