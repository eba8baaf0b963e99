--------------------------- MODULE MCSidecarVolume ---------------------------
(* Instances of SidecarVolume for TLC. *)
EXTENDS SidecarVolume, FiniteSets, TLC

\* A volume ID for each target.
OwnVolume == CHOOSE f \in [Targets -> Volumes] : \A t, u \in Targets : f[t] = f[u] => t = u

\* Two pods with one PersistentVolume.
OneVolume == [t \in Targets |-> CHOOSE v \in Volumes : TRUE]

\* Either one pod and all the faults, or two pods, with a volume each or one
\* volume for both, and none.
MCInit ==
  /\ Init
  /\ faults = IF \A t \in Targets : kubelet[t] = "up" THEN 0 ELSE MaxFaults
  /\ volumeID \in {OwnVolume, OneVolume}

MCSpec == MCInit /\ [][Next]_vars /\ Fairness
=============================================================================
