---------------------------- MODULE MCPodMounter ----------------------------
(* Instances of PodMounter for TLC. *)
EXTENDS PodMounter, TLC

\* Every target path has a mount ID of its own, as long as the truncated
\* hash does not collide.
OwnSource == CHOOSE f \in [Targets -> Sources] : \A t, u \in Targets : f[t] = f[u] => t = u

\* Two target paths whose truncated hashes collide.
OneSource == [t \in Targets |-> CHOOSE s \in Sources : TRUE]

\* Slots are interchangeable; no property names one.
SlotSymmetry == Permutations(Slots)

\* With one source for all, targets are interchangeable too.
SharedSymmetry == Permutations(Slots) \cup Permutations(Targets)
=============================================================================
