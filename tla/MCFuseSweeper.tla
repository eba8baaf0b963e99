---------------------------- MODULE MCFuseSweeper ----------------------------
(* Instances of FuseSweeper for TLC. *)
EXTENDS FuseSweeper, TLC

CONSTANTS c1, c2, c3, v1, v2

\* One connection of each kind.
OneOfEach == (c1 :> "pod") @@ (c2 :> "sidecar") @@ (c3 :> "foreign")

\* The foreign one is served from within the workload pod of the sidecar.
PodOfSidecar == (c1 :> v1) @@ (c2 :> v2) @@ (c3 :> v2)
=============================================================================
