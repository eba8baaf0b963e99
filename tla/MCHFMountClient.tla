--------------------------- MODULE MCHFMountClient ---------------------------
(* Instances of HFMountClient for TLC. *)
EXTENDS HFMountClient, TLC

ClientSymmetry == Permutations(Callers) \cup Permutations(Targets)
=============================================================================
