---------------------------- MODULE SourceMutex ----------------------------
(***************************************************************************)
(* What the per-source lock of pkg/driver/podmounter.go promises to Mount, *)
(* Unmount, cleanupSource and rebindTargets: goroutines ask for a source,  *)
(* at most one of them is inside each source, and sources do not interfere *)
(* with one another.  No table, no reference count, no mutex object.       *)
(***************************************************************************)

CONSTANTS Procs,    \* goroutines of the node plugin
          Sources   \* FUSE source mount paths

VARIABLES stage,    \* stage[p]: "idle", "waiting" or "inside"
          at        \* at[p]: the source p asked for last

mvars == <<stage, at>>

MutexInit == /\ stage = [p \in Procs |-> "idle"]
             /\ at \in [Procs -> Sources]

\* Goroutine p asks for source s.
Request(p, s) == /\ stage[p] = "idle"
                 /\ stage' = [stage EXCEPT ![p] = "waiting"]
                 /\ at' = [at EXCEPT ![p] = s]

\* Goroutine p enters its source, which nobody else is inside of.
Enter(p) == /\ stage[p] = "waiting"
            /\ \A q \in Procs : stage[q] = "inside" => at[q] # at[p]
            /\ stage' = [stage EXCEPT ![p] = "inside"]
            /\ UNCHANGED at

Leave(p) == /\ stage[p] = "inside"
            /\ stage' = [stage EXCEPT ![p] = "idle"]
            /\ UNCHANGED at

MutexNext == \E p \in Procs : \/ \E s \in Sources : Request(p, s)
                              \/ Enter(p)
                              \/ Leave(p)

MutexSpec == MutexInit /\ [][MutexNext]_mvars
=============================================================================
