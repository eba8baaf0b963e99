---------------------------- MODULE StartupTaint ----------------------------
(***************************************************************************)
(* RemoveStartupTaint (pkg/driver/startup_taint.go): wait until kubelet    *)
(* lists the driver in the CSINode, then take the startup taint off the    *)
(* Node by a read and a test-and-set patch, while other controllers change *)
(* the same list.  A poll that finds nothing and a read that fails change  *)
(* nothing and are not steps.                                              *)
(***************************************************************************)
EXTENDS Naturals

CONSTANTS StartupTaints,  \* the taints with taintKey, one per effect
          OtherTaints,    \* the taints of other controllers
          MaxChanges      \* changes by other controllers

ASSUME TaintAssumption == /\ StartupTaints \cap OtherTaints = {}
                          /\ MaxChanges \in Nat

VARIABLES taints,   \* node.spec.taints, the order left out
          listed,   \* the CSINode lists DriverName
          remover,  \* the goroutine: "off", "wait", "get", "patch" or "done"
          read,     \* the list it has read
          changes   \* changes by others still to come

taintVars == <<taints, listed, remover, read, changes>>

Tainted == taints \cap StartupTaints # {}

\* The taint is there, with any others, before the driver first starts.
TaintInit ==
  /\ \E others \in SUBSET OtherTaints : taints = StartupTaints \cup others
  /\ listed = FALSE
  /\ remover = "wait"
  /\ read = {}
  /\ changes = MaxChanges

\* The poll that finds the driver ends the wait.
waitForCSINodeDriver ==
  /\ remover = "wait" /\ listed
  /\ remover' = "get"
  /\ UNCHANGED <<taints, listed, read, changes>>

Kept(list) == list \ StartupTaints

\* Get of the Node; nothing to remove ends the loop.
GetNode ==
  /\ remover = "get"
  /\ \/ Kept(taints) = taints /\ remover' = "done" /\ UNCHANGED read
     \/ Kept(taints) # taints /\ remover' = "patch" /\ read' = taints
  /\ UNCHANGED <<taints, listed, changes>>

\* Mutant of PatchNode: no test of the list that was read.
PatchUntested ==
  /\ remover = "patch"
  /\ taints' = Kept(read) /\ remover' = "done"
  /\ read' = {}
  /\ UNCHANGED <<listed, changes>>

\* Mutant of PatchNode: a conflict is taken for success.
PatchIgnoresConflict ==
  /\ remover = "patch"
  /\ taints' = IF taints = read THEN Kept(read) ELSE taints
  /\ remover' = "done"
  /\ read' = {}
  /\ UNCHANGED <<listed, changes>>

\* The patch replaces the list if it still is the one that was read; otherwise
\* the loop reads again at the next tick.
PatchNode ==
  /\ remover = "patch"
  /\ \/ taints = read /\ taints' = Kept(read) /\ remover' = "done"
     \/ taints # read /\ UNCHANGED taints /\ remover' = "get"
  /\ read' = {}
  /\ UNCHANGED <<listed, changes>>

\* The request deadline passes, before or after the server has applied the patch.
PatchTimesOut ==
  /\ remover = "patch"
  /\ \/ UNCHANGED taints
     \/ taints = read /\ taints' = Kept(read)
  /\ remover' = "get"
  /\ read' = {}
  /\ UNCHANGED <<listed, changes>>

\* ctx is cancelled: the loops return its error.
RemoverCancelled ==
  /\ remover \in {"wait", "get", "patch"}
  /\ remover' = "off" /\ read' = {}
  /\ UNCHANGED <<taints, listed, changes>>

\* Another controller adds or removes a taint of its own (external).
OthersChange(t) ==
  /\ changes > 0 /\ changes' = changes - 1
  /\ taints' = IF t \in taints THEN taints \ {t} ELSE taints \cup {t}
  /\ UNCHANGED <<listed, remover, read>>

\* kubelet lists the driver in the CSINode, or drops it (external).
KubeletLists(b) ==
  /\ listed # b /\ listed' = b
  /\ UNCHANGED <<taints, remover, read, changes>>

TaintTypeOK ==
  /\ taints \subseteq StartupTaints \cup OtherTaints
  /\ listed \in BOOLEAN
  /\ remover \in {"off", "wait", "get", "patch", "done"}
  /\ read \subseteq StartupTaints \cup OtherTaints
  /\ changes \in 0..MaxChanges
=============================================================================
