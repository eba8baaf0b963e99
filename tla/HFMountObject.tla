---------------------------- MODULE HFMountObject ----------------------------
(***************************************************************************)
(* What the callers of hfMountClient (pkg/driver/hfmount.go) rely on: each *)
(* operation on an HFMount takes effect at once or not at all, whatever    *)
(* other callers do, and reports the list it left behind.  An operation    *)
(* that returns an error may have taken effect.                            *)
(***************************************************************************)
EXTENDS HFMount, Integers, FiniteSets

CONSTANTS Callers,  \* goroutines of the node plugins
          NoCRD,    \* there is no HFMount
          NoOp

\* addWorkload, removeWorkload and removeStaleWorkloads; the latter brings the
\* pods that were live when the caller listed them.
Edits == [kind : {"add", "remove"}, target : Targets]
           \cup [kind : {"stale"}, live : SUBSET Targets]
Ops == Edits \cup [kind : {"create", "delete", "status"}]

Edited(op, workloads) ==
  CASE op.kind = "add" -> AddWorkload(workloads, op.target, op.target)
    [] op.kind = "remove" -> RemoveWorkload(workloads, op.target)
    [] op.kind = "stale" -> RemainingWorkloads(workloads, op.live)

VARIABLES crd,     \* the workloads of the HFMount, or NoCRD
          pods,    \* pods[t]: the workload pod of t is "new", "live" or "ended"
          todo,    \* todo[p]: the operation p is in
          result   \* result[p]: what its last operation returned

vars == <<crd, pods, todo, result>>

NoResult == [ok |-> FALSE, count |-> 0]
Ok(count) == [ok |-> TRUE, count |-> count]

Live == {t \in Targets : pods[t] = "live"}

Init ==
  /\ crd = NoCRD
  /\ pods = [t \in Targets |-> "new"]
  /\ todo = [p \in Callers |-> NoOp]
  /\ result = [p \in Callers |-> NoResult]

\* p calls an operation; a cleaner has listed the pods just before.
Invoke(p) ==
  /\ todo[p] = NoOp
  /\ \E op \in Ops : /\ op.kind = "stale" => op.live = Live
                     /\ op.kind = "add" => pods[op.target] # "new"
                     /\ todo' = [todo EXCEPT ![p] = op]
  /\ UNCHANGED <<crd, pods, result>>

Return(p, r) ==
  /\ todo' = [todo EXCEPT ![p] = NoOp]
  /\ result' = [result EXCEPT ![p] = r]

\* What the operation of p does to the object.
Effect(p) ==
  \/ todo[p] \in Edits /\ crd # NoCRD /\ crd' = Edited(todo[p], crd)
  \/ todo[p].kind = "status" /\ crd # NoCRD /\ UNCHANGED crd
  \/ todo[p].kind = "create" /\ crd = NoCRD /\ crd' = {}
  \/ todo[p].kind = "delete" /\ crd' = NoCRD

Perform(p) ==
  /\ todo[p] # NoOp
  /\ Effect(p)
  /\ Return(p, Ok(IF todo[p] \in Edits THEN Cardinality(crd') ELSE 0))
  /\ UNCHANGED pods

\* It fails, or has taken effect and the answer is lost.
Fail(p) ==
  /\ todo[p] # NoOp
  /\ UNCHANGED crd \/ Effect(p)
  /\ Return(p, NoResult)
  /\ UNCHANGED pods

\* A workload pod starts or ends; attachments grow older than the threshold,
\* never while a cleaner works: its pass takes far less than two minutes.
PodStep(t) ==
  /\ \/ pods[t] = "new" /\ pods' = [pods EXCEPT ![t] = "live"]
     \/ pods[t] = "live" /\ pods' = [pods EXCEPT ![t] = "ended"]
  /\ UNCHANGED <<crd, todo, result>>
Age ==
  /\ crd # NoCRD
  /\ \A p \in Callers : todo[p] # NoOp => todo[p].kind # "stale"
  /\ crd' = Aged(crd)
  /\ UNCHANGED <<pods, todo, result>>

Next ==
  \/ \E p \in Callers : Invoke(p) \/ Perform(p) \/ Fail(p)
  \/ \E t \in Targets : PodStep(t)
  \/ Age

Spec == Init /\ [][Next]_vars
=============================================================================
