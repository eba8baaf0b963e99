--------------------------- MODULE MountResources ---------------------------
(***************************************************************************)
(* Resource hints of a volume and the requirements of the container built  *)
(* from them (pkg/driver/resources.go).  Memory only: CPU goes through the *)
(* same code, with one default.                                            *)
(***************************************************************************)
EXTENDS Integers

CONSTANTS MaxQuantity,  \* bound on quantities
          DefaultMountMemoryRequest,
          DefaultMountMemoryRequestReadOnly

Quantity == 0..MaxQuantity
Unset == -1    \* nil, or an attribute that is not there
Invalid == -2  \* an attribute that is no quantity

ASSUME DefaultsAssumption ==
  /\ MaxQuantity \in Nat
  /\ DefaultMountMemoryRequest \in Quantity
  /\ DefaultMountMemoryRequestReadOnly \in Quantity

Fields == {"limit", "request"}
Attributes == [Fields -> Quantity \cup {Unset, Invalid}]
Resources == [Fields -> Quantity \cup {Unset}]

parseQuantityAttr(raw) == IF raw = Invalid THEN Unset ELSE raw
ParseMountResources(attrs) == [f \in Fields |-> parseQuantityAttr(attrs[f])]

DefaultMemoryRequestFor(readOnly) ==
  IF readOnly THEN DefaultMountMemoryRequestReadOnly ELSE DefaultMountMemoryRequest

\* Mutant of clampRequestToLimit: a limit of zero is taken for none.
ClampUnlessZero(request, limit) ==
  IF limit > 0 /\ request > limit THEN limit ELSE request

clampRequestToLimit(request, limit) ==
  IF limit # Unset /\ request > limit THEN limit ELSE request

BuildResourceRequirements(overrides, default) ==
  LET request == IF overrides.request # Unset THEN overrides.request ELSE default
  IN [limit |-> overrides.limit, request |-> clampRequestToLimit(request, overrides.limit)]

\* Mutant of ToUnstructured: zero is taken for not set.
ToUnstructuredNonzero(res) == [f \in {g \in Fields : res[g] > 0} |-> res[f]]

\* What the HFMount keeps of them, and what is read back: fields that are not
\* set are left out.
ToUnstructured(res) == [f \in {g \in Fields : res[g] # Unset} |-> res[f]]
MountResourcesFromUnstructured(raw) ==
  ParseMountResources([f \in Fields |-> IF f \in DOMAIN raw THEN raw[f] ELSE Unset])

\* An argument list, as the set of the arguments that count here.
ReadOnlyFromArgs(args) == "--read-only" \in args \/ "repo" \in args
=============================================================================
