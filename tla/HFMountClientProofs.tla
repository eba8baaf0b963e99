------------------------- MODULE HFMountClientProofs -------------------------
(***************************************************************************)
(* For every set of callers and target paths and every retry limit, the    *)
(* read-modify-write loops of hfmount.go implement HFMountObject, and a    *)
(* cleaner never drops the attachment of a running pod.                    *)
(***************************************************************************)
EXTENDS HFMountClient, FiniteSetTheorems, TLAPS

\* Every list, stored or read, is finite, so the counts returned are numbers.
ListsFinite ==
  /\ obj # NoCRD => IsFiniteSet(obj.workloads)
  /\ \A p \in Callers : snap[p] # NoSnap => IsFiniteSet(snap[p].workloads)

\* The server's versions only grow.
VersionsBounded ==
  /\ obj # NoCRD => obj.rv <= version
  /\ \A p \in Callers : snap[p] # NoSnap => snap[p].rv <= version

\* What a caller holds while the object is still at the version it read: its
\* own edit of the list stored now.  This is why the version test suffices.
SnapCurrent ==
  \A p \in Callers :
    snap[p] # NoSnap =>
      /\ todo[p] \in Edits \/ todo[p].kind = "status"
      /\ todo[p] # NoOp
      /\ obj # NoCRD /\ obj.rv = snap[p].rv /\ todo[p] \in Edits
           => snap[p].workloads = Object!Edited(todo[p], obj.workloads)

\* An attachment is listed only once its pod has started, under the pod's own
\* path, and is requested only then.
AttachedStarted ==
  /\ obj # NoCRD => \A w \in obj.workloads : w.uid = w.target /\ pods[w.target] # "new"
  /\ \A p \in Callers : \A t \in Targets :
       todo[p] = [kind |-> "add", target |-> t] => pods[t] # "new"

\* The list of pods a cleaner works from has every running pod with an
\* attachment beyond the threshold: younger ones it may have missed.
CleanerKnowsOld ==
  \A p \in Callers : \A L \in SUBSET Targets :
    todo[p] = [kind |-> "stale", live |-> L] /\ obj # NoCRD
      => \A w \in obj.workloads : w.old /\ w.uid \in Live => w.uid \in L

IInv == /\ TypeOK
        /\ ListsFinite
        /\ VersionsBounded
        /\ SnapCurrent
        /\ AttachedStarted
        /\ CleanerKnowsOld

-----------------------------------------------------------------------------
(* The operators of HFMount and HFMountObject. *)

\* An edit is an add, a remove or a cleanup with its list of pods.
LEMMA EditCases ==
  ASSUME NEW op \in Edits
  PROVE  \/ \E t \in Targets : op = [kind |-> "add", target |-> t]
         \/ \E t \in Targets : op = [kind |-> "remove", target |-> t]
         \/ \E L \in SUBSET Targets : op = [kind |-> "stale", live |-> L]
  BY DEF Edits, Object!Edits

\* The other operations are told apart by their kind.
LEMMA OtherCases ==
  ASSUME NEW op \in Ops, op \notin Edits
  PROVE  \/ op = [kind |-> "create"]
         \/ op = [kind |-> "delete"]
         \/ op = [kind |-> "status"]
  BY DEF Edits, Object!Edits, Ops, Object!Ops

\* The null operation is none of them.
LEMMA NoOpIsNone ==
  /\ \A t \in Targets : NoOp # [kind |-> "add", target |-> t]
  /\ \A L \in SUBSET Targets : NoOp # [kind |-> "stale", live |-> L]
  BY ClientNulls DEF Ops, Object!Ops, Object!Edits

\* What each edit does to a list.
LEMMA EditedIs ==
  ASSUME NEW W
  PROVE  /\ \A t \in Targets :
              /\ Object!Edited([kind |-> "add", target |-> t], W) = AddWorkload(W, t, t)
              /\ Object!Edited([kind |-> "remove", target |-> t], W) = RemoveWorkload(W, t)
         /\ \A L \in SUBSET Targets :
              Object!Edited([kind |-> "stale", live |-> L], W) = RemainingWorkloads(W, L)
<1>1. \A t \in Targets :
        Object!Edited([kind |-> "add", target |-> t], W) = AddWorkload(W, t, t)
  BY DEF Object!Edited, AddWorkload, Object!AddWorkload
<1>2. \A t \in Targets :
        Object!Edited([kind |-> "remove", target |-> t], W) = RemoveWorkload(W, t)
  BY DEF Object!Edited, RemoveWorkload, Object!RemoveWorkload
<1>3. \A L \in SUBSET Targets :
        Object!Edited([kind |-> "stale", live |-> L], W) = RemainingWorkloads(W, L)
  BY DEF Object!Edited, RemainingWorkloads, Object!RemainingWorkloads
<1> QED
  BY <1>1, <1>2, <1>3

\* An edit of a finite list of attachments is one again.
LEMMA EditedType ==
  ASSUME NEW op \in Edits, NEW W \in SUBSET Workload, IsFiniteSet(W)
  PROVE  /\ Object!Edited(op, W) \in SUBSET Workload
         /\ IsFiniteSet(Object!Edited(op, W))
<1>1. CASE \E t \in Targets : op = [kind |-> "add", target |-> t]
  <2> PICK t \in Targets : op = [kind |-> "add", target |-> t]
    BY <1>1
  <2>1. Object!Edited(op, W) = AddWorkload(W, t, t)
    BY EditedIs
  <2>2. [uid |-> t, target |-> t, old |-> FALSE] \in Workload
    BY DEF Workload, PodUIDs
  <2>3. IsFiniteSet(W \cup {[uid |-> t, target |-> t, old |-> FALSE]})
    BY FS_AddElement
  <2> QED
    BY <2>1, <2>2, <2>3 DEF AddWorkload
<1>2. CASE \E t \in Targets : op = [kind |-> "remove", target |-> t]
  <2>1. Object!Edited(op, W) \subseteq W
    BY <1>2, EditedIs DEF RemoveWorkload
  <2> QED
    BY <2>1, FS_Subset
<1>3. CASE \E L \in SUBSET Targets : op = [kind |-> "stale", live |-> L]
  <2>1. Object!Edited(op, W) \subseteq W
    BY <1>3, EditedIs DEF RemainingWorkloads
  <2> QED
    BY <2>1, FS_Subset
<1> QED
  BY <1>1, <1>2, <1>3, EditCases

\* The passing of time keeps a finite list of attachments one, with the same
\* pods and paths.
LEMMA AgedType ==
  ASSUME NEW W \in SUBSET Workload, IsFiniteSet(W)
  PROVE  Aged(W) \in SUBSET Workload /\ IsFiniteSet(Aged(W))
<1>1. \A w \in W : [w EXCEPT !.old = TRUE] \in Workload
  BY DEF Workload
<1>2. IsFiniteSet(Aged(W))
  <2> DEFINE f == [w \in W |-> [w EXCEPT !.old = TRUE]]
  <2>1. f \in Surjection(W, Aged(W))
    BY DEF Surjection, Aged
  <2> QED
    BY <2>1, FS_Surjection
<1> QED
  BY <1>1, <1>2 DEF Aged

-----------------------------------------------------------------------------
(* The inductive invariant. *)

LEMMA InitIInv == Init => IInv
<1> SUFFICES ASSUME Init PROVE IInv
  OBVIOUS
<1> USE DEF Init
<1>1. TypeOK
  BY ClientAssumption DEF TypeOK, NoResult, Object!NoResult
<1>2. ListsFinite /\ VersionsBounded /\ SnapCurrent
  BY DEF ListsFinite, VersionsBounded, SnapCurrent
<1>3. AttachedStarted /\ CleanerKnowsOld
  BY NoOpIsNone DEF AttachedStarted, CleanerKnowsOld
<1> QED
  BY <1>1, <1>2, <1>3 DEF IInv

\* A call begins.
LEMMA InvokeStep ==
  ASSUME IInv, NEW p \in Callers, Invoke(p)
  PROVE  IInv'
<1> PICK op \in Ops : /\ op.kind = "stale" => op.live = Live
                      /\ op.kind = "add" => pods[op.target] # "new"
                      /\ todo' = [todo EXCEPT ![p] = op]
  BY DEF Invoke
<1>0. todo[p] = NoOp /\ UNCHANGED <<obj, version, pods, result, snap, attempt>>
  BY DEF Invoke
<1>1. TypeOK'
  BY <1>0 DEF IInv, TypeOK
<1>2. ListsFinite' /\ VersionsBounded'
  BY <1>0 DEF IInv, ListsFinite, VersionsBounded
<1>3. SnapCurrent'
  BY <1>0 DEF IInv, SnapCurrent, TypeOK
<1>4. AttachedStarted'
  BY <1>0 DEF IInv, AttachedStarted, TypeOK
<1>5. CleanerKnowsOld'
  BY <1>0 DEF IInv, CleanerKnowsOld, TypeOK, Live, Object!Live
<1> QED
  BY <1>1, <1>2, <1>3, <1>4, <1>5 DEF IInv

\* A call that ends without a write of its own: an error, an edit that changes
\* nothing, or an error after the server stored nothing.
LEMMA ReturnStep ==
  ASSUME IInv, NEW p \in Callers, NEW r \in [ok : BOOLEAN, count : Nat],
         Return(p, r), UNCHANGED <<obj, version, pods>>
  PROVE  IInv'
<1> USE DEF Return
<1>1. TypeOK'
  BY ClientAssumption DEF IInv, TypeOK
<1>2. ListsFinite' /\ VersionsBounded'
  BY DEF IInv, ListsFinite, VersionsBounded, TypeOK
<1>3. SnapCurrent'
  BY DEF IInv, SnapCurrent, TypeOK
<1>4. AttachedStarted'
  BY NoOpIsNone DEF IInv, AttachedStarted, TypeOK
<1>5. CleanerKnowsOld'
  BY NoOpIsNone DEF IInv, CleanerKnowsOld, TypeOK, Live, Object!Live
<1> QED
  BY <1>1, <1>2, <1>3, <1>4, <1>5 DEF IInv

\* A call that ends with a write: the list stored has been edited by add,
\* remove or cleanup, is the list that was there, or is new and empty.
LEMMA WriteStep ==
  ASSUME IInv, NEW p \in Callers, NEW r \in [ok : BOOLEAN, count : Nat],
         NEW W \in SUBSET Workload, IsFiniteSet(W),
         Return(p, r), Write(W), UNCHANGED pods,
         \A w \in W : /\ w.uid = w.target /\ pods[w.target] # "new"
                      /\ w.old => obj # NoCRD /\ w \in obj.workloads
  PROVE  IInv'
<1> USE DEF Return, Write
<1>0. obj' = [rv |-> version + 1, workloads |-> W] /\ version' = version + 1
  OBVIOUS
<1>1. TypeOK'
  <2>1. version + 1 \in 1..MaxVersion
    BY ClientAssumption DEF IInv, TypeOK
  <2>2. obj' \in HFMounts
    BY <1>0, <2>1 DEF HFMounts
  <2> QED
    BY <2>1, <2>2, ClientAssumption DEF IInv, TypeOK
<1>2. ListsFinite' /\ VersionsBounded'
  BY <1>0 DEF IInv, ListsFinite, VersionsBounded, TypeOK, HFMounts
<1>3. SnapCurrent'
  BY <1>0 DEF IInv, SnapCurrent, VersionsBounded, TypeOK, HFMounts
<1>4. AttachedStarted'
  BY <1>0, NoOpIsNone DEF IInv, AttachedStarted, TypeOK
<1>5. CleanerKnowsOld'
  BY <1>0, NoOpIsNone DEF IInv, CleanerKnowsOld, TypeOK, Live, Object!Live
<1> QED
  BY <1>1, <1>2, <1>3, <1>4, <1>5 DEF IInv

\* What the edit of a caller leaves are attachments of started pods, and the
\* edit makes none old.
LEMMA EditedStarted ==
  ASSUME IInv, NEW p \in Callers, todo[p] \in Edits, obj # NoCRD
  PROVE  \A w \in Object!Edited(todo[p], obj.workloads) :
           /\ w.uid = w.target /\ pods[w.target] # "new"
           /\ w.old => w \in obj.workloads
<1>0. \A w \in obj.workloads : w.uid = w.target /\ pods[w.target] # "new"
  BY DEF IInv, AttachedStarted
<1>1. CASE \E t \in Targets : todo[p] = [kind |-> "add", target |-> t]
  <2> PICK t \in Targets : todo[p] = [kind |-> "add", target |-> t]
    BY <1>1
  <2>1. pods[t] # "new"
    BY DEF IInv, AttachedStarted
  <2>2. Object!Edited(todo[p], obj.workloads) = AddWorkload(obj.workloads, t, t)
    BY EditedIs
  <2> QED
    BY <1>0, <2>1, <2>2 DEF AddWorkload
<1>2. CASE \E t \in Targets : todo[p] = [kind |-> "remove", target |-> t]
  BY <1>0, <1>2, EditedIs DEF RemoveWorkload
<1>3. CASE \E L \in SUBSET Targets : todo[p] = [kind |-> "stale", live |-> L]
  BY <1>0, <1>3, EditedIs DEF RemainingWorkloads
<1> QED
  BY <1>1, <1>2, <1>3, EditCases

\* retryOnConflict, the first half of a round.
LEMMA GetStep ==
  ASSUME IInv, NEW p \in Callers, Get(p)
  PROVE  IInv'
<1> DEFINE workloads == Object!Edited(todo[p], obj.workloads)
<1>0. Reading(p) /\ todo[p] \in Edits /\ UNCHANGED <<obj, version, pods>>
  BY DEF Get
<1>1. CASE obj = NoCRD /\ Return(p, NoResult)
  BY <1>0, <1>1, ReturnStep DEF NoResult, Object!NoResult
<1>2. CASE obj # NoCRD
  <2>1. obj \in HFMounts /\ obj.workloads \in SUBSET Workload /\ IsFiniteSet(obj.workloads)
    BY <1>2 DEF IInv, TypeOK, ListsFinite, HFMounts
  <2>2. workloads \in SUBSET Workload /\ IsFiniteSet(workloads)
    BY <1>0, <2>1, EditedType
  <2>3. CASE Return(p, Ok(Cardinality(workloads)))
    <3>1. Ok(Cardinality(workloads)) \in [ok : BOOLEAN, count : Nat]
      BY <2>2, FS_CardinalityType DEF Ok, Object!Ok
    <3> QED
      BY <1>0, <2>3, <3>1, ReturnStep
  <2>4. CASE /\ snap' = [snap EXCEPT ![p] = [obj EXCEPT !.workloads = workloads]]
             /\ UNCHANGED <<todo, result, attempt>>
    <3> DEFINE s == [obj EXCEPT !.workloads = workloads]
    <3>1. s \in HFMounts /\ s.workloads = workloads /\ s.rv = obj.rv
      BY <2>1, <2>2 DEF HFMounts
    <3> HIDE DEF s
    <3>2. snap' = [snap EXCEPT ![p] = s]
      BY <2>4 DEF s
    <3>3. TypeOK'
      BY <1>0, <2>4, <3>1, <3>2 DEF IInv, TypeOK
    <3>4. ListsFinite' /\ VersionsBounded'
      BY <1>0, <1>2, <2>2, <2>4, <3>1, <3>2 DEF IInv, ListsFinite, VersionsBounded, TypeOK
    <3>5. SnapCurrent'
      BY <1>0, <2>4, <3>1, <3>2 DEF IInv, SnapCurrent, TypeOK, Reading
    <3>6. AttachedStarted' /\ CleanerKnowsOld'
      BY <1>0, <2>4 DEF IInv, AttachedStarted, CleanerKnowsOld, Live, Object!Live
    <3> QED
      BY <3>3, <3>4, <3>5, <3>6 DEF IInv
  <2> QED
    BY <1>2, <2>3, <2>4 DEF Get
<1> QED
  BY <1>1, <1>2 DEF Get

\* retryOnConflict, the write at the version that was read.
LEMMA UpdateStep ==
  ASSUME IInv, NEW p \in Callers, Holding(p), todo[p] \in Edits,
         obj # NoCRD, obj.rv = snap[p].rv, Write(snap[p].workloads),
         Return(p, Ok(Cardinality(snap[p].workloads))) \/ Return(p, NoResult),
         UNCHANGED pods
  PROVE  IInv'
<1> DEFINE W == snap[p].workloads
<1>1. W = Object!Edited(todo[p], obj.workloads)
  BY DEF IInv, SnapCurrent, Holding
<1>2. W \in SUBSET Workload /\ IsFiniteSet(W)
  BY DEF IInv, TypeOK, ListsFinite, HFMounts, Holding
<1>3. \A w \in W : /\ w.uid = w.target /\ pods[w.target] # "new"
                   /\ w.old => obj # NoCRD /\ w \in obj.workloads
  BY <1>1, EditedStarted
<1>4. /\ Ok(Cardinality(W)) \in [ok : BOOLEAN, count : Nat]
      /\ NoResult \in [ok : BOOLEAN, count : Nat]
  BY <1>2, FS_CardinalityType DEF Ok, Object!Ok, NoResult, Object!NoResult
<1> QED
  BY <1>2, <1>3, <1>4, WriteStep

\* A round that lost the race: the next one reads again.
LEMMA ConflictStep ==
  ASSUME IInv, NEW p \in Callers, Conflict(p)
  PROVE  IInv'
<1>0. UNCHANGED <<obj, version, pods>>
  BY DEF Conflict
<1>1. CASE Return(p, NoResult)
  BY <1>0, <1>1, ReturnStep DEF NoResult, Object!NoResult
<1>2. CASE /\ attempt[p] + 1 < MaxAttempts
           /\ snap' = [snap EXCEPT ![p] = NoSnap]
           /\ attempt' = [attempt EXCEPT ![p] = @ + 1]
           /\ UNCHANGED <<todo, result>>
  <2>1. TypeOK'
    BY <1>0, <1>2, ClientAssumption DEF IInv, TypeOK
  <2>2. ListsFinite' /\ VersionsBounded' /\ SnapCurrent'
    BY <1>0, <1>2 DEF IInv, ListsFinite, VersionsBounded, SnapCurrent, TypeOK
  <2>3. AttachedStarted' /\ CleanerKnowsOld'
    BY <1>0, <1>2 DEF IInv, AttachedStarted, CleanerKnowsOld, Live, Object!Live
  <2> QED
    BY <2>1, <2>2, <2>3 DEF IInv
<1> QED
  BY <1>1, <1>2 DEF Conflict

\* updateStatus, the read.
LEMMA StatusGetStep ==
  ASSUME IInv, NEW p \in Callers, StatusGet(p)
  PROVE  IInv'
<1>0. Reading(p) /\ todo[p].kind = "status" /\ UNCHANGED <<obj, version, pods>>
  BY DEF StatusGet
<1>1. CASE Return(p, NoResult)
  BY <1>0, <1>1, ReturnStep DEF NoResult, Object!NoResult
<1>2. CASE /\ obj # NoCRD
           /\ snap' = [snap EXCEPT ![p] = obj]
           /\ UNCHANGED <<todo, result, attempt>>
  <2>1. TypeOK'
    BY <1>0, <1>2 DEF IInv, TypeOK
  <2>2. ListsFinite' /\ VersionsBounded'
    BY <1>0, <1>2 DEF IInv, ListsFinite, VersionsBounded, TypeOK
  <2>3. todo[p] \notin Edits
    BY <1>0 DEF Edits, Object!Edits
  <2>4. SnapCurrent'
    BY <1>0, <1>2, <2>3 DEF IInv, SnapCurrent, TypeOK, Reading
  <2>5. AttachedStarted' /\ CleanerKnowsOld'
    BY <1>0, <1>2 DEF IInv, AttachedStarted, CleanerKnowsOld, Live, Object!Live
  <2> QED
    BY <2>1, <2>2, <2>4, <2>5 DEF IInv
<1> QED
  BY <1>1, <1>2 DEF StatusGet

\* A write that leaves the list as it is, by updateStatus.
LEMMA RewriteStep ==
  ASSUME IInv, NEW p \in Callers, NEW r \in [ok : BOOLEAN, count : Nat],
         obj # NoCRD, Write(obj.workloads), Return(p, r), UNCHANGED pods
  PROVE  IInv'
<1>1. obj.workloads \in SUBSET Workload /\ IsFiniteSet(obj.workloads)
  BY DEF IInv, TypeOK, ListsFinite, HFMounts
<1>2. \A w \in obj.workloads : w.uid = w.target /\ pods[w.target] # "new"
  BY DEF IInv, AttachedStarted
<1> QED
  BY <1>1, <1>2, WriteStep

\* create makes an empty list.
LEMMA EmptyStep ==
  ASSUME IInv, NEW p \in Callers, NEW r \in [ok : BOOLEAN, count : Nat],
         Write({}), Return(p, r), UNCHANGED pods
  PROVE  IInv'
  BY WriteStep, FS_EmptySet

\* delete removes the object, whatever version others have read.
LEMMA DeleteStep ==
  ASSUME IInv, NEW p \in Callers, NEW r \in [ok : BOOLEAN, count : Nat],
         obj' = NoCRD, Return(p, r), UNCHANGED <<version, pods>>
  PROVE  IInv'
<1> USE DEF Return
<1>1. TypeOK'
  BY ClientAssumption DEF IInv, TypeOK
<1>2. ListsFinite' /\ VersionsBounded' /\ SnapCurrent'
  BY DEF IInv, ListsFinite, VersionsBounded, SnapCurrent, TypeOK
<1>3. AttachedStarted' /\ CleanerKnowsOld'
  BY NoOpIsNone DEF IInv, AttachedStarted, CleanerKnowsOld, TypeOK
<1> QED
  BY <1>1, <1>2, <1>3 DEF IInv

\* A workload pod starts or ends: one that starts has no attachment yet.
LEMMA PodStepStep ==
  ASSUME IInv, NEW t \in Targets, PodStep(t)
  PROVE  IInv'
<1> USE DEF PodStep
<1>1. TypeOK'
  BY DEF IInv, TypeOK
<1>2. ListsFinite' /\ VersionsBounded' /\ SnapCurrent'
  BY DEF IInv, ListsFinite, VersionsBounded, SnapCurrent
<1>3. AttachedStarted'
  <2>1. \A u \in Targets : pods[u] # "new" => pods'[u] # "new"
    BY DEF IInv, TypeOK
  <2>2. obj # NoCRD => \A w \in obj.workloads : w.target \in Targets
    BY DEF IInv, TypeOK, HFMounts, Workload
  <2> QED
    BY <2>1, <2>2 DEF IInv, AttachedStarted
<1>4. \A u \in Targets : u \in Live' => u \in Live \/ pods[u] = "new"
  BY DEF Live, Object!Live, IInv, TypeOK
<1>5. CleanerKnowsOld'
  <2>1. Live' \subseteq Targets
    BY DEF Live, Object!Live
  <2> QED
    BY <1>4, <2>1 DEF IInv, CleanerKnowsOld, AttachedStarted
<1> QED
  BY <1>1, <1>2, <1>3, <1>5 DEF IInv

\* Time passes: nobody holds a list then, and no cleaner is at work.
LEMMA AgeStep ==
  ASSUME IInv, Age
  PROVE  IInv'
<1> DEFINE W == Aged(obj.workloads)
<1>0. /\ obj # NoCRD /\ obj' = [obj EXCEPT !.workloads = W]
      /\ \A p \in Callers : snap[p] = NoSnap /\ (todo[p] # NoOp => todo[p].kind # "stale")
      /\ UNCHANGED <<version, pods, todo, result, snap, attempt>>
  BY DEF Age
<1>1. obj \in HFMounts /\ obj.workloads \in SUBSET Workload /\ IsFiniteSet(obj.workloads)
  BY <1>0 DEF IInv, TypeOK, ListsFinite, HFMounts
<1>2. W \in SUBSET Workload /\ IsFiniteSet(W)
  BY <1>1, AgedType
<1>3. obj' \in HFMounts /\ obj'.workloads = W /\ obj'.rv = obj.rv
  BY <1>0, <1>1, <1>2 DEF HFMounts
<1>4. TypeOK'
  BY <1>0, <1>3 DEF IInv, TypeOK
<1>5. ListsFinite' /\ VersionsBounded' /\ SnapCurrent'
  BY <1>0, <1>2, <1>3 DEF IInv, ListsFinite, VersionsBounded, SnapCurrent
<1>6. AttachedStarted'
  <2>1. \A w \in W : \E v \in obj.workloads : w.uid = v.uid /\ w.target = v.target
    BY <1>1 DEF Aged, Workload
  <2> QED
    BY <1>0, <1>3, <2>1 DEF IInv, AttachedStarted
<1>7. CleanerKnowsOld'
  BY <1>0, NoOpIsNone DEF CleanerKnowsOld
<1> QED
  BY <1>4, <1>5, <1>6, <1>7 DEF IInv

\* The request a caller makes next is lost, or is stored and its answer lost.
LEMMA ServerErrorStep ==
  ASSUME IInv, NEW p \in Callers, ServerError(p)
  PROVE  IInv'
<1>0. Return(p, NoResult) /\ UNCHANGED pods /\ todo[p] # NoOp
  BY DEF ServerError
<1>r. NoResult \in [ok : BOOLEAN, count : Nat]
  BY DEF NoResult, Object!NoResult
<1>1. CASE UNCHANGED <<obj, version>>
  BY <1>0, <1>1, <1>r, ReturnStep
<1>2. CASE /\ Holding(p) /\ obj # NoCRD /\ obj.rv = snap[p].rv
           /\ Write(IF todo[p].kind = "status" THEN obj.workloads ELSE snap[p].workloads)
  <2>1. CASE todo[p].kind = "status"
    BY <1>0, <1>2, <1>r, <2>1, RewriteStep
  <2>2. CASE todo[p].kind # "status"
    <3>1. todo[p] \in Edits
      BY <1>2, <2>2 DEF IInv, SnapCurrent, Holding
    <3> QED
      BY <1>0, <1>2, <2>2, <3>1, UpdateStep
  <2> QED
    BY <2>1, <2>2
<1>3. CASE Reading(p) /\ todo[p].kind = "create" /\ obj = NoCRD /\ Write({})
  BY <1>0, <1>3, <1>r, EmptyStep
<1>4. CASE Reading(p) /\ todo[p].kind = "delete" /\ obj' = NoCRD /\ UNCHANGED version
  BY <1>0, <1>4, <1>r, DeleteStep
<1> QED
  BY <1>1, <1>2, <1>3, <1>4 DEF ServerError, Stored

LEMMA NextIInv == IInv /\ [Next]_vars => IInv'
<1> SUFFICES ASSUME IInv, [Next]_vars PROVE IInv'
  OBVIOUS
<1>r. NoResult \in [ok : BOOLEAN, count : Nat] /\ Ok(0) \in [ok : BOOLEAN, count : Nat]
  BY DEF NoResult, Object!NoResult, Ok, Object!Ok
<1>1. ASSUME NEW p \in Callers, Invoke(p) PROVE IInv'
  BY <1>1, InvokeStep
<1>2. ASSUME NEW p \in Callers, retryOnConflict(p) PROVE IInv'
  <2>1. CASE Get(p)
    BY <2>1, GetStep
  <2>2. CASE Update(p)
    BY <2>2, UpdateStep DEF Update
  <2>3. CASE UpdateNotFound(p)
    BY <1>r, <2>3, ReturnStep DEF UpdateNotFound
  <2>4. CASE Conflict(p)
    BY <2>4, ConflictStep
  <2> QED
    BY <1>2, <2>1, <2>2, <2>3, <2>4 DEF retryOnConflict
<1>3. ASSUME NEW p \in Callers, updateStatus(p) PROVE IInv'
  <2>1. CASE StatusGet(p)
    BY <2>1, StatusGetStep
  <2>2. CASE StatusUpdate(p)
    <3>1. CASE Write(obj.workloads) /\ Return(p, Ok(0))
      BY <1>r, <2>2, <3>1, RewriteStep DEF StatusUpdate
    <3>2. CASE UNCHANGED <<obj, version>> /\ Return(p, NoResult)
      BY <1>r, <2>2, <3>2, ReturnStep DEF StatusUpdate
    <3> QED
      BY <2>2, <3>1, <3>2 DEF StatusUpdate
  <2> QED
    BY <1>3, <2>1, <2>2 DEF updateStatus
<1>4. ASSUME NEW p \in Callers, create(p) PROVE IInv'
  <2>1. CASE Write({}) /\ Return(p, Ok(0))
    BY <1>4, <1>r, <2>1, EmptyStep DEF create
  <2>2. CASE UNCHANGED <<obj, version>> /\ Return(p, NoResult)
    BY <1>4, <1>r, <2>2, ReturnStep DEF create
  <2> QED
    BY <1>4, <2>1, <2>2 DEF create
<1>5. ASSUME NEW p \in Callers, delete(p) PROVE IInv'
  BY <1>5, <1>r, DeleteStep DEF delete
<1>6. ASSUME NEW p \in Callers, ServerError(p) PROVE IInv'
  BY <1>6, ServerErrorStep
<1>7. ASSUME NEW t \in Targets, PodStep(t) PROVE IInv'
  BY <1>7, PodStepStep
<1>8. CASE Age
  BY <1>8, AgeStep
<1>9. CASE UNCHANGED vars
  BY <1>9 DEF vars, IInv, TypeOK, ListsFinite, VersionsBounded, SnapCurrent,
              AttachedStarted, CleanerKnowsOld, Live, Object!Live
<1> QED
  BY <1>1, <1>2, <1>3, <1>4, <1>5, <1>6, <1>7, <1>8, <1>9 DEF Next

LEMMA IInvAlways == Spec => []IInv
  BY InitIInv, NextIInv, PTL DEF Spec

\* The client's state stays well typed; a count returned is a number.
THEOREM TypeCorrect == Spec => []TypeOK
<1>1. IInv => TypeOK
  BY DEF IInv
<1> QED
  BY <1>1, IInvAlways, PTL

-----------------------------------------------------------------------------
(* The refinement. *)

LEMMA InitObject == Init => Object!Init
  BY DEF Init, Object!Init, crd, NoResult, Object!NoResult

\* Both modules count with the operator of FiniteSets.
LEMMA SameCardinality == \A S : Object!Cardinality(S) = Cardinality(S)
  BY DEF Object!Cardinality, Cardinality

\* There is a list in the abstract object exactly when there is an object.
LEMMA CrdIs ==
  ASSUME IInv
  PROVE  /\ crd = NoCRD <=> obj = NoCRD
         /\ obj # NoCRD => crd = obj.workloads
  BY ClientNulls DEF IInv, TypeOK, crd

\* The list the abstract object has after a write.
LEMMA WriteIs ==
  ASSUME IInv, NEW W \in SUBSET Workload, Write(W)
  PROVE  obj' # NoCRD /\ crd' = W
<1>1. obj' \in HFMounts /\ obj'.workloads = W
  BY ClientAssumption DEF Write, HFMounts, IInv, TypeOK
<1> QED
  BY <1>1, ClientNulls DEF crd

\* While the object is at the version a caller read, the write of the caller
\* is the effect of its whole operation, and leaves the list it reports.
LEMMA WriteIsEffect ==
  ASSUME IInv, NEW p \in Callers, Holding(p), obj # NoCRD, obj.rv = snap[p].rv,
         Write(IF todo[p].kind = "status" THEN obj.workloads ELSE snap[p].workloads)
  PROVE  /\ Object!Effect(p)
         /\ todo[p] \in Edits => crd' = snap[p].workloads
<1>1. obj.workloads \in SUBSET Workload /\ snap[p].workloads \in SUBSET Workload
  BY DEF IInv, TypeOK, HFMounts, Holding
<1>2. CASE todo[p] \in Edits
  <2>1. todo[p].kind # "status"
    BY <1>2 DEF Edits, Object!Edits
  <2>2. crd' = snap[p].workloads
    BY <1>1, <2>1, WriteIs
  <2>3. snap[p].workloads = Object!Edited(todo[p], obj.workloads)
    BY <1>2 DEF IInv, SnapCurrent, Holding
  <2> QED
    BY <1>2, <2>2, <2>3, CrdIs DEF Object!Effect, Edits
<1>3. CASE todo[p] \notin Edits
  <2>1. todo[p].kind = "status"
    BY <1>3 DEF IInv, SnapCurrent, Holding
  <2>2. crd' = crd
    BY <1>1, <2>1, WriteIs, CrdIs
  <2> QED
    BY <1>3, <2>1, <2>2, CrdIs DEF Object!Effect
<1> QED
  BY <1>2, <1>3

\* A call that returns an error, whatever it has done, is a failed one.
LEMMA ReturnIsFail ==
  ASSUME NEW p \in Callers, todo[p] # NoOp, Return(p, NoResult), UNCHANGED pods,
         UNCHANGED crd \/ Object!Effect(p)
  PROVE  Object!Fail(p)
  BY DEF Return, Object!Fail, Object!Return, NoResult

LEMMA NextObject == IInv /\ [Next]_vars => [Object!Next]_(Object!vars)
<1> SUFFICES ASSUME IInv, [Next]_vars
             PROVE  Object!Next \/ UNCHANGED <<crd, pods, todo, result>>
  BY DEF Object!vars
<1>1. ASSUME NEW p \in Callers, Invoke(p)
      PROVE  Object!Invoke(p)
  BY <1>1 DEF Invoke, Object!Invoke, crd, Ops, Live
<1>2. ASSUME NEW p \in Callers, Get(p)
      PROVE  Object!Fail(p) \/ Object!Perform(p) \/ UNCHANGED <<crd, pods, todo, result>>
  <2> DEFINE workloads == Object!Edited(todo[p], obj.workloads)
  <2>0. Reading(p) /\ todo[p] \in Edits /\ UNCHANGED <<obj, version, pods>> /\ UNCHANGED crd
    BY <1>2 DEF Get, crd
  <2>1. CASE Return(p, NoResult)
    BY <2>0, <2>1, ReturnIsFail DEF Reading
  <2>2. CASE obj # NoCRD /\ workloads = obj.workloads /\ Return(p, Ok(Cardinality(workloads)))
    <3>1. Object!Effect(p)
      BY <2>0, <2>2, CrdIs DEF Object!Effect, Edits
    <3>2. Cardinality(workloads) = Cardinality(crd')
      BY <2>0, <2>2, CrdIs
    <3> QED
      BY <2>0, <2>2, <3>1, <3>2, SameCardinality
         DEF Object!Perform, Return, Object!Return, Ok, Reading, Edits
  <2>3. CASE UNCHANGED <<todo, result, attempt>>
    BY <2>0, <2>3
  <2> QED
    BY <1>2, <2>1, <2>2, <2>3 DEF Get
<1>3. ASSUME NEW p \in Callers, Update(p)
      PROVE  Object!Perform(p)
  <2>1. todo[p] \in Edits /\ todo[p].kind # "status"
    BY <1>3 DEF Update, Edits, Object!Edits
  <2>2. Object!Effect(p) /\ crd' = snap[p].workloads
    BY <1>3, <2>1, WriteIsEffect DEF Update
  <2> QED
    BY <1>3, <2>1, <2>2, SameCardinality
       DEF Update, Holding, Object!Perform, Return, Object!Return, Ok, Edits
<1>4. ASSUME NEW p \in Callers, UpdateNotFound(p)
      PROVE  Object!Fail(p)
  BY <1>4, ReturnIsFail DEF UpdateNotFound, Holding, crd
<1>5. ASSUME NEW p \in Callers, Conflict(p)
      PROVE  Object!Fail(p) \/ UNCHANGED <<crd, pods, todo, result>>
  BY <1>5, ReturnIsFail DEF Conflict, Holding, crd
<1>6. ASSUME NEW p \in Callers, StatusGet(p)
      PROVE  Object!Fail(p) \/ UNCHANGED <<crd, pods, todo, result>>
  BY <1>6, ReturnIsFail DEF StatusGet, Reading, crd
<1>7. ASSUME NEW p \in Callers, StatusUpdate(p)
      PROVE  Object!Fail(p) \/ Object!Perform(p)
  <2>0. Holding(p) /\ todo[p].kind = "status" /\ obj # NoCRD /\ UNCHANGED pods
    BY <1>7 DEF StatusUpdate
  <2>1. CASE obj.rv = snap[p].rv /\ Write(obj.workloads) /\ Return(p, Ok(0))
    <3>1. Object!Effect(p)
      BY <2>0, <2>1, WriteIsEffect
    <3>2. todo[p] \notin Object!Edits
      BY <2>0 DEF Object!Edits
    <3> QED
      BY <2>0, <2>1, <3>1, <3>2 DEF Holding, Object!Perform, Return, Object!Return, Ok
  <2>2. CASE UNCHANGED <<obj, version>> /\ Return(p, NoResult)
    BY <2>0, <2>2, ReturnIsFail DEF Holding, crd
  <2> QED
    BY <1>7, <2>1, <2>2 DEF StatusUpdate
<1>8. ASSUME NEW p \in Callers, create(p)
      PROVE  Object!Fail(p) \/ Object!Perform(p)
  <2>0. Reading(p) /\ todo[p].kind = "create" /\ UNCHANGED pods
    BY <1>8 DEF create
  <2>1. CASE obj = NoCRD /\ Write({}) /\ Return(p, Ok(0))
    <3>1. Object!Effect(p)
      BY <2>0, <2>1, WriteIs, CrdIs DEF Object!Effect
    <3>2. todo[p] \notin Object!Edits
      BY <2>0 DEF Object!Edits
    <3> QED
      BY <2>0, <2>1, <3>1, <3>2 DEF Reading, Object!Perform, Return, Object!Return, Ok
  <2>2. CASE UNCHANGED <<obj, version>> /\ Return(p, NoResult)
    BY <2>0, <2>2, ReturnIsFail DEF Reading, crd
  <2> QED
    BY <1>8, <2>1, <2>2 DEF create
<1>9. ASSUME NEW p \in Callers, delete(p)
      PROVE  Object!Perform(p)
  <2>1. Object!Effect(p)
    BY <1>9 DEF delete, Object!Effect, crd
  <2>2. todo[p] \notin Object!Edits
    BY <1>9 DEF delete, Object!Edits
  <2> QED
    BY <1>9, <2>1, <2>2 DEF delete, Reading, Object!Perform, Return, Object!Return, Ok
<1>10. ASSUME NEW p \in Callers, ServerError(p)
       PROVE  Object!Fail(p)
  <2>1. CASE UNCHANGED <<obj, version>>
    BY <1>10, <2>1, ReturnIsFail DEF ServerError, crd
  <2>2. CASE /\ Holding(p) /\ obj # NoCRD /\ obj.rv = snap[p].rv
             /\ Write(IF todo[p].kind = "status" THEN obj.workloads ELSE snap[p].workloads)
    BY <1>10, <2>2, WriteIsEffect, ReturnIsFail DEF ServerError
  <2>3. CASE todo[p].kind = "create" /\ obj = NoCRD /\ Write({})
    <3>1. Object!Effect(p)
      BY <2>3, WriteIs, CrdIs DEF Object!Effect
    <3> QED
      BY <1>10, <3>1, ReturnIsFail DEF ServerError
  <2>4. CASE todo[p].kind = "delete" /\ obj' = NoCRD
    <3>1. Object!Effect(p)
      BY <2>4 DEF Object!Effect, crd
    <3> QED
      BY <1>10, <3>1, ReturnIsFail DEF ServerError
  <2> QED
    BY <1>10, <2>1, <2>2, <2>3, <2>4 DEF ServerError, Stored
<1>11. ASSUME NEW t \in Targets, PodStep(t)
       PROVE  Object!PodStep(t)
  BY <1>11 DEF PodStep, Object!PodStep, crd
<1>12. ASSUME Age
       PROVE  Object!Age
  <2>1. obj \in HFMounts /\ obj.workloads \in SUBSET Workload /\ IsFiniteSet(obj.workloads)
    BY <1>12 DEF Age, IInv, TypeOK, ListsFinite, HFMounts
  <2>2. obj' \in HFMounts /\ obj'.workloads = Aged(obj.workloads)
    BY <1>12, <2>1, AgedType DEF Age, HFMounts
  <2>3. crd # NoCRD /\ crd' = Aged(crd)
    BY <1>12, <2>2, CrdIs, ClientNulls DEF Age, crd
  <2>4. Aged(crd) = Object!Aged(crd)
    BY DEF Aged, Object!Aged
  <2> QED
    BY <1>12, <2>3, <2>4 DEF Age, Object!Age
<1>13. CASE UNCHANGED vars
  BY <1>13 DEF vars, crd
<1> QED
  BY <1>1, <1>2, <1>3, <1>4, <1>5, <1>6, <1>7, <1>8, <1>9, <1>10, <1>11, <1>12, <1>13
     DEF Next, retryOnConflict, updateStatus, Object!Next

\* retryOnConflict, updateStatus, create and delete implement the atomic
\* operations of HFMountObject: no update is lost, and the number of remaining
\* workloads a call returns is that of the list it left.
THEOREM Refinement == Spec => ImplementsObject
  BY InitObject, NextObject, IInvAlways, PTL
     DEF Spec, ImplementsObject, Object!Spec, Object!vars

-----------------------------------------------------------------------------
(* What a cleaner may not do. *)

\* An operation that leaves no attachment for the path of a running pod is the
\* removal of that path.
LEMMA EffectSparesLive ==
  ASSUME IInv, NEW p \in Callers, todo[p] \in Ops, Object!Effect(p),
         obj # NoCRD, obj' # NoCRD, crd' # NoCRD,
         NEW w \in Workload, w \in crd, w.uid \in Live, w.target = w.uid,
         \A x \in crd' : x.target # w.target
  PROVE  todo[p] = [kind |-> "remove", target |-> w.target]
<1>0. crd = obj.workloads
  BY CrdIs
<1>1. CASE todo[p] \in Edits
  <2>0. crd' = Object!Edited(todo[p], crd)
    BY <1>1 DEF Object!Effect, Edits, Object!Edits
  <2>1. CASE \E t \in Targets : todo[p] = [kind |-> "add", target |-> t]
    <3> PICK t \in Targets : todo[p] = [kind |-> "add", target |-> t]
      BY <2>1
    <3>1. crd' = AddWorkload(crd, t, t)
      BY <2>0, EditedIs
    <3>2. w \in crd'
      BY <3>1 DEF AddWorkload
    <3> QED
      BY <3>2
  <2>2. CASE \E t \in Targets : todo[p] = [kind |-> "remove", target |-> t]
    BY <2>0, <2>2, EditedIs DEF RemoveWorkload
  <2>3. CASE \E L \in SUBSET Targets : todo[p] = [kind |-> "stale", live |-> L]
    <3> PICK L \in SUBSET Targets : todo[p] = [kind |-> "stale", live |-> L]
      BY <2>3
    <3>1. w.old => w.uid \in L
      BY <1>0 DEF IInv, CleanerKnowsOld
    <3>2. crd' = RemainingWorkloads(crd, L)
      BY <2>0, EditedIs
    <3>3. w \in crd'
      BY <3>1, <3>2 DEF RemainingWorkloads
    <3> QED
      BY <3>3
  <2> QED
    BY <1>1, <2>1, <2>2, <2>3, EditCases
<1>2. CASE todo[p] \notin Edits
  <2>1. CASE todo[p] = [kind |-> "create"]
    BY <2>1, <1>2, CrdIs DEF Object!Effect, Edits
  <2>2. CASE todo[p] = [kind |-> "delete"]
    BY <2>2, <1>2 DEF Object!Effect, Edits
  <2>3. CASE todo[p] = [kind |-> "status"]
    BY <2>3, <1>2 DEF Object!Effect, Edits
  <2> QED
    BY <1>2, <2>1, <2>2, <2>3, OtherCases
<1> QED
  BY <1>1, <1>2

LEMMA NextSparesLive ==
  ASSUME IInv, IInv', [Next]_vars,
         NEW w \in Workload, obj # NoCRD, obj' # NoCRD,
         w.uid \in Live, w.target = w.uid, w \in crd,
         \A x \in crd' : x.target # w.target
  PROVE  \E p \in Callers : todo[p] = [kind |-> "remove", target |-> w.target]
<1>0. crd' # crd
  OBVIOUS
<1>1. obj' \in HFMounts
  BY DEF IInv, TypeOK
<1>2. crd' # NoCRD
  BY <1>1, ClientNulls DEF crd
<1>3. Object!Next
  BY <1>0, NextObject DEF Object!vars
<1>4. ASSUME NEW p \in Callers, Object!Perform(p) \/ Object!Fail(p)
      PROVE  todo[p] = [kind |-> "remove", target |-> w.target]
  <2>1. Object!Effect(p) /\ todo[p] \in Ops
    BY <1>0, <1>4 DEF Object!Perform, Object!Fail, IInv, TypeOK
  <2> QED
    BY <1>2, <2>1, EffectSparesLive
<1>5. ~ Object!Age
  <2> SUFFICES ASSUME Object!Age PROVE FALSE
    OBVIOUS
  <2>1. [w EXCEPT !.old = TRUE] \in crd'
    BY DEF Object!Age, Object!Aged
  <2>2. [w EXCEPT !.old = TRUE].target = w.target
    BY DEF Workload
  <2> QED
    BY <2>1, <2>2
<1>6. \A p \in Callers : ~ Object!Invoke(p)
  BY <1>0 DEF Object!Invoke
<1>7. \A t \in Targets : ~ Object!PodStep(t)
  BY <1>0 DEF Object!PodStep
<1> QED
  BY <1>3, <1>4, <1>5, <1>6, <1>7 DEF Object!Next

\* No cleaner, however old the list of pods it works from, drops the attachment
\* of a running pod: only removeWorkload for its own target path does.
THEOREM CleanerSparesLive == Spec => StaleSparesLive
<1>1. IInv /\ IInv' /\ [Next]_vars =>
        [\A w \in Workload :
           obj # NoCRD /\ obj' # NoCRD /\ w.uid \in Live /\ w.target = w.uid
             /\ w \in crd /\ (\A x \in crd' : x.target # w.target)
             => \E p \in Callers : todo[p] = [kind |-> "remove", target |-> w.target]]_vars
  BY NextSparesLive
<1> QED
  BY <1>1, IInvAlways, PTL DEF Spec, StaleSparesLive
=============================================================================
