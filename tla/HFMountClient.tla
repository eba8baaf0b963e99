---------------------------- MODULE HFMountClient ----------------------------
(***************************************************************************)
(* hfMountClient (pkg/driver/hfmount.go) against the API server: the       *)
(* read-modify-write loop of retryOnConflict, updateStatus, create and     *)
(* delete, by callers that share nothing but the object.  The server       *)
(* (external) gives every write a new resourceVersion and refuses an       *)
(* update that was read at an older one.                                   *)
(***************************************************************************)
EXTENDS HFMount, Integers, FiniteSets

CONSTANTS Callers, NoCRD, NoOp,
          NoSnap,       \* nothing read
          MaxAttempts,  \* 5 in the code
          MaxVersion    \* bound on the writes of a run

ASSUME ClientAssumption ==
  /\ NoUID \notin Targets
  /\ MaxAttempts \in Nat \ {0}
  /\ MaxVersion \in Nat

VARIABLES obj,      \* the HFMount: [rv, workloads], or NoCRD
          version,  \* the last resourceVersion given
          pods, todo, result,
          snap,     \* snap[p]: the object p has read, its workloads edited
          attempt   \* attempt[p]: conflicts so far

crd == IF obj = NoCRD THEN NoCRD ELSE obj.workloads

Object == INSTANCE HFMountObject

Ops == Object!Ops
Edits == Object!Edits
Ok(n) == Object!Ok(n)
NoResult == Object!NoResult
Live == Object!Live

vars == <<obj, version, pods, todo, result, snap, attempt>>

HFMounts == [rv : 1..MaxVersion, workloads : SUBSET Workload]

ASSUME ClientNulls == /\ \A o \in HFMounts : o # NoCRD /\ o # NoSnap /\ o.workloads # NoCRD
                      /\ \A op \in Ops : op # NoOp

TypeOK ==
  /\ obj \in HFMounts \cup {NoCRD}
  /\ version \in 0..MaxVersion
  /\ pods \in [Targets -> {"new", "live", "ended"}]
  /\ todo \in [Callers -> Ops \cup {NoOp}]
  /\ result \in [Callers -> [ok : BOOLEAN, count : Nat]]
  /\ snap \in [Callers -> HFMounts \cup {NoSnap}]
  /\ attempt \in [Callers -> 0..(MaxAttempts - 1)]

Init ==
  /\ obj = NoCRD
  /\ version = 0
  /\ pods = [t \in Targets |-> "new"]
  /\ todo = [p \in Callers |-> NoOp]
  /\ result = [p \in Callers |-> NoResult]
  /\ snap = [p \in Callers |-> NoSnap]
  /\ attempt = [p \in Callers |-> 0]

Invoke(p) ==
  /\ todo[p] = NoOp
  /\ \E op \in Ops : /\ op.kind = "stale" => op.live = Live
                     /\ op.kind = "add" => pods[op.target] # "new"
                     /\ todo' = [todo EXCEPT ![p] = op]
  /\ UNCHANGED <<obj, version, pods, result, snap, attempt>>

Return(p, r) ==
  /\ todo' = [todo EXCEPT ![p] = NoOp]
  /\ result' = [result EXCEPT ![p] = r]
  /\ snap' = [snap EXCEPT ![p] = NoSnap]
  /\ attempt' = [attempt EXCEPT ![p] = 0]

\* The server stores a list under a new resourceVersion.
Write(workloads) ==
  /\ version < MaxVersion
  /\ version' = version + 1
  /\ obj' = [rv |-> version + 1, workloads |-> workloads]

Reading(p) == todo[p] # NoOp /\ snap[p] = NoSnap
Holding(p) == todo[p] # NoOp /\ snap[p] # NoSnap

\* Get and mutate: a missing object is an error, a list that stays as it is
\* needs no update.
Get(p) ==
  /\ Reading(p) /\ todo[p] \in Edits
  /\ \/ obj = NoCRD /\ Return(p, NoResult)
     \/ /\ obj # NoCRD
        /\ LET workloads == Object!Edited(todo[p], obj.workloads)
           IN \/ workloads = obj.workloads /\ Return(p, Ok(Cardinality(workloads)))
              \/ /\ workloads # obj.workloads
                 /\ snap' = [snap EXCEPT ![p] = [obj EXCEPT !.workloads = workloads]]
                 /\ UNCHANGED <<todo, result, attempt>>
  /\ UNCHANGED <<obj, version, pods>>

\* Mutant of Update: written without a resourceVersion, the last one wins.
UpdateBlind(p) ==
  /\ Holding(p) /\ todo[p] \in Edits
  /\ obj # NoCRD
  /\ Write(snap[p].workloads)
  /\ Return(p, Ok(Cardinality(snap[p].workloads)))
  /\ UNCHANGED pods

\* Update, at the version that was read.
Update(p) ==
  /\ Holding(p) /\ todo[p] \in Edits
  /\ obj # NoCRD /\ obj.rv = snap[p].rv
  /\ Write(snap[p].workloads)
  /\ Return(p, Ok(Cardinality(snap[p].workloads)))
  /\ UNCHANGED pods

\* The object is gone: not a conflict.
UpdateNotFound(p) ==
  /\ Holding(p)
  /\ obj = NoCRD
  /\ Return(p, NoResult)
  /\ UNCHANGED <<obj, version, pods>>

\* Conflict: read again, or give up at the retry limit.
Conflict(p) ==
  /\ Holding(p) /\ todo[p] \in Edits
  /\ obj # NoCRD /\ obj.rv # snap[p].rv
  /\ \/ attempt[p] + 1 = MaxAttempts /\ Return(p, NoResult)
     \/ /\ attempt[p] + 1 < MaxAttempts
        /\ snap' = [snap EXCEPT ![p] = NoSnap]
        /\ attempt' = [attempt EXCEPT ![p] = @ + 1]
        /\ UNCHANGED <<todo, result>>
  /\ UNCHANGED <<obj, version, pods>>

\* updateStatus: read, then one UpdateStatus.  The list stays, the version does
\* not; a conflict is an error.
StatusGet(p) ==
  /\ Reading(p) /\ todo[p].kind = "status"
  /\ \/ obj = NoCRD /\ Return(p, NoResult)
     \/ /\ obj # NoCRD
        /\ snap' = [snap EXCEPT ![p] = obj]
        /\ UNCHANGED <<todo, result, attempt>>
  /\ UNCHANGED <<obj, version, pods>>

StatusUpdate(p) ==
  /\ Holding(p) /\ todo[p].kind = "status"
  /\ obj # NoCRD
  /\ \/ obj.rv = snap[p].rv /\ Write(obj.workloads) /\ Return(p, Ok(0))
     \/ obj.rv # snap[p].rv /\ UNCHANGED <<obj, version>> /\ Return(p, NoResult)
  /\ UNCHANGED pods

create(p) ==
  /\ Reading(p) /\ todo[p].kind = "create"
  /\ \/ obj = NoCRD /\ Write({}) /\ Return(p, Ok(0))
     \/ obj # NoCRD /\ UNCHANGED <<obj, version>> /\ Return(p, NoResult)
  /\ UNCHANGED pods

\* delete asks for no version, and a missing object is no error.
delete(p) ==
  /\ Reading(p) /\ todo[p].kind = "delete"
  /\ obj' = NoCRD
  /\ Return(p, Ok(0))
  /\ UNCHANGED <<version, pods>>

\* What the server stores for the request p makes next (external).
Stored(p) ==
  \/ /\ Holding(p) /\ obj # NoCRD /\ obj.rv = snap[p].rv
     /\ Write(IF todo[p].kind = "status" THEN obj.workloads ELSE snap[p].workloads)
  \/ Reading(p) /\ todo[p].kind = "create" /\ obj = NoCRD /\ Write({})
  \/ Reading(p) /\ todo[p].kind = "delete" /\ obj' = NoCRD /\ UNCHANGED version

\* A request fails, or the answer to one that was stored is lost.
ServerError(p) ==
  /\ todo[p] # NoOp
  /\ UNCHANGED <<obj, version>> \/ Stored(p)
  /\ Return(p, NoResult)
  /\ UNCHANGED pods

PodStep(t) ==
  /\ \/ pods[t] = "new" /\ pods' = [pods EXCEPT ![t] = "live"]
     \/ pods[t] = "live" /\ pods' = [pods EXCEPT ![t] = "ended"]
  /\ UNCHANGED <<obj, version, todo, result, snap, attempt>>

\* Two minutes pass, longer than any call takes.
Age ==
  /\ obj # NoCRD
  /\ \A p \in Callers : snap[p] = NoSnap /\ (todo[p] # NoOp => todo[p].kind # "stale")
  /\ obj' = [obj EXCEPT !.workloads = Aged(@)]
  /\ UNCHANGED <<version, pods, todo, result, snap, attempt>>

retryOnConflict(p) == Get(p) \/ Update(p) \/ UpdateNotFound(p) \/ Conflict(p)
updateStatus(p) == StatusGet(p) \/ StatusUpdate(p)

Next ==
  \/ \E p \in Callers : \/ Invoke(p) \/ retryOnConflict(p) \/ updateStatus(p)
                        \/ create(p) \/ delete(p) \/ ServerError(p)
  \/ \E t \in Targets : PodStep(t)
  \/ Age

Spec == Init /\ [][Next]_vars

-----------------------------------------------------------------------------
(* Properties. *)

\* The loop of retryOnConflict makes every operation atomic: no update of
\* another caller is lost, and the count removeWorkload and
\* removeStaleWorkloads return is that of the list they left.
ImplementsObject == Object!Spec

\* The attachment of a running pod is dropped only by a call that names its
\* target path: a cleaner judges by a list of pods that may be out of date,
\* but an attachment younger than staleThreshold stays (removeStaleWorkloads).
StaleSparesLive ==
  [][\A w \in Workload :
       obj # NoCRD /\ obj' # NoCRD /\ w.uid \in Live /\ w.target = w.uid
         /\ w \in crd /\ (\A x \in crd' : x.target # w.target)
         => \E p \in Callers : todo[p] = [kind |-> "remove", target |-> w.target]]_vars
=============================================================================
