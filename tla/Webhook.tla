------------------------------- MODULE Webhook -------------------------------
(***************************************************************************)
(* The sidecar injector (pkg/webhook) and what it must agree on with the   *)
(* node driver: a pod is admitted, perhaps more than once and before its   *)
(* claims are bound; then kubelet publishes its volumes and the driver     *)
(* decides by itself how each is mounted.                                  *)
(***************************************************************************)
EXTENDS MountResources, FiniteSets, Sequences, Functions

CONSTANTS Volume,     \* the volumes an author may put into a pod (see below)
          MaxVolumes,
          MinTerminationGracePeriodSeconds,
          Graces,     \* the grace periods an author may choose, or Unset
          Formats,    \* the log formats a volume or the webhook may name
          NoSidecar, NoMountPod

\* A volume of this driver.  claim: through a PVC; mountMode: the attribute
\* ("" if not set, "other" if it is no mode); access: what makes it read-only,
\* if anything: the readOnly field of the pod's volume (kubelet passes it on in
\* the request), that of the PV (it does not), a mount flag or option, its source
\* type; attrs: its resource attributes; logFormat: that attribute, "" if not set.
VolumeRecord == [claim : BOOLEAN, mountMode : {"", "sidecar", "mountpod", "other"},
                 access : {"write", "field", "pv", "flag", "repo"}, attrs : Attributes,
                 logFormat : Formats \cup {""}]

\* What a container is given, and the sidecar of a pod.
Requirements == [limit : Quantity \cup {Unset}, request : Quantity]
Sidecars == [expected : 0..MaxVolumes, grace : Nat, resources : Requirements,
             logFormat : Formats \cup {""}]

ASSUME WebhookAssumption ==
  /\ Volume \subseteq VolumeRecord
  /\ MaxVolumes \in Nat
  /\ MinTerminationGracePeriodSeconds \in Nat
  /\ Graces \subseteq Nat \cup {Unset}
  /\ NoSidecar \notin Sidecars /\ NoMountPod \notin Requirements

\* A volume without a claim has no PV; a format is no empty string.
ASSUME VolumeAssumption == (\A v \in Volume : v.access = "pv" => v.claim) /\ "" \notin Formats

VARIABLES vols,       \* the volumes of the pod, in order
          podInfo,    \* podInfoOnMount: requests carry the UID of the pod
          author,     \* the grace period its author has chosen
          config,     \* SidecarLogFormat of the webhook
          bound,      \* the positions whose claim is bound to its PV
          pod,        \* [sidecar, grace, annotation] as stored
          admitted,   \* the pod is stored
          missed,     \* history: an admission did not see a volume
          published,  \* published[i]: "no", "sidecar" or "mountpod"
          hfmount,    \* hfmount[i]: args and resources kept by mount-pod mode
          mountPod    \* mountPod[i]: the resources of its mount pod

vars == <<vols, podInfo, author, config, bound, pod, admitted, missed, published, hfmount,
          mountPod>>

Positions == DOMAIN vols
Claims == {i \in Positions : vols[i].claim}

-----------------------------------------------------------------------------
(* The webhook. *)

maxQuantity(a, b) == IF a = Unset THEN b ELSE IF b = Unset THEN a
                     ELSE IF a < b THEN b ELSE a

\* Mutant of mergeMaxResources: the first volume that sets a field wins.
MergeFirst(dst, other) == [f \in Fields |-> IF dst[f] # Unset THEN dst[f] ELSE other[f]]

mergeMaxResources(dst, other) == [f \in Fields |-> maxQuantity(dst[f], other[f])]

volumeIsReadOnly(v) == v.access # "write"

NoHints == [count |-> 0, resources |-> [f \in Fields |-> Unset], logFormat |-> "",
            allReadOnly |-> TRUE]

\* Mutant of ScanVolume: the last volume decides.
ScanVolumeLast(scan, v) ==
  IF v.mountMode = "mountpod" THEN scan
  ELSE [count |-> scan.count + 1,
        resources |-> mergeMaxResources(scan.resources, ParseMountResources(v.attrs)),
        logFormat |-> IF scan.logFormat = "" THEN v.logFormat ELSE scan.logFormat,
        allReadOnly |-> volumeIsReadOnly(v)]

\* One volume of the loop.
ScanVolume(scan, v) ==
  IF v.mountMode = "mountpod" THEN scan
  ELSE [count |-> scan.count + 1,
        resources |-> mergeMaxResources(scan.resources, ParseMountResources(v.attrs)),
        logFormat |-> IF scan.logFormat = "" THEN v.logFormat ELSE scan.logFormat,
        allReadOnly |-> scan.allReadOnly /\ volumeIsReadOnly(v)]

\* Mutant of scanHFCSIVolumes: inline volumes only.
ScanInline(list, seen) ==
  LET scan[n \in 0..Len(list)] == CASE n = 0 -> NoHints
                                    [] n > 0 /\ list[n].claim -> scan[n - 1]
                                    [] OTHER -> ScanVolume(scan[n - 1], list[n])
  IN scan[Len(list)]

\* seen: the positions that are inline or whose claim resolves to a PV of this driver.
scanHFCSIVolumes(list, seen) ==
  LET scan[n \in 0..Len(list)] == IF n = 0 THEN NoHints
                                  ELSE IF n \in seen THEN ScanVolume(scan[n - 1], list[n])
                                  ELSE scan[n - 1]
  IN scan[Len(list)]

\* The minimum grace period; the annotation keeps the value that was raised.
ensureTerminationGracePeriod(p) ==
  IF p.grace # Unset /\ p.grace >= MinTerminationGracePeriodSeconds THEN p
  ELSE [p EXCEPT !.grace = MinTerminationGracePeriodSeconds, !.annotation = <<p.grace>>]

\* The webhook's own format, if it has one, goes before that of a volume.
LogFormat(scan) == IF config = "" THEN scan.logFormat ELSE config

\* Mutant of injectSidecar: the grace period is read before it is raised.
InjectEarlyGrace(p, scan) ==
  [ensureTerminationGracePeriod(p) EXCEPT
     !.sidecar = [expected |-> scan.count, grace |-> p.grace, logFormat |-> LogFormat(scan),
                  resources |-> BuildResourceRequirements(scan.resources,
                                  DefaultMemoryRequestFor(scan.allReadOnly))]]

injectSidecar(p, scan) ==
  LET q == ensureTerminationGracePeriod(p)
  IN [q EXCEPT !.sidecar =
        [expected |-> scan.count, grace |-> q.grace, logFormat |-> LogFormat(scan),
         resources |-> BuildResourceRequirements(scan.resources,
                         DefaultMemoryRequestFor(scan.allReadOnly))]]

hasSidecar(p) == p.sidecar # NoSidecar

\* The inline volumes and the claims resolvePVFromPVC finds a PV for: one that
\* is not bound, or cannot be read, is passed over.
Resolvable(unread) == (Positions \ Claims) \cup (bound \ unread)

\* A CREATE request.
Handle(unread) ==
  /\ unread \subseteq Claims /\ \A i \in Positions : published[i] = "no"
  /\ LET seen == Resolvable(unread)
         scan == scanHFCSIVolumes(vols, seen)
     IN /\ pod' = IF scan.count = 0 \/ hasSidecar(pod) THEN pod ELSE injectSidecar(pod, scan)
        /\ missed' = (missed \/ seen # Positions)
  /\ admitted' = TRUE
  /\ UNCHANGED <<vols, podInfo, author, config, bound, published, hfmount, mountPod>>

-----------------------------------------------------------------------------
(* The node driver. *)

\* NodePublishVolume: sidecar unless the attribute says otherwise or the
\* request does not name the pod.
DriverMode(v) ==
  CASE v.mountMode \in {"", "sidecar"} -> IF podInfo THEN "sidecar" ELSE "mountpod"
    [] OTHER -> v.mountMode

\* buildArgs, with the flags of the request and the attributes; what the PV says
\* of itself is not among them.
buildArgs(v) == (IF v.access \in {"field", "flag"} THEN {"--read-only"} ELSE {})
                  \cup (IF v.access = "repo" THEN {"repo"} ELSE {"bucket"})

MountPodFrom(m) == BuildResourceRequirements(MountResourcesFromUnstructured(m.resources),
                                             DefaultMemoryRequestFor(ReadOnlyFromArgs(m.args)))

\* A volume is published once its claim is bound, if its mode is one; sidecar
\* mode needs the directory the webhook has added.
Publish(i) ==
  /\ admitted /\ published[i] = "no" /\ i \in (Positions \ Claims) \cup bound
  /\ DriverMode(vols[i]) # "other"
  /\ DriverMode(vols[i]) = "sidecar" => hasSidecar(pod)
  /\ published' = [published EXCEPT ![i] = DriverMode(vols[i])]
  /\ IF DriverMode(vols[i]) = "sidecar" THEN UNCHANGED <<hfmount, mountPod>>
     ELSE LET res == ParseMountResources(vols[i].attrs)
              args == buildArgs(vols[i])
          IN /\ hfmount' = [hfmount EXCEPT ![i] = [args |-> args, resources |-> ToUnstructured(res)]]
             /\ mountPod' = [mountPod EXCEPT ![i] =
                  BuildResourceRequirements(res, DefaultMemoryRequestFor(ReadOnlyFromArgs(args)))]
  /\ UNCHANGED <<vols, podInfo, author, config, bound, pod, admitted, missed>>

\* tryHealSource builds a lost mount pod again from its HFMount.
Heal(i) ==
  /\ published[i] = "mountpod"
  /\ mountPod' = [mountPod EXCEPT ![i] = MountPodFrom(hfmount[i])]
  /\ UNCHANGED <<vols, podInfo, author, config, bound, pod, admitted, missed, published, hfmount>>

-----------------------------------------------------------------------------
(* The API server (external). *)

Bind(i) ==
  /\ i \in Claims \ bound /\ bound' = bound \cup {i}
  /\ UNCHANGED <<vols, podInfo, author, config, pod, admitted, missed, published, hfmount, mountPod>>

\* The webhook does not answer and failurePolicy is Ignore.
Bypass ==
  /\ ~admitted /\ admitted' = TRUE /\ missed' = TRUE
  /\ UNCHANGED <<vols, podInfo, author, config, bound, pod, published, hfmount, mountPod>>

Init ==
  /\ \E n \in 1..MaxVolumes : vols \in [1..n -> Volume]
  /\ podInfo \in BOOLEAN /\ author \in Graces /\ config \in Formats \cup {""}
  /\ bound = {}
  /\ pod = [sidecar |-> NoSidecar, grace |-> author, annotation |-> <<>>]
  /\ admitted = FALSE /\ missed = FALSE
  /\ published = [i \in Positions |-> "no"]
  /\ hfmount = [i \in Positions |-> NoMountPod]
  /\ mountPod = [i \in Positions |-> NoMountPod]

Next ==
  \/ \E unread \in SUBSET Claims : Handle(unread)
  \/ \E i \in Positions : Publish(i) \/ Heal(i) \/ Bind(i)
  \/ Bypass

Spec == Init /\ [][Next]_vars

-----------------------------------------------------------------------------
(* Properties. *)

TypeOK ==
  /\ \A i \in Positions : vols[i] \in Volume
  /\ bound \subseteq Claims /\ podInfo \in BOOLEAN /\ admitted \in BOOLEAN /\ missed \in BOOLEAN
  /\ pod.sidecar # NoSidecar => /\ pod.sidecar.expected \in 1..MaxVolumes
                                /\ pod.sidecar.resources \in Requirements
                                /\ pod.sidecar.logFormat \in Formats \cup {""}
  /\ pod.grace \in Graces \cup {MinTerminationGracePeriodSeconds}
  /\ \A i \in Positions : /\ published[i] \in {"no", "sidecar", "mountpod"}
                          /\ (published[i] = "mountpod") <=> (mountPod[i] \in Requirements)

SidecarVolumes == {i \in Positions : DriverMode(vols[i]) = "sidecar"}

\* If the webhook saw every volume, and the driver is told the pods and the
\* modes are modes, it injected a sidecar exactly if the driver needs one, and
\* the sidecar waits for exactly the mounts the driver will hand over
\* (--expected-mounts): fewer would start the pod early, more never.
ExpectsWhatComes ==
  admitted /\ ~missed /\ podInfo /\ (\A i \in Positions : DriverMode(vols[i]) # "other") =>
    IF SidecarVolumes = {} THEN pod.sidecar = NoSidecar
    ELSE pod.sidecar # NoSidecar /\ pod.sidecar.expected = Cardinality(SidecarVolumes)

\* No container, the sidecar several volumes share or a mount pod, first or
\* healed, is given a request above its limit ("so the apiserver never rejects
\* the pod because of a conflicting hint").
RequestWithinLimit ==
  LET Valid(res) == res.limit # Unset => res.request <= res.limit
  IN /\ pod.sidecar # NoSidecar => Valid(pod.sidecar.resources)
     /\ \A i \in Positions : published[i] = "mountpod" => Valid(mountPod[i])

\* The volumes a sidecar is built for.
SidecarBuiltFor == {i \in Positions : vols[i].mountMode # "mountpod"}

\* The order of the volumes matters to nothing the sidecar is given ("picking
\* the max is order-independent") but its log format, and to that only if the
\* webhook has none of its own and two of the volumes name different ones.
OrderIndependent ==
  \A p \in Bijection(Positions, Positions) :
    LET Sidecar(list) == injectSidecar(pod, scanHFCSIVolumes(list, Positions)).sidecar
        other == Sidecar([i \in Positions |-> vols[p[i]]])
    IN /\ other = [Sidecar(vols) EXCEPT !.logFormat = other.logFormat]
       /\ other.logFormat # Sidecar(vols).logFormat =>
            /\ config = ""
            /\ \E i, j \in SidecarBuiltFor : /\ vols[i].logFormat # vols[j].logFormat
                                            /\ "" \notin {vols[i].logFormat, vols[j].logFormat}

\* A sidecar that serves a volume the driver mounts writable has the memory
\* request of writable mounts, if no volume it was built for asks for something
\* else, and unless only its PV calls the volume read-only: the webhook believes
\* the PV, but no request tells the driver.
WritersGetMemory ==
  pod.sidecar # NoSidecar /\ ~missed
    /\ (\A i \in SidecarBuiltFor : ParseMountResources(vols[i].attrs) = NoHints.resources)
    /\ (\E i \in Positions : /\ published[i] = "sidecar" /\ ~ReadOnlyFromArgs(buildArgs(vols[i]))
                             /\ vols[i].access # "pv")
    => pod.sidecar.resources.request = DefaultMountMemoryRequest

\* The sidecar plans its shutdown with the grace period kubelet will honour,
\* which is at least the minimum and never less than the author's; the
\* annotation tells the author's value if it was raised.
GraceHonoured ==
  pod.sidecar # NoSidecar =>
    /\ pod.sidecar.grace = pod.grace
    /\ pod.grace >= MinTerminationGracePeriodSeconds /\ pod.grace >= author
    /\ pod.annotation = IF pod.grace = author THEN <<>> ELSE <<author>>

\* A mount pod that tryHealSource builds has the resources of the first one.
HealedAlike == [][\A i \in Positions : published[i] = "mountpod" => mountPod'[i] = mountPod[i]]_vars
=============================================================================
