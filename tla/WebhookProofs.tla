---------------------------- MODULE WebhookProofs ----------------------------
(***************************************************************************)
(* Proofs about Webhook, for pods with any number of volumes of any kind,  *)
(* any quantities and any minimum grace period.                            *)
(*                                                                         *)
(* The scan of the volumes is a recursive function; what it computes is    *)
(* shown by induction.  The induction is over a set of numbers (the ones   *)
(* for which the claim holds), whose complement would have a least element *)
(* because the order of the naturals is well-founded.                      *)
(***************************************************************************)
EXTENDS Webhook, TLAPS, FiniteSetTheorems, WellFoundedInduction

\* A set with 0 that has n + 1 with every n is that of all natural numbers.
LEMMA SetInduction ==
  ASSUME NEW T \in SUBSET Nat, 0 \in T, \A n \in T : n + 1 \in T
  PROVE  T = Nat
<1> SUFFICES ASSUME Nat \ T # {} PROVE FALSE
  OBVIOUS
<1> DEFINE R == OpToRel(<, Nat)
<1>1. IsWellFoundedOn(R, Nat)
  BY NatLessThanWellFounded
<1>2. \A x, y \in Nat : x < y => <<x, y>> \in R
  BY DEF OpToRel
<1> HIDE DEF R
<1>3. Nat \ T \subseteq Nat
  OBVIOUS
<1>4. PICK x \in Nat \ T : \A y \in Nat \ T : ~(<<y, x>> \in R)
  BY <1>1, <1>3, WFMin
<1>5. x # 0 /\ x \in Nat
  BY <1>4
<1>6. x - 1 \in Nat /\ x - 1 < x
  BY <1>5
<1>7. <<x - 1, x>> \in R
  BY <1>2, <1>5, <1>6
<1>8. x - 1 \in T
  BY <1>4, <1>6, <1>7
<1>9. (x - 1) + 1 \in T
  BY <1>8
<1> QED
  BY <1>4, <1>5, <1>9

-----------------------------------------------------------------------------
(* What scanHFCSIVolumes computes. *)

\* f is the run of the loop over the first m volumes.
ScanRun(m, f, list, seen) ==
  f = [n \in 0..m |-> IF n = 0 THEN NoHints
                      ELSE IF n \in seen THEN ScanVolume(f[n - 1], list[n])
                      ELSE f[n - 1]]

LEMMA ScanRuns ==
  ASSUME NEW list, NEW seen, NEW m \in Nat
  PROVE  \E f : ScanRun(m, f, list, seen)
<1> DEFINE T == {k \in Nat : \E f : ScanRun(k, f, list, seen)}
<1>1. 0 \in T
  <2>1. ScanRun(0, [n \in 0..0 |-> NoHints], list, seen)
    BY DEF ScanRun
  <2> QED
    BY <2>1
<1>2. ASSUME NEW k \in T PROVE k + 1 \in T
  <2>1. PICK f : ScanRun(k, f, list, seen)
    OBVIOUS
  <2> DEFINE g == [n \in 0..(k + 1) |-> IF n <= k THEN f[n]
                                        ELSE IF n \in seen THEN ScanVolume(f[n - 1], list[n])
                                        ELSE f[n - 1]]
  <2>2. ScanRun(k + 1, g, list, seen)
    BY <2>1 DEF ScanRun
  <2> HIDE DEF g
  <2>3. \E h : ScanRun(k + 1, h, list, seen)
    BY <2>2
  <2> QED
    BY <2>3
<1>3. T \in SUBSET Nat
  OBVIOUS
<1> HIDE DEF T
<1>4. T = Nat
  BY <1>1, <1>2, <1>3, SetInduction
<1> QED
  BY <1>4 DEF T

LEMMA ScanIs ==
  ASSUME NEW list, NEW seen, Len(list) \in Nat
  PROVE  \E f : ScanRun(Len(list), f, list, seen) /\ scanHFCSIVolumes(list, seen) = f[Len(list)]
<1> DEFINE h == CHOOSE f : ScanRun(Len(list), f, list, seen)
<1>1. ScanRun(Len(list), h, list, seen)
  BY ScanRuns
<1>2. scanHFCSIVolumes(list, seen) = h[Len(list)]
  BY DEF scanHFCSIVolumes, ScanRun
<1> QED
  BY <1>1, <1>2

\* The hints of a volume, and the volumes a sidecar is built for.
Hint(v) == ParseMountResources(v.attrs)
Counted(list, seen, n) == {i \in 1..n : i \in seen /\ list[i].mountMode # "mountpod"}

Scans == [count : Nat, resources : Resources, logFormat : Formats \cup {""}, allReadOnly : BOOLEAN]

\* r says of the volumes at the positions in S how many they are, whether all
\* are read-only, the most that any of them asks for, and a log format that one
\* of them names, if any does.
Summary(r, list, S) ==
  /\ r \in Scans
  /\ r.count = Cardinality(S)
  /\ r.allReadOnly = (\A i \in S : volumeIsReadOnly(list[i]))
  /\ IF r.logFormat = "" THEN \A i \in S : list[i].logFormat = ""
     ELSE \E i \in S : list[i].logFormat = r.logFormat
  /\ \A f \in Fields : /\ \A i \in S : Hint(list[i])[f] <= r.resources[f]
                       /\ \/ r.resources[f] = Unset
                          \/ \E i \in S : Hint(list[i])[f] = r.resources[f]

LEMMA HintType == \A v \in VolumeRecord : Hint(v) \in Resources
<1> SUFFICES ASSUME NEW v \in VolumeRecord PROVE Hint(v) \in Resources
  OBVIOUS
<1>1. v.attrs \in Attributes
  BY DEF VolumeRecord
<1>2. \A f \in Fields : parseQuantityAttr(v.attrs[f]) \in Quantity \cup {Unset}
  BY <1>1 DEF Attributes, parseQuantityAttr, Unset, Invalid
<1> QED
  BY <1>2 DEF Hint, ParseMountResources, Resources

\* Unset is less than every quantity: the merge is the maximum.
LEMMA MergeIs ==
  ASSUME NEW a \in Resources, NEW b \in Resources
  PROVE  /\ mergeMaxResources(a, b) \in Resources
         /\ \A f \in Fields : LET m == mergeMaxResources(a, b)[f]
                              IN m \in {a[f], b[f]} /\ a[f] <= m /\ b[f] <= m
<1>1. \A f \in Fields : a[f] \in Quantity \cup {Unset} /\ b[f] \in Quantity \cup {Unset}
  BY DEF Resources
<1>2. \A x, y \in Quantity \cup {Unset} :
        maxQuantity(x, y) \in {x, y} /\ x <= maxQuantity(x, y) /\ y <= maxQuantity(x, y)
  BY DefaultsAssumption DEF maxQuantity, Quantity, Unset
<1>3. \A f \in Fields : mergeMaxResources(a, b)[f] = maxQuantity(a[f], b[f])
  BY DEF mergeMaxResources
<1>4. \A f \in Fields : maxQuantity(a[f], b[f]) \in Quantity \cup {Unset}
  BY <1>1, <1>2
<1>5. mergeMaxResources(a, b) \in Resources
  BY <1>4 DEF mergeMaxResources, Resources
<1> QED
  BY <1>1, <1>2, <1>3, <1>5

\* One round of the loop.
LEMMA ScanVolumeSummary ==
  ASSUME NEW list, NEW S, IsFiniteSet(S), NEW r, Summary(r, list, S),
         NEW x, x \notin S, \A i \in S \cup {x} : list[i] \in VolumeRecord,
         list[x].mountMode # "mountpod"
  PROVE  Summary(ScanVolume(r, list[x]), list, S \cup {x})
<1> DEFINE q == ScanVolume(r, list[x])
           h == Hint(list[x])
           m == mergeMaxResources(r.resources, h)
           l == IF r.logFormat = "" THEN list[x].logFormat ELSE r.logFormat
<1>1. q = [count |-> r.count + 1, resources |-> m, logFormat |-> l,
           allReadOnly |-> r.allReadOnly /\ volumeIsReadOnly(list[x])]
  BY DEF ScanVolume, Hint
<1>2. /\ r.count \in Nat /\ r.resources \in Resources /\ r.allReadOnly \in BOOLEAN
      /\ h \in Resources
  BY HintType DEF Summary, Scans
<1>3. /\ m \in Resources
      /\ \A f \in Fields : m[f] \in {r.resources[f], h[f]} /\ r.resources[f] <= m[f] /\ h[f] <= m[f]
  BY <1>2, MergeIs
<1>9. /\ l \in Formats \cup {""}
      /\ IF l = "" THEN \A i \in S \cup {x} : list[i].logFormat = ""
         ELSE \E i \in S \cup {x} : list[i].logFormat = l
  <2>1. list[x].logFormat \in Formats \cup {""} /\ r.logFormat \in Formats \cup {""}
    BY DEF Summary, Scans, VolumeRecord
  <2> QED
    BY <2>1 DEF Summary
<1> HIDE DEF m, h, q, l
<1>4. /\ q.count = r.count + 1 /\ q.resources = m /\ q.logFormat = l
      /\ q.allReadOnly = (r.allReadOnly /\ volumeIsReadOnly(list[x]))
  BY <1>1
<1>5. q \in Scans
  <2>1. (r.allReadOnly /\ volumeIsReadOnly(list[x])) \in BOOLEAN /\ r.count + 1 \in Nat
    BY <1>2
  <2> QED
    BY <1>1, <1>3, <1>9, <2>1, Zenon DEF Scans
<1>6. q.count = Cardinality(S \cup {x})
  BY <1>4, FS_AddElement DEF Summary
<1>7. q.allReadOnly = (\A i \in S \cup {x} : volumeIsReadOnly(list[i]))
  BY <1>4 DEF Summary
<1>8. ASSUME NEW f \in Fields
      PROVE  /\ \A i \in S \cup {x} : Hint(list[i])[f] <= q.resources[f]
             /\ \/ q.resources[f] = Unset
                \/ \E i \in S \cup {x} : Hint(list[i])[f] = q.resources[f]
  <2>1. \A y \in Resources : y[f] \in Int
    BY DefaultsAssumption DEF Resources, Quantity, Unset
  <2>2. ASSUME NEW i \in S \cup {x} PROVE Hint(list[i])[f] <= q.resources[f]
    <3>1. CASE i = x
      BY <1>3, <1>4, <3>1 DEF h
    <3>2. CASE i \in S
      <4>1. Hint(list[i])[f] <= r.resources[f] /\ r.resources[f] <= m[f]
        BY <1>3, <3>2 DEF Summary
      <4>2. Hint(list[i])[f] \in Int /\ r.resources[f] \in Int /\ m[f] \in Int
        BY <1>2, <1>3, <2>1, HintType
      <4> QED
        BY <1>4, <4>1, <4>2
    <3> QED
      BY <3>1, <3>2
  <2>3. \/ q.resources[f] = Unset
        \/ \E i \in S \cup {x} : Hint(list[i])[f] = q.resources[f]
    <3>1. CASE m[f] = h[f]
      BY <1>4, <3>1 DEF h
    <3>2. CASE m[f] = r.resources[f]
      BY <1>4, <3>2 DEF Summary
    <3> QED
      BY <1>3, <3>1, <3>2
  <2> QED
    BY <2>2, <2>3
<1> QED
  BY <1>4, <1>5, <1>6, <1>7, <1>8, <1>9 DEF Summary, q

LEMMA NoHintsSummary == ASSUME NEW list PROVE Summary(NoHints, list, {})
<1>1. NoHints \in Scans
  BY DEF NoHints, Scans, Resources
<1>2. NoHints.count = 0 /\ NoHints.allReadOnly = TRUE /\ NoHints.logFormat = "" /\ \A f \in Fields : NoHints.resources[f] = Unset
  BY DEF NoHints
<1> QED
  BY <1>1, <1>2, FS_EmptySet DEF Summary

\* The volumes counted among the first n are finitely many.
LEMMA CountedFinite ==
  ASSUME NEW list, NEW seen, NEW n \in Nat
  PROVE  IsFiniteSet(Counted(list, seen, n)) /\ Counted(list, seen, n) \subseteq 1..n
<1>1. Counted(list, seen, n) \in SUBSET (1..n)
  BY DEF Counted
<1> QED
  BY <1>1, FS_Interval, FS_Subset

\* The scan sums up the volumes it sees, however many there are.
LEMMA ScanSummary ==
  ASSUME NEW list, NEW seen, Len(list) \in Nat, \A i \in 1..Len(list) : list[i] \in VolumeRecord
  PROVE  Summary(scanHFCSIVolumes(list, seen), list, Counted(list, seen, Len(list)))
<1> DEFINE n == Len(list)
<1>1. PICK f : ScanRun(n, f, list, seen) /\ scanHFCSIVolumes(list, seen) = f[n]
  BY ScanIs
<1>2. /\ f[0] = NoHints
      /\ \A k \in 1..n : f[k] = IF k \in seen THEN ScanVolume(f[k - 1], list[k]) ELSE f[k - 1]
  BY <1>1 DEF ScanRun
<1> DEFINE T == {k \in Nat : k <= n => Summary(f[k], list, Counted(list, seen, k))}
<1>3. 0 \in T
  <2>1. Counted(list, seen, 0) = {}
    BY DEF Counted
  <2> QED
    BY <1>2, <2>1, NoHintsSummary
<1>4. ASSUME NEW k \in T, k + 1 <= n
      PROVE  Summary(f[k + 1], list, Counted(list, seen, k + 1))
  <2>1. k \in Nat /\ k + 1 \in 1..n /\ (k + 1) - 1 = k /\ Summary(f[k], list, Counted(list, seen, k))
    BY <1>4
  <2>2. f[k + 1] = IF k + 1 \in seen THEN ScanVolume(f[k], list[k + 1]) ELSE f[k]
    BY <1>2, <2>1
  <2>3. CASE k + 1 \in seen /\ list[k + 1].mountMode # "mountpod"
    <3>1. Counted(list, seen, k + 1) = Counted(list, seen, k) \cup {k + 1}
      BY <2>1, <2>3 DEF Counted
    <3>2. k + 1 \notin Counted(list, seen, k)
      BY <2>1 DEF Counted
    <3>3. \A i \in Counted(list, seen, k) \cup {k + 1} : list[i] \in VolumeRecord
      BY <2>1 DEF Counted
    <3>4. IsFiniteSet(Counted(list, seen, k))
      BY <2>1, CountedFinite
    <3> DEFINE S == Counted(list, seen, k)
               x == k + 1
    <3>5. Summary(f[k], list, S) /\ list[x].mountMode # "mountpod"
      BY <2>1, <2>3
    <3> HIDE DEF S, x
    <3>6. Summary(ScanVolume(f[k], list[x]), list, S \cup {x})
      BY <3>2, <3>3, <3>4, <3>5, ScanVolumeSummary DEF S, x
    <3> QED
      BY <2>2, <2>3, <3>1, <3>6 DEF S, x
  <2>4. CASE ~(k + 1 \in seen /\ list[k + 1].mountMode # "mountpod")
    <3>1. Counted(list, seen, k + 1) = Counted(list, seen, k)
      BY <2>1, <2>4 DEF Counted
    <3>2. f[k + 1] = f[k]
      BY <2>2, <2>4 DEF ScanVolume
    <3> QED
      BY <2>1, <3>1, <3>2
  <2> QED
    BY <2>3, <2>4
<1>5. \A k \in T : k + 1 \in T
  BY <1>4
<1>6. T \in SUBSET Nat
  OBVIOUS
<1> HIDE DEF T
<1>7. T = Nat
  BY <1>3, <1>5, <1>6, SetInduction
<1>8. n \in T
  BY <1>7
<1> QED
  BY <1>1, <1>8 DEF T

-----------------------------------------------------------------------------
(* The order of the volumes. *)

\* Whatever some volumes ask for is within what a scan of more of them finds.
LEMMA SummaryGrows ==
  ASSUME NEW list, NEW S, NEW r, Summary(r, list, S),
         NEW other, NEW D, NEW q, Summary(q, other, D),
         \A i \in D : \E j \in S : other[i] = list[j]
  PROVE  /\ \A f \in Fields : q.resources[f] <= r.resources[f]
         /\ r.allReadOnly => q.allReadOnly
<1>1. ASSUME NEW f \in Fields PROVE q.resources[f] <= r.resources[f]
  <2>1. q.resources[f] \in Quantity \cup {Unset} /\ r.resources[f] \in Quantity \cup {Unset}
    BY DEF Summary, Scans, Resources
  <2>2. CASE q.resources[f] = Unset
    BY <2>1, <2>2, DefaultsAssumption DEF Quantity, Unset
  <2>3. CASE q.resources[f] # Unset
    <3>1. PICK i \in D : Hint(other[i])[f] = q.resources[f]
      BY <2>3 DEF Summary
    <3>2. PICK j \in S : other[i] = list[j]
      OBVIOUS
    <3>3. Hint(list[j])[f] <= r.resources[f]
      BY DEF Summary
    <3> QED
      BY <3>1, <3>2, <3>3
  <2> QED
    BY <2>2, <2>3
<1>2. r.allReadOnly => q.allReadOnly
  BY DEF Summary
<1> QED
  BY <1>1, <1>2

\* Two scans of the volumes at S agree, but perhaps on the log format, and on
\* that unless two of the volumes name different ones.
Alike(q, r, list, S) ==
  /\ q.count = r.count /\ q.resources = r.resources /\ q.allReadOnly = r.allReadOnly
  /\ q.logFormat # r.logFormat =>
       \E i, j \in S : /\ list[i].logFormat # list[j].logFormat
                      /\ list[i].logFormat # "" /\ list[j].logFormat # ""

\* Two scans agree on all but the log format if they count as many volumes, and
\* each a copy of one of the other's; on the log format they can differ only if
\* two of the volumes name different ones.
LEMMA SummaryUnique ==
  ASSUME NEW list, NEW S, NEW r, Summary(r, list, S),
         NEW other, NEW D, NEW q, Summary(q, other, D),
         \A i \in D : \E j \in S : other[i] = list[j],
         \A j \in S : \E i \in D : list[j] = other[i],
         Cardinality(S) = Cardinality(D)
  PROVE  Alike(q, r, list, S)
<1>1. q \in Scans /\ r \in Scans /\ q.count = r.count
  BY DEF Summary
<1>2. \A f \in Fields : q.resources[f] <= r.resources[f] /\ r.resources[f] <= q.resources[f]
  BY SummaryGrows
<1>3. \A f \in Fields : q.resources[f] \in Int /\ r.resources[f] \in Int
  <2>1. q.resources \in Resources /\ r.resources \in Resources
    BY <1>1 DEF Scans
  <2> QED
    BY <2>1, DefaultsAssumption DEF Resources, Quantity, Unset
<1>4. \A f \in Fields : q.resources[f] = r.resources[f]
  BY <1>2, <1>3
<1>5. q.resources = r.resources
  <2>1. q.resources \in Resources /\ r.resources \in Resources
    BY <1>1 DEF Scans
  <2> QED
    BY <1>4, <2>1 DEF Resources
<1>6. (r.allReadOnly => q.allReadOnly) /\ (q.allReadOnly => r.allReadOnly)
  BY SummaryGrows
<1>7. q.allReadOnly \in BOOLEAN /\ r.allReadOnly \in BOOLEAN
  BY <1>1 DEF Scans
<1>8. q.allReadOnly = r.allReadOnly
  BY <1>6, <1>7
<1>9. ASSUME q.logFormat # r.logFormat
      PROVE  \E i, j \in S : /\ list[i].logFormat # list[j].logFormat
                             /\ list[i].logFormat # "" /\ list[j].logFormat # ""
  <2>1. /\ IF r.logFormat = "" THEN \A i \in S : list[i].logFormat = ""
           ELSE \E i \in S : list[i].logFormat = r.logFormat
        /\ IF q.logFormat = "" THEN \A i \in D : other[i].logFormat = ""
           ELSE \E i \in D : other[i].logFormat = q.logFormat
    BY DEF Summary
  <2>2. (\E i \in D : other[i].logFormat = q.logFormat) => \E j \in S : list[j].logFormat = q.logFormat
    OBVIOUS
  <2>3. (\A i \in D : other[i].logFormat = "") => \A j \in S : list[j].logFormat = ""
    OBVIOUS
  <2> QED
    BY <1>9, <2>1, <2>2, <2>3
<1> QED
  BY <1>1, <1>5, <1>8, <1>9 DEF Alike

\* The volumes of a pod, as a sequence.
LEMMA VolsLen ==
  ASSUME NEW n \in Nat, NEW list \in [1..n -> Volume]
  PROVE  Len(list) = n /\ DOMAIN list = 1..n
  OBVIOUS

LEMMA ScanOrder ==
  ASSUME NEW n \in Nat, NEW list \in [1..n -> Volume], NEW p \in Bijection(1..n, 1..n)
  PROVE  LET q == scanHFCSIVolumes([i \in 1..n |-> list[p[i]]], 1..n)
             r == scanHFCSIVolumes(list, 1..n)
         IN Alike(q, r, list, Counted(list, 1..n, n))
<1> DEFINE other == [i \in 1..n |-> list[p[i]]]
           P == 1..n
           S == Counted(list, P, n)
           D == Counted(other, P, n)
<1>1. /\ p \in [P -> P]
      /\ \A i, j \in P : p[i] = p[j] => i = j
      /\ \A j \in P : \E i \in P : p[i] = j
  BY DEF Bijection, Injection, Surjection, IsInjective
<1>2. other \in [1..n -> Volume] /\ \A i \in P : other[i] = list[p[i]]
  BY <1>1
<1>3. Len(list) = n /\ Len(other) = n
  BY <1>2, VolsLen
<1>4. (\A i \in P : list[i] \in VolumeRecord) /\ (\A i \in P : other[i] \in VolumeRecord)
  BY <1>2, WebhookAssumption
<1> HIDE DEF other
<1>5. Summary(scanHFCSIVolumes(list, P), list, S) /\ Summary(scanHFCSIVolumes(other, P), other, D)
  BY <1>3, <1>4, ScanSummary
<1>6. /\ \A i \in D : p[i] \in S
      /\ \A j \in S : \E i \in D : p[i] = j
      /\ D \subseteq P
  <2>1. \A i \in P : (i \in D <=> other[i].mountMode # "mountpod") /\ (i \in S <=> list[i].mountMode # "mountpod")
    BY DEF Counted
  <2>2. D \subseteq P /\ S \subseteq P
    BY DEF Counted
  <2> HIDE DEF S, D, P
  <2>3. ASSUME NEW i \in P PROVE i \in D <=> p[i] \in S
    <3>1. p[i] \in P /\ other[i] = list[p[i]]
      BY <1>1, <1>2
    <3> QED
      BY <2>1, <3>1
  <2>4. ASSUME NEW j \in S PROVE \E i \in D : p[i] = j
    <3>1. PICK i \in P : p[i] = j
      BY <1>1, <2>2
    <3> QED
      BY <2>3, <3>1
  <2> QED
    BY <2>2, <2>3, <2>4
<1>7. Cardinality(S) = Cardinality(D)
  <2> DEFINE g == [i \in D |-> p[i]]
  <2>1. g \in Bijection(D, S)
    BY <1>1, <1>6 DEF Bijection, Injection, Surjection, IsInjective
  <2>2. ExistsBijection(D, S)
    BY <2>1 DEF ExistsBijection
  <2>3. IsFiniteSet(D)
    BY CountedFinite
  <2> QED
    BY <2>2, <2>3, FS_Bijection
<1>8. /\ \A i \in D : \E j \in S : other[i] = list[j]
      /\ \A j \in S : \E i \in D : list[j] = other[i]
  BY <1>2, <1>6
<1> DEFINE q == scanHFCSIVolumes(other, P)
           r == scanHFCSIVolumes(list, P)
<1> HIDE DEF S, D, P, q, r
<1>9. Summary(r, list, S) /\ Summary(q, other, D)
  BY <1>5 DEF q, r
<1>10. Alike(q, r, list, S)
  BY <1>7, <1>8, <1>9, SummaryUnique
<1> QED
  BY <1>10 DEF other, q, r, P, S

-----------------------------------------------------------------------------
(* The inductive invariant. *)

\* The pod as its author wrote it, and as the webhook returns it if it has seen
\* the volumes at the positions in s.
Written == [sidecar |-> NoSidecar, grace |-> author, annotation |-> <<>>]
Scanned(s) == scanHFCSIVolumes(vols, s)
Injected(s) == injectSidecar(Written, Scanned(s))

StateInv ==
  /\ \E n \in 1..MaxVolumes : vols \in [1..n -> Volume]
  /\ podInfo \in BOOLEAN /\ admitted \in BOOLEAN /\ missed \in BOOLEAN
  /\ config \in Formats \cup {""}
  /\ author \in Graces /\ bound \subseteq Claims
  /\ published \in [Positions -> {"no", "sidecar", "mountpod"}]
  /\ hfmount = [i \in Positions |-> hfmount[i]] /\ mountPod = [i \in Positions |-> mountPod[i]]

\* The pod is as written, or as the first admission that counted a volume has
\* left it: later ones do not touch it.
InjectedFor(s) ==
  /\ pod = Injected(s) /\ Scanned(s).count # 0
  /\ ~missed => s = Positions
PodInv ==
  \/ pod = Written /\ (admitted /\ ~missed => Scanned(Positions).count = 0)
  \/ \E s \in SUBSET Positions : InjectedFor(s)

\* The mount pod of a volume is what its hints and arguments ask for, and its
\* HFMount holds the same hints and arguments.
MountPodOf(v) == BuildResourceRequirements(Hint(v), DefaultMemoryRequestFor(ReadOnlyFromArgs(buildArgs(v))))
PublishedInv ==
  \A i \in Positions :
    /\ published[i] = "sidecar" => DriverMode(vols[i]) = "sidecar"
    /\ published[i] # "mountpod" => mountPod[i] = NoMountPod
    /\ published[i] = "mountpod" =>
         /\ hfmount[i] = [args |-> buildArgs(vols[i]), resources |-> ToUnstructured(Hint(vols[i]))]
         /\ mountPod[i] = MountPodOf(vols[i])

WInv == StateInv /\ PodInv /\ PublishedInv

-----------------------------------------------------------------------------
(* Resources. *)

LEMMA DefaultRequest == \A b \in BOOLEAN : DefaultMemoryRequestFor(b) \in Quantity
  BY DefaultsAssumption DEF DefaultMemoryRequestFor

\* Whatever is asked for, a container is given a request within its limit.
LEMMA BuildIs ==
  ASSUME NEW res \in Resources, NEW default \in Quantity
  PROVE  LET b == BuildResourceRequirements(res, default)
         IN /\ b \in Requirements
            /\ b.limit # Unset => b.request <= b.limit
            /\ res.limit = Unset /\ res.request = Unset => b.request = default
<1> DEFINE request == IF res.request # Unset THEN res.request ELSE default
           clamped == clampRequestToLimit(request, res.limit)
<1>1. res.limit \in Quantity \cup {Unset} /\ res.request \in Quantity \cup {Unset}
  BY DEF Resources, Fields
<1>2. request \in Quantity
  BY <1>1
<1>3. BuildResourceRequirements(res, default) = [limit |-> res.limit, request |-> clamped]
  BY DEF BuildResourceRequirements
<1>4. clamped \in Quantity /\ (res.limit # Unset => clamped <= res.limit)
  BY <1>1, <1>2, DefaultsAssumption DEF clampRequestToLimit, Quantity, Unset
<1>5. res.limit = Unset /\ res.request = Unset => clamped = default
  BY DEF clampRequestToLimit
<1> HIDE DEF clamped
<1> QED
  BY <1>1, <1>3, <1>4, <1>5 DEF Requirements

\* The HFMount gives back the resources it was given.
LEMMA KeptByHFMount ==
  ASSUME NEW res \in Resources
  PROVE  MountResourcesFromUnstructured(ToUnstructured(res)) = res
<1> DEFINE raw == ToUnstructured(res)
           all == [f \in Fields |-> IF f \in DOMAIN raw THEN raw[f] ELSE Unset]
<1>1. \A f \in Fields : f \in DOMAIN raw <=> res[f] # Unset
  BY DEF ToUnstructured
<1>2. \A f \in Fields : res[f] # Unset => raw[f] = res[f]
  BY DEF ToUnstructured
<1> HIDE DEF raw
<1>3. \A f \in Fields : all[f] = res[f]
  BY <1>1, <1>2
<1>4. \A f \in Fields : parseQuantityAttr(res[f]) = res[f]
  BY DefaultsAssumption DEF Resources, Quantity, Unset, Invalid, parseQuantityAttr
<1>5. MountResourcesFromUnstructured(raw) = [f \in Fields |-> res[f]]
  BY <1>3, <1>4 DEF MountResourcesFromUnstructured, ParseMountResources
<1> QED
  BY <1>5 DEF Resources, raw

\* A mount pod, first or healed.
LEMMA MountPodIs ==
  ASSUME NEW v \in VolumeRecord
  PROVE  /\ MountPodOf(v) \in Requirements
         /\ MountPodOf(v).limit # Unset => MountPodOf(v).request <= MountPodOf(v).limit
         /\ MountPodFrom([args |-> buildArgs(v), resources |-> ToUnstructured(Hint(v))]) = MountPodOf(v)
<1>1. Hint(v) \in Resources
  BY HintType
<1>2. DefaultMemoryRequestFor(ReadOnlyFromArgs(buildArgs(v))) \in Quantity
  BY DefaultRequest DEF ReadOnlyFromArgs
<1>3. MountResourcesFromUnstructured(ToUnstructured(Hint(v))) = Hint(v)
  BY <1>1, KeptByHFMount
<1> QED
  BY <1>1, <1>2, <1>3, BuildIs DEF MountPodOf, MountPodFrom

-----------------------------------------------------------------------------
(* What the webhook returns. *)

\* The scan of the pod: its volumes are records, so it sums them up.
LEMMA ScannedIs ==
  ASSUME StateInv, NEW s
  PROVE  \E n \in 1..MaxVolumes :
           /\ vols \in [1..n -> Volume] /\ Positions = 1..n
           /\ Summary(Scanned(s), vols, Counted(vols, s, n))
           /\ Scanned(s).count \in 0..MaxVolumes
<1>1. PICK n \in 1..MaxVolumes : vols \in [1..n -> Volume]
  BY DEF StateInv
<1>2. n \in Nat /\ MaxVolumes \in Nat /\ n <= MaxVolumes
  BY WebhookAssumption
<1>3. Len(vols) = n /\ DOMAIN vols = 1..n
  BY <1>1, <1>2, VolsLen
<1>4. \A i \in 1..Len(vols) : vols[i] \in VolumeRecord
  BY <1>1, <1>3, WebhookAssumption
<1>5. Summary(Scanned(s), vols, Counted(vols, s, n))
  BY <1>2, <1>3, <1>4, ScanSummary DEF Scanned
<1>6. Counted(vols, s, n) \subseteq 1..n
  BY <1>2, CountedFinite
<1>7. Cardinality(Counted(vols, s, n)) \in Nat /\ Cardinality(Counted(vols, s, n)) <= n
  <2>1. IsFiniteSet(1..n) /\ Cardinality(1..n) = n
    BY <1>2, FS_Interval
  <2>2. Cardinality(Counted(vols, s, n)) <= Cardinality(1..n) /\ IsFiniteSet(Counted(vols, s, n))
    BY <1>6, <2>1, FS_Subset
  <2> QED
    BY <2>1, <2>2, FS_CardinalityType
<1>8. Scanned(s).count \in 0..MaxVolumes
  <2>1. Scanned(s).count = Cardinality(Counted(vols, s, n))
    BY <1>5 DEF Summary
  <2> QED
    BY <1>2, <1>7, <2>1
<1> QED
  BY <1>1, <1>3, <1>5, <1>8 DEF Positions

\* The pod with a sidecar.
LEMMA InjectedIs ==
  ASSUME StateInv, NEW s
  PROVE  LET p == Injected(s)
             r == BuildResourceRequirements(Scanned(s).resources,
                                            DefaultMemoryRequestFor(Scanned(s).allReadOnly))
         IN /\ p.sidecar \in Sidecars /\ p.sidecar # NoSidecar
            /\ p.sidecar.expected = Scanned(s).count /\ p.sidecar.resources = r
            /\ p.sidecar.logFormat \in Formats \cup {""}
            /\ r \in Requirements /\ (r.limit # Unset => r.request <= r.limit)
            /\ p.sidecar.grace = p.grace /\ p.grace \in Nat
            /\ p.grace \in Graces \cup {MinTerminationGracePeriodSeconds}
            /\ p.grace >= MinTerminationGracePeriodSeconds /\ p.grace >= author
            /\ p.annotation = IF p.grace = author THEN <<>> ELSE <<author>>
<1> DEFINE p == Injected(s)
           q == ensureTerminationGracePeriod(Written)
           r == BuildResourceRequirements(Scanned(s).resources,
                                          DefaultMemoryRequestFor(Scanned(s).allReadOnly))
           l == LogFormat(Scanned(s))
           c == [expected |-> Scanned(s).count, grace |-> q.grace, logFormat |-> l, resources |-> r]
<1>1. Scanned(s) \in Scans /\ Scanned(s).count \in 0..MaxVolumes
  BY ScannedIs DEF Summary
<1>2. Scanned(s).resources \in Resources /\ DefaultMemoryRequestFor(Scanned(s).allReadOnly) \in Quantity
  BY <1>1, DefaultRequest DEF Scans
<1>3. r \in Requirements /\ (r.limit # Unset => r.request <= r.limit)
  BY <1>2, BuildIs
<1>4. author \in Nat \cup {Unset} /\ author \in Graces /\ MinTerminationGracePeriodSeconds \in Nat
  BY WebhookAssumption DEF StateInv
<1>5. q = IF author # Unset /\ author >= MinTerminationGracePeriodSeconds THEN Written
          ELSE [sidecar |-> NoSidecar, grace |-> MinTerminationGracePeriodSeconds,
                annotation |-> <<author>>]
  <2>1. Written.grace = author
    BY DEF Written
  <2>2. [Written EXCEPT !.grace = MinTerminationGracePeriodSeconds, !.annotation = <<author>>]
          = [sidecar |-> NoSidecar, grace |-> MinTerminationGracePeriodSeconds,
             annotation |-> <<author>>]
    <3> DEFINE w == Written
               e == <<>>
               d == <<author>>
    <3>1. w = [sidecar |-> NoSidecar, grace |-> author, annotation |-> e]
      BY DEF Written
    <3> DEFINE g == MinTerminationGracePeriodSeconds
               y == [sidecar |-> NoSidecar, grace |-> g, annotation |-> e]
    <3> HIDE DEF w, e, d
    <3>2. [w EXCEPT !.grace = g] = y
      BY <3>1
    <3>3. [y EXCEPT !.annotation = d] = [sidecar |-> NoSidecar, grace |-> g, annotation |-> d]
      OBVIOUS
    <3> HIDE DEF y
    <3>4. [w EXCEPT !.grace = g, !.annotation = d] = [[w EXCEPT !.grace = g] EXCEPT !.annotation = d]
      OBVIOUS
    <3> QED
      BY <3>2, <3>3, <3>4 DEF w, d
  <2>3. q = IF author # Unset /\ author >= MinTerminationGracePeriodSeconds THEN Written
            ELSE [Written EXCEPT !.grace = MinTerminationGracePeriodSeconds, !.annotation = <<author>>]
    BY <2>1, Zenon DEF ensureTerminationGracePeriod
  <2> QED
    BY <2>2, <2>3, Zenon
<1>6. q = [sidecar |-> NoSidecar, grace |-> q.grace, annotation |-> q.annotation]
  BY <1>5 DEF Written
<1>7. /\ q.grace \in Nat /\ q.grace \in Graces \cup {MinTerminationGracePeriodSeconds}
      /\ q.grace >= MinTerminationGracePeriodSeconds /\ q.grace >= author
      /\ q.annotation = IF q.grace = author THEN <<>> ELSE <<author>>
  BY <1>4, <1>5 DEF Written, Unset
<1>8. p = [q EXCEPT !.sidecar = c]
  BY DEF Injected, injectSidecar
<1>15. l \in Formats \cup {""}
  BY <1>1 DEF LogFormat, StateInv, Scans
<1> HIDE DEF p, q, r, l
<1>9. p = [sidecar |-> c, grace |-> q.grace, annotation |-> q.annotation]
  BY <1>6, <1>8
<1>10. c \in Sidecars
  BY <1>1, <1>3, <1>7, <1>15 DEF Sidecars
<1>11. /\ p.sidecar = c /\ p.grace = q.grace /\ p.annotation = q.annotation
       /\ c.expected = Scanned(s).count /\ c.grace = q.grace /\ c.resources = r
       /\ c.logFormat = l
  BY <1>9
<1>12. c # NoSidecar
  BY <1>10, WebhookAssumption
<1> HIDE DEF c
<1>13. /\ p.sidecar \in Sidecars /\ p.sidecar # NoSidecar
       /\ p.sidecar.expected = Scanned(s).count /\ p.sidecar.resources = r
       /\ p.sidecar.grace = p.grace /\ p.sidecar.logFormat \in Formats \cup {""}
  BY <1>10, <1>11, <1>12, <1>15
<1>14. /\ p.grace \in Nat /\ p.grace \in Graces \cup {MinTerminationGracePeriodSeconds}
       /\ p.grace >= MinTerminationGracePeriodSeconds /\ p.grace >= author
       /\ p.annotation = IF p.grace = author THEN <<>> ELSE <<author>>
  BY <1>7, <1>11
<1> QED
  BY <1>3, <1>13, <1>14 DEF p, r

-----------------------------------------------------------------------------
(* The invariant is inductive. *)

LEMMA WInit == Init => WInv
<1> SUFFICES ASSUME Init PROVE WInv
  OBVIOUS
<1>1. StateInv
  BY DEF Init, StateInv
<1>2. PodInv
  BY DEF Init, PodInv, Written
<1>3. PublishedInv
  BY DEF Init, PublishedInv
<1> QED
  BY <1>1, <1>2, <1>3 DEF WInv

\* The pod, the volumes and what is published are left alone.
LEMMA PodKept ==
  ASSUME PodInv, UNCHANGED <<vols, author, config, pod, admitted, missed>>
  PROVE  PodInv'
<1>1. Written' = Written /\ Positions' = Positions
  BY DEF Written, Positions
<1>2. ASSUME NEW s PROVE Scanned(s)' = Scanned(s)
  BY DEF Scanned
<1>3. ASSUME NEW s PROVE Injected(s)' = Injected(s)
  BY <1>1, <1>2 DEF Injected, injectSidecar, ensureTerminationGracePeriod, LogFormat
<1> QED
  BY <1>1, <1>2, <1>3 DEF PodInv, InjectedFor

LEMMA PublishedKept ==
  ASSUME PublishedInv, UNCHANGED <<vols, podInfo, published, hfmount, mountPod>>
  PROVE  PublishedInv'
  BY DEF PublishedInv, Positions, DriverMode

LEMMA WHandle ==
  ASSUME WInv, NEW unread, Handle(unread)
  PROVE  WInv'
<1> DEFINE seen == Resolvable(unread)
<1>1. /\ pod' = IF Scanned(seen).count = 0 \/ hasSidecar(pod) THEN pod ELSE injectSidecar(pod, Scanned(seen))
      /\ missed' = (missed \/ seen # Positions) /\ admitted' = TRUE
  BY DEF Handle, Scanned
<1>2. UNCHANGED <<vols, podInfo, author, config, bound, published, hfmount, mountPod>>
  BY DEF Handle
<1>3. StateInv'
  BY <1>1, <1>2 DEF WInv, StateInv, Positions, Claims
<1>4. PublishedInv'
  BY <1>2, PublishedKept DEF WInv
<1>5. seen \in SUBSET Positions
  BY DEF Resolvable, WInv, StateInv, Claims
<1>6. Written' = Written /\ Positions' = Positions
  BY <1>2 DEF Written, Positions
<1>7. \A s : Scanned(s)' = Scanned(s) /\ Injected(s)' = Injected(s)
  BY <1>2, <1>6 DEF Injected, injectSidecar, ensureTerminationGracePeriod, LogFormat, Scanned
<1> HIDE DEF seen
<1>8. CASE pod = Written /\ (admitted /\ ~missed => Scanned(Positions).count = 0)
  <2>1. ~hasSidecar(pod)
    BY <1>8 DEF hasSidecar, Written
  <2>2. ASSUME Scanned(seen).count = 0 PROVE PodInv'
    <3>1. pod' = Written /\ (~missed' => seen = Positions)
      BY <1>1, <1>8, <2>2
    <3> QED
      BY <1>6, <1>7, <2>2, <3>1 DEF PodInv, InjectedFor
  <2>3. ASSUME Scanned(seen).count # 0 PROVE PodInv'
    <3>1. pod' = Injected(seen) /\ (~missed' => seen = Positions)
      BY <1>1, <1>8, <2>1, <2>3 DEF Injected
    <3> QED
      BY <1>5, <1>6, <1>7, <2>3, <3>1 DEF PodInv, InjectedFor
  <2> QED
    BY <1>3, <1>4, <2>2, <2>3 DEF WInv
<1>9. CASE \E s \in SUBSET Positions : InjectedFor(s)
  <2>1. PICK s \in SUBSET Positions : /\ pod = Injected(s) /\ Scanned(s).count # 0
                                      /\ ~missed => s = Positions
    BY <1>9 DEF InjectedFor
  <2>2. hasSidecar(pod)
    <3>1. StateInv
      BY DEF WInv
    <3>2. Injected(s).sidecar # NoSidecar
      BY <3>1, InjectedIs
    <3> QED
      BY <2>1, <3>2 DEF hasSidecar
  <2>3. pod' = Injected(s) /\ (~missed' => s = Positions)
    BY <1>1, <2>1, <2>2
  <2>4. PodInv'
    BY <1>6, <1>7, <2>1, <2>3 DEF PodInv, InjectedFor
  <2> QED
    BY <1>3, <1>4, <2>4 DEF WInv
<1> QED
  BY <1>8, <1>9 DEF WInv, PodInv

LEMMA WPublish ==
  ASSUME WInv, NEW i \in Positions, Publish(i)
  PROVE  WInv'
<1> DEFINE v == vols[i]
<1>1. UNCHANGED <<vols, podInfo, author, config, bound, pod, admitted, missed>>
  BY DEF Publish
<1>2. Positions' = Positions /\ Claims' = Claims
  BY <1>1 DEF Positions, Claims
<1>3. PodInv'
  BY <1>1, PodKept DEF WInv
<1>4. DriverMode(v) \in {"sidecar", "mountpod"}
  <2>1. v \in VolumeRecord
    BY WebhookAssumption DEF WInv, StateInv, Positions
  <2> QED
    BY <2>1 DEF Publish, DriverMode, VolumeRecord
<1>5. \A u : DriverMode(u)' = DriverMode(u)
  BY <1>1 DEF DriverMode
<1>6. published' = [published EXCEPT ![i] = DriverMode(v)] /\ published[i] = "no"
  BY DEF Publish
<1>7. published \in [Positions -> {"no", "sidecar", "mountpod"}]
  BY DEF WInv, StateInv
<1>8. CASE DriverMode(v) = "sidecar"
  <2>1. UNCHANGED <<hfmount, mountPod>>
    BY <1>8 DEF Publish
  <2>2. StateInv'
    BY <1>1, <1>2, <1>4, <1>6, <1>7, <2>1 DEF WInv, StateInv
  <2>3. PublishedInv'
    BY <1>1, <1>2, <1>5, <1>6, <1>7, <1>8, <2>1 DEF WInv, PublishedInv
  <2> QED
    BY <1>3, <2>2, <2>3 DEF WInv
<1>9. CASE DriverMode(v) = "mountpod"
  <2> DEFINE m == [args |-> buildArgs(v), resources |-> ToUnstructured(Hint(v))]
  <2>1. hfmount' = [hfmount EXCEPT ![i] = m] /\ mountPod' = [mountPod EXCEPT ![i] = MountPodOf(v)]
    BY <1>9 DEF Publish, Hint, MountPodOf
  <2>2. hfmount = [j \in Positions |-> hfmount[j]] /\ mountPod = [j \in Positions |-> mountPod[j]]
    BY DEF WInv, StateInv
  <2> HIDE DEF m
  <2>3. hfmount' = [j \in Positions |-> hfmount'[j]] /\ mountPod' = [j \in Positions |-> mountPod'[j]]
    BY <2>1, <2>2
  <2>4. StateInv'
    BY <1>1, <1>2, <1>4, <1>6, <1>7, <2>3 DEF WInv, StateInv
  <2>5. /\ hfmount'[i] = m /\ mountPod'[i] = MountPodOf(v)
        /\ \A j \in Positions : j # i => hfmount'[j] = hfmount[j] /\ mountPod'[j] = mountPod[j]
    BY <2>1, <2>2
  <2>6. published'[i] = "mountpod" /\ \A j \in Positions : j # i => published'[j] = published[j]
    BY <1>6, <1>7, <1>9
  <2>7. PublishedInv'
    BY <1>1, <1>2, <1>5, <2>5, <2>6 DEF WInv, PublishedInv, m
  <2> QED
    BY <1>3, <2>4, <2>7 DEF WInv
<1> QED
  BY <1>4, <1>8, <1>9

\* A healed mount pod has the resources it had.
LEMMA HealKeeps ==
  ASSUME WInv, NEW i \in Positions, Heal(i)
  PROVE  mountPod' = mountPod
<1>1. vols[i] \in VolumeRecord
  BY WebhookAssumption DEF WInv, StateInv, Positions
<1>2. MountPodFrom(hfmount[i]) = mountPod[i]
  BY <1>1, MountPodIs DEF WInv, PublishedInv, Heal
<1>3. mountPod = [j \in Positions |-> mountPod[j]]
  BY DEF WInv, StateInv
<1> QED
  BY <1>2, <1>3 DEF Heal

LEMMA WHeal ==
  ASSUME WInv, NEW i \in Positions, Heal(i)
  PROVE  WInv'
<1>1. UNCHANGED vars
  BY HealKeeps DEF Heal, vars
<1>2. StateInv'
  BY <1>1 DEF WInv, StateInv, vars, Positions, Claims
<1> QED
  BY <1>1, <1>2, PodKept, PublishedKept DEF WInv, vars

LEMMA WBind ==
  ASSUME WInv, NEW i \in Positions, Bind(i)
  PROVE  WInv'
<1>1. StateInv'
  BY DEF WInv, StateInv, Bind, Positions, Claims
<1> QED
  BY <1>1, PodKept, PublishedKept DEF WInv, Bind

LEMMA WBypass ==
  ASSUME WInv, Bypass
  PROVE  WInv'
<1>1. StateInv'
  BY DEF WInv, StateInv, Bypass, Positions, Claims
<1>2. Written' = Written /\ Positions' = Positions /\ pod' = pod /\ missed' = TRUE
  BY DEF Bypass, Written, Positions
<1>3. \A s : Scanned(s)' = Scanned(s) /\ Injected(s)' = Injected(s)
  BY <1>2 DEF Bypass, Injected, injectSidecar, ensureTerminationGracePeriod, LogFormat, Scanned
<1>4. PodInv'
  BY <1>2, <1>3 DEF WInv, PodInv, InjectedFor
<1> QED
  BY <1>1, <1>4, PublishedKept DEF WInv, Bypass

LEMMA WStep == WInv /\ [Next]_vars => WInv'
<1> SUFFICES ASSUME WInv, [Next]_vars PROVE WInv'
  OBVIOUS
<1>1. ASSUME NEW unread \in SUBSET Claims, Handle(unread) PROVE WInv'
  BY <1>1, WHandle
<1>2. ASSUME NEW i \in Positions, Publish(i) PROVE WInv'
  BY <1>2, WPublish
<1>3. ASSUME NEW i \in Positions, Heal(i) PROVE WInv'
  BY <1>3, WHeal
<1>4. ASSUME NEW i \in Positions, Bind(i) PROVE WInv'
  BY <1>4, WBind
<1>5. CASE Bypass
  BY <1>5, WBypass
<1>6. CASE UNCHANGED vars
  <2>1. StateInv'
    BY <1>6 DEF WInv, StateInv, vars, Positions, Claims
  <2> QED
    BY <1>6, <2>1, PodKept, PublishedKept DEF WInv, vars
<1> QED
  BY <1>1, <1>2, <1>3, <1>4, <1>5, <1>6 DEF Next

LEMMA WInvariant == Spec => []WInv
<1>1. Init => WInv
  BY WInit
<1>2. WInv /\ [Next]_vars => WInv'
  BY WStep
<1> QED
  BY <1>1, <1>2, PTL DEF Spec

-----------------------------------------------------------------------------
(* The properties. *)

\* A pod with a sidecar has been injected one.
LEMMA WithSidecar ==
  ASSUME WInv, pod.sidecar # NoSidecar
  PROVE  \E s \in SUBSET Positions : InjectedFor(s)
<1>1. Written.sidecar = NoSidecar
  BY DEF Written
<1> QED
  BY <1>1 DEF WInv, PodInv

\* Every variable has its type: the sidecar expects at least one mount, and the
\* published mount-pod volumes are the ones with a mount pod.
THEOREM TypeCorrect == Spec => []TypeOK
<1>1. ASSUME WInv PROVE TypeOK
  <2>1. StateInv
    BY <1>1 DEF WInv
  <2>2. \A i \in Positions : vols[i] \in Volume
    BY <2>1 DEF StateInv, Positions
  <2>3. bound \subseteq Claims /\ podInfo \in BOOLEAN /\ admitted \in BOOLEAN /\ missed \in BOOLEAN
    BY <2>1 DEF StateInv
  <2>4. ASSUME NEW i \in Positions
        PROVE  /\ published[i] \in {"no", "sidecar", "mountpod"}
               /\ (published[i] = "mountpod") <=> (mountPod[i] \in Requirements)
    <3>1. vols[i] \in VolumeRecord
      BY <2>2, WebhookAssumption
    <3>2. MountPodOf(vols[i]) \in Requirements
      BY <3>1, MountPodIs
    <3>3. published[i] \in {"no", "sidecar", "mountpod"}
      BY <2>1 DEF StateInv
    <3> QED
      BY <1>1, <3>2, <3>3, WebhookAssumption DEF WInv, PublishedInv
  <2>5. CASE pod.sidecar = NoSidecar
    <3>1. pod = Written
      <4>1. ASSUME NEW s, InjectedFor(s) PROVE FALSE
        BY <2>1, <2>5, <4>1, InjectedIs DEF InjectedFor
      <4> QED
        BY <1>1, <4>1 DEF WInv, PodInv
    <3>2. pod.grace \in Graces
      BY <2>1, <3>1 DEF StateInv, Written
    <3> QED
      BY <2>2, <2>3, <2>4, <2>5, <3>2 DEF TypeOK
  <2>6. CASE pod.sidecar # NoSidecar
    <3>1. PICK s \in SUBSET Positions : InjectedFor(s)
      BY <1>1, <2>6, WithSidecar
    <3>2. pod = Injected(s) /\ Scanned(s).count # 0
      BY <3>1 DEF InjectedFor
    <3>3. Scanned(s).count \in 0..MaxVolumes
      BY <2>1, ScannedIs
    <3>4. /\ pod.sidecar.expected = Scanned(s).count
          /\ pod.sidecar \in Sidecars /\ pod.sidecar.logFormat \in Formats \cup {""}
          /\ pod.grace \in Graces \cup {MinTerminationGracePeriodSeconds}
      BY <2>1, <3>2, InjectedIs
    <3>5. pod.sidecar.expected \in 1..MaxVolumes
      <4>1. pod.sidecar.expected = Scanned(s).count
        BY <3>4
      <4>2. MaxVolumes \in Nat
        BY WebhookAssumption
      <4> QED
        BY <3>2, <3>3, <4>1, <4>2
    <3>6. pod.sidecar.resources \in Requirements
      BY <3>4 DEF Sidecars
    <3> QED
      BY <2>2, <2>3, <2>4, <3>4, <3>5, <3>6 DEF TypeOK
  <2> QED
    BY <2>5, <2>6
<1> QED
  BY <1>1, WInvariant, PTL

\* The sidecar waits for exactly the mounts the driver will hand over, and there
\* is none if there are no such mounts: the count of the webhook and the modes
\* the driver chooses by itself agree, in whatever order the volumes come.
THEOREM WebhookAgreesWithDriver == Spec => []ExpectsWhatComes
<1>1. ASSUME WInv PROVE ExpectsWhatComes
  <2> SUFFICES ASSUME admitted, ~missed, podInfo, \A i \in Positions : DriverMode(vols[i]) # "other"
               PROVE  IF SidecarVolumes = {} THEN pod.sidecar = NoSidecar
                      ELSE pod.sidecar # NoSidecar /\ pod.sidecar.expected = Cardinality(SidecarVolumes)
    BY DEF ExpectsWhatComes
  <2>1. StateInv
    BY <1>1 DEF WInv
  <2>2. PICK n \in 1..MaxVolumes :
          /\ vols \in [1..n -> Volume] /\ Positions = 1..n
          /\ Summary(Scanned(Positions), vols, Counted(vols, Positions, n))
    BY <2>1, ScannedIs
  <2>3. \A i \in Positions : vols[i] \in VolumeRecord
    BY <2>2, WebhookAssumption
  <2>4. ASSUME NEW i \in Positions PROVE DriverMode(vols[i]) = "sidecar" <=> vols[i].mountMode # "mountpod"
    <3>1. vols[i].mountMode \in {"", "sidecar", "mountpod", "other"}
      BY <2>3 DEF VolumeRecord
    <3> QED
      BY <3>1 DEF DriverMode
  <2>5. SidecarVolumes = Counted(vols, Positions, n)
    BY <2>2, <2>4 DEF SidecarVolumes, Counted
  <2>6. n \in Nat
    BY WebhookAssumption
  <2>7. IsFiniteSet(SidecarVolumes)
    BY <2>5, <2>6, CountedFinite
  <2>8. Scanned(Positions).count = Cardinality(SidecarVolumes)
    BY <2>2, <2>5 DEF Summary
  <2>9. Scanned(Positions).count = 0 <=> SidecarVolumes = {}
    BY <2>7, <2>8, FS_EmptySet
  <2>10. CASE pod = Written /\ Scanned(Positions).count = 0
    BY <2>9, <2>10 DEF Written
  <2>11. CASE \E s \in SUBSET Positions : InjectedFor(s)
    <3>1. pod = Injected(Positions) /\ Scanned(Positions).count # 0
      BY <2>11 DEF InjectedFor
    <3>2. pod.sidecar # NoSidecar /\ pod.sidecar.expected = Scanned(Positions).count
      BY <2>1, <3>1, InjectedIs
    <3> QED
      BY <2>8, <2>9, <3>1, <3>2
  <2> QED
    BY <1>1, <2>10, <2>11 DEF WInv, PodInv
<1> QED
  BY <1>1, WInvariant, PTL

\* No container is given a request above its limit, however the hints of the
\* volumes conflict.
THEOREM NoRequestAboveLimit == Spec => []RequestWithinLimit
<1>1. ASSUME WInv PROVE RequestWithinLimit
  <2> DEFINE Valid(res) == res.limit # Unset => res.request <= res.limit
  <2>1. ASSUME pod.sidecar # NoSidecar PROVE Valid(pod.sidecar.resources)
    <3>1. PICK s \in SUBSET Positions : InjectedFor(s)
      BY <1>1, <2>1, WithSidecar
    <3>2. StateInv /\ pod = Injected(s)
      BY <1>1, <3>1 DEF WInv, InjectedFor
    <3> QED
      BY <3>2, InjectedIs
  <2>2. ASSUME NEW i \in Positions, published[i] = "mountpod" PROVE Valid(mountPod[i])
    <3>1. vols[i] \in VolumeRecord
      BY <1>1, WebhookAssumption DEF WInv, StateInv, Positions
    <3>2. mountPod[i] = MountPodOf(vols[i])
      BY <1>1, <2>2 DEF WInv, PublishedInv
    <3> QED
      BY <3>1, <3>2, MountPodIs
  <2> QED
    BY <2>1, <2>2 DEF RequestWithinLimit
<1> QED
  BY <1>1, WInvariant, PTL

\* The sidecar of a pod, whatever the pod was before.
LEMMA SidecarIs ==
  ASSUME NEW p, NEW scan, p = [sidecar |-> p.sidecar, grace |-> p.grace, annotation |-> p.annotation]
  PROVE  injectSidecar(p, scan).sidecar =
           [expected |-> scan.count, grace |-> ensureTerminationGracePeriod(p).grace,
            logFormat |-> LogFormat(scan),
            resources |-> BuildResourceRequirements(scan.resources,
                            DefaultMemoryRequestFor(scan.allReadOnly))]
<1> DEFINE q == ensureTerminationGracePeriod(p)
<1>1. "sidecar" \in DOMAIN q
  BY DEF ensureTerminationGracePeriod
<1> HIDE DEF q
<1> QED
  BY <1>1 DEF injectSidecar, q

\* The pod is a record, as written or with its sidecar.
LEMMA PodRecord ==
  ASSUME WInv
  PROVE  pod = [sidecar |-> pod.sidecar, grace |-> pod.grace, annotation |-> pod.annotation]
<1>1. CASE pod = Written
  BY <1>1 DEF Written
<1>2. ASSUME NEW s, pod = Injected(s) PROVE pod = [sidecar |-> pod.sidecar, grace |-> pod.grace, annotation |-> pod.annotation]
  <2> DEFINE q == ensureTerminationGracePeriod(Written)
  <2>1. q = [sidecar |-> q.sidecar, grace |-> q.grace, annotation |-> q.annotation]
    BY DEF ensureTerminationGracePeriod, Written
  <2>2. \E c : pod = [q EXCEPT !.sidecar = c]
    BY <1>2 DEF Injected, injectSidecar
  <2> HIDE DEF q
  <2> QED
    BY <2>1, <2>2
<1> QED
  BY <1>1, <1>2 DEF WInv, PodInv, InjectedFor

\* The order of the volumes changes nothing the sidecar is given but the log
\* format, and that only if two of them name different ones and the webhook none.
THEOREM OrderDecidesOnlyFormat == Spec => []OrderIndependent
<1>1. ASSUME WInv PROVE OrderIndependent
  <2>1. PICK n \in 1..MaxVolumes : vols \in [1..n -> Volume]
    BY <1>1 DEF WInv, StateInv
  <2>2. n \in Nat /\ Positions = 1..n
    BY <2>1, WebhookAssumption DEF Positions
  <2> SUFFICES ASSUME NEW p \in Bijection(Positions, Positions)
               PROVE  LET Sidecar(list) == injectSidecar(pod, scanHFCSIVolumes(list, Positions)).sidecar
                          other == Sidecar([i \in Positions |-> vols[p[i]]])
                      IN /\ other = [Sidecar(vols) EXCEPT !.logFormat = other.logFormat]
                         /\ other.logFormat # Sidecar(vols).logFormat =>
                              /\ config = ""
                              /\ \E i, j \in SidecarBuiltFor :
                                   /\ vols[i].logFormat # vols[j].logFormat
                                   /\ "" \notin {vols[i].logFormat, vols[j].logFormat}
    BY DEF OrderIndependent
  <2> DEFINE q == scanHFCSIVolumes([i \in Positions |-> vols[p[i]]], Positions)
             r == scanHFCSIVolumes(vols, Positions)
             a == injectSidecar(pod, q).sidecar
             b == injectSidecar(pod, r).sidecar
             g == ensureTerminationGracePeriod(pod).grace
  <2>3. Alike(q, r, vols, Counted(vols, 1..n, n))
    BY <2>1, <2>2, ScanOrder
  <2>4. Counted(vols, 1..n, n) = SidecarBuiltFor
    BY <2>2 DEF Counted, SidecarBuiltFor
  <2>5. pod = [sidecar |-> pod.sidecar, grace |-> pod.grace, annotation |-> pod.annotation]
    BY <1>1, PodRecord
  <2> HIDE DEF q, r
  <2> DEFINE c == BuildResourceRequirements(r.resources, DefaultMemoryRequestFor(r.allReadOnly))
  <2>6. /\ a = [expected |-> r.count, grace |-> g, logFormat |-> LogFormat(q), resources |-> c]
        /\ b = [expected |-> r.count, grace |-> g, logFormat |-> LogFormat(r), resources |-> c]
    BY <2>3, <2>5, SidecarIs DEF Alike
  <2> HIDE DEF a, b, c, g
  <2>7. a.logFormat = LogFormat(q) /\ b.logFormat = LogFormat(r)
    BY <2>6
  <2>8. a = [b EXCEPT !.logFormat = a.logFormat]
    <3> DEFINE x == LogFormat(q)
               y == LogFormat(r)
               e == r.count
    <3> HIDE DEF x, y, e
    <3>1. b = [expected |-> e, grace |-> g, logFormat |-> y, resources |-> c] /\ a.logFormat = x
      BY <2>6, <2>7 DEF x, y, e
    <3>2. a = [expected |-> e, grace |-> g, logFormat |-> x, resources |-> c]
      BY <2>6 DEF x, e
    <3>3. [b EXCEPT !.logFormat = x] = [expected |-> e, grace |-> g, logFormat |-> x, resources |-> c]
      BY <3>1
    <3> QED
      BY <3>1, <3>2, <3>3
  <2>9. ASSUME a.logFormat # b.logFormat
        PROVE  config = "" /\ q.logFormat # r.logFormat
    BY <2>7, <2>9 DEF LogFormat
  <2>10. a.logFormat # b.logFormat =>
           /\ config = ""
           /\ \E i, j \in SidecarBuiltFor : /\ vols[i].logFormat # vols[j].logFormat
                                           /\ "" \notin {vols[i].logFormat, vols[j].logFormat}
    BY <2>3, <2>4, <2>9 DEF Alike
  <2> QED
    BY <2>8, <2>10 DEF a, b, q, r
<1> QED
  BY <1>1, WInvariant, PTL

\* A sidecar that serves a writable volume has the request of writable mounts,
\* unless a volume it was built for asks for something else or only the PV calls
\* the volume read-only.
THEOREM WritersAreGivenMemory == Spec => []WritersGetMemory
<1>1. ASSUME WInv PROVE WritersGetMemory
  <2> SUFFICES ASSUME pod.sidecar # NoSidecar, ~missed,
                      \A i \in SidecarBuiltFor : Hint(vols[i]) = NoHints.resources,
                      NEW w \in Positions, published[w] = "sidecar",
                      ~ReadOnlyFromArgs(buildArgs(vols[w])), vols[w].access # "pv"
               PROVE  pod.sidecar.resources.request = DefaultMountMemoryRequest
    BY DEF WritersGetMemory, Hint
  <2>1. StateInv
    BY <1>1 DEF WInv
  <2>2. PICK n \in 1..MaxVolumes :
          /\ vols \in [1..n -> Volume] /\ Positions = 1..n
          /\ Summary(Scanned(Positions), vols, Counted(vols, Positions, n))
    BY <2>1, ScannedIs
  <2>3. vols[w] \in VolumeRecord
    BY <2>2, WebhookAssumption
  <2>4. DriverMode(vols[w]) = "sidecar"
    BY <1>1 DEF WInv, PublishedInv
  <2>5. vols[w].mountMode # "mountpod"
    BY <2>4 DEF DriverMode
  <2>6. ~volumeIsReadOnly(vols[w])
    BY <2>3 DEF volumeIsReadOnly, ReadOnlyFromArgs, buildArgs, VolumeRecord
  <2>7. w \in Counted(vols, Positions, n)
    BY <2>2, <2>5 DEF Counted
  <2>8. ~Scanned(Positions).allReadOnly
    BY <2>2, <2>6, <2>7 DEF Summary
  <2>9. \A f \in Fields : Scanned(Positions).resources[f] = Unset
    <3>1. \A i \in Counted(vols, Positions, n) : Hint(vols[i]) = NoHints.resources
      BY <2>2 DEF Counted, SidecarBuiltFor
    <3>2. \A f \in Fields : NoHints.resources[f] = Unset
      BY DEF NoHints
    <3> QED
      BY <2>2, <3>1, <3>2 DEF Summary
  <2>10. Scanned(Positions).resources \in Resources
    BY <2>2 DEF Summary, Scans
  <2>11. DefaultMemoryRequestFor(Scanned(Positions).allReadOnly) = DefaultMountMemoryRequest
    BY <2>8 DEF DefaultMemoryRequestFor
  <2>12. PICK s \in SUBSET Positions : InjectedFor(s)
    BY <1>1, WithSidecar
  <2>13. pod = Injected(Positions)
    BY <2>12 DEF InjectedFor
  <2>14. pod.sidecar.resources = BuildResourceRequirements(Scanned(Positions).resources,
                                                           DefaultMountMemoryRequest)
    BY <2>1, <2>11, <2>13, InjectedIs
  <2>15. Scanned(Positions).resources.limit = Unset /\ Scanned(Positions).resources.request = Unset
    BY <2>9 DEF Fields
  <2> QED
    BY <2>10, <2>14, <2>15, BuildIs, DefaultsAssumption
<1> QED
  BY <1>1, WInvariant, PTL

\* The sidecar is told the grace period kubelet will honour, at least the
\* minimum and at least the author's, however often the pod is admitted.
THEOREM GracePeriodHonoured == Spec => []GraceHonoured
<1>1. ASSUME WInv PROVE GraceHonoured
  <2>1. ASSUME pod.sidecar # NoSidecar
        PROVE  /\ pod.sidecar.grace = pod.grace
               /\ pod.grace >= MinTerminationGracePeriodSeconds /\ pod.grace >= author
               /\ pod.annotation = IF pod.grace = author THEN <<>> ELSE <<author>>
    <3>1. PICK s \in SUBSET Positions : InjectedFor(s)
      BY <1>1, <2>1, WithSidecar
    <3>2. StateInv /\ pod = Injected(s)
      BY <1>1, <3>1 DEF WInv, InjectedFor
    <3> QED
      BY <3>2, InjectedIs
  <2> QED
    BY <2>1 DEF GraceHonoured
<1> QED
  BY <1>1, WInvariant, PTL

\* A mount pod keeps its resources, also when it is lost and built again from
\* its HFMount.
THEOREM HealingKeepsResources == Spec => HealedAlike
<1>1. ASSUME WInv, [Next]_vars
      PROVE  [\A i \in Positions : published[i] = "mountpod" => mountPod'[i] = mountPod[i]]_vars
  <2>1. ASSUME NEW i \in Positions, Publish(i), NEW j \in Positions, published[j] = "mountpod"
        PROVE  mountPod'[j] = mountPod[j]
    <3>1. i # j
      BY <2>1 DEF Publish
    <3>2. \/ mountPod' = mountPod
          \/ \E m : mountPod' = [mountPod EXCEPT ![i] = m]
      BY <2>1 DEF Publish
    <3>3. mountPod = [k \in Positions |-> mountPod[k]]
      BY <1>1 DEF WInv, StateInv
    <3> QED
      BY <3>1, <3>2, <3>3
  <2>2. ASSUME NEW unread \in SUBSET Claims, Handle(unread) PROVE mountPod' = mountPod
    BY <2>2 DEF Handle
  <2>3. ASSUME NEW i \in Positions, Heal(i) PROVE mountPod' = mountPod
    BY <1>1, <2>3, HealKeeps
  <2>4. ASSUME NEW i \in Positions, Bind(i) PROVE mountPod' = mountPod
    BY <2>4 DEF Bind
  <2>5. ASSUME Bypass PROVE mountPod' = mountPod
    BY <2>5 DEF Bypass
  <2> QED
    BY <1>1, <2>1, <2>2, <2>3, <2>4, <2>5 DEF Next
<1> QED
  BY <1>1, WInvariant, PTL DEF Spec, HealedAlike
=============================================================================
