------------------------- MODULE SourceLocksProofs -------------------------
(***************************************************************************)
(* For every set of goroutines, sources and refMutex objects, the lock     *)
(* table of podmounter.go excludes two goroutines from one source, keeps   *)
(* an entry exactly while somebody refers to it, and implements            *)
(* SourceMutex.                                                            *)
(***************************************************************************)
EXTENDS SourceLocks, FiniteSetTheorems, TLAPS

\* The pointer of a goroutine inside its bracket is the table's entry for
\* its source: two users of one source always meet at one refMutex.
PointsToEntry ==
  \A p \in Procs : pc[p] # "idle" =>
                     lk[p] \in Locks /\ sourceLocks[src[p]] = lk[p]

\* A goroutine past Lock and before Unlock is the holder.
LockedIsHolder == \A p \in Procs : pc[p] = "locked" => holder[lk[p]] = p

\* No refMutex serves two sources.
EntriesDistinct ==
  \A s, r \in Sources :
    sourceLocks[s] = sourceLocks[r] /\ sourceLocks[s] # NoLock => s = r

IInv == /\ TypeOK
        /\ PointsToEntry
        /\ LockedIsHolder
        /\ EntriesDistinct
        /\ CountsUsers
        /\ EntryIffReferenced

-----------------------------------------------------------------------------

\* The users of a refMutex are finitely many, so its count is a number.
LEMMA UsersFinite == \A l : IsFiniteSet(Users(l)) /\ Users(l) \subseteq Procs
  BY ProcsFinite, FS_Subset, Zenon DEF Users

\* What every step does to the set of users of each refMutex, and to the
\* cardinality of that set.
LEMMA UsersStep ==
  ASSUME TypeOK, NEW p \in Procs, NEW l,
         \A q \in Procs \ {p} : pc'[q] = pc[q] /\ lk'[q] = lk[q]
  PROVE  Users(l)' = IF pc'[p] # "idle" /\ lk'[p] = l
                     THEN Users(l) \cup {p} ELSE Users(l) \ {p}
  BY DEF Users, TypeOK

LEMMA InitIInv == Init => IInv
<1> SUFFICES ASSUME Init PROVE IInv
  OBVIOUS
<1> USE DEF Init
<1>1. TypeOK
  BY DEF TypeOK
<1>2. Reachable \subseteq {NoLock}
  BY DEF Reachable
<1>3. PointsToEntry /\ LockedIsHolder /\ EntriesDistinct /\ EntryIffReferenced
  BY DEF PointsToEntry, LockedIsHolder, EntriesDistinct, EntryIffReferenced
<1>4. CountsUsers
  BY <1>2, NullsDistinct DEF CountsUsers
<1> QED
  BY <1>1, <1>3, <1>4 DEF IInv

\* acquireSourceLock creating an entry.
LEMMA AcquireNewStep ==
  ASSUME IInv, NEW p \in Procs, NEW s \in Sources, AcquireNew(p, s)
  PROVE  IInv'
<1> PICK l \in Locks \ Reachable :
          /\ sourceLocks' = [sourceLocks EXCEPT ![s] = l]
          /\ refs' = [refs EXCEPT ![l] = 1]
          /\ holder' = [holder EXCEPT ![l] = NoProc]
          /\ lk' = [lk EXCEPT ![p] = l]
  BY DEF AcquireNew
<1>0. /\ pc[p] = "idle" /\ sourceLocks[s] = NoLock
      /\ src' = [src EXCEPT ![p] = s]
      /\ pc' = [pc EXCEPT ![p] = "acquired"]
  BY DEF AcquireNew
<1>1. TypeOK'
  BY <1>0 DEF IInv, TypeOK
<1>2. \A q \in Procs : pc[q] # "idle" => lk[q] # l /\ src[q] # s
  BY <1>0, NullsDistinct DEF IInv, PointsToEntry, Reachable, TypeOK
<1>3. \A r \in Sources : sourceLocks[r] # l
  BY DEF Reachable
<1>4. PointsToEntry'
  BY <1>0, <1>1, <1>2 DEF IInv, PointsToEntry, TypeOK
<1>5. LockedIsHolder'
  BY <1>0, <1>1, <1>2 DEF IInv, LockedIsHolder, TypeOK, PointsToEntry
<1>6. EntriesDistinct'
  BY <1>0, <1>1, <1>3 DEF IInv, EntriesDistinct, TypeOK
<1>7. CountsUsers'
  <2> SUFFICES ASSUME NEW k \in Locks, k \in Reachable'
               PROVE  refs'[k] = Cardinality(Users(k)')
    BY DEF CountsUsers
  <2>1. Users(k)' = IF k = l THEN Users(k) \cup {p} ELSE Users(k) \ {p}
    BY <1>0, UsersStep DEF IInv, TypeOK
  <2>2. p \notin Users(k)
    BY <1>0 DEF Users
  <2>3. CASE k = l
    <3>1. Users(l) = {}
      BY <1>2 DEF Users
    <3>2. Users(k)' = {p}
      BY <2>1, <2>3, <3>1
    <3> QED
      BY <2>3, <3>2, FS_Singleton DEF IInv, TypeOK
  <2>4. CASE k # l
    <3>1. k \in Reachable
      BY <1>0, <2>4 DEF Reachable, IInv, TypeOK
    <3>2. Users(k)' = Users(k)
      BY <2>1, <2>2, <2>4
    <3> QED
      BY <2>4, <3>1, <3>2 DEF IInv, CountsUsers, TypeOK
  <2> QED
    BY <2>3, <2>4
<1>8. EntryIffReferenced'
  BY <1>0, <1>1, NullsDistinct DEF IInv, EntryIffReferenced, TypeOK
<1> QED
  BY <1>1, <1>4, <1>5, <1>6, <1>7, <1>8 DEF IInv

\* acquireSourceLock finding an entry.
LEMMA AcquireExistingStep ==
  ASSUME IInv, NEW p \in Procs, NEW s \in Sources, AcquireExisting(p, s)
  PROVE  IInv'
<1> DEFINE l == sourceLocks[s]
<1>0. /\ pc[p] = "idle" /\ l \in Locks
      /\ refs' = [refs EXCEPT ![l] = @ + 1]
      /\ lk' = [lk EXCEPT ![p] = l]
      /\ src' = [src EXCEPT ![p] = s]
      /\ pc' = [pc EXCEPT ![p] = "acquired"]
      /\ UNCHANGED <<sourceLocks, holder>>
  BY DEF AcquireExisting, IInv, TypeOK
<1>1. TypeOK'
  BY <1>0 DEF IInv, TypeOK
<1>2. PointsToEntry' /\ LockedIsHolder' /\ EntriesDistinct' /\ EntryIffReferenced'
  BY <1>0, <1>1, NullsDistinct
     DEF IInv, TypeOK, PointsToEntry, LockedIsHolder, EntriesDistinct, EntryIffReferenced
<1>3. CountsUsers'
  <2> SUFFICES ASSUME NEW k \in Locks, k \in Reachable'
               PROVE  refs'[k] = Cardinality(Users(k)')
    BY DEF CountsUsers
  <2>1. Users(k)' = IF k = l THEN Users(k) \cup {p} ELSE Users(k) \ {p}
    BY <1>0, UsersStep DEF IInv, TypeOK
  <2>2. p \notin Users(k)
    BY <1>0 DEF Users
  <2>3. k \in Reachable
    BY <1>0 DEF Reachable, IInv, TypeOK
  <2>4. refs[k] = Cardinality(Users(k))
    BY <2>3 DEF IInv, CountsUsers
  <2>5. CASE k = l
    <3>1. Cardinality(Users(k) \cup {p}) = Cardinality(Users(k)) + 1
      BY <2>2, UsersFinite, FS_AddElement
    <3> QED
      BY <1>0, <2>1, <2>4, <2>5, <3>1 DEF IInv, TypeOK
  <2>6. CASE k # l
    BY <1>0, <2>1, <2>2, <2>4, <2>6 DEF IInv, TypeOK
  <2> QED
    BY <2>5, <2>6
<1> QED
  BY <1>1, <1>2, <1>3 DEF IInv

\* Locking and unlocking change neither the table nor the pointers.
LEMMA LockUnlockStep ==
  ASSUME IInv, NEW p \in Procs, Lock(p) \/ Unlock(p)
  PROVE  IInv'
<1>0. /\ pc[p] # "idle" /\ pc'[p] # "idle" /\ UNCHANGED <<sourceLocks, refs, src, lk>>
      /\ \A q \in Procs \ {p} : pc'[q] = pc[q]
  BY DEF Lock, Unlock, IInv, TypeOK
<1>1. TypeOK'
  BY DEF Lock, Unlock, IInv, TypeOK
<1>2. PointsToEntry' /\ EntriesDistinct' /\ EntryIffReferenced'
  BY <1>0 DEF IInv, PointsToEntry, EntriesDistinct, EntryIffReferenced
<1>3. LockedIsHolder'
  BY NullsDistinct DEF Lock, Unlock, IInv, TypeOK, LockedIsHolder, PointsToEntry
<1>4. CountsUsers'
  <2>1. \A k : Users(k)' = Users(k)
    BY <1>0 DEF Users
  <2>2. Reachable' = Reachable
    BY <1>0 DEF Reachable
  <2> QED
    BY <1>0, <2>1, <2>2 DEF IInv, CountsUsers
<1> QED
  BY <1>1, <1>2, <1>3, <1>4 DEF IInv

\* releaseSourceLock: the entry is dropped exactly with its last user.
LEMMA ReleaseStep ==
  ASSUME IInv, NEW p \in Procs, Release(p)
  PROVE  IInv'
<1> DEFINE l == lk[p]
           s == src[p]
<1>0. /\ pc[p] = "unlocked" /\ l \in Locks /\ s \in Sources
      /\ sourceLocks[s] = l
      /\ refs' = [refs EXCEPT ![l] = @ - 1]
      /\ sourceLocks' = IF refs[l] = 1 THEN [sourceLocks EXCEPT ![s] = NoLock]
                                       ELSE sourceLocks
      /\ pc' = [pc EXCEPT ![p] = "idle"]
      /\ lk' = [lk EXCEPT ![p] = NoLock]
      /\ UNCHANGED <<holder, src>>
  BY DEF Release, IInv, TypeOK, PointsToEntry
<1>1. l \in Reachable /\ p \in Users(l)
  BY <1>0 DEF Reachable, Users
<1>2. refs[l] = Cardinality(Users(l))
  BY <1>0, <1>1 DEF IInv, CountsUsers
<1>3. Cardinality(Users(l) \ {p}) = refs[l] - 1 /\ refs[l] - 1 \in Nat
  <2>1. IsFiniteSet(Users(l) \ {p})
    BY UsersFinite, FS_RemoveElement
  <2> QED
    BY <1>1, <1>2, <2>1, UsersFinite, FS_RemoveElement, FS_CardinalityType
<1>4. (refs[l] = 1) <=> (Users(l) \ {p} = {})
  <2>1. IsFiniteSet(Users(l) \ {p})
    BY UsersFinite, FS_RemoveElement
  <2>2. (Cardinality(Users(l) \ {p}) = 0) <=> (Users(l) \ {p} = {})
    BY <2>1, FS_EmptySet
  <2>3. refs[l] \in Nat
    BY <1>0 DEF IInv, TypeOK
  <2> QED
    BY <1>3, <2>2, <2>3
<1>5. \A q \in Procs : q # p /\ pc[q] # "idle" /\ src[q] = s => q \in Users(l) \ {p}
  BY <1>0 DEF IInv, PointsToEntry, Users
<1>6. \A q \in Users(l) \ {p} : q \in Procs /\ q # p /\ pc[q] # "idle" /\ src[q] = s
  BY <1>0, NullsDistinct DEF IInv, TypeOK, PointsToEntry, EntriesDistinct, Users
<1>7. TypeOK'
  BY <1>0, <1>3 DEF IInv, TypeOK
<1>8. PointsToEntry'
  BY <1>0, <1>4, <1>5, <1>7 DEF IInv, TypeOK, PointsToEntry
<1>9. LockedIsHolder' /\ EntriesDistinct'
  BY <1>0, <1>7 DEF IInv, TypeOK, LockedIsHolder, EntriesDistinct
<1>10. EntryIffReferenced'
  <2> SUFFICES ASSUME NEW r \in Sources
               PROVE  (sourceLocks'[r] # NoLock) <=>
                        (\E q \in Procs : pc'[q] # "idle" /\ src'[q] = r)
    BY DEF EntryIffReferenced
  <2>1. CASE r # s
    BY <1>0, <2>1 DEF IInv, TypeOK, EntryIffReferenced
  <2>2. CASE r = s /\ refs[l] = 1
    BY <1>0, <1>4, <1>5, <2>2 DEF IInv, TypeOK
  <2>3. CASE r = s /\ refs[l] # 1
    <3>1. PICK q \in Users(l) \ {p} : TRUE
      BY <1>4, <2>3
    <3>2. q \in Procs /\ pc'[q] # "idle" /\ src'[q] = s
      BY <1>0, <1>6, <3>1 DEF IInv, TypeOK
    <3> QED
      BY <1>0, <2>3, <3>2, NullsDistinct
  <2> QED
    BY <2>1, <2>2, <2>3
<1>11. CountsUsers'
  <2> SUFFICES ASSUME NEW k \in Locks, k \in Reachable'
               PROVE  refs'[k] = Cardinality(Users(k)')
    BY DEF CountsUsers
  <2>1. Users(k)' = Users(k) \ {p}
    BY <1>0, UsersStep DEF IInv, TypeOK
  <2>2. CASE k = l
    BY <1>0, <1>3, <2>1, <2>2 DEF IInv, TypeOK
  <2>3. CASE k # l
    <3>1. k \in Reachable
      BY <1>0, NullsDistinct DEF Reachable, IInv, TypeOK
    <3>2. Users(k)' = Users(k)
      BY <2>1, <2>3 DEF Users
    <3> QED
      BY <1>0, <2>3, <3>1, <3>2 DEF IInv, CountsUsers, TypeOK
  <2> QED
    BY <2>2, <2>3
<1> QED
  BY <1>7, <1>8, <1>9, <1>10, <1>11 DEF IInv

LEMMA NextIInv == IInv /\ [Next]_vars => IInv'
<1> SUFFICES ASSUME IInv, [Next]_vars PROVE IInv'
  OBVIOUS
<1>1. ASSUME NEW p \in Procs, NEW s \in Sources,
             AcquireNew(p, s) \/ AcquireExisting(p, s)
      PROVE  IInv'
  BY <1>1, AcquireNewStep, AcquireExistingStep
<1>2. ASSUME NEW p \in Procs, Lock(p) \/ Unlock(p) \/ Release(p)
      PROVE  IInv'
  BY <1>2, LockUnlockStep, ReleaseStep
<1>3. CASE UNCHANGED vars
  BY <1>3 DEF vars, IInv, TypeOK, PointsToEntry, LockedIsHolder, EntriesDistinct,
              CountsUsers, EntryIffReferenced, Users, Reachable
<1> QED
  BY <1>1, <1>2, <1>3 DEF Next

LEMMA IInvAlways == Spec => []IInv
  BY InitIInv, NextIInv, PTL DEF Spec

LEMMA IInvExcludes == IInv => MutualExclusion
  BY NullsDistinct DEF IInv, TypeOK, PointsToEntry, LockedIsHolder, MutualExclusion

\* Mutual exclusion: for any number of goroutines and sources, at most one
\* goroutine is between Lock and Unlock of a source's refMutex.
THEOREM Exclusion == Spec => []MutualExclusion
  BY IInvAlways, IInvExcludes, PTL

\* The table neither drops an entry somebody uses nor keeps one nobody uses.
THEOREM NoEntryLeak == Spec => []EntryIffReferenced
<1>1. IInv => EntryIffReferenced
  BY DEF IInv
<1> QED
  BY <1>1, IInvAlways, PTL

-----------------------------------------------------------------------------

LEMMA InitMutex == Init => Mutex!MutexInit
  BY DEF Init, Mutex!MutexInit, stageBar

LEMMA NextMutex == IInv /\ [Next]_vars => [Mutex!MutexNext]_<<stageBar, src>>
<1> SUFFICES ASSUME IInv, [Next]_vars
             PROVE  Mutex!MutexNext \/ UNCHANGED <<stageBar, src>>
  OBVIOUS
<1> USE DEF IInv, TypeOK, stageBar
<1>1. ASSUME NEW p \in Procs, NEW s \in Sources,
             AcquireNew(p, s) \/ AcquireExisting(p, s)
      PROVE  Mutex!Request(p, s)
  BY <1>1 DEF AcquireNew, AcquireExisting, Mutex!Request
<1>2. ASSUME NEW p \in Procs, Lock(p)
      PROVE  Mutex!Enter(p)
  <2>1. \A q \in Procs : pc[q] = "locked" => src[q] # src[p]
    BY <1>2, NullsDistinct DEF Lock, PointsToEntry, LockedIsHolder
  <2> QED
    BY <1>2, <2>1 DEF Lock, Mutex!Enter
<1>3. ASSUME NEW p \in Procs, Unlock(p)
      PROVE  Mutex!Leave(p)
  BY <1>3 DEF Unlock, Mutex!Leave
<1>4. ASSUME NEW p \in Procs, Release(p)
      PROVE  UNCHANGED <<stageBar, src>>
  BY <1>4 DEF Release
<1>5. CASE UNCHANGED vars
  BY <1>5 DEF vars
<1> QED
  BY <1>1, <1>2, <1>3, <1>4, <1>5 DEF Next, Mutex!MutexNext

\* The lock table implements the per-source mutex of SourceMutex.
THEOREM Refinement == Spec => ImplementsMutex
  BY InitMutex, NextMutex, IInvAlways, PTL
     DEF Spec, ImplementsMutex, Mutex!MutexSpec, Mutex!mvars
=============================================================================
