---------------------------- MODULE SourceLocks ----------------------------
(***************************************************************************)
(* The reference-counted lock table of PodMounter (pkg/driver/             *)
(* podmounter.go): acquireSourceLock looks a refMutex up, or inserts a new *)
(* one, and counts a reference, all under m.mu; the caller then blocks on  *)
(* the refMutex itself, outside m.mu; releaseSourceLock drops the          *)
(* reference and forgets the entry at zero, again under m.mu.              *)
(*                                                                         *)
(* Every user of the table (Mount, Unmount, cleanupSource, rebindTargets)  *)
(* brackets its work the same way:                                         *)
(*     lk := acquireSourceLock(source); lk.Lock(); defer { lk.Unlock();    *)
(*     releaseSourceLock(source, lk) }                                     *)
(*                                                                         *)
(* A refMutex object is a member of Locks.  Go reuses the memory of an     *)
(* object once nothing points to it, so a new refMutex is any member that  *)
(* neither the table nor a goroutine refers to.                            *)
(***************************************************************************)
EXTENDS Integers, FiniteSets

CONSTANTS Procs,    \* goroutines that use the table
          Sources,  \* FUSE source mount paths
          Locks     \* refMutex objects the heap can hold

CONSTANTS NoLock, NoProc

ASSUME ProcsFinite == IsFiniteSet(Procs)
ASSUME NullsDistinct == NoLock \notin Locks /\ NoProc \notin Procs

VARIABLES sourceLocks,  \* the table: source -> refMutex or NoLock
          refs,         \* refs[l]: the reference count in refMutex l
          holder,       \* holder[l]: the goroutine that has l locked
          pc,           \* control point of each goroutine
          src,          \* src[p]: the source argument of p's bracket
          lk            \* lk[p]: the pointer p got from acquireSourceLock

vars == <<sourceLocks, refs, holder, pc, src, lk>>

-----------------------------------------------------------------------------

\* Goroutines that hold a pointer to refMutex l.
Users(l) == {p \in Procs : pc[p] # "idle" /\ lk[p] = l}

\* The objects the garbage collector may not reuse.
Reachable == {sourceLocks[s] : s \in Sources} \cup
             {lk[p] : p \in {q \in Procs : pc[q] # "idle"}}

Init == /\ sourceLocks = [s \in Sources |-> NoLock]
        /\ refs = [l \in Locks |-> 0]
        /\ holder = [l \in Locks |-> NoProc]
        /\ pc = [p \in Procs |-> "idle"]
        /\ src \in [Procs -> Sources]
        /\ lk = [p \in Procs |-> NoLock]

\* Mutants of the lock bracket (what the checks must notice).  releaseSourceLock
\* that deletes the entry without the refs == 0 test:
ReleaseAlways(p) ==
  /\ pc[p] = "unlocked"
  /\ refs' = [refs EXCEPT ![lk[p]] = @ - 1]
  /\ sourceLocks' = [sourceLocks EXCEPT ![src[p]] = NoLock]
  /\ pc' = [pc EXCEPT ![p] = "idle"]
  /\ lk' = [lk EXCEPT ![p] = NoLock]
  /\ UNCHANGED <<holder, src>>

\* releaseSourceLock that never deletes an entry:
ReleaseNever(p) ==
  /\ pc[p] = "unlocked"
  /\ refs' = [refs EXCEPT ![lk[p]] = @ - 1]
  /\ pc' = [pc EXCEPT ![p] = "idle"]
  /\ lk' = [lk EXCEPT ![p] = NoLock]
  /\ UNCHANGED <<sourceLocks, holder, src>>

\* A lock that spins until it has the only reference instead of blocking on
\* the mutex:
LockSpins(p) ==
  /\ pc[p] = "acquired"
  /\ holder[lk[p]] = NoProc
  /\ \/ /\ refs[lk[p]] = 1
        /\ holder' = [holder EXCEPT ![lk[p]] = p]
        /\ pc' = [pc EXCEPT ![p] = "locked"]
     \/ /\ refs[lk[p]] # 1
        /\ UNCHANGED <<holder, pc>>
  /\ UNCHANGED <<sourceLocks, refs, src, lk>>

\* acquireSourceLock, no entry: a zeroed refMutex enters the table and is
\* counted once.
AcquireNew(p, s) ==
  /\ pc[p] = "idle"
  /\ sourceLocks[s] = NoLock
  /\ \E l \in Locks \ Reachable :
       /\ sourceLocks' = [sourceLocks EXCEPT ![s] = l]
       /\ refs' = [refs EXCEPT ![l] = 1]
       /\ holder' = [holder EXCEPT ![l] = NoProc]
       /\ lk' = [lk EXCEPT ![p] = l]
  /\ src' = [src EXCEPT ![p] = s]
  /\ pc' = [pc EXCEPT ![p] = "acquired"]

\* acquireSourceLock, entry present: one more reference.
AcquireExisting(p, s) ==
  /\ pc[p] = "idle"
  /\ sourceLocks[s] # NoLock
  /\ refs' = [refs EXCEPT ![sourceLocks[s]] = @ + 1]
  /\ lk' = [lk EXCEPT ![p] = sourceLocks[s]]
  /\ src' = [src EXCEPT ![p] = s]
  /\ pc' = [pc EXCEPT ![p] = "acquired"]
  /\ UNCHANGED <<sourceLocks, holder>>

\* lk.Lock(): returns once the mutex is free.
Lock(p) == /\ pc[p] = "acquired"
           /\ holder[lk[p]] = NoProc
           /\ holder' = [holder EXCEPT ![lk[p]] = p]
           /\ pc' = [pc EXCEPT ![p] = "locked"]
           /\ UNCHANGED <<sourceLocks, refs, src, lk>>

\* lk.Unlock(): the first statement of the deferred function.
Unlock(p) == /\ pc[p] = "locked"
             /\ holder' = [holder EXCEPT ![lk[p]] = NoProc]
             /\ pc' = [pc EXCEPT ![p] = "unlocked"]
             /\ UNCHANGED <<sourceLocks, refs, src, lk>>

\* releaseSourceLock: the last reference takes the entry with it.
Release(p) ==
  /\ pc[p] = "unlocked"
  /\ refs' = [refs EXCEPT ![lk[p]] = @ - 1]
  /\ sourceLocks' = IF refs[lk[p]] = 1
                    THEN [sourceLocks EXCEPT ![src[p]] = NoLock]
                    ELSE sourceLocks
  /\ pc' = [pc EXCEPT ![p] = "idle"]
  /\ lk' = [lk EXCEPT ![p] = NoLock]
  /\ UNCHANGED <<holder, src>>

Next == \E p \in Procs : \/ \E s \in Sources : \/ AcquireNew(p, s)
                                               \/ AcquireExisting(p, s)
                         \/ Lock(p)
                         \/ Unlock(p)
                         \/ Release(p)

\* Go runs every runnable goroutine, and sync.Mutex hands the lock to a
\* waiter that has starved for a millisecond: a goroutine that finds the
\* mutex free again and again gets it.
Fairness == \A p \in Procs : /\ SF_vars(Lock(p))
                             /\ WF_vars(Unlock(p))
                             /\ WF_vars(Release(p))

Spec == Init /\ [][Next]_vars /\ Fairness

-----------------------------------------------------------------------------

TypeOK == /\ sourceLocks \in [Sources -> Locks \cup {NoLock}]
          /\ refs \in [Locks -> Nat]
          /\ holder \in [Locks -> Procs \cup {NoProc}]
          /\ pc \in [Procs -> {"idle", "acquired", "locked", "unlocked"}]
          /\ src \in [Procs -> Sources]
          /\ lk \in [Procs -> Locks \cup {NoLock}]

\* Two goroutines never work on one source at a time: the critical sections
\* of Mount, Unmount, cleanupSource and rebindTargets exclude each other,
\* although the entry that serializes them is created and deleted on the fly.
MutualExclusion ==
  \A p, q \in Procs :
    pc[p] = "locked" /\ pc[q] = "locked" /\ src[p] = src[q] => p = q

\* releaseSourceLock forgets an entry exactly when nobody refers to it any
\* more: an entry deleted early would split the lock in two, an entry kept
\* would grow the table with every target path ever published.
EntryIffReferenced ==
  \A s \in Sources :
    (sourceLocks[s] # NoLock) <=>
      (\E p \in Procs : pc[p] # "idle" /\ src[p] = s)

\* The count in a refMutex is the number of goroutines that hold a pointer
\* to it.
CountsUsers == \A l \in Locks : l \in Reachable =>
                                  refs[l] = Cardinality(Users(l))

\* Every goroutine that asked for a source gets to work on it.
Served == \A p \in Procs : pc[p] = "acquired" ~> pc[p] = "locked"

\* The table implements the per-source mutex: a goroutine is inside its
\* source between Lock and Unlock.
stageBar == [p \in Procs |-> IF pc[p] = "acquired" THEN "waiting"
                             ELSE IF pc[p] = "locked" THEN "inside" ELSE "idle"]

Mutex == INSTANCE SourceMutex WITH stage <- stageBar, at <- src

\* acquireSourceLock, Lock, Unlock and releaseSourceLock implement
\* SourceMutex: every step is a request, an entry, an exit or a stutter.
ImplementsMutex == Mutex!MutexSpec

=============================================================================
