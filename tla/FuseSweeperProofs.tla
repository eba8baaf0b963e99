-------------------------- MODULE FuseSweeperProofs --------------------------
(***************************************************************************)
(* Proofs about FuseSweeper, for any number of connections, minors and     *)
(* faults.                                                                 *)
(***************************************************************************)
EXTENDS FuseSweeper, TLAPS

\* A connection has a minor from its mount on; no two that are there share one.
NodeInv ==
  /\ \A c \in Conns : minor[c] = NoMinor <=> place[c] = "unborn"
  /\ \A c \in Conns : handoff[c] # "none" => place[c] # "unborn"
  /\ \A c, d \in Conns :
       Present(c) /\ Present(d) /\ c # d => minor[c] # minor[d]

\* What a sweep has read so far justifies where it is: the minor it looks at
\* has mounts of ours in the snapshot, and one it will abort is confirmed and
\* has no daemon in the snapshot, which misses no daemon that was there.  What
\* was there when the mounts were listed had a minor of its own.
SweepInv ==
  /\ \A c \in mounts : c \in listed
  /\ \A c \in listed : place[c] # "unborn"
  /\ \A c, d \in listed : c # d => minor[c] # minor[d]
  /\ \A c \in mounts : Ours(c) /\ minor[c] # NoMinor
  /\ \A c \in scanned : Owner[c] \in servers
  /\ pc \in {"judge", "abort"} => at \in Minors /\ Mountpoints(at) # {}
  /\ pc = "abort" => /\ orphanStreak[at] = OrphanConfirmSweeps
                     /\ ~MountHasLiveDaemon(at)

IInv == TypeOK /\ NodeInv /\ SweepInv /\ AbortedIsConfirmed

\* newFuseSweeper starts with empty maps.
LEMMA InitIInv == Init => IInv
<1> SUFFICES ASSUME Init PROVE IInv
  OBVIOUS
<1>1. TypeOK
  BY ConnsAssumption, SweeperBounds DEF Init, TypeOK
<1>2. NodeInv
  BY DEF Init, NodeInv, Present
<1>3. SweepInv
  BY DEF Init, SweepInv
<1> QED
  BY <1>1, <1>2, <1>3 DEF Init, IInv, AbortedIsConfirmed

\* What the node does (mounts, handoffs, daemons, requests) leaves the sweep's
\* locals and maps alone; a mount takes a minor nobody has.
LEMMA NodeStep ==
  ASSUME IInv, NEW c \in Conns,
         \/ Mount(c) \/ MountFails(c) \/ Handoff(c) \/ DaemonDies(c)
         \/ Request(c) \/ Drain(c) \/ Detach(c) \/ Disappear(c)
  PROVE  IInv'
<1> USE ConnsAssumption, SweeperBounds DEF IInv, TypeOK, NodeInv, SweepInv, AbortedIsConfirmed,
        Mountpoints, MountHasLiveDaemon, Ours, Present, sweepVars
<1>1. CASE Mount(c)
  BY <1>1 DEF Mount, FreeMinors, At
<1>2. CASE MountFails(c)
  <2>1. CASE UNCHANGED errored BY <1>2, <2>1 DEF MountFails, Fault
  <2>2. CASE errored' = [errored EXCEPT ![c] = TRUE] BY <1>2, <2>2 DEF MountFails, Fault
  <2> QED BY <1>2, <2>1, <2>2 DEF MountFails
<1>3. CASE Handoff(c)
  <2>1. CASE MarkPending(c) BY <2>1 DEF MarkPending
  <2>2. CASE HandoffResolves(c)
    <3>1. CASE UNCHANGED errored BY <2>2, <3>1 DEF HandoffResolves
    <3>2. CASE errored' = [errored EXCEPT ![c] = TRUE] BY <2>2, <3>2 DEF HandoffResolves
    <3> QED BY <2>2, <3>1, <3>2 DEF HandoffResolves
  <2>3. CASE HandoffClears(c) BY <2>3 DEF HandoffClears
  <2>4. CASE SidecarReceives(c) BY <2>4 DEF SidecarReceives
  <2> QED BY <1>3, <2>1, <2>2, <2>3, <2>4 DEF Handoff
<1>4. CASE DaemonDies(c)
  <2>1. errored' \in [Conns -> BOOLEAN]
    BY <1>4 DEF DaemonDies
  <2> QED
    BY <1>4, <2>1 DEF DaemonDies
<1>5. CASE Request(c) \/ Drain(c)
  <2>1. waiting' \in [Conns -> BOOLEAN]
    BY <1>5 DEF Request, Drain
  <2> QED BY <1>5, <2>1 DEF Request, Drain
<1>6. CASE Detach(c)
  <2>1. errored' \in [Conns -> BOOLEAN]
    BY <1>6, Zenon DEF Detach
  <2> QED BY <1>6, <2>1 DEF Detach
<1>7. CASE Disappear(c)
  BY <1>7 DEF Disappear
<1> QED
  BY <1>1, <1>2, <1>3, <1>4, <1>5, <1>6, <1>7

\* The steps of sweep() and a restart of the driver.
LEMMA SweeperStep ==
  ASSUME IInv,
         Sweep \/ ListFails \/ (\E m \in Minors : WaitingFails(m)) \/ DriverRestarts
  PROVE  IInv'
<1> USE ConnsAssumption, SweeperBounds DEF IInv, TypeOK, NodeInv, SweepInv, AbortedIsConfirmed,
        Mountpoints, MountHasLiveDaemon, Ours, Present, nodeVars
<1>1. CASE ListFuseConnections
  BY <1>1 DEF ListFuseConnections
<1>2. CASE ListOurFuseMounts
  BY <1>2 DEF ListOurFuseMounts
<1>3. CASE ListFuseServers
  BY <1>3 DEF ListFuseServers
<1>4. ASSUME NEW m \in Minors, LookAtWaiting(m) PROVE IInv'
  BY <1>4 DEF LookAtWaiting, Continue, Reset
<1>5. CASE Judge
  BY <1>5 DEF Judge, Continue, Reset, Bumped
<1>6. CASE Abort
  BY <1>6 DEF Abort, Continue
<1>7. CASE AbortFails
  BY <1>7 DEF AbortFails, Continue, Fault
<1>8. CASE SweepEnds
  BY <1>8 DEF SweepEnds, SweepReturns
<1>9. CASE ListFails
  BY <1>9 DEF ListFails, SweepReturns, Fault
<1>10. ASSUME NEW m \in Minors, WaitingFails(m) PROVE IInv'
  BY <1>10 DEF WaitingFails, Continue, Reset, Fault
<1>11. CASE DriverRestarts
  BY <1>11 DEF DriverRestarts, SweepReturns, Fault
<1> QED
  BY <1>1, <1>2, <1>3, <1>4, <1>5, <1>6, <1>7, <1>8, <1>9, <1>10, <1>11 DEF Sweep

LEMMA NextIInv == IInv /\ [Next]_vars => IInv'
<1> SUFFICES ASSUME IInv, [Next]_vars PROVE IInv'
  OBVIOUS
<1>1. CASE Next
  BY <1>1, NodeStep, SweeperStep DEF Next
<1>2. CASE UNCHANGED vars
  BY <1>2 DEF vars, nodeVars, sweepVars, IInv, TypeOK, NodeInv, SweepInv, AbortedIsConfirmed,
              Mountpoints, MountHasLiveDaemon, Ours, Present
<1> QED
  BY <1>1, <1>2

LEMMA Invariance == SafeSpec => []IInv
  BY InitIInv, NextIInv, PTL DEF SafeSpec

\* Dropping out of the streak makes a minor abortable again: the maps
\* orphanStreak and aborted agree after every step of sweep().
THEOREM MapsAgree == SafeSpec => []AbortedIsConfirmed
<1>1. IInv => AbortedIsConfirmed
  BY DEF IInv
<1> QED
  BY <1>1, Invariance, PTL

\* sweep() aborts no foreign connection and none that was served when it listed
\* the processes, whatever changes between its reads, but for one: a connection
\* mounted since then on the minor of a mount of ours that it found unserved and
\* that is gone by now.
THEOREM AbortsOnlyUnserved == SafeSpec => SparesServed
<1> DEFINE Kept(c) ==
             \/ Ours(c) /\ c \notin scanned
             \/ c \notin listed /\ \E d \in mounts : minor[d] = minor[c] /\ place[d] = "gone"
<1>1. ASSUME IInv, [Next]_vars, NEW c \in Conns, Hit(c)
      PROVE  Kept(c)
  <2>1. PICK d \in Mountpoints(at) : TRUE
    BY <1>1 DEF IInv, SweepInv, Hit
  <2>2. /\ d \in mounts /\ d \in listed /\ d \in Conns
        /\ minor[d] = at /\ minor[c] = at /\ Present(c)
    BY <1>1, <2>1 DEF IInv, TypeOK, SweepInv, Hit, At, Mountpoints
  <2>3. CASE c = d
    <3>1. Owner[c] \notin servers
      BY <1>1, <2>1, <2>3 DEF IInv, SweepInv, Hit, MountHasLiveDaemon
    <3>2. Ours(c) /\ c \notin scanned
      BY <1>1, <2>2, <2>3, <3>1 DEF IInv, SweepInv
    <3> QED
      BY <3>2
  <2>4. CASE c # d
    <3>1. c \notin listed
      BY <1>1, <2>2, <2>4 DEF IInv, SweepInv
    <3>2. place[d] = "gone"
      BY <1>1, <2>2, <2>4 DEF IInv, TypeOK, NodeInv, SweepInv, Present
    <3> QED
      BY <2>2, <3>1, <3>2
  <2> QED
    BY <2>3, <2>4
<1> HIDE DEF Kept
<1>2. IInv /\ [Next]_vars => [\A c \in Conns : Hit(c) => Kept(c)]_vars
  BY <1>1
<1> USE DEF Kept
<1> QED
  BY <1>2, Invariance, PTL DEF SafeSpec, SparesServed

-----------------------------------------------------------------------------
(***************************************************************************)
(* A handoff that is about to be marked pending.  Between the kernel mount *)
(* and the mark nothing but time protects a sidecar mount: the first sweep *)
(* that looks at it may count it, the next one comes when the mark is      *)
(* there.  Hence orphanConfirmSweeps must be at least two.  All of it is   *)
(* about connections whose minor was nobody's before.                      *)
(***************************************************************************)
\* The streak of a mount without its mark has not begun when a sweep comes to
\* it, and one that has begun holds back the next sweep.
UnmarkedStreak ==
  \A c \in Conns : handoff[c] = "mounted" /\ Fresh(c) /\ orphanStreak[minor[c]] # 0 =>
    /\ pc = "idle" => c \in lagging
    /\ pc \notin {"mounts", "servers"} /\ minor[c] \notin todo

\* Only a minor that a connection has or had has a streak.
StreakKnown == \A m \in Minors : orphanStreak[m] # 0 => \E c \in Conns : minor[c] = m

PendingMarked ==
  \A c \in Conns : handoff[c] = "pending" /\ Fresh(c) => minor[c] \in pendingSidecarMinors
LoopAt == pc \in {"judge", "abort"} => at \in todo

\* What is about to be aborted has been handed over, or never will be.
AbortAt ==
  pc = "abort" => \A c \in Conns : minor[c] = at /\ Fresh(c) => handoff[c] \notin {"mounted", "pending"}

HandoffInv == UnmarkedStreak /\ StreakKnown /\ PendingMarked /\ LoopAt /\ AbortAt

LEMMA InitHandoffInv == Init => HandoffInv
  BY DEF Init, HandoffInv, UnmarkedStreak, StreakKnown, PendingMarked, LoopAt, AbortAt

\* Who has a minor changes only with a mount.
LEMMA FreshKept == ASSUME UNCHANGED minor PROVE \A c \in Conns : Fresh(c)' <=> Fresh(c)
  BY DEF Fresh

\* A new mount has a minor no sweep has seen, or it is not the first to have it,
\* nor is the one before it alone with it any longer.
LEMMA MountHandoff ==
  ASSUME IInv, HandoffInv, NEW c \in Conns, Mount(c)
  PROVE  HandoffInv'
<1>1. PICK m \in Minors : minor' = [minor EXCEPT ![c] = m]
  BY DEF Mount, FreeMinors
<1>2. /\ \A d \in Conns : minor'[d] = IF d = c THEN m ELSE minor[d]
      /\ \A d \in Conns : d # c => handoff'[d] = handoff[d]
      /\ handoff'[c] \in {"mounted", "none"}
      /\ minor[c] = NoMinor
      /\ UNCHANGED <<orphanStreak, pendingSidecarMinors, pc, lagging, todo, at>>
  BY <1>1 DEF Mount, IInv, TypeOK, NodeInv, sweepVars
<1>3. /\ \A d \in Conns : d # c /\ handoff[d] # "none" /\ Fresh(d)' => Fresh(d)
      /\ Fresh(c)' => \A d \in Conns : minor[d] # m
  <2>1. Fresh(c)' => \A d \in Conns \ {c} : minor[d] # m
    BY <1>2 DEF Fresh
  <2>2. minor[c] # m
    BY <1>2, ConnsAssumption
  <2>3. ASSUME NEW d \in Conns, d # c, handoff[d] # "none", Fresh(d)' PROVE Fresh(d)
    <3>1. \A e \in Conns \ {d} : minor'[e] # minor'[d]
      BY <2>3 DEF Fresh
    <3>2. minor[d] # NoMinor
      BY <2>3 DEF IInv, NodeInv
    <3> QED
      BY <1>2, <2>3, <3>1, <3>2 DEF Fresh
  <2> QED
    BY <2>1, <2>2, <2>3
<1>4. Fresh(c)' => orphanStreak[m] = 0
  BY <1>3 DEF HandoffInv, StreakKnown
<1>5. UnmarkedStreak'
  BY <1>2, <1>3, <1>4 DEF HandoffInv, UnmarkedStreak
<1>6. StreakKnown'
  BY <1>2, ConnsAssumption DEF HandoffInv, StreakKnown
<1>7. PendingMarked' /\ LoopAt'
  BY <1>2, <1>3 DEF HandoffInv, PendingMarked, LoopAt
<1>8. AbortAt'
  <2>1. pc = "abort" /\ Fresh(c)' => at # m
    BY <1>3 DEF IInv, TypeOK, SweepInv, Mountpoints
  <2> QED
    BY <1>2, <1>3, <2>1 DEF HandoffInv, AbortAt
<1> QED
  BY <1>5, <1>6, <1>7, <1>8 DEF HandoffInv

\* The other steps of the node.
LEMMA NodeHandoff ==
  ASSUME IInv, HandoffInv, NEW c \in Conns,
         \/ MountFails(c) \/ Handoff(c) \/ DaemonDies(c)
         \/ Request(c) \/ Drain(c) \/ Detach(c) \/ Disappear(c)
  PROVE  HandoffInv'
<1>0. /\ UNCHANGED <<minor, orphanStreak, pc, lagging, todo, at>>
      /\ \A d \in Conns : d # c => handoff'[d] = handoff[d]
  BY DEF MountFails, Handoff, MarkPending, HandoffResolves, HandoffClears, SidecarReceives, DaemonDies,
         Request, Drain, Detach, Disappear, sweepVars, IInv, TypeOK
<1>1. /\ handoff'[c] # "mounted" \/ handoff'[c] = handoff[c]
      /\ \/ handoff'[c] # "pending"
         \/ handoff'[c] = handoff[c]
         \/ handoff[c] = "mounted" /\ pendingSidecarMinors' = pendingSidecarMinors \cup {minor[c]}
  BY DEF MountFails, Handoff, MarkPending, HandoffResolves, HandoffClears, SidecarReceives, DaemonDies,
         Request, Drain, Detach, Disappear, IInv, TypeOK
<1>2. UnmarkedStreak' /\ StreakKnown' /\ LoopAt'
  BY <1>0, <1>1, FreshKept DEF HandoffInv, UnmarkedStreak, StreakKnown, LoopAt
<1>3. AbortAt'
  BY <1>0, <1>1, FreshKept DEF HandoffInv, AbortAt
<1>4. PendingMarked'
  <2>1. CASE HandoffClears(c)
    <3>1. /\ handoff'[c] = "done" /\ minor[c] # NoMinor
          /\ pendingSidecarMinors' = pendingSidecarMinors \ {minor[c]}
      BY <2>1 DEF HandoffClears, IInv, TypeOK, NodeInv
    <3>2. \A d \in Conns : d # c /\ Fresh(d) => minor[d] # minor[c]
      BY DEF Fresh
    <3> QED
      BY <1>0, <3>1, <3>2, FreshKept DEF HandoffInv, PendingMarked
  <2>2. CASE ~HandoffClears(c)
    <3>1. pendingSidecarMinors \subseteq pendingSidecarMinors'
      BY <2>2 DEF MountFails, Handoff, MarkPending, HandoffResolves, SidecarReceives, DaemonDies,
                  Request, Drain, Detach, Disappear
    <3> QED
      BY <1>0, <1>1, <3>1, FreshKept DEF HandoffInv, PendingMarked
  <2> QED
    BY <2>1, <2>2
<1> QED
  BY <1>2, <1>3, <1>4 DEF HandoffInv

\* The steps of sweep() and a restart of the driver.
LEMMA SweeperHandoff ==
  ASSUME OrphanConfirmSweeps >= 2, IInv, HandoffInv,
         Sweep \/ ListFails \/ (\E m \in Minors : WaitingFails(m)) \/ DriverRestarts
  PROVE  HandoffInv'
<1>0. ASSUME UNCHANGED nodeVars PROVE PendingMarked'
  BY <1>0, FreshKept DEF nodeVars, HandoffInv, PendingMarked
<1>1. CASE ListFuseConnections
  <2>1. UNCHANGED nodeVars /\ StreakKnown' /\ LoopAt' /\ AbortAt'
    BY <1>1, FreshKept DEF ListFuseConnections, nodeVars, HandoffInv, StreakKnown, LoopAt, AbortAt
  <2>2. UnmarkedStreak'
    BY <1>1, FreshKept DEF ListFuseConnections, InShortWindow, nodeVars, HandoffInv, UnmarkedStreak
  <2> QED
    BY <1>0, <2>1, <2>2 DEF HandoffInv
<1>2. CASE ListOurFuseMounts \/ ListFuseServers
  <2>1. UNCHANGED nodeVars /\ StreakKnown' /\ LoopAt' /\ AbortAt'
    BY <1>2, FreshKept DEF ListOurFuseMounts, ListFuseServers, nodeVars, HandoffInv, StreakKnown, LoopAt, AbortAt
  <2>2. UnmarkedStreak'
    BY <1>2, FreshKept DEF ListOurFuseMounts, ListFuseServers, nodeVars, HandoffInv, UnmarkedStreak
  <2> QED
    BY <1>0, <2>1, <2>2 DEF HandoffInv
<1>3. ASSUME NEW m \in Minors, UNCHANGED nodeVars, UNCHANGED lagging, todo' = todo \ {m}, pc' = "loop",
             \/ UNCHANGED orphanStreak
             \/ orphanStreak' = [orphanStreak EXCEPT ![m] = 0]
      PROVE  HandoffInv'
  <2>1. StreakKnown' /\ LoopAt' /\ AbortAt'
    BY <1>3, FreshKept DEF IInv, TypeOK, nodeVars, HandoffInv, StreakKnown, LoopAt, AbortAt
  <2>2. UnmarkedStreak'
    BY <1>3, FreshKept DEF IInv, TypeOK, nodeVars, HandoffInv, UnmarkedStreak
  <2> QED
    BY <1>0, <1>3, <2>1, <2>2 DEF HandoffInv
<1>4. ASSUME NEW m \in Minors, LookAtWaiting(m) PROVE HandoffInv'
  <2>1. UNCHANGED nodeVars /\ UNCHANGED lagging
    BY <1>4 DEF LookAtWaiting
  <2>2. CASE Continue(m)
    BY <1>3, <1>4, <2>1, <2>2 DEF LookAtWaiting, Continue, Reset
  <2>3. CASE pc' = "judge" /\ at' = m /\ UNCHANGED <<todo, orphanStreak>> /\ pc = "loop" /\ m \in todo
    <3>1. StreakKnown' /\ LoopAt' /\ AbortAt'
      BY <2>1, <2>3, FreshKept DEF nodeVars, HandoffInv, StreakKnown, LoopAt, AbortAt
    <3>2. UnmarkedStreak'
      BY <2>1, <2>3, FreshKept DEF nodeVars, HandoffInv, UnmarkedStreak
    <3> QED
      BY <1>0, <2>1, <3>1, <3>2 DEF HandoffInv
  <2> QED
    BY <1>4, <2>2, <2>3 DEF LookAtWaiting
<1>5. ASSUME NEW m \in Minors, WaitingFails(m) PROVE HandoffInv'
  BY <1>3, <1>5 DEF WaitingFails, Continue, Reset
<1>6. CASE Abort
  <2>1. PendingMarked' /\ StreakKnown' /\ LoopAt' /\ AbortAt'
    BY <1>6, FreshKept DEF Abort, Continue, HandoffInv, PendingMarked, StreakKnown, LoopAt, AbortAt
  <2>2. UnmarkedStreak'
    BY <1>6, FreshKept DEF Abort, Continue, HandoffInv, UnmarkedStreak
  <2> QED
    BY <2>1, <2>2 DEF HandoffInv
<1>7. CASE AbortFails
  <2>1. at \in Minors
    BY <1>7 DEF AbortFails, IInv, SweepInv
  <2> QED
    BY <1>3, <1>7, <2>1 DEF AbortFails, Continue
<1>8. CASE Judge
  <2>0. /\ at \in Minors /\ at \in todo /\ UNCHANGED nodeVars /\ UNCHANGED lagging
        /\ pc = "judge" /\ orphanStreak \in [Minors -> 0..OrphanConfirmSweeps]
    BY <1>8 DEF Judge, IInv, TypeOK, SweepInv, HandoffInv, LoopAt
  <2>1. CASE Reset(at) /\ Continue(at)
    BY <1>3, <2>0, <2>1 DEF Continue, Reset
  <2>2. CASE /\ at \notin pendingSidecarMinors
             /\ orphanStreak' = [orphanStreak EXCEPT ![at] = Bumped(at)]
             /\ \/ Continue(at)
                \/ Bumped(at) >= OrphanConfirmSweeps /\ pc' = "abort" /\ UNCHANGED <<todo, at>>
    <3>1. /\ orphanStreak'[at] = Bumped(at)
          /\ \A m \in Minors : m # at => orphanStreak'[m] = orphanStreak[m]
      BY <2>0, <2>2
    <3>2. ASSUME NEW c \in Conns, handoff[c] = "mounted", Fresh(c), minor[c] = at
          PROVE  orphanStreak[at] = 0 /\ Bumped(at) < OrphanConfirmSweeps
      <4>1. orphanStreak[at] = 0
        BY <2>0, <3>2, FreshKept DEF HandoffInv, UnmarkedStreak
      <4> QED
        BY <4>1, SweeperBounds DEF Bumped
    <3>3. StreakKnown'
      <4>1. \E c \in Conns : minor[c] = at
        BY <2>0 DEF IInv, TypeOK, SweepInv, Mountpoints
      <4> QED
        BY <2>0, <3>1, <4>1 DEF nodeVars, HandoffInv, StreakKnown
    <3>4. LoopAt'
      BY <2>0, <2>2 DEF Continue, LoopAt
    <3>5. AbortAt'
      <4> SUFFICES ASSUME pc' = "abort", NEW c \in Conns, minor[c] = at, Fresh(c)
                   PROVE  handoff[c] \notin {"mounted", "pending"}
        BY <2>0, <2>2, FreshKept DEF nodeVars, Continue, AbortAt
      <4>1. Bumped(at) >= OrphanConfirmSweeps
        BY <2>2 DEF Continue
      <4>2. ~(Bumped(at) < OrphanConfirmSweeps)
        BY <2>0, <4>1, SweeperBounds DEF Bumped
      <4>3. handoff[c] # "mounted"
        BY <3>2, <4>2
      <4>4. handoff[c] # "pending"
        BY <2>2 DEF HandoffInv, PendingMarked
      <4> QED
        BY <4>3, <4>4
    <3>6. UnmarkedStreak'
      <4> SUFFICES ASSUME NEW c \in Conns, handoff[c] = "mounted", Fresh(c),
                          orphanStreak'[minor[c]] # 0
                   PROVE  pc' \in {"loop", "abort"} /\ minor[c] \notin todo'
        BY <2>0, FreshKept DEF nodeVars, UnmarkedStreak
      <4>1. CASE minor[c] = at
        <5>1. Bumped(at) < OrphanConfirmSweeps
          BY <3>2, <4>1
        <5>2. ~(Bumped(at) >= OrphanConfirmSweeps)
          BY <2>0, <5>1, SweeperBounds DEF Bumped
        <5> QED
          BY <2>2, <4>1, <5>2 DEF Continue
      <4>2. CASE minor[c] # at
        <5>1. minor[c] \in Minors
          BY <2>0, ConnsAssumption DEF IInv, TypeOK, NodeInv
        <5>2. minor[c] \notin todo
          BY <3>1, <4>2, <5>1, FreshKept DEF HandoffInv, UnmarkedStreak
        <5> QED
          BY <2>2, <5>2 DEF Continue
      <4> QED
        BY <4>1, <4>2
    <3> QED
      BY <1>0, <2>0, <3>3, <3>4, <3>5, <3>6 DEF HandoffInv
  <2>3. ~(Bumped(at) < OrphanConfirmSweeps) => Bumped(at) >= OrphanConfirmSweeps
    BY <2>0, SweeperBounds DEF Bumped
  <2> QED
    BY <1>8, <2>1, <2>2, <2>3 DEF Judge
<1>9. CASE SweepEnds
  <2>1. /\ UNCHANGED nodeVars /\ pc' = "idle" /\ todo' = {}
        /\ lagging' = {c \in Conns : InShortWindow(c)}
        /\ \A m \in Minors : orphanStreak'[m] # 0 => orphanStreak[m] # 0
    BY <1>9 DEF SweepEnds, SweepReturns
  <2>2. StreakKnown' /\ LoopAt' /\ AbortAt'
    BY <2>1, FreshKept DEF nodeVars, HandoffInv, StreakKnown, LoopAt, AbortAt
  <2>3. UnmarkedStreak'
    BY <2>1, FreshKept DEF nodeVars, InShortWindow, UnmarkedStreak
  <2> QED
    BY <1>0, <2>1, <2>2, <2>3 DEF HandoffInv
<1>10. CASE ListFails
  <2>1. /\ UNCHANGED nodeVars /\ UNCHANGED <<lagging, orphanStreak>>
        /\ pc' = "idle" /\ todo' = {} /\ pc \in {"idle", "mounts", "servers"}
    BY <1>10 DEF ListFails, SweepReturns
  <2>2. StreakKnown' /\ LoopAt' /\ AbortAt'
    BY <2>1, FreshKept DEF nodeVars, HandoffInv, StreakKnown, LoopAt, AbortAt
  <2>3. UnmarkedStreak'
    BY <2>1, FreshKept DEF nodeVars, HandoffInv, UnmarkedStreak
  <2> QED
    BY <1>0, <2>1, <2>2, <2>3 DEF HandoffInv
<1>11. CASE DriverRestarts
  <2>1. /\ \A c \in Conns : handoff'[c] \notin {"mounted", "pending"}
        /\ \A m \in Minors : orphanStreak'[m] = 0
        /\ pc' = "idle"
    BY <1>11 DEF DriverRestarts, SweepReturns
  <2> QED
    BY <2>1 DEF HandoffInv, UnmarkedStreak, StreakKnown, PendingMarked, LoopAt, AbortAt
<1> QED
  BY <1>1, <1>2, <1>4, <1>5, <1>6, <1>7, <1>8, <1>9, <1>10, <1>11 DEF Sweep

LEMMA NextHandoffInv ==
  ASSUME OrphanConfirmSweeps >= 2, IInv, HandoffInv, [Next]_vars
  PROVE  HandoffInv'
<1>1. CASE Next
  BY <1>1, MountHandoff, NodeHandoff, SweeperHandoff DEF Next
<1>2. CASE UNCHANGED vars
  BY <1>2, FreshKept DEF vars, nodeVars, sweepVars, HandoffInv, UnmarkedStreak, StreakKnown, PendingMarked,
              LoopAt, AbortAt
<1> QED
  BY <1>1, <1>2

\* Two confirming sweeps are what it takes that sweep() never aborts a sidecar
\* mount whose fd the goroutine of sidecarMount still has to hand over, if nobody
\* had its minor before: the window before markSidecarHandoffPending is shorter
\* than the sweep interval.
THEOREM AbortsNoHandoff ==
  ASSUME OrphanConfirmSweeps >= 2
  PROVE  SafeSpec => SparesHandoff
<1>1. IInv /\ HandoffInv /\ [Next]_vars => HandoffInv'
  BY NextHandoffInv
<1>2. IInv /\ HandoffInv /\ [Next]_vars => [\A c \in Conns : Hit(c) /\ Fresh(c) => handoff[c] # "pending"]_vars
  BY DEF HandoffInv, AbortAt, Hit, At
<1> QED
  BY <1>1, <1>2, InitHandoffInv, Invariance, PTL DEF SafeSpec, SparesHandoff
=============================================================================
