----------------------------- MODULE FuseSweeper -----------------------------
(***************************************************************************)
(* The sweep for orphaned FUSE connections (pkg/driver/fuse_sweeper.go,    *)
(* fuse_sweeper_linux.go) against the node it looks at: connections that   *)
(* come, are handed to their sidecar (the goroutine at the end of          *)
(* sidecarMount), lose their daemon and go.                                *)
(*                                                                         *)
(* The sweeper names a connection by its device minor, which the kernel    *)
(* hands out again once a superblock is gone; the model gives every        *)
(* connection an identity of its own and says which minor it has.  Every   *)
(* read of the host is a step, so that the node may change between two.    *)
(***************************************************************************)
EXTENDS Integers, FiniteSets

CONSTANTS Conns,       \* FUSE connections, each lives once
          Minors,
          Mode,        \* Mode[c]: "pod" (mount pod), "sidecar" or "foreign"
          Owners,
          Owner,       \* what identifies the daemon of c: volume ID or pod UID
          NoMinor,
          OrphanConfirmSweeps,  \* orphanConfirmSweeps, 2 in the code
          MaxFaults    \* failing reads and writes, driver restarts

ASSUME ConnsAssumption == /\ Mode \in [Conns -> {"pod", "sidecar", "foreign"}]
                          /\ Owner \in [Conns -> Owners]
                          /\ NoMinor \notin Minors
ASSUME SweeperBounds == /\ OrphanConfirmSweeps \in Nat \ {0}
                        /\ MaxFaults \in Nat

VARIABLES
  place,    \* place[c]: "unborn", "mounted", "detached" (not in mountinfo any more), "gone"
  minor,    \* minor[c], kept after c is gone
  fd,       \* who holds the /dev/fuse fd: "none", "driver", "flight" (in the socket), "daemon"
  waiting,  \* waiting[c]: requests are queued or in progress
  errored,  \* errored[c]: the connection has been aborted
  handoff,  \* the goroutine of sidecarMount: "none", "mounted", "pending", "resolved", "done"
  pendingSidecarMinors,
  lagging,  \* connections in a short window when the last sweep ended
  faults,
  pc, conns, mounts, servers, todo, at,  \* sweep(): control point and locals
  orphanStreak, aborted,                 \* the maps of fuseSweeper
  listed,   \* history: the connections there were when listOurFuseMounts ran
  scanned   \* history: the connections that had a daemon when listFuseServers ran

nodeVars == <<place, minor, fd, waiting, errored, handoff, pendingSidecarMinors>>
sweepVars == <<pc, conns, mounts, servers, todo, at, orphanStreak, aborted, lagging, listed, scanned>>
vars == <<nodeVars, faults, sweepVars>>

Present(c) == place[c] \in {"mounted", "detached"}
Ours(c) == Mode[c] # "foreign"

\* The connections a write to minor m reaches (at most one).
At(m) == {c \in Conns : Present(c) /\ minor[c] = m}

\* The minors the kernel may give to a new connection, used ones too.
FreeMinors == {m \in Minors : At(m) = {}}

Fault == faults > 0 /\ faults' = faults - 1

\* sweep() returns, its locals are gone.
SweepReturns == /\ pc' = "idle" /\ at' = NoMinor
                /\ conns' = {} /\ mounts' = {} /\ servers' = {} /\ todo' = {}
                /\ listed' = {} /\ scanned' = {}

-----------------------------------------------------------------------------
(* The node (external), and the handoff of a sidecar mount. *)

\* A connection is mounted.  A mount pod's daemon or a foreign one holds the
\* fd; sidecarMount holds it itself, and FUSE_INIT already waits.
Mount(c) ==
  /\ place[c] = "unborn"
  /\ \E m \in FreeMinors : minor' = [minor EXCEPT ![c] = m]
  /\ place' = [place EXCEPT ![c] = "mounted"]
  /\ fd' = [fd EXCEPT ![c] = IF Mode[c] = "sidecar" THEN "driver" ELSE "daemon"]
  /\ waiting' = [waiting EXCEPT ![c] = Mode[c] = "sidecar"]
  /\ handoff' = [handoff EXCEPT ![c] = IF Mode[c] = "sidecar" THEN "mounted" ELSE "none"]
  /\ UNCHANGED <<errored, pendingSidecarMinors, faults, sweepVars>>

\* sidecarMount fails after the kernel mount: cleanup().  An unmount that fails
\* leaves the mount; the close of the fd aborts it.
MountFails(c) ==
  /\ handoff[c] = "mounted" /\ Fault
  /\ \/ place' = [place EXCEPT ![c] = "gone"] /\ UNCHANGED errored
     \/ errored' = [errored EXCEPT ![c] = TRUE] /\ UNCHANGED place
  /\ fd' = [fd EXCEPT ![c] = "none"]
  /\ handoff' = [handoff EXCEPT ![c] = "done"]
  /\ UNCHANGED <<minor, waiting, pendingSidecarMinors, sweepVars>>

\* markSidecarHandoffPending, and the goroutine starts (the minor is found: the
\* mount has just been made and mountinfo can be read).
MarkPending(c) ==
  /\ handoff[c] = "mounted"
  /\ handoff' = [handoff EXCEPT ![c] = "pending"]
  /\ pendingSidecarMinors' = pendingSidecarMinors \cup {minor[c]}
  /\ UNCHANGED <<place, minor, fd, waiting, errored, faults, sweepVars>>

\* The sidecar connects and the fds are sent, or the accept times out or the
\* send fails and they are closed; the last close aborts the connection.
HandoffResolves(c) ==
  /\ handoff[c] = "pending"
  /\ handoff' = [handoff EXCEPT ![c] = "resolved"]
  /\ \/ fd' = [fd EXCEPT ![c] = "flight"] /\ UNCHANGED errored
     \/ fd' = [fd EXCEPT ![c] = "none"] /\ errored' = [errored EXCEPT ![c] = TRUE]
  /\ UNCHANGED <<place, minor, waiting, pendingSidecarMinors, faults, sweepVars>>

\* The deferred clearSidecarHandoffPending, for the minor of the mount.
HandoffClears(c) ==
  /\ handoff[c] = "resolved"
  /\ handoff' = [handoff EXCEPT ![c] = "done"]
  /\ pendingSidecarMinors' = pendingSidecarMinors \ {minor[c]}
  /\ UNCHANGED <<place, minor, fd, waiting, errored, faults, sweepVars>>

\* The sidecar has received the fds.
SidecarReceives(c) ==
  /\ fd[c] = "flight"
  /\ fd' = [fd EXCEPT ![c] = "daemon"]
  /\ UNCHANGED <<place, minor, waiting, errored, handoff, pendingSidecarMinors, faults, sweepVars>>

\* The process that serves c dies.  The last close of the fd aborts the
\* connection; a thread stuck in the kernel keeps it open.
DaemonDies(c) ==
  /\ fd[c] \in {"flight", "daemon"}
  /\ fd' = [fd EXCEPT ![c] = "none"]
  /\ \/ errored' = [errored EXCEPT ![c] = TRUE]
     \/ UNCHANGED errored
  /\ UNCHANGED <<place, minor, waiting, handoff, pendingSidecarMinors, faults, sweepVars>>

\* A request is queued on c; requests are answered, or fail on an aborted
\* connection.
Request(c) ==
  /\ Present(c) /\ ~errored[c] /\ ~waiting[c]
  /\ waiting' = [waiting EXCEPT ![c] = TRUE]
  /\ UNCHANGED <<place, minor, fd, errored, handoff, pendingSidecarMinors, faults, sweepVars>>

Drain(c) ==
  /\ waiting[c] /\ (errored[c] \/ fd[c] = "daemon")
  /\ waiting' = [waiting EXCEPT ![c] = FALSE]
  /\ UNCHANGED <<place, minor, fd, errored, handoff, pendingSidecarMinors, faults, sweepVars>>

\* The mount is detached (unpublishSidecarVolume aborts it first); the
\* superblock goes when nothing waits.
Detach(c) ==
  /\ place[c] = "mounted" /\ handoff[c] # "mounted"
  /\ place' = [place EXCEPT ![c] = "detached"]
  /\ errored' = [errored EXCEPT ![c] = @ \/ Mode[c] = "sidecar"]
  /\ UNCHANGED <<minor, fd, waiting, handoff, pendingSidecarMinors, faults, sweepVars>>

Disappear(c) ==
  /\ place[c] = "detached" /\ ~waiting[c]
  /\ place' = [place EXCEPT ![c] = "gone"]
  /\ UNCHANGED <<minor, fd, waiting, errored, handoff, pendingSidecarMinors, faults, sweepVars>>

-----------------------------------------------------------------------------
(* sweep(). *)

\* Windows that last milliseconds, against an interval of a minute: between
\* the kernel mount and the mark, and between the send and the receipt.
InShortWindow(c) == handoff[c] \in {"mounted", "resolved"} \/ fd[c] = "flight"

\* Any error while listing: do nothing until the next tick.
ListFails ==
  /\ pc \in {"idle", "mounts", "servers"} /\ Fault
  /\ SweepReturns
  /\ UNCHANGED <<nodeVars, orphanStreak, aborted, lagging>>

\* listFuseConnections, at the next tick.
ListFuseConnections ==
  /\ pc = "idle"
  /\ \A c \in lagging : ~InShortWindow(c)
  /\ pc' = "mounts"
  /\ conns' = {m \in Minors : At(m) # {}}
  /\ lagging' = {}
  /\ UNCHANGED <<nodeVars, faults, mounts, servers, todo, at, orphanStreak, aborted, listed,
                 scanned>>

\* listOurFuseMounts
ListOurFuseMounts ==
  /\ pc = "mounts"
  /\ pc' = "servers"
  /\ mounts' = {c \in Conns : place[c] = "mounted" /\ Ours(c)}
  /\ listed' = {c \in Conns : Present(c)}
  /\ UNCHANGED <<nodeVars, faults, conns, servers, todo, at, orphanStreak, aborted, lagging, scanned>>

\* Mutant: an error while reading /proc ends the list instead of the sweep.
ListFuseServersFailOpen ==
  /\ pc = "servers"
  /\ pc' = "loop"
  /\ servers' \in {{Owner[c] : c \in {d \in Conns : fd[d] = "daemon"}}, {}}
  /\ scanned' = {c \in Conns : fd[c] = "daemon"}
  /\ todo' = conns
  /\ UNCHANGED <<nodeVars, faults, conns, mounts, at, orphanStreak, aborted, lagging, listed>>

\* listFuseServers: the identities of the processes with an open /dev/fuse.
ListFuseServers ==
  /\ pc = "servers"
  /\ pc' = "loop"
  /\ servers' = {Owner[c] : c \in {d \in Conns : fd[d] = "daemon"}}
  /\ scanned' = {c \in Conns : fd[c] = "daemon"}
  /\ todo' = conns
  /\ UNCHANGED <<nodeVars, faults, conns, mounts, at, orphanStreak, aborted, lagging, listed>>

Mountpoints(m) == {c \in mounts : minor[c] = m}

MountHasLiveDaemon(m) == \E c \in Mountpoints(m) : Owner[c] \in servers

\* Both map entries of a minor go.
Reset(m) == /\ orphanStreak' = [orphanStreak EXCEPT ![m] = 0]
            /\ aborted' = aborted \ {m}

\* The loop goes on to the next minor.
Continue(m) == pc' = "loop" /\ todo' = todo \ {m} /\ at' = NoMinor

\* A minor without a mount of ours is skipped; one that has vanished or has
\* nothing waiting is reset.
LookAtWaiting(m) ==
  /\ pc = "loop" /\ m \in todo
  /\ \/ Mountpoints(m) = {} /\ Continue(m) /\ UNCHANGED <<orphanStreak, aborted>>
     \/ /\ Mountpoints(m) # {} /\ \A c \in At(m) : ~waiting[c]
        /\ Reset(m) /\ Continue(m)
     \/ /\ Mountpoints(m) # {} /\ \E c \in At(m) : waiting[c]
        /\ pc' = "judge" /\ at' = m /\ UNCHANGED <<todo, orphanStreak, aborted>>
  /\ UNCHANGED <<nodeVars, faults, conns, mounts, servers, lagging, listed, scanned>>

\* The read of "waiting" fails for another reason.
WaitingFails(m) ==
  /\ pc = "loop" /\ m \in todo /\ Mountpoints(m) # {} /\ Fault
  /\ Reset(m) /\ Continue(m)
  /\ UNCHANGED <<nodeVars, conns, mounts, servers, lagging, listed, scanned>>

\* Mutant: the streak is set, not counted.
StreakRestarts(m) == 1

\* The streak after one more bad look; what lies beyond the threshold does
\* not matter.
Bumped(m) == IF orphanStreak[m] < OrphanConfirmSweeps THEN orphanStreak[m] + 1
             ELSE orphanStreak[m]

\* Mutant: a mount in the middle of its handoff is not exempt.
JudgeWithoutExemption ==
  /\ pc = "judge"
  /\ \/ /\ MountHasLiveDaemon(at) /\ Reset(at) /\ Continue(at)
     \/ /\ ~MountHasLiveDaemon(at)
        /\ orphanStreak' = [orphanStreak EXCEPT ![at] = Bumped(at)]
        /\ IF Bumped(at) < OrphanConfirmSweeps \/ at \in aborted
           THEN Continue(at) ELSE pc' = "abort" /\ UNCHANGED <<todo, at>>
        /\ UNCHANGED aborted
  /\ UNCHANGED <<nodeVars, faults, conns, mounts, servers, lagging, listed, scanned>>

\* Pending or served: reset.  Orphaned: count, and abort once confirmed.
Judge ==
  /\ pc = "judge"
  /\ \/ /\ at \in pendingSidecarMinors \/ MountHasLiveDaemon(at)
        /\ Reset(at) /\ Continue(at)
     \/ /\ at \notin pendingSidecarMinors /\ ~MountHasLiveDaemon(at)
        /\ orphanStreak' = [orphanStreak EXCEPT ![at] = Bumped(at)]
        /\ IF Bumped(at) < OrphanConfirmSweeps \/ at \in aborted
           THEN Continue(at) ELSE pc' = "abort" /\ UNCHANGED <<todo, at>>
        /\ UNCHANGED aborted
  /\ UNCHANGED <<nodeVars, faults, conns, mounts, servers, lagging, listed, scanned>>

\* abortFuseMinor writes to whatever has the minor now.
Abort ==
  /\ pc = "abort" /\ At(at) # {}
  /\ errored' = [c \in Conns |-> errored[c] \/ c \in At(at)]
  /\ aborted' = aborted \cup {at}
  /\ Continue(at)
  /\ UNCHANGED <<place, minor, fd, waiting, handoff, pendingSidecarMinors, faults,
                 conns, mounts, servers, orphanStreak, lagging, listed, scanned>>

\* The minor is gone or the write fails: tried again at the next sweep.
AbortFails ==
  /\ pc = "abort" /\ ((At(at) = {} /\ UNCHANGED faults) \/ Fault)
  /\ Continue(at)
  /\ UNCHANGED <<nodeVars, conns, mounts, servers, orphanStreak, aborted, lagging, listed, scanned>>

\* Mutant: the maps are not pruned together.
SweepEndsKeepingAborted ==
  /\ pc = "loop" /\ todo = {}
  /\ SweepReturns
  /\ orphanStreak' = [m \in Minors |-> IF m \in conns /\ Mountpoints(m) # {}
                                       THEN orphanStreak[m] ELSE 0]
  /\ lagging' = {c \in Conns : InShortWindow(c)}
  /\ UNCHANGED <<nodeVars, faults, aborted>>

\* Entries of minors this sweep has not seen are pruned.
SweepEnds ==
  LET seen == {m \in conns : Mountpoints(m) # {}}
  IN /\ pc = "loop" /\ todo = {}
     /\ SweepReturns
     /\ orphanStreak' = [m \in Minors |-> IF m \in seen THEN orphanStreak[m] ELSE 0]
     /\ aborted' = aborted \cap seen
     /\ lagging' = {c \in Conns : InShortWindow(c)}
     /\ UNCHANGED <<nodeVars, faults>>

Sweep == \/ ListFuseConnections \/ ListOurFuseMounts \/ ListFuseServers
         \/ \E m \in Minors : LookAtWaiting(m)
         \/ Judge \/ Abort \/ AbortFails \/ SweepEnds

\* The node plugin restarts: its maps, goroutines and fds are gone.
DriverRestarts ==
  /\ Fault
  /\ fd' = [c \in Conns |-> IF fd[c] = "driver" THEN "none" ELSE fd[c]]
  /\ errored' = [c \in Conns |-> errored[c] \/ fd[c] = "driver"]
  /\ handoff' = [c \in Conns |-> IF handoff[c] = "none" THEN "none" ELSE "done"]
  /\ pendingSidecarMinors' = {}
  /\ SweepReturns
  /\ orphanStreak' = [m \in Minors |-> 0]
  /\ aborted' = {} /\ lagging' = {}
  /\ UNCHANGED <<place, minor, waiting>>

-----------------------------------------------------------------------------

Init ==
  /\ place = [c \in Conns |-> "unborn"]
  /\ minor = [c \in Conns |-> NoMinor]
  /\ fd = [c \in Conns |-> "none"]
  /\ waiting = [c \in Conns |-> FALSE]
  /\ errored = [c \in Conns |-> FALSE]
  /\ handoff = [c \in Conns |-> "none"]
  /\ pendingSidecarMinors = {}
  /\ lagging = {}
  /\ faults = MaxFaults
  /\ pc = "idle" /\ conns = {} /\ mounts = {} /\ servers = {} /\ todo = {} /\ at = NoMinor
  /\ listed = {} /\ scanned = {}
  /\ orphanStreak = [m \in Minors |-> 0]
  /\ aborted = {}

Handoff(c) == MarkPending(c) \/ HandoffResolves(c) \/ HandoffClears(c) \/ SidecarReceives(c)

Next ==
  \/ \E c \in Conns : \/ Mount(c) \/ MountFails(c) \/ Handoff(c) \/ DaemonDies(c)
                      \/ Request(c) \/ Drain(c) \/ Detach(c) \/ Disappear(c)
  \/ Sweep \/ ListFails \/ \E m \in Minors : WaitingFails(m)
  \/ DriverRestarts

SafeSpec == Init /\ [][Next]_vars

\* The ticker fires and a sweep runs to its end; a handoff goroutine resolves
\* (its accept has a deadline) and the sidecar reads its socket; the kernel
\* fails the requests of an aborted connection.
Spec == /\ SafeSpec
        /\ WF_vars(Sweep)
        /\ \A c \in Conns : WF_vars(Handoff(c)) /\ WF_vars(errored[c] /\ Drain(c))

-----------------------------------------------------------------------------

TypeOK ==
  /\ place \in [Conns -> {"unborn", "mounted", "detached", "gone"}]
  /\ minor \in [Conns -> Minors \cup {NoMinor}]
  /\ fd \in [Conns -> {"none", "driver", "flight", "daemon"}]
  /\ waiting \in [Conns -> BOOLEAN]
  /\ errored \in [Conns -> BOOLEAN]
  /\ handoff \in [Conns -> {"none", "mounted", "pending", "resolved", "done"}]
  /\ pendingSidecarMinors \subseteq Minors
  /\ lagging \subseteq Conns
  /\ faults \in 0..MaxFaults
  /\ pc \in {"idle", "mounts", "servers", "loop", "judge", "abort"}
  /\ conns \subseteq Minors /\ todo \subseteq Minors
  /\ mounts \subseteq Conns /\ listed \subseteq Conns /\ scanned \subseteq Conns /\ servers \subseteq Owners
  /\ at \in Minors \cup {NoMinor}
  /\ orphanStreak \in [Minors -> 0..OrphanConfirmSweeps]
  /\ aborted \subseteq Minors

\* The connections the sweep aborts in this step.
Hit(c) == pc = "abort" /\ pc' = "loop" /\ c \in At(at) /\ aborted' # aborted

\* A sweep aborts only connections of this driver that no process was serving
\* when it listed the processes, whatever happens between its reads, unless what
\* it had looked at is gone and the kernel has since given the minor to another
\* connection: that one the abort hits, be it foreign or served.
SparesServed ==
  [][\A c \in Conns : Hit(c) =>
       \/ Ours(c) /\ c \notin scanned
       \/ c \notin listed /\ \E d \in mounts : minor[d] = minor[c] /\ place[d] = "gone"]_vars

\* No other connection has, or had, the minor of c.
Fresh(c) == \A d \in Conns \ {c} : minor[d] # minor[c]

\* A sweep never aborts a mount in the middle of its handoff, unless a connection
\* before it had its minor, whose streak or whose late clear of the mark it inherits.
SparesHandoff == [][\A c \in Conns : Hit(c) /\ Fresh(c) => handoff[c] # "pending"]_vars

\* The two maps agree: a minor is marked aborted only while its streak is
\* confirmed, so that dropping out of the streak makes it abortable again.
AbortedIsConfirmed == \A m \in aborted : orphanStreak[m] = OrphanConfirmSweeps

\* Requests wait on a mount, its daemon is gone and no process of its
\* volume or pod serves another.
Orphaned(c) ==
  /\ place[c] = "mounted" /\ waiting[c] /\ ~errored[c]
  /\ fd[c] = "none" /\ handoff[c] \in {"none", "done"}
  /\ \A d \in Conns : Owner[d] = Owner[c] => fd[d] # "daemon"

\* An orphaned connection of ours does not stay one, unless its minor is marked
\* aborted already, for a connection before it.
OrphanAborted ==
  \A c \in {d \in Conns : Ours(d)} : Orphaned(c) /\ minor[c] \notin aborted ~> ~Orphaned(c)
=============================================================================
