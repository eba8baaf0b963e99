------------------------ MODULE SidecarVolumeProofs ------------------------
(***************************************************************************)
(* For every set of pods and volumes, shared or not, and any number of     *)
(* restarts and deaths: sidecars get fds of their own volume only, an      *)
(* unpublish waits only for a daemon nobody has tracked, and a mount loses *)
(* its daemon silently only with a process or by a second failure.         *)
(***************************************************************************)
EXTENDS SidecarVolume, TLAPS

Publishing == {"files", "unlink", "symlink", "unsocket", "listen", "cleanup"}
Daemon == {"serving", "wedged"}

\* A mount is a connection of its own target; while sidecarMount is at work
\* nobody but the driver has the fd.
MountOwned == \A t \in Targets : mount[t] # None => Owner(mount[t]) = t
PublishingHolds ==
  \A t \in Targets : call[t] \in Publishing =>
    /\ mount[t] \in Conns
    /\ conn[mount[t]].fd = "driver" /\ conn[mount[t]].handoff = "none"

\* An fd that is open belongs to a mount, a sidecar has one exactly while its
\* daemon runs, and none has two.
FdMounted ==
  \A c \in Conns : conn[c].fd \in {"driver"} \cup Targets => mount[Owner(c)] = c
FdHasDaemon == \A c \in Conns : conn[c].fd \in Targets => sidecar[conn[c].fd] \in Daemon
DaemonHasFd == \A d \in Targets : sidecar[d] \in Daemon => \E c \in Conns : conn[c].fd = d
OneFd == \A c, e \in Conns : conn[c].fd \in Targets /\ conn[c].fd = conn[e].fd => c = e

\* A goroutine that accepts still has the fd, if the connection is open; one
\* that failed has closed it.
HandoffFd ==
  \A c \in Conns : /\ conn[c].handoff = "accept" => conn[c].fd \in {"driver", "closed"}
                   /\ conn[c].handoff = "failed" => conn[c].fd = "closed"

\* A connection has its minor from the mount on.
FdHasMinor == \A c \in Conns : conn[c].fd # "none" => conn[c].minor # None

\* Symlinks and sockets stay within a volume ID; a socket is in a directory
\* that exists, and so is the daemon that came through it.
SymlinkOwned == \A v \in Volumes : symlink[v] # None => volumeID[symlink[v]] = v
SocketOwned ==
  \A d \in Targets : socket[d] \in Conns => volumeID[Owner(socket[d])] = volumeID[d]
DirStays ==
  \A d \in Targets : socket[d] # None \/ sidecar[d] \in Daemon => "dir" \in files[d]

\* A publish that found the mount has tracked it, and it stays tracked while it
\* is mounted, unless it is what a cleanup could not unmount; the unpublish
\* looks at mounts that are not tracked.
SeenTracked ==
  \A t \in Targets : t \in seen /\ mount[t] # None /\ call[t] \notin Publishing
                       => t \in sidecarVolumes \/ conn[mount[t]].fd = "closed"
StatUntracked == \A t \in Targets : call[t] = "stat" => t \notin sidecarVolumes

ConnInv == /\ MountOwned /\ PublishingHolds
           /\ FdMounted /\ FdHasDaemon /\ DaemonHasFd /\ OneFd
           /\ HandoffFd /\ FdHasMinor /\ FdWithinVolume
DiskInv == SymlinkOwned /\ SocketOwned /\ DirStays
TrackInv == SeenTracked /\ StatUntracked

IInv == TypeOK /\ ConnInv /\ DiskInv /\ TrackInv

-----------------------------------------------------------------------------
(* The operators of SidecarVolume. *)

FileNames == {"dir", "error", "handoff-error", "token"}

\* A connection belongs to a target, and the words for who holds an fd are none.
LEMMA ConnFacts ==
  /\ \A c \in Conns : Owner(c) \in Targets
  /\ None \notin Conns /\ None \notin Targets /\ Stale \notin Conns /\ None # Stale
  /\ "none" \notin Targets /\ "driver" \notin Targets /\ "closed" \notin Targets
  /\ Unused \in ConnRecs
  /\ Unused.fd = "none" /\ Unused.minor = None /\ Unused.handoff = "none"
<1>1. \A c \in Conns : Owner(c) \in Targets
  BY DEF Conns, Owner
<1>2. Unused \in ConnRecs
  BY DEF Unused, ConnRecs
<1> QED
  BY <1>1, <1>2, SidecarAssumption DEF Unused

\* The contents of volumeDir: nothing, or some of the names with the directory.
LEMMA FileSetsIs ==
  \A x : x \in FileSets <=> x \subseteq FileNames /\ (x = {} \/ "dir" \in x)
<1> TAKE x
<1>1. ASSUME x \subseteq FileNames, "dir" \in x
      PROVE  x \in FileSets
  <2>1. x = {"dir"} \cup (x \ {"dir"}) /\ x \ {"dir"} \in SUBSET {"error", "handoff-error", "token"}
    BY <1>1 DEF FileNames
  <2> QED
    BY <2>1 DEF FileSets
<1>2. ASSUME x \in FileSets
      PROVE  x \subseteq FileNames /\ (x = {} \/ "dir" \in x)
  BY <1>2 DEF FileSets, FileNames
<1>3. {} \in FileSets
  BY DEF FileSets
<1> QED
  BY <1>1, <1>2, <1>3

\* What is left of a connection when those in D are closed and the mounts are m.
LEMMA SettledIs ==
  ASSUME NEW cs \in [Conns -> ConnRecs], NEW D, NEW m, NEW c \in Conns,
         NEW r, r = Settled(Closed(cs, D), m)[c]
  PROVE  /\ r \in ConnRecs
         /\ r.handoff = cs[c].handoff
         /\ r.minor \in {cs[c].minor, None}
         /\ r.fd \in {cs[c].fd, "closed", "none"}
         /\ r.fd \in {"driver"} \cup Targets => c \notin D
         /\ c \notin D /\ cs[c].fd \in {"driver"} \cup Targets => r = cs[c]
         /\ m[Owner(c)] = c => /\ r.minor = cs[c].minor
                               /\ c \notin D => r = cs[c]
                               /\ c \in D /\ cs[c].fd # "none" => r.fd = "closed"
         /\ cs[c].handoff # "none" => r.minor = cs[c].minor
         /\ cs[c].handoff # "none" /\ cs[c].fd # "none" => r.fd # "none"
         /\ r.fd # "none" => cs[c].fd # "none" /\ r.minor = cs[c].minor
<1>0. cs[c] \in ConnRecs
  OBVIOUS
<1> DEFINE k == Closed(cs, D)[c]
<1>1. k = IF c \in D /\ cs[c].fd # "none" THEN [cs[c] EXCEPT !.fd = "closed"] ELSE cs[c]
  BY DEF Closed
<1>2. k \in ConnRecs /\ k.handoff = cs[c].handoff /\ k.minor = cs[c].minor
      /\ k.fd = IF c \in D /\ cs[c].fd # "none" THEN "closed" ELSE cs[c].fd
  BY <1>0, <1>1 DEF ConnRecs
<1>3. r = IF m[Owner(c)] # c /\ k.handoff = "none" /\ k.fd \in {"none", "closed"} THEN Unused ELSE k
  BY DEF Settled
<1>4. c \notin D => k = cs[c]
  BY <1>1
<1> HIDE DEF k
<1> QED
  BY <1>0, <1>2, <1>3, <1>4, ConnFacts

\* Settled and Closed give a value to every connection.
LEMMA SettledType ==
  ASSUME NEW cs \in [Conns -> ConnRecs], NEW D, NEW m
  PROVE  Settled(Closed(cs, D), m) \in [Conns -> ConnRecs]
<1>1. \A c \in Conns : Settled(Closed(cs, D), m)[c] \in ConnRecs
  BY SettledIs
<1> QED
  BY <1>1 DEF Settled

-----------------------------------------------------------------------------
(* The inductive invariant, action by action. *)

LEMMA InitIInv == Init => IInv
<1> SUFFICES ASSUME Init PROVE IInv
  OBVIOUS
<1>0. {} \in FileSets
  BY FileSetsIs
<1>1. TypeOK
  BY <1>0, ConnFacts, SidecarAssumption DEF Init, TypeOK
<1>2. ConnInv
  BY ConnFacts DEF Init, ConnInv, MountOwned, PublishingHolds, Publishing, FdMounted, FdHasDaemon,
                   DaemonHasFd, Daemon, OneFd, HandoffFd, FdHasMinor, FdWithinVolume
<1>3. DiskInv /\ TrackInv
  BY ConnFacts DEF Init, DiskInv, SymlinkOwned, SocketOwned, DirStays, Daemon,
                   TrackInv, SeenTracked, StatUntracked
<1> QED
  BY <1>1, <1>2, <1>3 DEF IInv

\* Steps that leave connections, mounts and daemons as they are, and calls in
\* sidecarMount where they are or beyond.
LEMMA ConnUnchanged ==
  ASSUME IInv, UNCHANGED <<volumeID, mount, conn, sidecar>>,
         \A t \in Targets : call'[t] \in Publishing => call[t] \in Publishing
  PROVE  ConnInv'
  BY DEF IInv, ConnInv, MountOwned, PublishingHolds, FdMounted, FdHasDaemon, DaemonHasFd, OneFd,
         HandoffFd, FdHasMinor, FdWithinVolume

\* Steps that leave the disk and the sidecars as they are.
LEMMA DiskUnchanged ==
  ASSUME IInv, UNCHANGED <<volumeID, sidecar, files, socket, symlink>>
  PROVE  DiskInv'
  BY DEF IInv, DiskInv, SymlinkOwned, SocketOwned, DirStays

\* A mount whose connection is closed stays so until it is gone.
StaysClosed ==
  \A t \in Targets : mount'[t] # None =>
    /\ mount'[t] = mount[t]
    /\ conn[mount[t]].fd = "closed" => conn'[mount[t]].fd = "closed"

\* Steps that leave the driver's maps and the calls as they are and mount nothing.
LEMMA TrackUnchanged ==
  ASSUME IInv, UNCHANGED <<call, sidecarVolumes, seen>>, StaysClosed
  PROVE  TrackInv'
  BY DEF IInv, TrackInv, SeenTracked, StatUntracked, StaysClosed

\* Closing connections opens none.
LEMMA SettledStaysClosed ==
  ASSUME IInv, NEW D, conn' = Settled(Closed(conn, D), mount'),
         \A t \in Targets : mount'[t] # None => mount'[t] = mount[t]
  PROVE  StaysClosed
<1> SUFFICES ASSUME NEW t \in Targets, mount'[t] # None, conn[mount[t]].fd = "closed"
             PROVE  conn'[mount[t]].fd = "closed"
  BY DEF StaysClosed
<1>1. mount[t] \in Conns /\ Owner(mount[t]) = t /\ mount'[t] = mount[t] /\ conn \in [Conns -> ConnRecs]
  BY DEF IInv, TypeOK, ConnInv, MountOwned
<1> QED
  BY <1>1, SettledIs, ConnFacts

LEMMA WriteFilesStep ==
  ASSUME IInv, NEW t \in Targets, WriteFiles(t)
  PROVE  IInv'
<1> USE DEF WriteFiles
<1>0. call \in [Targets -> {"idle", "files", "unlink", "symlink", "unsocket", "listen", "cleanup", "stat"}]
  BY DEF IInv, TypeOK
<1>1. TypeOK'
  <2>1. files'[t] \in FileSets
    BY FileSetsIs DEF IInv, TypeOK, ClearedStatus, FileNames
  <2> QED
    BY <2>1 DEF IInv, TypeOK
<1>2. ConnInv'
  BY <1>0, ConnUnchanged DEF Publishing
<1>3. DiskInv'
  BY DEF IInv, TypeOK, DiskInv, SymlinkOwned, SocketOwned, DirStays, ClearedStatus
<1>4. TrackInv'
  BY <1>0 DEF IInv, TrackInv, SeenTracked, StatUntracked, Publishing
<1> QED
  BY <1>1, <1>2, <1>3, <1>4 DEF IInv

LEMMA RemoveSymlinkStep ==
  ASSUME IInv, NEW t \in Targets, RemoveSymlink(t)
  PROVE  IInv'
<1> USE DEF RemoveSymlink
<1>0. call \in [Targets -> {"idle", "files", "unlink", "symlink", "unsocket", "listen", "cleanup", "stat"}]
  BY DEF IInv, TypeOK
<1>1. TypeOK'
  BY DEF IInv, TypeOK
<1>2. ConnInv'
  BY <1>0, ConnUnchanged DEF Publishing
<1>3. DiskInv'
  BY DEF IInv, TypeOK, DiskInv, SymlinkOwned, SocketOwned, DirStays
<1>4. TrackInv'
  BY <1>0 DEF IInv, TrackInv, SeenTracked, StatUntracked, Publishing
<1> QED
  BY <1>1, <1>2, <1>3, <1>4 DEF IInv

LEMMA RemoveSocketStep ==
  ASSUME IInv, NEW t \in Targets, RemoveSocket(t)
  PROVE  IInv'
<1> USE DEF RemoveSocket
<1>0. call \in [Targets -> {"idle", "files", "unlink", "symlink", "unsocket", "listen", "cleanup", "stat"}]
  BY DEF IInv, TypeOK
<1>1. TypeOK'
  BY DEF IInv, TypeOK
<1>2. ConnInv'
  BY <1>0, ConnUnchanged DEF Publishing
<1>3. DiskInv'
  BY ConnFacts DEF IInv, TypeOK, DiskInv, SymlinkOwned, SocketOwned, DirStays
<1>4. TrackInv'
  BY <1>0 DEF IInv, TrackInv, SeenTracked, StatUntracked, Publishing
<1> QED
  BY <1>1, <1>2, <1>3, <1>4 DEF IInv

\* Two targets have different mounts.
LEMMA MountsDiffer ==
  ASSUME IInv
  PROVE  \A t, u \in Targets : mount[t] # None /\ mount[t] = mount[u] => t = u
  BY DEF IInv, ConnInv, MountOwned

\* sidecarMount fails.
LEMMA GiveUpStep ==
  ASSUME IInv, NEW t \in Targets, call[t] \in Publishing, GiveUp(t),
         UNCHANGED <<volumeID, kubelet, sidecar, emptyDir, files, socket, symlink, tokenFile,
                     pendingSidecarMinors, sidecarVolumes, seen>>,
         faults' \in 0..MaxFaults
  PROVE  IInv'
<1> USE DEF GiveUp
<1>0. \A u \in Targets : call'[u] = IF u = t THEN "cleanup" ELSE call[u]
  BY DEF IInv, TypeOK
<1>1. TypeOK'
  BY DEF IInv, TypeOK
<1>2. ConnInv'
  BY <1>0, ConnUnchanged
<1>3. DiskInv'
  BY DiskUnchanged
<1>4. TrackInv'
  BY <1>0 DEF IInv, TrackInv, SeenTracked, StatUntracked, Publishing
<1> QED
  BY <1>1, <1>2, <1>3, <1>4 DEF IInv

\* It undoes its mount.
LEMMA CleanupStep ==
  ASSUME IInv, NEW t \in Targets, Cleanup(t)
  PROVE  IInv'
<1> USE DEF Cleanup, Without, diskVars
<1>0. /\ mount[t] \in Conns /\ conn[mount[t]].fd = "driver"
      /\ \A c \in Conns : conn'[c] = IF c = mount[t] THEN Unused ELSE conn[c]
      /\ \A u \in Targets : mount'[u] = IF u = t THEN None ELSE mount[u]
      /\ \A u \in Targets : call'[u] = IF u = t THEN "idle" ELSE call[u]
  BY DEF IInv, TypeOK, ConnInv, PublishingHolds, Publishing
<1>1. TypeOK'
  BY ConnFacts DEF IInv, TypeOK
<1>2. ConnInv'
  <2>1. MountOwned'
    BY <1>0 DEF IInv, ConnInv, MountOwned
  <2>2. PublishingHolds'
    BY <1>0, MountsDiffer, ConnFacts DEF IInv, ConnInv, PublishingHolds, Publishing
  <2>3. FdMounted'
    BY <1>0, ConnFacts DEF IInv, ConnInv, FdMounted
  <2>4. FdHasDaemon' /\ OneFd' /\ HandoffFd' /\ FdHasMinor' /\ FdWithinVolume'
    BY <1>0, ConnFacts DEF IInv, ConnInv, FdHasDaemon, OneFd, HandoffFd, FdHasMinor, FdWithinVolume
  <2>5. DaemonHasFd'
    BY <1>0, ConnFacts DEF IInv, ConnInv, DaemonHasFd
  <2> QED
    BY <2>1, <2>2, <2>3, <2>4, <2>5 DEF ConnInv
<1>3. DiskInv'
  BY DiskUnchanged
<1>4. TrackInv'
  BY <1>0 DEF IInv, TrackInv, SeenTracked, StatUntracked, Publishing
<1> QED
  BY <1>1, <1>2, <1>3, <1>4 DEF IInv

\* Or fails to, and has only closed the fd.
LEMMA CleanupFailsStep ==
  ASSUME IInv, NEW t \in Targets, CleanupFails(t)
  PROVE  IInv'
<1> USE DEF CleanupFails, diskVars
<1> DEFINE c == mount[t]
           new == [conn[c] EXCEPT !.fd = "closed"]
<1>0. c \in Conns /\ Owner(c) = t /\ conn[c] \in ConnRecs
      /\ conn[c].fd = "driver" /\ conn[c].handoff = "none"
  BY ConnFacts DEF IInv, TypeOK, ConnInv, PublishingHolds, Publishing, MountOwned
<1>1. /\ new \in ConnRecs /\ new.fd = "closed" /\ new.handoff = "none" /\ new.minor = conn[c].minor
      /\ conn' = [conn EXCEPT ![c] = new]
  BY <1>0 DEF IInv, TypeOK, ConnRecs
<1>m. mount[t] = c /\ UNCHANGED mount
  OBVIOUS
<1> HIDE DEF new, c
<1>2. /\ \A e \in Conns : conn'[e] = IF e = c THEN new ELSE conn[e]
      /\ \A u \in Targets : call'[u] = IF u = t THEN "idle" ELSE call[u]
  BY <1>0, <1>1 DEF IInv, TypeOK
<1>3. TypeOK'
  <2>1. faults' \in 0..MaxFaults
    BY SidecarAssumption DEF Fault, IInv, TypeOK
  <2> QED
    BY <1>1, <2>1 DEF IInv, TypeOK
<1>4. ConnInv'
  <2>1. MountOwned' /\ FdMounted'
    BY <1>1, <1>2, <1>m, ConnFacts DEF IInv, ConnInv, MountOwned, FdMounted
  <2>2. PublishingHolds'
    BY <1>m, <1>2, MountsDiffer, ConnFacts DEF IInv, ConnInv, PublishingHolds, Publishing
  <2>3. FdHasDaemon' /\ OneFd' /\ HandoffFd' /\ FdHasMinor' /\ FdWithinVolume'
    BY <1>0, <1>1, <1>2, ConnFacts
       DEF IInv, ConnInv, FdHasDaemon, OneFd, HandoffFd, FdHasMinor, FdWithinVolume
  <2>4. DaemonHasFd'
    <3> SUFFICES ASSUME NEW d \in Targets, sidecar[d] \in Daemon
                 PROVE  \E e \in Conns : conn'[e].fd = d
      BY DEF DaemonHasFd
    <3>1. PICK e \in Conns : conn[e].fd = d
      BY DEF IInv, ConnInv, DaemonHasFd
    <3>2. e # c
      BY <1>0, <3>1, ConnFacts
    <3> QED
      BY <1>2, <3>1, <3>2
  <2> QED
    BY <2>1, <2>2, <2>3, <2>4 DEF ConnInv
<1>5. DiskInv'
  BY DiskUnchanged
<1>6. TrackInv'
  <2>1. \A u \in Targets : u # t /\ mount[u] # None => conn'[mount[u]] = conn[mount[u]]
    BY <1>0, <1>m, <1>2, MountsDiffer DEF IInv, TypeOK
  <2> QED
    BY <1>0, <1>1, <1>2, <1>m, <2>1 DEF IInv, TrackInv, SeenTracked, StatUntracked
<1> QED
  BY <1>3, <1>4, <1>5, <1>6 DEF IInv

LEMMA PublishMountStep ==
  ASSUME IInv, NEW t \in Targets, PublishMount(t)
  PROVE  IInv'
<1> USE DEF PublishMount
<1>1. CASE UNCHANGED <<call, mount, conn>>
  <2>1. TypeOK'
    BY <1>1 DEF IInv, TypeOK
  <2> QED
    BY <1>1, <2>1, ConnUnchanged, DiskUnchanged, TrackUnchanged DEF IInv, StaysClosed
<1>2. CASE emptyDir[t] /\ call' # call
  <2> DEFINE c == CHOOSE c \in FreeConns(t) : TRUE
             m == CHOOSE m \in FreeMinors : TRUE
             new == [Unused EXCEPT !.fd = "driver", !.minor = m]
  <2>0. /\ FreeMinors # {} /\ FreeConns(t) # {}
        /\ mount' = [mount EXCEPT ![t] = c] /\ conn' = [conn EXCEPT ![c] = new]
        /\ call' = [call EXCEPT ![t] = "files"]
        /\ mount[t] = None /\ call[t] = "idle"
    BY <1>2 DEF Up, Mounted
  <2>1. c \in {t} \X Slots /\ conn[c] = Unused
    BY <2>0 DEF FreeConns
  <2>2. c \in Conns /\ Owner(c) = t
    BY <2>1 DEF Conns, Owner
  <2>3. m \in Minors
    BY <2>0 DEF FreeMinors
  <2>4. new \in ConnRecs /\ new.fd = "driver" /\ new.minor = m /\ new.handoff = "none"
        /\ new.minor # None
    BY <2>3, SidecarAssumption DEF Unused, ConnRecs
  <2> HIDE DEF c, m, new
  <2>5. /\ \A e \in Conns : conn'[e] = IF e = c THEN new ELSE conn[e]
        /\ \A u \in Targets : mount'[u] = IF u = t THEN c ELSE mount[u]
        /\ \A u \in Targets : call'[u] = IF u = t THEN "files" ELSE call[u]
    BY <2>0, <2>2 DEF IInv, TypeOK
  <2>6. TypeOK'
    BY <2>0, <2>2, <2>4 DEF IInv, TypeOK
  <2>7. ConnInv'
    <3>1. MountOwned'
      BY <2>2, <2>5 DEF IInv, ConnInv, MountOwned
    <3>2. PublishingHolds'
      BY <2>1, <2>2, <2>4, <2>5, ConnFacts DEF IInv, ConnInv, PublishingHolds, MountOwned
    <3>3. FdMounted'
      BY <2>0, <2>2, <2>5, ConnFacts DEF IInv, ConnInv, FdMounted
    <3>4. FdHasDaemon' /\ OneFd' /\ HandoffFd' /\ FdHasMinor' /\ FdWithinVolume'
      BY <2>4, <2>5, ConnFacts DEF IInv, ConnInv, FdHasDaemon, OneFd, HandoffFd, FdHasMinor, FdWithinVolume
    <3>5. DaemonHasFd'
      BY <2>1, <2>5, ConnFacts DEF IInv, ConnInv, DaemonHasFd
    <3> QED
      BY <3>1, <3>2, <3>3, <3>4, <3>5 DEF ConnInv
  <2>8. DiskInv'
    BY DiskUnchanged
  <2>9. TrackInv'
    <3>1. \A u \in Targets : u # t /\ mount[u] # None => conn'[mount[u]] = conn[mount[u]]
      BY <2>2, <2>5 DEF IInv, TypeOK, ConnInv, MountOwned
    <3> QED
      BY <2>5, <3>1 DEF IInv, TrackInv, SeenTracked, StatUntracked, Publishing
  <2> QED
    BY <2>6, <2>7, <2>8, <2>9 DEF IInv
<1>3. CASE emptyDir[t] /\ call' = call
  <2>1. call' = [call EXCEPT ![t] = "files"] /\ call[t] = "idle"
    BY <1>3 DEF Up
  <2> QED
    BY <1>3, <2>1 DEF IInv, TypeOK
<1> QED
  BY <1>1, <1>2, <1>3

LEMMA SymlinkStep ==
  ASSUME IInv, NEW t \in Targets, Symlink(t)
  PROVE  IInv'
<1> USE DEF Symlink
<1>0. call \in [Targets -> {"idle", "files", "unlink", "symlink", "unsocket", "listen", "cleanup", "stat"}]
  BY DEF IInv, TypeOK
<1>1. CASE GiveUp(t) /\ UNCHANGED symlink
  BY <1>1, GiveUpStep DEF Publishing, IInv, TypeOK
<1>2. CASE /\ symlink' = [symlink EXCEPT ![symlinkPath(t)] = t]
           /\ call' = [call EXCEPT ![t] = "unsocket"]
           /\ UNCHANGED <<mount, conn>>
  <2>1. TypeOK'
    BY <1>2 DEF IInv, TypeOK
  <2>2. ConnInv'
    BY <1>0, <1>2, ConnUnchanged DEF Publishing
  <2>3. DiskInv'
    BY <1>2 DEF IInv, TypeOK, DiskInv, SymlinkOwned, SocketOwned, DirStays, symlinkPath
  <2>4. TrackInv'
    BY <1>0, <1>2 DEF IInv, TrackInv, SeenTracked, StatUntracked, Publishing
  <2> QED
    BY <2>1, <2>2, <2>3, <2>4 DEF IInv
<1> QED
  BY <1>1, <1>2

\* The directory the symlink of a volume leads to is one of that volume.
LEMMA ResolvedOwned ==
  ASSUME IInv, NEW t \in Targets, Resolved(t) # None
  PROVE  /\ Resolved(t) \in Targets /\ "dir" \in files[Resolved(t)]
         /\ volumeID[Resolved(t)] = volumeID[t]
  BY DEF Resolved, symlinkPath, IInv, TypeOK, DiskInv, SymlinkOwned

LEMMA ListenStep ==
  ASSUME IInv, NEW t \in Targets, Listen(t)
  PROVE  IInv'
<1> DEFINE d == Resolved(t)
           c == mount[t]
<1> USE DEF Listen
<1>0. call \in [Targets -> {"idle", "files", "unlink", "symlink", "unsocket", "listen", "cleanup", "stat"}]
  BY DEF IInv, TypeOK
<1>1. CASE GiveUp(t) /\ UNCHANGED <<socket, pendingSidecarMinors, sidecarVolumes, seen>>
  BY <1>1, GiveUpStep DEF Publishing, IInv, TypeOK
<1>2. CASE /\ d # None /\ socket[d] = None
           /\ socket' = [socket EXCEPT ![d] = c]
           /\ pendingSidecarMinors' = pendingSidecarMinors \cup {conn[c].minor}
           /\ conn' = [conn EXCEPT ![c].handoff = "accept"]
           /\ sidecarVolumes' = sidecarVolumes \cup {t}
           /\ seen' = seen \cup {t}
           /\ call' = [call EXCEPT ![t] = "idle"]
           /\ UNCHANGED mount
  <2>1. d \in Targets /\ "dir" \in files[d] /\ volumeID[d] = volumeID[t]
    BY <1>2, ResolvedOwned
  <2>2. c \in Conns /\ Owner(c) = t /\ conn[c].fd = "driver" /\ conn[c] \in ConnRecs
    BY ConnFacts DEF IInv, TypeOK, ConnInv, PublishingHolds, Publishing, MountOwned
  <2>3. conn[c].minor \in Minors
    BY <2>2 DEF ConnRecs, IInv, ConnInv, FdHasMinor
  <2> DEFINE new == [conn[c] EXCEPT !.handoff = "accept"]
  <2>4. /\ new \in ConnRecs /\ new.fd = "driver" /\ new.handoff = "accept"
        /\ new.minor = conn[c].minor
    BY <2>2 DEF ConnRecs
  <2>5. conn' = [conn EXCEPT ![c] = new]
    BY <1>2, <2>2 DEF IInv, TypeOK
  <2> HIDE DEF c, d, new
  <2>6. /\ \A e \in Conns : conn'[e] = IF e = c THEN new ELSE conn[e]
        /\ \A u \in Targets : call'[u] = IF u = t THEN "idle" ELSE call[u]
        /\ \A u \in Targets : socket'[u] = IF u = d THEN c ELSE socket[u]
    BY <1>2, <2>2, <2>5 DEF IInv, TypeOK
  <2>7. TypeOK'
    BY <1>2, <2>1, <2>2, <2>3, <2>4, <2>5 DEF IInv, TypeOK
  <2>8. ConnInv'
    <3>1. MountOwned' /\ FdMounted'
      BY <1>2, <2>2, <2>4, <2>6 DEF IInv, ConnInv, MountOwned, FdMounted
    <3>2. PublishingHolds'
      BY <1>2, <2>2, <2>6, MountsDiffer, ConnFacts
         DEF IInv, ConnInv, PublishingHolds, Publishing, c
    <3>3. FdHasDaemon' /\ OneFd' /\ HandoffFd' /\ FdHasMinor' /\ FdWithinVolume'
      BY <2>2, <2>4, <2>6, ConnFacts
         DEF IInv, ConnInv, FdHasDaemon, OneFd, HandoffFd, FdHasMinor, FdWithinVolume
    <3>4. DaemonHasFd'
      BY <2>2, <2>6, ConnFacts DEF IInv, ConnInv, DaemonHasFd
    <3> QED
      BY <3>1, <3>2, <3>3, <3>4 DEF ConnInv
  <2>9. DiskInv'
    BY <2>1, <2>2, <2>6 DEF IInv, DiskInv, SymlinkOwned, SocketOwned, DirStays
  <2>10. TrackInv'
    BY <1>2, <2>6 DEF IInv, TrackInv, SeenTracked, StatUntracked
  <2> QED
    BY <2>7, <2>8, <2>9, <2>10 DEF IInv
<1> QED
  BY <1>1, <1>2

LEMMA PublishFailsStep ==
  ASSUME IInv, NEW t \in Targets, PublishFails(t)
  PROVE  IInv'
<1>1. faults' \in 0..MaxFaults
  BY SidecarAssumption DEF PublishFails, Fault, IInv, TypeOK
<1> QED
  BY <1>1, GiveUpStep DEF PublishFails, Publishing, diskVars

\* A publish that finds the volume mounted.
LEMMA RepublishStep ==
  ASSUME IInv, NEW t \in Targets, Republish(t)
  PROVE  IInv'
<1> USE DEF Republish
<1>0. UNCHANGED files \/ files' = RefreshedToken(t)
  OBVIOUS
<1>1. \A u \in Targets : files'[u] \in FileSets /\ ("dir" \in files[u] => "dir" \in files'[u])
  BY <1>0, FileSetsIs DEF IInv, TypeOK, RefreshedToken, FileNames
<1>2. TypeOK'
  BY <1>0, <1>1 DEF IInv, TypeOK, RefreshedToken
<1>3. ConnInv'
  BY ConnUnchanged
<1>4. DiskInv'
  BY <1>1 DEF IInv, DiskInv, SymlinkOwned, SocketOwned, DirStays
<1>5. TrackInv'
  BY DEF IInv, TrackInv, SeenTracked, StatUntracked, Up
<1> QED
  BY <1>2, <1>3, <1>4, <1>5 DEF IInv

\* abortFuseConnection, with or without the unmount: what it leaves of the
\* connections, the mounts and the daemons.
LEMMA AbortStep ==
  ASSUME IInv, NEW t \in Targets, NEW m \in {mount, Without(t)}, Abort(t, m),
         call[t] \notin Publishing, UNCHANGED volumeID,
         \A u \in Targets : call'[u] \in Publishing => call[u] \in Publishing
  PROVE  /\ mount' \in [Targets -> Conns \cup {None}]
         /\ conn' \in [Conns -> ConnRecs]
         /\ sidecar' \in [Targets -> {"off", "waiting", "serving", "wedged"}]
         /\ \A d \in Targets : sidecar'[d] \in Daemon => sidecar[d] \in Daemon
         /\ StaysClosed
         /\ ConnInv'
<1> USE DEF Abort
<1> DEFINE a == mount[t]
<1>0. conn \in [Conns -> ConnRecs]
  BY DEF IInv, TypeOK
<1>1. \A u \in Targets : m[u] = IF u = t THEN m[t] ELSE mount[u]
  BY DEF Without, IInv, TypeOK
<1>2. m \in [Targets -> Conns \cup {None}] /\ m[t] \in {None, a}
  BY DEF Without, IInv, TypeOK
<1>3. \A c \in Conns :
        /\ conn'[c].handoff = conn[c].handoff
        /\ conn'[c].fd \in {conn[c].fd, "closed", "none"}
        /\ conn'[c].fd \in {"driver"} \cup Targets => c # a
        /\ c # a /\ conn[c].fd \in {"driver"} \cup Targets => conn'[c] = conn[c]
        /\ conn[c].handoff # "none" /\ conn[c].fd # "none" => conn'[c].fd # "none"
        /\ conn'[c].fd # "none" => conn[c].fd # "none" /\ conn'[c].minor = conn[c].minor
  BY <1>0, SettledIs
<1>4. /\ \A d \in Targets : sidecar'[d] =
            IF a # None /\ conn[a].fd = d /\ sidecar[d] # "off" THEN "waiting" ELSE sidecar[d]
      /\ sidecar' \in [Targets -> {"off", "waiting", "serving", "wedged"}]
  BY DEF Mounted, IInv, TypeOK
<1>5. conn' \in [Conns -> ConnRecs]
  BY <1>0, SettledType
<1>6. a # None => a \in Conns
  BY DEF IInv, TypeOK
<1> HIDE DEF a
<1>7. MountOwned'
  BY <1>1, <1>2 DEF a, IInv, ConnInv, MountOwned
<1>8. PublishingHolds'
  BY <1>1, <1>3, MountsDiffer, ConnFacts DEF IInv, ConnInv, PublishingHolds, a
<1>9. FdMounted'
  <2> SUFFICES ASSUME NEW c \in Conns, conn'[c].fd \in {"driver"} \cup Targets
               PROVE  mount'[Owner(c)] = c
    BY DEF FdMounted
  <2>1. c # a /\ mount[Owner(c)] = c
    BY <1>3, ConnFacts DEF IInv, ConnInv, FdMounted
  <2> QED
    BY <1>1, <2>1, ConnFacts DEF a
<1>10. FdHasDaemon'
  <2> SUFFICES ASSUME NEW c \in Conns, conn'[c].fd \in Targets
               PROVE  sidecar'[conn'[c].fd] \in Daemon
    BY DEF FdHasDaemon
  <2>1. c # a /\ conn'[c].fd = conn[c].fd
    BY <1>3, ConnFacts
  <2>2. a # None => conn[a].fd # conn[c].fd
    BY <1>6, <2>1 DEF IInv, ConnInv, OneFd
  <2> QED
    BY <1>4, <2>1, <2>2 DEF IInv, ConnInv, FdHasDaemon
<1>11. DaemonHasFd'
  <2> SUFFICES ASSUME NEW d \in Targets, sidecar'[d] \in Daemon
               PROVE  \E c \in Conns : conn'[c].fd = d
    BY DEF DaemonHasFd
  <2>1. sidecar[d] \in Daemon
    BY <1>4 DEF Daemon
  <2>2. PICK c \in Conns : conn[c].fd = d
    BY <2>1 DEF IInv, ConnInv, DaemonHasFd
  <2>3. c # a
    BY <1>4, <1>6, <2>1, <2>2, ConnFacts DEF Daemon
  <2> QED
    BY <1>3, <2>2, <2>3
<1>12. OneFd' /\ HandoffFd' /\ FdHasMinor' /\ FdWithinVolume'
  <2>1. \A c \in Conns : conn'[c].fd \in Targets => conn'[c].fd = conn[c].fd
    BY <1>3, ConnFacts
  <2>2. OneFd'
    BY <2>1 DEF IInv, ConnInv, OneFd
  <2>3. HandoffFd'
    BY <1>3 DEF IInv, ConnInv, HandoffFd
  <2>4. FdHasMinor'
    BY <1>3 DEF IInv, ConnInv, FdHasMinor
  <2>5. FdWithinVolume'
    BY <2>1 DEF IInv, ConnInv, FdWithinVolume
  <2> QED
    BY <2>2, <2>3, <2>4, <2>5
<1>13. \A d \in Targets : sidecar'[d] \in Daemon => sidecar[d] \in Daemon
  BY <1>4 DEF Daemon
<1>14. StaysClosed
  <2>1. \A u \in Targets : mount'[u] # None => mount'[u] = mount[u]
    BY <1>1, <1>2 DEF a
  <2> QED
    BY <2>1, SettledStaysClosed
<1> QED
  BY <1>2, <1>4, <1>5, <1>7, <1>8, <1>9, <1>10, <1>11, <1>12, <1>13, <1>14 DEF ConnInv

LEMMA FaultType ==
  ASSUME IInv, Fault \/ UNCHANGED faults
  PROVE  faults' \in 0..MaxFaults
  BY SidecarAssumption DEF Fault, IInv, TypeOK

\* A republish that finds the sidecar failed.
LEMMA RepublishUnhealthyStep ==
  ASSUME IInv, NEW t \in Targets, RepublishUnhealthy(t)
  PROVE  IInv'
<1> USE DEF RepublishUnhealthy
<1>0. /\ call[t] = "idle" /\ UNCHANGED call
      /\ Abort(t, Without(t)) \/ Abort(t, mount)
      /\ Fault \/ UNCHANGED faults
  BY DEF Up
<1>1. /\ mount' \in [Targets -> Conns \cup {None}]
      /\ conn' \in [Conns -> ConnRecs]
      /\ sidecar' \in [Targets -> {"off", "waiting", "serving", "wedged"}]
      /\ \A d \in Targets : sidecar'[d] \in Daemon => sidecar[d] \in Daemon
      /\ StaysClosed
      /\ ConnInv'
  BY <1>0, AbortStep DEF Publishing
<1>2. \A u \in Targets : files'[u] \in FileSets /\ ("dir" \in files[u] => "dir" \in files'[u])
  BY FileSetsIs DEF IInv, TypeOK, RefreshedToken, FileNames
<1>3. TypeOK'
  BY <1>0, <1>1, <1>2, FaultType DEF IInv, TypeOK, RefreshedToken
<1>4. DiskInv'
  BY <1>1, <1>2 DEF IInv, DiskInv, SymlinkOwned, SocketOwned, DirStays
<1>5. TrackInv'
  <2>1. CASE Abort(t, Without(t)) /\ sidecarVolumes' = sidecarVolumes \ {t}
    <3>1. mount'[t] = None
      BY <2>1 DEF Abort, Without, IInv, TypeOK
    <3> QED
      BY <1>0, <1>1, <2>1, <3>1 DEF IInv, TrackInv, SeenTracked, StatUntracked, StaysClosed
  <2>2. CASE sidecarVolumes' = sidecarVolumes \cup {t}
    BY <1>0, <1>1, <2>2 DEF IInv, TrackInv, SeenTracked, StatUntracked, StaysClosed
  <2> QED
    BY <2>1, <2>2
<1> QED
  BY <1>1, <1>3, <1>4, <1>5 DEF IInv

LEMMA UnpublishTrackedStep ==
  ASSUME IInv, NEW t \in Targets, UnpublishTracked(t)
  PROVE  IInv'
<1> USE DEF UnpublishTracked
<1>0. /\ call[t] = "idle" /\ UNCHANGED call
      /\ Abort(t, Without(t)) \/ Abort(t, mount)
      /\ Fault \/ UNCHANGED faults
  OBVIOUS
<1>1. /\ mount' \in [Targets -> Conns \cup {None}]
      /\ conn' \in [Conns -> ConnRecs]
      /\ sidecar' \in [Targets -> {"off", "waiting", "serving", "wedged"}]
      /\ \A d \in Targets : sidecar'[d] \in Daemon => sidecar[d] \in Daemon
      /\ StaysClosed
      /\ ConnInv'
  BY <1>0, AbortStep DEF Publishing
<1>2. TypeOK'
  BY <1>0, <1>1, FaultType DEF IInv, TypeOK, UnpublishCleanup, Gone
<1>3. DiskInv'
  BY <1>1 DEF IInv, TypeOK, DiskInv, SymlinkOwned, SocketOwned, DirStays, UnpublishCleanup
<1>4. TrackInv'
  <2>1. CASE Abort(t, Without(t)) /\ sidecarVolumes' = sidecarVolumes \ {t}
    <3>1. mount'[t] = None
      BY <2>1 DEF Abort, Without, IInv, TypeOK
    <3> QED
      BY <1>0, <1>1, <2>1, <3>1 DEF IInv, TrackInv, SeenTracked, StatUntracked, StaysClosed
  <2>2. CASE UNCHANGED sidecarVolumes
    BY <1>0, <1>1, <2>2 DEF IInv, TrackInv, SeenTracked, StatUntracked, StaysClosed
  <2> QED
    BY <2>1, <2>2
<1> QED
  BY <1>1, <1>2, <1>3, <1>4 DEF IInv

LEMMA UnpublishUntrackedStep ==
  ASSUME IInv, NEW t \in Targets, UnpublishUntracked(t)
  PROVE  IInv'
<1> USE DEF UnpublishUntracked, diskVars
<1>0. \A u \in Targets : call'[u] = IF u = t THEN "stat" ELSE call[u]
  BY DEF IInv, TypeOK
<1>1. TypeOK'
  BY DEF IInv, TypeOK
<1>2. ConnInv'
  BY <1>0, ConnUnchanged DEF Publishing
<1>3. DiskInv'
  BY DiskUnchanged
<1>4. TrackInv'
  BY <1>0 DEF IInv, TrackInv, SeenTracked, StatUntracked, Publishing
<1> QED
  BY <1>1, <1>2, <1>3, <1>4 DEF IInv

LEMMA StatReturnsStep ==
  ASSUME IInv, NEW t \in Targets, StatReturns(t)
  PROVE  IInv'
<1> USE DEF StatReturns
<1>0. \A u \in Targets : call'[u] = IF u = t THEN "idle" ELSE call[u]
  BY DEF IInv, TypeOK
<1>1. /\ mount' \in [Targets -> Conns \cup {None}]
      /\ conn' \in [Conns -> ConnRecs]
      /\ sidecar' \in [Targets -> {"off", "waiting", "serving", "wedged"}]
      /\ \A d \in Targets : sidecar'[d] \in Daemon => sidecar[d] \in Daemon
      /\ StaysClosed
      /\ ConnInv'
  BY <1>0, AbortStep DEF Publishing
<1>2. TypeOK'
  BY <1>1 DEF IInv, TypeOK, UnpublishCleanup, Gone
<1>3. DiskInv'
  BY <1>1 DEF IInv, TypeOK, DiskInv, SymlinkOwned, SocketOwned, DirStays, UnpublishCleanup
<1>4. mount'[t] = None
  BY DEF Abort, Without, IInv, TypeOK
<1>5. TrackInv'
  BY <1>0, <1>1, <1>4 DEF IInv, TrackInv, SeenTracked, StatUntracked, StaysClosed
<1> QED
  BY <1>1, <1>2, <1>3, <1>5 DEF IInv

LEMMA SmallSteps ==
  ASSUME IInv, NEW t \in Targets, EmptyDirReady(t) \/ Leave(t) \/ SidecarStart(t)
  PROVE  IInv'
<1>0. /\ UNCHANGED <<volumeID, mount, conn, faults, files, socket, symlink, tokenFile, driverVars>>
      /\ sidecar' \in [Targets -> {"off", "waiting", "serving", "wedged"}]
      /\ \A d \in Targets : sidecar'[d] \in Daemon <=> sidecar[d] \in Daemon
  BY DEF EmptyDirReady, Leave, SidecarStart, diskVars, IInv, TypeOK, Daemon
<1>1. TypeOK'
  BY <1>0 DEF EmptyDirReady, Leave, SidecarStart, diskVars, driverVars, IInv, TypeOK
<1>2. ConnInv'
  BY <1>0, ConnFacts DEF driverVars, IInv, ConnInv, MountOwned, PublishingHolds, FdMounted, FdHasDaemon,
              DaemonHasFd, OneFd, HandoffFd, FdHasMinor, FdWithinVolume
<1>3. DiskInv'
  BY <1>0 DEF IInv, DiskInv, SymlinkOwned, SocketOwned, DirStays
<1>4. TrackInv'
  BY <1>0, TrackUnchanged DEF driverVars, StaysClosed
<1> QED
  BY <1>1, <1>2, <1>3, <1>4 DEF IInv

LEMMA SidecarWedgesStep ==
  ASSUME IInv, NEW t \in Targets, SidecarWedges(t)
  PROVE  IInv'
<1> USE DEF SidecarWedges, diskVars, driverVars
<1>0. \A d \in Targets : sidecar'[d] \in Daemon <=> sidecar[d] \in Daemon
  BY DEF IInv, TypeOK, Daemon
<1>1. TypeOK'
  BY FaultType DEF IInv, TypeOK
<1>2. ConnInv'
  BY <1>0, ConnFacts DEF IInv, ConnInv, MountOwned, PublishingHolds, FdMounted, FdHasDaemon,
              DaemonHasFd, OneFd, HandoffFd, FdHasMinor, FdWithinVolume
<1>3. DiskInv'
  BY <1>0 DEF IInv, DiskInv, SymlinkOwned, SocketOwned, DirStays
<1>4. TrackInv'
  BY TrackUnchanged DEF StaysClosed
<1> QED
  BY <1>1, <1>2, <1>3, <1>4 DEF IInv

\* The daemon of t ends: its connection, if any, is closed.
LEMMA DaemonEnds ==
  ASSUME IInv, NEW t \in Targets,
         conn' = Settled(Closed(conn, HeldBy(t)), mount),
         \A d \in Targets : sidecar'[d] = IF d = t THEN sidecar'[t] ELSE sidecar[d],
         sidecar'[t] \notin Daemon,
         UNCHANGED <<volumeID, mount, call>>
  PROVE  conn' \in [Conns -> ConnRecs] /\ ConnInv'
<1>0. conn \in [Conns -> ConnRecs]
  BY DEF IInv, TypeOK
<1>1. \A c \in Conns :
        /\ conn'[c].handoff = conn[c].handoff
        /\ conn'[c].fd \in {conn[c].fd, "closed", "none"}
        /\ conn'[c].fd \in {"driver"} \cup Targets => c \notin HeldBy(t)
        /\ c \notin HeldBy(t) /\ conn[c].fd \in {"driver"} \cup Targets => conn'[c] = conn[c]
        /\ conn[c].handoff # "none" /\ conn[c].fd # "none" => conn'[c].fd # "none"
        /\ conn'[c].fd # "none" => conn[c].fd # "none" /\ conn'[c].minor = conn[c].minor
  BY <1>0, SettledIs
<1>2. \A c \in Conns : c \in HeldBy(t) <=> conn[c].fd = t
  BY DEF HeldBy
<1>3. \A c \in Conns : conn'[c].fd \in Targets => conn'[c].fd = conn[c].fd /\ conn[c].fd # t
  BY <1>1, <1>2, ConnFacts
<1>4. MountOwned' /\ FdMounted'
  BY <1>1, ConnFacts DEF IInv, ConnInv, MountOwned, FdMounted
<1>5. PublishingHolds'
  BY <1>1, <1>2, ConnFacts DEF IInv, ConnInv, PublishingHolds
<1>6. FdHasDaemon'
  BY <1>3 DEF IInv, ConnInv, FdHasDaemon
<1>7. DaemonHasFd'
  BY <1>1, <1>2 DEF IInv, ConnInv, DaemonHasFd
<1>8. OneFd' /\ FdWithinVolume'
  BY <1>3 DEF IInv, ConnInv, OneFd, FdWithinVolume
<1>9. HandoffFd'
  BY <1>1 DEF IInv, ConnInv, HandoffFd
<1>10. FdHasMinor'
  BY <1>1 DEF IInv, ConnInv, FdHasMinor
<1>11. conn' \in [Conns -> ConnRecs]
  BY <1>0, SettledType
<1> QED
  BY <1>4, <1>5, <1>6, <1>7, <1>8, <1>9, <1>10, <1>11 DEF ConnInv

LEMMA SidecarDiesStep ==
  ASSUME IInv, NEW t \in Targets, SidecarDies(t)
  PROVE  IInv'
<1> USE DEF SidecarDies, driverVars
<1>0. /\ sidecar[t] \in Daemon /\ sidecar'[t] = "waiting"
      /\ \A d \in Targets : sidecar'[d] = IF d = t THEN sidecar'[t] ELSE sidecar[d]
  BY DEF IInv, TypeOK, Daemon
<1>1. conn' \in [Conns -> ConnRecs] /\ ConnInv'
  BY <1>0, DaemonEnds DEF Daemon
<1>2. "dir" \in files[t]
  BY <1>0 DEF IInv, DiskInv, DirStays
<1>3. \A u \in Targets : files'[u] \in FileSets /\ ("dir" \in files[u] => "dir" \in files'[u])
  <2>1. CASE files' = files
    BY <2>1 DEF IInv, TypeOK
  <2>2. CASE files' = [files EXCEPT ![t] = @ \cup {"error"}]
    BY <1>2, <2>2, FileSetsIs DEF IInv, TypeOK, FileNames
  <2> QED
    BY <2>1, <2>2
<1>4. TypeOK'
  BY <1>1, <1>3, FaultType DEF IInv, TypeOK
<1>5. DiskInv'
  BY <1>0, <1>3 DEF IInv, DiskInv, SymlinkOwned, SocketOwned, DirStays, Daemon
<1>6. TrackInv'
  BY TrackUnchanged, SettledStaysClosed
<1> QED
  BY <1>1, <1>4, <1>5, <1>6 DEF IInv

LEMMA PodStopStep ==
  ASSUME IInv, NEW t \in Targets, PodStop(t)
  PROVE  IInv'
<1> USE DEF PodStop, driverVars
<1>0. /\ sidecar'[t] = "off" /\ files'[t] = {} /\ socket'[t] = None
      /\ \A d \in Targets : sidecar'[d] = IF d = t THEN sidecar'[t] ELSE sidecar[d]
      /\ \A d \in Targets \ {t} : files'[d] = files[d] /\ socket'[d] = socket[d]
  BY DEF IInv, TypeOK
<1>1. conn' \in [Conns -> ConnRecs] /\ ConnInv'
  BY <1>0, DaemonEnds DEF Daemon
<1>2. TypeOK'
  BY <1>1, FileSetsIs DEF IInv, TypeOK
<1>3. DiskInv'
  BY <1>0, ConnFacts DEF IInv, DiskInv, SymlinkOwned, SocketOwned, DirStays, Daemon
<1>4. TrackInv'
  BY TrackUnchanged, SettledStaysClosed
<1> QED
  BY <1>1, <1>2, <1>3, <1>4 DEF IInv

\* The goroutine of a connection goes on; the fd is left alone or closed by it.
LEMMA HandoffMoves ==
  ASSUME IInv, NEW c \in Conns, conn[c].handoff # "none",
         NEW new \in ConnRecs, conn' = [conn EXCEPT ![c] = new],
         new.minor = conn[c].minor, new.handoff # "accept", new.handoff # "none",
         \/ new.fd = conn[c].fd /\ new.handoff # "failed"
         \/ conn[c].handoff = "accept" /\ new.fd = "closed",
         UNCHANGED <<volumeID, mount, sidecar, call>>
  PROVE  ConnInv' /\ StaysClosed
<1>0. \A e \in Conns : conn'[e] = IF e = c THEN new ELSE conn[e]
  BY DEF IInv, TypeOK
<1>1. conn[c].handoff = "accept" => conn[c].fd \in {"driver", "closed"}
  BY DEF IInv, ConnInv, HandoffFd
<1>2. \A e \in Conns : conn'[e].fd = conn[e].fd \/ (e = c /\ conn[c].fd \in {"driver", "closed"} /\ conn'[e].fd = "closed")
  BY <1>0, <1>1
<1>3. MountOwned' /\ FdMounted'
  BY <1>2, ConnFacts DEF IInv, ConnInv, MountOwned, FdMounted
<1>4. PublishingHolds'
  BY <1>0 DEF IInv, ConnInv, PublishingHolds
<1>5. FdHasDaemon' /\ OneFd' /\ FdWithinVolume'
  BY <1>2, ConnFacts DEF IInv, ConnInv, FdHasDaemon, OneFd, FdWithinVolume
<1>6. DaemonHasFd'
  BY <1>2, ConnFacts DEF IInv, ConnInv, DaemonHasFd
<1>7. HandoffFd'
  BY <1>0 DEF IInv, ConnInv, HandoffFd
<1>8. FdHasMinor'
  BY <1>0, <1>1 DEF IInv, ConnInv, FdHasMinor
<1>9. StaysClosed
  BY <1>2 DEF StaysClosed, IInv, TypeOK
<1> QED
  BY <1>3, <1>4, <1>5, <1>6, <1>7, <1>8, <1>9 DEF ConnInv

LEMMA HandoffFailsStep ==
  ASSUME IInv, NEW c \in Conns, HandoffFails(c)
  PROVE  IInv'
<1> USE DEF HandoffFails, diskVars, driverVars
<1> DEFINE new == [conn[c] EXCEPT !.handoff = "failed", !.fd = "closed"]
<1>1. /\ new \in ConnRecs /\ new.minor = conn[c].minor
      /\ new.handoff = "failed" /\ new.fd = "closed"
      /\ conn' = [conn EXCEPT ![c] = new]
  BY DEF IInv, TypeOK, ConnRecs
<1> HIDE DEF new
<1>2. ConnInv' /\ StaysClosed
  BY <1>1, HandoffMoves
<1>3. TypeOK'
  BY <1>1, FaultType DEF IInv, TypeOK
<1> QED
  BY <1>2, <1>3, DiskUnchanged, TrackUnchanged DEF IInv

LEMMA RecordFailureStep ==
  ASSUME IInv, NEW c \in Conns, RecordFailure(c)
  PROVE  IInv'
<1> USE DEF RecordFailure, driverVars
<1> DEFINE new == [conn[c] EXCEPT !.handoff = "unlink"]
<1>1. /\ new \in ConnRecs /\ new.minor = conn[c].minor
      /\ new.handoff = "unlink" /\ new.fd = conn[c].fd
      /\ conn' = [conn EXCEPT ![c] = new]
  BY DEF IInv, TypeOK, ConnRecs
<1> HIDE DEF new
<1>2. ConnInv' /\ StaysClosed
  BY <1>1, HandoffMoves
<1>3. \A u \in Targets : files'[u] \in FileSets /\ ("dir" \in files[u] => "dir" \in files'[u])
  BY FileSetsIs, ConnFacts DEF IInv, TypeOK, FileNames
<1>4. TypeOK'
  <2>1. files' \in [Targets -> FileSets]
    BY <1>3 DEF IInv, TypeOK
  <2> QED
    BY <1>1, <2>1 DEF IInv, TypeOK
<1>5. DiskInv'
  BY <1>3 DEF IInv, DiskInv, SymlinkOwned, SocketOwned, DirStays
<1> QED
  BY <1>2, <1>4, <1>5, TrackUnchanged DEF IInv

LEMMA RecordFailsStep ==
  ASSUME IInv, NEW c \in Conns, RecordFails(c)
  PROVE  IInv'
<1> USE DEF RecordFails, diskVars, driverVars
<1> DEFINE new == [conn[c] EXCEPT !.handoff = "unlink"]
<1>1. /\ new \in ConnRecs /\ new.minor = conn[c].minor
      /\ new.handoff = "unlink" /\ new.fd = conn[c].fd
      /\ conn' = [conn EXCEPT ![c] = new]
  BY DEF IInv, TypeOK, ConnRecs
<1> HIDE DEF new
<1>2. ConnInv' /\ StaysClosed
  BY <1>1, HandoffMoves
<1>3. TypeOK'
  BY <1>1, FaultType DEF IInv, TypeOK
<1> QED
  BY <1>2, <1>3, DiskUnchanged, TrackUnchanged DEF IInv

LEMMA DropSymlinkStep ==
  ASSUME IInv, NEW c \in Conns, DropSymlink(c)
  PROVE  IInv'
<1> USE DEF DropSymlink, driverVars
<1> DEFINE new == [conn[c] EXCEPT !.handoff = "close"]
<1>1. /\ new \in ConnRecs /\ new.minor = conn[c].minor
      /\ new.handoff = "close" /\ new.fd = conn[c].fd
      /\ conn' = [conn EXCEPT ![c] = new]
  BY DEF IInv, TypeOK, ConnRecs
<1> HIDE DEF new
<1>2. ConnInv' /\ StaysClosed
  BY <1>1, HandoffMoves
<1>3. TypeOK'
  BY <1>1 DEF IInv, TypeOK
<1>4. DiskInv'
  BY DEF IInv, TypeOK, DiskInv, SymlinkOwned, SocketOwned, DirStays
<1> QED
  BY <1>2, <1>3, <1>4, TrackUnchanged DEF IInv

LEMMA CloseListenerStep ==
  ASSUME IInv, NEW c \in Conns, CloseListener(c)
  PROVE  IInv'
<1> USE DEF CloseListener, driverVars
<1> DEFINE new == [conn[c] EXCEPT !.handoff = "clear"]
<1>1. /\ new \in ConnRecs /\ new.minor = conn[c].minor
      /\ new.handoff = "clear" /\ new.fd = conn[c].fd
      /\ conn' = [conn EXCEPT ![c] = new]
  BY DEF IInv, TypeOK, ConnRecs
<1> HIDE DEF new
<1>2. ConnInv' /\ StaysClosed
  BY <1>1, HandoffMoves
<1>3. \A d \in Targets : socket'[d] \in {None, socket[d]} \/ (socket'[d] = Stale /\ socket[d] = c)
  OBVIOUS
<1>4. socket' \in [Targets -> Conns \cup {None, Stale}]
  <2>1. \A d \in Targets : socket'[d] \in Conns \cup {None, Stale}
    BY <1>3 DEF IInv, TypeOK
  <2> QED
    BY <2>1
<1>5. TypeOK'
  BY <1>1, <1>4 DEF IInv, TypeOK
<1>6. DiskInv'
  BY <1>3, ConnFacts DEF IInv, DiskInv, SymlinkOwned, SocketOwned, DirStays
<1> QED
  BY <1>2, <1>5, <1>6, TrackUnchanged DEF IInv

\* A sidecar takes what its socket hands over.
LEMMA ConnectStep ==
  ASSUME IInv, NEW d \in Targets, Connect(d)
  PROVE  IInv'
<1> USE DEF Connect, driverVars
<1> DEFINE c == socket[d]
<1>0. /\ c \in Conns /\ conn[c].handoff = "accept" /\ conn[c] \in ConnRecs
      /\ volumeID[Owner(c)] = volumeID[d] /\ "dir" \in files[d]
      /\ sidecar[d] = "waiting"
  BY ConnFacts DEF IInv, TypeOK, DiskInv, SocketOwned, DirStays
<1>1. CASE /\ conn[c].fd = "closed"
           /\ conn' = [conn EXCEPT ![c].handoff = "unlink"]
           /\ files' = [files EXCEPT ![d] = @ \cup {"error"}]
           /\ UNCHANGED sidecar
  <2> DEFINE new == [conn[c] EXCEPT !.handoff = "unlink"]
  <2>1. /\ new \in ConnRecs /\ new.minor = conn[c].minor
        /\ new.handoff = "unlink" /\ new.fd = conn[c].fd
        /\ conn' = [conn EXCEPT ![c] = new]
    BY <1>0, <1>1 DEF IInv, TypeOK, ConnRecs
  <2> HIDE DEF new, c
  <2>2. ConnInv' /\ StaysClosed
    BY <1>0, <1>1, <2>1, HandoffMoves
  <2>3. \A u \in Targets : files'[u] \in FileSets /\ ("dir" \in files[u] => "dir" \in files'[u])
    BY <1>0, <1>1, FileSetsIs DEF IInv, TypeOK, FileNames
  <2>4. TypeOK'
    BY <1>0, <1>1, <2>1, <2>3 DEF IInv, TypeOK
  <2>5. DiskInv'
    BY <1>1, <2>3 DEF IInv, DiskInv, SymlinkOwned, SocketOwned, DirStays
  <2> QED
    BY <2>2, <2>4, <2>5, TrackUnchanged DEF IInv
<1>2. CASE /\ conn[c].fd = "driver"
           /\ conn' = [conn EXCEPT ![c].handoff = "unlink", ![c].fd = d]
           /\ sidecar' = [sidecar EXCEPT ![d] = "serving"]
           /\ UNCHANGED files
  <2> DEFINE new == [conn[c] EXCEPT !.handoff = "unlink", !.fd = d]
  <2>1. /\ new \in ConnRecs /\ new.minor = conn[c].minor
        /\ new.handoff = "unlink" /\ new.fd = d
        /\ conn' = [conn EXCEPT ![c] = new]
    BY <1>0, <1>2 DEF IInv, TypeOK, ConnRecs
  <2>2. \A e \in Conns : conn'[e] = IF e = c THEN new ELSE conn[e]
    BY <1>0, <2>1 DEF IInv, TypeOK
  <2>3. \A u \in Targets : sidecar'[u] = IF u = d THEN "serving" ELSE sidecar[u]
    BY <1>2 DEF IInv, TypeOK
  <2>4. \A e \in Conns : conn[e].fd # d
    BY <1>0 DEF IInv, ConnInv, FdHasDaemon, Daemon
  <2> HIDE DEF new, c
  <2>5. TypeOK'
    BY <1>0, <1>2, <2>1 DEF IInv, TypeOK
  <2>6. ConnInv'
    <3>1. MountOwned' /\ FdMounted'
      BY <1>0, <1>2, <2>1, <2>2 DEF IInv, ConnInv, MountOwned, FdMounted
    <3>2. PublishingHolds'
      BY <1>0, <2>2 DEF IInv, ConnInv, PublishingHolds
    <3>3. FdHasDaemon'
      BY <2>1, <2>2, <2>3 DEF IInv, ConnInv, FdHasDaemon, Daemon
    <3>4. DaemonHasFd'
      <4> SUFFICES ASSUME NEW u \in Targets, sidecar'[u] \in Daemon, u # d
                   PROVE  \E e \in Conns : conn'[e].fd = u
        BY <1>0, <2>1, <2>2 DEF DaemonHasFd
      <4>1. PICK e \in Conns : conn[e].fd = u
        BY <2>3 DEF IInv, ConnInv, DaemonHasFd
      <4>2. e # c
        BY <1>2, <4>1, ConnFacts
      <4> QED
        BY <2>2, <4>1, <4>2
    <3>5. OneFd'
      BY <2>1, <2>2, <2>4 DEF IInv, ConnInv, OneFd
    <3>6. HandoffFd' /\ FdHasMinor'
      <4>1. conn[c].fd # "none"
        BY <1>2
      <4> QED
        BY <1>0, <2>1, <2>2, <4>1 DEF IInv, ConnInv, HandoffFd, FdHasMinor
    <3>7. FdWithinVolume'
      BY <1>0, <2>1, <2>2 DEF IInv, ConnInv, FdWithinVolume
    <3> QED
      BY <3>1, <3>2, <3>3, <3>4, <3>5, <3>6, <3>7 DEF ConnInv
  <2>7. DiskInv'
    BY <1>0, <1>2, <2>3 DEF IInv, DiskInv, SymlinkOwned, SocketOwned, DirStays
  <2>8. StaysClosed
    BY <1>2, <2>2 DEF StaysClosed, IInv, TypeOK
  <2> QED
    BY <2>5, <2>6, <2>7, <2>8, TrackUnchanged DEF IInv
<1> QED
  BY <1>1, <1>2

\* With nothing to close, only what is over is forgotten.
LEMMA ClosedNothing ==
  ASSUME NEW cs \in [Conns -> ConnRecs]
  PROVE  Closed(cs, {}) = cs
  BY DEF Closed

\* The last deferred function of the goroutine.
LEMMA ClearPendingStep ==
  ASSUME IInv, NEW c \in Conns, ClearPending(c)
  PROVE  IInv'
<1>0. /\ UNCHANGED <<volumeID, kubelet, mount, sidecar, faults, emptyDir, files, socket, symlink,
                       tokenFile, call, sidecarVolumes, seen>>
      /\ pendingSidecarMinors' = pendingSidecarMinors \ {conn[c].minor}
  BY DEF ClearPending, diskVars
<1> DEFINE new == [conn[c] EXCEPT !.handoff = "none"]
           cs == [conn EXCEPT ![c] = new]
<1>1. /\ new \in ConnRecs /\ new.minor = conn[c].minor
      /\ new.handoff = "none" /\ new.fd = conn[c].fd
      /\ cs = [conn EXCEPT ![c].handoff = "none"]
      /\ cs \in [Conns -> ConnRecs]
  BY DEF IInv, TypeOK, ConnRecs
<1>2. conn' = Settled(Closed(cs, {}), mount)
  BY <1>1, ClosedNothing DEF ClearPending
<1>3. \A e \in Conns : cs[e] = IF e = c THEN new ELSE conn[e]
  BY DEF IInv, TypeOK
<1> HIDE DEF cs, new
<1>4. conn' \in [Conns -> ConnRecs]
  BY <1>1, <1>2, SettledType
<1>5. \A e \in Conns :
        /\ conn'[e].handoff = cs[e].handoff
        /\ conn'[e].fd \in {cs[e].fd, "closed", "none"}
        /\ cs[e].fd \in {"driver"} \cup Targets => conn'[e] = cs[e]
        /\ mount[Owner(e)] = e => conn'[e] = cs[e]
        /\ cs[e].handoff # "none" /\ cs[e].fd # "none" => conn'[e].fd # "none"
        /\ conn'[e].fd # "none" => cs[e].fd # "none" /\ conn'[e].minor = cs[e].minor
  <2>1. cs \in [Conns -> ConnRecs]
    BY <1>1
  <2> QED
    BY <1>2, <2>1, SettledIs
<1>6. \A e \in Conns : cs[e].fd = conn[e].fd /\ cs[e].minor = conn[e].minor
                         /\ cs[e].handoff \in {conn[e].handoff, "none"}
  BY <1>1, <1>3
<1>7. ConnInv'
  <2>1. MountOwned' /\ FdMounted'
    BY <1>0, <1>5, <1>6, ConnFacts DEF IInv, ConnInv, MountOwned, FdMounted
  <2>2. PublishingHolds'
    BY <1>0, <1>5, <1>6 DEF IInv, ConnInv, PublishingHolds, MountOwned
  <2>3. \A e \in Conns : conn'[e].fd \in Targets => conn'[e].fd = conn[e].fd
    BY <1>0, <1>5, <1>6, ConnFacts
  <2>4. FdHasDaemon' /\ OneFd' /\ FdWithinVolume'
    BY <1>0, <2>3 DEF IInv, ConnInv, FdHasDaemon, OneFd, FdWithinVolume
  <2>5. DaemonHasFd'
    BY <1>0, <1>5, <1>6 DEF IInv, ConnInv, DaemonHasFd
  <2>6. HandoffFd'
    BY <1>0, <1>5, <1>6 DEF IInv, ConnInv, HandoffFd
  <2>7. FdHasMinor'
    BY <1>0, <1>5, <1>6 DEF IInv, ConnInv, FdHasMinor
  <2> QED
    BY <2>1, <2>2, <2>4, <2>5, <2>6, <2>7 DEF ConnInv
<1>8. TypeOK'
  BY <1>0, <1>4 DEF IInv, TypeOK
<1>9. StaysClosed
  BY <1>0, <1>5, <1>6 DEF StaysClosed, IInv, TypeOK, ConnInv, MountOwned
<1> QED
  BY <1>0, <1>7, <1>8, <1>9, DiskUnchanged, TrackUnchanged DEF IInv

\* The node plugin dies and starts anew.
LEMMA DriverRestartStep ==
  ASSUME IInv, DriverRestart
  PROVE  IInv'
<1>0. /\ Fault /\ UNCHANGED <<volumeID, kubelet, mount, sidecar, emptyDir, files, symlink, tokenFile>>
      /\ socket' = [d \in Targets |-> IF socket[d] = None THEN None ELSE Stale]
      /\ call' = [t \in Targets |-> "idle"]
      /\ pendingSidecarMinors' = {} /\ sidecarVolumes' = {} /\ seen' = {}
  BY DEF DriverRestart
<1> DEFINE D == {c \in Conns : conn[c].fd = "driver"}
           cs == [c \in Conns |-> [Closed(conn, D)[c] EXCEPT !.handoff = "none"]]
<1>1. \A c \in Conns : /\ cs[c] \in ConnRecs
                        /\ cs[c].handoff = "none" /\ cs[c].minor = conn[c].minor
                        /\ cs[c].fd = IF conn[c].fd = "driver" THEN "closed" ELSE conn[c].fd
  <2> TAKE c \in Conns
  <2> DEFINE k == Closed(conn, D)[c]
  <2>1. k = IF c \in D /\ conn[c].fd # "none" THEN [conn[c] EXCEPT !.fd = "closed"] ELSE conn[c]
    BY DEF Closed
  <2>2. conn[c] \in ConnRecs
    BY DEF IInv, TypeOK
  <2>3. k \in ConnRecs /\ k.minor = conn[c].minor
        /\ k.fd = IF conn[c].fd = "driver" THEN "closed" ELSE conn[c].fd
    BY <2>1, <2>2 DEF ConnRecs
  <2>4. cs[c] = [k EXCEPT !.handoff = "none"]
    OBVIOUS
  <2> HIDE DEF k, cs
  <2> QED
    BY <2>3, <2>4 DEF ConnRecs
<1>2. cs \in [Conns -> ConnRecs]
  BY <1>1
<1>3. conn' = Settled(Closed(cs, {}), mount)
  BY <1>2, ClosedNothing DEF DriverRestart
<1> HIDE DEF cs, D
<1>4. conn' \in [Conns -> ConnRecs]
  BY <1>2, <1>3, SettledType
<1>5. \A c \in Conns :
        /\ conn'[c].handoff = "none"
        /\ conn'[c].fd \in {conn[c].fd, "closed", "none"} /\ conn'[c].fd # "driver"
        /\ conn[c].fd \in Targets => conn'[c].fd = conn[c].fd
        /\ conn'[c].fd # "none" => conn[c].fd # "none" /\ conn'[c].minor = conn[c].minor
  BY <1>1, <1>2, <1>3, SettledIs, ConnFacts
<1>6. ConnInv'
  <2>1. MountOwned' /\ FdMounted'
    BY <1>0, <1>5, ConnFacts DEF IInv, ConnInv, MountOwned, FdMounted
  <2>2. PublishingHolds'
    BY <1>0 DEF PublishingHolds, Publishing
  <2>3. \A c \in Conns : conn'[c].fd \in Targets => conn'[c].fd = conn[c].fd
    BY <1>5, ConnFacts
  <2>4. FdHasDaemon' /\ OneFd' /\ FdWithinVolume'
    BY <1>0, <2>3 DEF IInv, ConnInv, FdHasDaemon, OneFd, FdWithinVolume
  <2>5. DaemonHasFd'
    BY <1>0, <1>5 DEF IInv, ConnInv, DaemonHasFd
  <2>6. HandoffFd'
    BY <1>5 DEF HandoffFd
  <2>7. FdHasMinor'
    BY <1>0, <1>5 DEF IInv, ConnInv, FdHasMinor
  <2> QED
    BY <2>1, <2>2, <2>4, <2>5, <2>6, <2>7 DEF ConnInv
<1>7. TypeOK'
  BY <1>0, <1>4, FaultType DEF IInv, TypeOK
<1>8. DiskInv'
  BY <1>0, ConnFacts DEF IInv, DiskInv, SymlinkOwned, SocketOwned, DirStays
<1>9. TrackInv'
  BY <1>0 DEF TrackInv, SeenTracked, StatUntracked
<1> QED
  BY <1>6, <1>7, <1>8, <1>9 DEF IInv

LEMMA NextIInv == IInv /\ [Next]_vars => IInv'
<1> SUFFICES ASSUME IInv, [Next]_vars PROVE IInv'
  OBVIOUS
<1>1. ASSUME NEW t \in Targets, Publish(t) \/ PublishFails(t) \/ CleanupFails(t)
      PROVE  IInv'
  BY <1>1, PublishMountStep, WriteFilesStep, RemoveSymlinkStep, SymlinkStep, RemoveSocketStep,
     ListenStep, CleanupStep, RepublishStep, RepublishUnhealthyStep, PublishFailsStep, CleanupFailsStep
     DEF Publish
<1>2. ASSUME NEW t \in Targets, Unpublish(t)
      PROVE  IInv'
  BY <1>2, UnpublishTrackedStep, UnpublishUntrackedStep, StatReturnsStep DEF Unpublish
<1>3. ASSUME NEW t \in Targets,
             \/ EmptyDirReady(t) \/ Leave(t) \/ PodStop(t) \/ SidecarStart(t) \/ Connect(t)
             \/ SidecarDies(t) \/ SidecarWedges(t)
      PROVE  IInv'
  BY <1>3, SmallSteps, PodStopStep, ConnectStep, SidecarDiesStep, SidecarWedgesStep
<1>4. ASSUME NEW c \in Conns, Handoff(c) \/ RecordFails(c)
      PROVE  IInv'
  BY <1>4, HandoffFailsStep, RecordFailureStep, RecordFailsStep, DropSymlinkStep, CloseListenerStep, ClearPendingStep
     DEF Handoff
<1>5. CASE DriverRestart
  BY <1>5, DriverRestartStep
<1>6. CASE UNCHANGED vars
  <2>1. TypeOK'
    BY <1>6 DEF vars, diskVars, driverVars, IInv, TypeOK
  <2> QED
    BY <1>6, <2>1, ConnUnchanged, DiskUnchanged, TrackUnchanged
       DEF IInv, vars, diskVars, driverVars, StaysClosed
<1> QED
  BY <1>1, <1>2, <1>3, <1>4, <1>5, <1>6 DEF Next

LEMMA IInvAlways == Spec => []IInv
  BY InitIInv, NextIInv, PTL DEF Spec

\* The state of the node and of the driver's maps stays well typed.
THEOREM TypeCorrect == Spec => []TypeOK
<1>1. IInv => TypeOK
  BY DEF IInv
<1> QED
  BY <1>1, IInvAlways, PTL

\* sidecarMount hands no sidecar the fd of another volume, whatever publishes,
\* restarts and goroutines do to the symlink and the sockets in between.
THEOREM FdsStayWithinVolume == Spec => []FdWithinVolume
<1>1. IInv => FdWithinVolume
  BY DEF IInv, ConnInv
<1> QED
  BY <1>1, IInvAlways, PTL

\* NodeUnpublishVolume waits for a daemon only when no publish of this process
\* has found the mount.
THEOREM OnlyUnseenBlock == Spec => []BlocksOnlyUnseen
<1>1. IInv => BlocksOnlyUnseen
  <2> SUFFICES ASSUME IInv, NEW t \in Targets, call[t] = "stat", t \in seen
               PROVE  Answers(t)
    BY DEF BlocksOnlyUnseen
  <2>1. mount[t] # None => conn[mount[t]].fd = "closed"
    BY DEF IInv, TrackInv, SeenTracked, StatUntracked, Publishing
  <2> QED
    BY <2>1, ConnFacts DEF Answers, Mounted
<1> QED
  BY <1>1, IInvAlways, PTL

-----------------------------------------------------------------------------
(* How a mount falls silent. *)

\* The pod whose volume ID no other pod uses is the only one whose sidecar can
\* have the fd of its mount, or find it behind a socket.
LEMMA AloneHolds ==
  ASSUME IInv, NEW t \in Targets, Alone(t), mount[t] # None
  PROVE  /\ mount[t] \in Conns /\ Owner(mount[t]) = t
         /\ conn[mount[t]].fd \in Targets => conn[mount[t]].fd = t
         /\ \A d \in Targets : socket[d] = mount[t] => d = t
<1>1. mount[t] \in Conns /\ Owner(mount[t]) = t
  BY DEF IInv, TypeOK, ConnInv, MountOwned
<1>2. conn[mount[t]].fd \in Targets => conn[mount[t]].fd = t
  BY <1>1 DEF IInv, ConnInv, FdWithinVolume, Alone
<1>3. \A d \in Targets : socket[d] = mount[t] => d = t
  BY <1>1 DEF IInv, DiskInv, SocketOwned, Alone
<1> QED
  BY <1>1, <1>2, <1>3

\* A step that neither closes the fd of t's mount nor ends its handoff, and
\* clears no error file, does not make it silent.
LEMMA SilentFrame ==
  ASSUME NEW t \in Targets, mount'[t] = mount[t], call'[t] = "idle" => call[t] = "idle",
         mount[t] # None =>
           /\ conn'[mount[t]].fd = conn[mount[t]].fd
           /\ conn[mount[t]].handoff \in {"accept", "failed"}
                => conn'[mount[t]].handoff \in {"accept", "failed"},
         "dir" \in files'[t] => "dir" \in files[t],
         files[t] \cap {"error", "handoff-error"} \subseteq files'[t]
  PROVE  Silent(t)' => Silent(t)
  BY DEF Silent, Mounted, SidecarFailed

\* NodePublishVolume leaves no mount silent.
LEMMA PublishNotSilent ==
  ASSUME IInv, NEW t \in Targets, Alone(t), NEW u \in Targets, Publish(u) \/ PublishFails(u),
         ~Silent(t), Silent(t)'
  PROVE  FALSE
<1>0. mount'[t] # None /\ call'[t] = "idle"
  BY DEF Silent, Mounted
<1>1. mount[t] # None => mount[t] \in Conns /\ Owner(mount[t]) = t
  BY AloneHolds
<1>2. CASE PublishMount(u)
  <2>1. CASE UNCHANGED <<call, mount, conn>>
    BY <1>2, <2>1, SilentFrame DEF PublishMount
  <2>2. CASE u = t /\ call' = [call EXCEPT ![u] = "files"]
    BY <1>0, <2>2 DEF IInv, TypeOK
  <2>3. CASE u # t /\ call' = [call EXCEPT ![u] = "files"] /\ FreeConns(u) # {} /\ emptyDir[u]
    <3> DEFINE c == CHOOSE c \in FreeConns(u) : TRUE
               m == CHOOSE m \in FreeMinors : TRUE
    <3>1. c \in {u} \X Slots
      BY <2>3 DEF FreeConns
    <3>2. Owner(c) = u
      BY <3>1 DEF Owner
    <3>3. CASE /\ mount' = [mount EXCEPT ![u] = c]
               /\ conn' = [conn EXCEPT ![c] = [Unused EXCEPT !.fd = "driver", !.minor = m]]
      <4> HIDE DEF c, m
      <4>1. mount'[t] = mount[t] /\ call'[t] = call[t] /\ files' = files
        BY <1>2, <2>3, <3>3 DEF IInv, TypeOK, PublishMount
      <4>2. mount[t] # None => conn'[mount[t]] = conn[mount[t]]
        BY <1>1, <2>3, <3>2, <3>3 DEF IInv, TypeOK
      <4> QED
        BY <4>1, <4>2, SilentFrame
    <3> QED
      BY <1>2, <2>3, <3>3 DEF PublishMount
  <2> QED
    BY <1>2, <2>1, <2>2, <2>3 DEF PublishMount
<1>3. CASE WriteFiles(u)
  <2>1. u # t
    BY <1>0, <1>3 DEF WriteFiles, IInv, TypeOK
  <2>2. files'[t] = files[t] /\ call'[t] = call[t] /\ UNCHANGED <<mount, conn>>
    BY <1>3, <2>1 DEF WriteFiles, IInv, TypeOK
  <2> QED
    BY <2>2, SilentFrame
<1>4. CASE RemoveSymlink(u) \/ RemoveSocket(u)
  <2>1. (call'[t] = "idle" => call[t] = "idle") /\ UNCHANGED <<files, mount, conn>>
    BY <1>4 DEF RemoveSymlink, RemoveSocket, IInv, TypeOK
  <2> QED
    BY <2>1, SilentFrame
<1>5. CASE Cleanup(u)
  <2>1. u # t
    BY <1>0, <1>5 DEF Cleanup, Without, IInv, TypeOK
  <2>2. mount'[t] = mount[t] /\ call'[t] = call[t] /\ UNCHANGED files
    BY <1>5, <2>1 DEF Cleanup, Without, IInv, TypeOK, diskVars
  <2>3. mount[u] \in Conns /\ mount[t] # mount[u]
    BY <1>0, <1>5, <2>1, <2>2, MountsDiffer DEF Cleanup, IInv, ConnInv, PublishingHolds, Publishing
  <2>4. mount[t] # None => conn'[mount[t]] = conn[mount[t]]
    BY <1>1, <1>5, <2>3 DEF Cleanup, IInv, TypeOK
  <2> QED
    BY <2>2, <2>4, SilentFrame
<1>g. ASSUME GiveUp(u), UNCHANGED files
      PROVE  FALSE
  <2>1. (call'[t] = "idle" => call[t] = "idle") /\ UNCHANGED <<mount, conn>>
    BY <1>g DEF GiveUp, IInv, TypeOK
  <2> QED
    BY <1>g, <2>1, SilentFrame
<1>6. CASE Symlink(u)
  <2>1. CASE GiveUp(u)
    BY <1>g, <1>6, <2>1 DEF Symlink
  <2>2. CASE call' = [call EXCEPT ![u] = "unsocket"] /\ UNCHANGED <<mount, conn>>
    <3>1. (call'[t] = "idle" => call[t] = "idle") /\ UNCHANGED files
      BY <1>6, <2>2 DEF Symlink, IInv, TypeOK
    <3> QED
      BY <2>2, <3>1, SilentFrame
  <2> QED
    BY <1>6, <2>1, <2>2 DEF Symlink
<1>7. CASE Listen(u)
  <2>1. CASE GiveUp(u)
    BY <1>g, <1>7, <2>1 DEF Listen
  <2>2. CASE conn' = [conn EXCEPT ![mount[u]].handoff = "accept"] /\ call' = [call EXCEPT ![u] = "idle"]
             /\ UNCHANGED mount
    <3>1. UNCHANGED files /\ mount[u] \in Conns /\ conn \in [Conns -> ConnRecs]
      BY <1>7 DEF Listen, IInv, TypeOK, ConnInv, PublishingHolds, Publishing
    <3>2. u # t
      <4> SUFFICES ASSUME u = t PROVE FALSE
        OBVIOUS
      <4>1. conn'[mount'[t]].handoff = "accept"
        BY <2>2, <3>1 DEF ConnRecs
      <4> QED
        BY <4>1 DEF Silent
    <3>3. mount[t] # mount[u]
      BY <1>0, <2>2, <3>2, MountsDiffer
    <3>4. (mount[t] # None => conn'[mount[t]] = conn[mount[t]]) /\ call'[t] = call[t]
      BY <1>1, <2>2, <3>1, <3>2, <3>3 DEF IInv, TypeOK
    <3> QED
      BY <2>2, <3>1, <3>4, SilentFrame
  <2> QED
    BY <1>7, <2>1, <2>2 DEF Listen
<1>8. CASE Republish(u)
  <2>1. UNCHANGED files \/ files' = RefreshedToken(u)
    BY <1>8 DEF Republish
  <2>2. ("dir" \in files'[t] => "dir" \in files[t]) /\ files[t] \subseteq files'[t]
    BY <2>1 DEF RefreshedToken, IInv, TypeOK
  <2> QED
    BY <1>8, <2>2, SilentFrame DEF Republish
<1>9. CASE RepublishUnhealthy(u)
  <2>1. files' = RefreshedToken(u) /\ UNCHANGED call /\ SidecarFailed(u)
        /\ (Abort(u, Without(u)) \/ Abort(u, mount))
    BY <1>9 DEF RepublishUnhealthy
  <2>2. ("dir" \in files'[t] => "dir" \in files[t]) /\ files[t] \subseteq files'[t]
    BY <2>1 DEF RefreshedToken, IInv, TypeOK
  <2>3. u # t
    BY <2>1, <2>2 DEF SidecarFailed, Silent
  <2>4. mount'[t] = mount[t]
    BY <2>1, <2>3 DEF Abort, Without, IInv, TypeOK
  <2>5. mount[t] # mount[u]
    BY <1>0, <2>3, <2>4, MountsDiffer
  <2>6. conn'[mount[t]] = conn[mount[t]]
    <3>1. conn \in [Conns -> ConnRecs] /\ mount[t] \in Conns /\ Owner(mount[t]) = t
      BY <1>0, <1>1, <2>4 DEF IInv, TypeOK
    <3>2. PICK m \in {mount, Without(u)} :
            conn' = Settled(Closed(conn, {mount[u]}), m) /\ m[t] = mount[t]
      BY <2>1, <2>3 DEF Abort, Without, IInv, TypeOK
    <3> QED
      BY <2>5, <3>1, <3>2, SettledIs
  <2> QED
    BY <2>1, <2>2, <2>4, <2>6, SilentFrame
<1>10. CASE PublishFails(u)
  BY <1>g, <1>10 DEF PublishFails, diskVars
<1> QED
  BY <1>2, <1>3, <1>4, <1>5, <1>6, <1>7, <1>8, <1>9, <1>10 DEF Publish

\* A cleanup that fails leaves the mounts of the others as they are.
LEMMA CleanupFailsSilent ==
  ASSUME IInv, NEW t \in Targets, Alone(t), NEW u \in Targets, u # t, CleanupFails(u),
         ~Silent(t), Silent(t)'
  PROVE  FALSE
<1>1. mount'[t] # None /\ UNCHANGED <<mount, files>> /\ call'[t] = call[t]
  BY DEF Silent, Mounted, CleanupFails, diskVars, IInv, TypeOK
<1>2. mount[t] \in Conns /\ mount[u] \in Conns /\ mount[t] # mount[u]
  BY <1>1, MountsDiffer DEF CleanupFails, IInv, TypeOK, ConnInv, PublishingHolds, Publishing
<1>3. conn'[mount[t]] = conn[mount[t]]
  BY <1>2 DEF CleanupFails, IInv, TypeOK
<1> QED
  BY <1>1, <1>3, SilentFrame

\* Nor does an unpublish, or the end of another pod's daemon.
LEMMA OthersNotSilent ==
  ASSUME IInv, NEW t \in Targets, Alone(t), NEW u \in Targets, u # t,
         Unpublish(u) \/ PodStop(u) \/ SidecarDies(u),
         ~Silent(t), Silent(t)'
  PROVE  FALSE
<1>0. mount'[t] # None
  BY DEF Silent, Mounted
<1>1. /\ mount'[t] = mount[t] /\ call'[t] = call[t] /\ files'[t] = files[t]
  BY DEF Unpublish, UnpublishTracked, UnpublishUntracked, StatReturns, Abort, Without, PodStop,
         SidecarDies, diskVars, driverVars, IInv, TypeOK
<1>2. /\ mount[t] \in Conns /\ Owner(mount[t]) = t /\ conn \in [Conns -> ConnRecs]
      /\ mount[t] # mount[u] /\ conn[mount[t]].fd # u
  BY <1>0, <1>1, AloneHolds, MountsDiffer DEF IInv, TypeOK
<1>3. CASE UNCHANGED conn
  BY <1>1, <1>3, SilentFrame
<1>4. CASE Abort(u, Without(u)) \/ Abort(u, mount)
  <2>1. PICK m \in {mount, Without(u)} :
          conn' = Settled(Closed(conn, {mount[u]}), m) /\ m[t] = mount[t]
    BY <1>4 DEF Abort, Without, IInv, TypeOK
  <2>2. conn'[mount[t]] = conn[mount[t]]
    BY <1>2, <2>1, SettledIs
  <2> QED
    BY <1>1, <2>2, SilentFrame
<1>5. CASE conn' = Settled(Closed(conn, HeldBy(u)), mount)
  <2>1. mount[t] \notin HeldBy(u)
    BY <1>2 DEF HeldBy
  <2>2. conn'[mount[t]] = conn[mount[t]]
    BY <1>2, <1>5, <2>1, SettledIs
  <2> QED
    BY <1>1, <2>2, SilentFrame
<1> QED
  BY <1>3, <1>4, <1>5
     DEF Unpublish, UnpublishTracked, UnpublishUntracked, StatReturns, PodStop, SidecarDies

\* Nor does a handoff, whether it succeeds or fails, if it can say so.
LEMMA HandoffNotSilent ==
  ASSUME IInv, NEW t \in Targets, Alone(t),
         \/ \E d \in Targets : Connect(d)
         \/ \E c \in Conns : Handoff(c) \/ (RecordFails(c) /\ c # mount[t]),
         ~Silent(t), Silent(t)'
  PROVE  FALSE
<1>0. mount'[t] # None /\ UNCHANGED <<mount, call>>
  BY DEF Silent, Mounted, Connect, Handoff, HandoffFails, RecordFailure, RecordFails, DropSymlink,
         CloseListener, ClearPending, driverVars
<1>1. /\ mount[t] \in Conns /\ Owner(mount[t]) = t /\ conn \in [Conns -> ConnRecs]
      /\ \A d \in Targets : socket[d] = mount[t] => d = t
  BY <1>0, AloneHolds DEF IInv, TypeOK
<1> DEFINE a == mount[t]
<1>2. ASSUME NEW d \in Targets, Connect(d)
      PROVE  FALSE
  <2> DEFINE c == socket[d]
  <2>0. c \in Conns
    BY <1>2 DEF Connect
  <2>1. CASE c = a
    <3>1. d = t
      BY <1>1, <2>1
    <3>2. CASE conn' = [conn EXCEPT ![c].handoff = "unlink", ![c].fd = d]
      <4>1. conn'[a].fd = t
        BY <1>1, <2>1, <3>1, <3>2 DEF ConnRecs
      <4> QED
        BY <1>0, <4>1, ConnFacts DEF Silent
    <3>3. CASE files' = [files EXCEPT ![d] = @ \cup {"error"}]
      <4>1. "error" \in files'[t]
        BY <3>1, <3>3 DEF IInv, TypeOK
      <4> QED
        BY <4>1 DEF Silent, SidecarFailed
    <3> QED
      BY <1>2, <3>2, <3>3 DEF Connect
  <2>2. CASE c # a
    <3>1. conn'[a] = conn[a]
      BY <1>1, <1>2, <2>0, <2>2 DEF Connect
    <3>2. ("dir" \in files'[t] => "dir" \in files[t]) /\ files[t] \subseteq files'[t]
      BY <1>2 DEF Connect, IInv, TypeOK
    <3> QED
      BY <1>0, <3>1, <3>2, SilentFrame
  <2> QED
    BY <2>1, <2>2
<1>3. ASSUME NEW c \in Conns, Handoff(c)
      PROVE  FALSE
  <2>1. CASE HandoffFails(c)
    <3>1. files' = files /\ conn' = [conn EXCEPT ![c].handoff = "failed", ![c].fd = "closed"]
      BY <2>1 DEF HandoffFails, diskVars
    <3>2. c # a
      <4> SUFFICES ASSUME c = a PROVE FALSE
        OBVIOUS
      <4>1. conn'[a].handoff = "failed"
        BY <1>1, <3>1 DEF ConnRecs
      <4> QED
        BY <1>0, <4>1 DEF Silent
    <3>3. conn'[a] = conn[a]
      BY <1>1, <3>1, <3>2
    <3> QED
      BY <1>0, <3>1, <3>3, SilentFrame
  <2>2. CASE RecordFailure(c)
    <3>1. ("dir" \in files'[t] => "dir" \in files[t]) /\ files[t] \subseteq files'[t]
      BY <2>2, ConnFacts DEF RecordFailure, IInv, TypeOK
    <3>2. c # a
      <4> SUFFICES ASSUME c = a PROVE FALSE
        OBVIOUS
      <4>1. "dir" \in files[t] => "handoff-error" \in files'[t]
        BY <1>1, <2>2 DEF RecordFailure, IInv, TypeOK
      <4> QED
        BY <3>1, <4>1 DEF Silent, SidecarFailed
    <3>3. conn'[a] = conn[a]
      BY <1>1, <2>2, <3>2 DEF RecordFailure
    <3> QED
      BY <1>0, <3>1, <3>3, SilentFrame
  <2>3. CASE DropSymlink(c) \/ CloseListener(c)
    <3>1. files' = files /\ conn[c].handoff \notin {"accept", "failed"}
          /\ (conn' = [conn EXCEPT ![c].handoff = "close"] \/ conn' = [conn EXCEPT ![c].handoff = "clear"])
      BY <2>3 DEF DropSymlink, CloseListener
    <3>2. conn'[a].fd = conn[a].fd /\ (c # a => conn'[a] = conn[a])
      BY <1>1, <3>1 DEF ConnRecs
    <3> QED
      BY <1>0, <3>1, <3>2, SilentFrame
  <2>4. CASE ClearPending(c)
    <3> DEFINE new == [conn[c] EXCEPT !.handoff = "none"]
               cs == [conn EXCEPT ![c] = new]
    <3>1. /\ cs \in [Conns -> ConnRecs] /\ cs = [conn EXCEPT ![c].handoff = "none"]
          /\ cs[a].fd = conn[a].fd /\ (c # a => cs[a] = conn[a])
      BY <1>1 DEF ConnRecs
    <3>2. conn' = Settled(Closed(cs, {}), mount)
      BY <2>4, <3>1, ClosedNothing DEF ClearPending
    <3>3. conn[c].handoff = "clear" /\ files' = files
      BY <2>4 DEF ClearPending, diskVars
    <3> HIDE DEF cs
    <3>4. cs \in [Conns -> ConnRecs]
      BY <3>1
    <3>5. conn'[a] = cs[a]
      BY <1>1, <3>2, <3>4, SettledIs
    <3> QED
      BY <1>0, <3>1, <3>3, <3>5, SilentFrame
  <2> QED
    BY <1>3, <2>1, <2>2, <2>3, <2>4 DEF Handoff
<1>4. ASSUME NEW c \in Conns, RecordFails(c), c # a
      PROVE  FALSE
  <2>1. files' = files /\ conn'[a] = conn[a]
    BY <1>1, <1>4 DEF RecordFails, diskVars
  <2> QED
    BY <1>0, <2>1, SilentFrame
<1> QED
  BY <1>2, <1>3, <1>4

LEMMA NextNotSilent ==
  ASSUME IInv, [Next]_vars, NEW t \in Targets, Alone(t), kubelet[t] = "up",
         ~Silent(t), Silent(t)'
  PROVE  DriverRestart \/ SidecarDies(t) \/ RecordFails(mount[t]) \/ CleanupFails(t)
<1>1. ASSUME NEW u \in Targets, Publish(u) \/ PublishFails(u) \/ CleanupFails(u)
      PROVE  CleanupFails(t)
  BY <1>1, PublishNotSilent, CleanupFailsSilent
<1>2. ASSUME NEW u \in Targets, Unpublish(u) \/ PodStop(u) \/ SidecarDies(u)
      PROVE  SidecarDies(t)
  <2>1. CASE u # t
    BY <1>2, <2>1, OthersNotSilent
  <2>2. CASE u = t
    <3>1. ~UnpublishTracked(t) /\ ~UnpublishUntracked(t) /\ ~PodStop(t)
      BY DEF UnpublishTracked, UnpublishUntracked, PodStop
    <3>2. StatReturns(t) => mount'[t] = None
      BY DEF StatReturns, Abort, Without, IInv, TypeOK
    <3> QED
      BY <1>2, <2>2, <3>1, <3>2 DEF Unpublish, Silent, Mounted
  <2> QED
    BY <2>1, <2>2
<1>3. ASSUME NEW u \in Targets, EmptyDirReady(u) \/ Leave(u) \/ SidecarStart(u) \/ SidecarWedges(u)
      PROVE  FALSE
  <2>1. UNCHANGED <<mount, call, conn, files>>
    BY <1>3 DEF EmptyDirReady, Leave, SidecarStart, SidecarWedges, diskVars, driverVars
  <2> QED
    BY <2>1, SilentFrame
<1>4. ASSUME \/ \E d \in Targets : Connect(d)
             \/ \E c \in Conns : Handoff(c) \/ RecordFails(c)
      PROVE  RecordFails(mount[t])
  BY <1>4, HandoffNotSilent
<1>5. CASE UNCHANGED vars
  <2>1. UNCHANGED <<mount, call, conn, files>>
    BY <1>5 DEF vars, diskVars, driverVars
  <2> QED
    BY <2>1, SilentFrame
<1> QED
  BY <1>1, <1>2, <1>3, <1>4, <1>5 DEF Next

\* A mount that no other pod shares is without a daemon and every republish
\* finds it healthy only when the node plugin or the daemon itself was killed,
\* or when handling a failure failed in turn: the record of a handoff that
\* failed could not be written, or the mount of a publish that failed could not
\* be undone.
THEOREM SilentOnlyBySecondFailure == Spec => SilentOnlyUnrecorded
<1>1. IInv /\ [Next]_vars =>
        [\A t \in Targets :
           Alone(t) /\ kubelet[t] = "up" /\ ~Silent(t) /\ Silent(t)'
             => \/ DriverRestart \/ SidecarDies(t)
                \/ RecordFails(mount[t]) \/ CleanupFails(t)]_vars
  BY NextNotSilent
<1> QED
  BY <1>1, IInvAlways, PTL DEF Spec, SilentOnlyUnrecorded

-----------------------------------------------------------------------------
(* Handoffs. What pendingSidecarMinors protects, when the kernel does not  *)
(* give the minor of a detached mount away before its goroutine has ended  *)
(* (MinorReuse is FALSE): the handoffs of one target follow one another    *)
(* and a republish tears down no mount that is served.                     *)

\* The mark of a goroutine is its connection's alone.
MinorsDistinct ==
  \A c, e \in Conns : conn[c].minor # None /\ conn[c].minor = conn[e].minor => c = e
HandoffMarked == \A c \in Conns : conn[c].handoff # "none" => conn[c].minor \in pendingSidecarMinors

\* While kubelet keeps the volume, a goroutine serves the mount that is there.
HandoffMounted ==
  \A c \in Conns : conn[c].handoff # "none" /\ kubelet[Owner(c)] = "up" => mount[Owner(c)] = c

\* Nobody unpublishes what kubelet keeps.
StatLeaving == \A t \in Targets : call[t] = "stat" => kubelet[t] # "up"

\* From the clearing of the files until the daemon fails, volumeDir has no
\* error file.
Attempting(t) ==
  \/ call[t] \in Publishing \ {"files", "cleanup"}
  \/ /\ mount[t] \in Conns
     /\ \/ conn[mount[t]].fd = t
        \/ conn[mount[t]].fd = "driver" /\ conn[mount[t]].handoff = "accept"
Clean(t) == Alone(t) /\ kubelet[t] = "up" /\ Attempting(t) => ~SidecarFailed(t)
CleanAttempt == \A t \in Targets : Clean(t)

MarkInv == MinorsDistinct /\ HandoffMarked /\ HandoffMounted
HInv == IInv /\ MarkInv /\ StatLeaving /\ CleanAttempt

-----------------------------------------------------------------------------
(* Frames: what a step has to leave alone. *)

\* A step that starts no handoff, takes no mark away and detaches no mount
\* with a goroutine.
LEMMA MarkFrame ==
  ASSUME HInv,
         \A c \in Conns : conn'[c].minor \in {conn[c].minor, None},
         \A c \in Conns : conn'[c].handoff # "none" =>
           conn[c].handoff # "none" /\ conn'[c].minor = conn[c].minor,
         pendingSidecarMinors \subseteq pendingSidecarMinors',
         \A t \in Targets : kubelet'[t] = "up" => kubelet[t] = "up",
         \A c \in Conns : /\ conn'[c].handoff # "none" /\ kubelet'[Owner(c)] = "up"
                          /\ mount[Owner(c)] = c
                          => mount'[Owner(c)] = c
  PROVE  MarkInv'
<1>1. MinorsDistinct'
  BY DEF HInv, MarkInv, MinorsDistinct
<1>2. HandoffMarked'
  BY DEF HInv, MarkInv, HandoffMarked
<1>3. HandoffMounted'
  BY ConnFacts DEF HInv, MarkInv, HandoffMounted
<1> QED
  BY <1>1, <1>2, <1>3 DEF MarkInv

LEMMA MarkUnchanged ==
  ASSUME HInv, UNCHANGED <<conn, mount>>, pendingSidecarMinors \subseteq pendingSidecarMinors',
         \A t \in Targets : kubelet'[t] = "up" => kubelet[t] = "up"
  PROVE  MarkInv'
  BY MarkFrame

\* A step that begins no attempt at t and writes no error there.
LEMMA CleanFrame ==
  ASSUME HInv, NEW t \in Targets, UNCHANGED volumeID, kubelet'[t] = "up" => kubelet[t] = "up",
         Attempting(t)' => Attempting(t), ~SidecarFailed(t) => ~SidecarFailed(t)'
  PROVE  Clean(t)'
<1>1. Clean(t)
  BY DEF HInv, CleanAttempt
<1> QED
  BY <1>1 DEF Clean, Alone

LEMMA FailedFrame ==
  ASSUME NEW t, "dir" \in files[t] => "dir" \in files'[t],
         files'[t] \cap {"error", "handoff-error"} \subseteq files[t]
  PROVE  ~SidecarFailed(t) => ~SidecarFailed(t)'
  BY DEF SidecarFailed

LEMMA AttemptFrame ==
  ASSUME NEW t \in Targets, mount'[t] = mount[t],
         call'[t] \in Publishing \ {"files", "cleanup"} => call[t] \in Publishing \ {"files", "cleanup"},
         mount[t] \in Conns => conn'[mount[t]] = conn[mount[t]]
  PROVE  Attempting(t)' => Attempting(t)
  BY DEF Attempting

\* A step that concerns t in nothing.
LEMMA Untouched ==
  ASSUME HInv, NEW t \in Targets, UNCHANGED volumeID, kubelet'[t] = "up" => kubelet[t] = "up",
         mount'[t] = mount[t], call'[t] = call[t], files'[t] = files[t],
         mount[t] \in Conns => conn'[mount[t]] = conn[mount[t]]
  PROVE  Clean(t)'
  BY CleanFrame, FailedFrame, AttemptFrame

-----------------------------------------------------------------------------
(* The invariant, action by action. *)

LEMMA InitHInv == Init => HInv
<1> SUFFICES ASSUME Init PROVE HInv
  OBVIOUS
<1>1. IInv
  BY InitIInv
<1>2. MarkInv /\ StatLeaving
  BY ConnFacts DEF Init, MarkInv, MinorsDistinct, HandoffMarked, HandoffMounted, StatLeaving
<1>3. CleanAttempt
  BY ConnFacts DEF Init, CleanAttempt, Clean, Attempting, Publishing
<1> QED
  BY <1>1, <1>2, <1>3 DEF HInv

\* The steps of sidecarMount between the mount and the handoff.
LEMMA FilesHStep ==
  ASSUME HInv, NEW u \in Targets, WriteFiles(u) \/ RemoveSymlink(u) \/ RemoveSocket(u)
  PROVE  MarkInv' /\ StatLeaving' /\ CleanAttempt'
<1>0. /\ UNCHANGED <<volumeID, kubelet, mount, conn, pendingSidecarMinors>>
      /\ call[u] \in Publishing
      /\ call \in [Targets -> {"idle", "files", "unlink", "symlink", "unsocket", "listen", "cleanup", "stat"}]
      /\ files \in [Targets -> FileSets]
  BY DEF WriteFiles, RemoveSymlink, RemoveSocket, Publishing, HInv, IInv, TypeOK
<1>1. MarkInv'
  BY <1>0, MarkUnchanged
<1>2. \A t \in Targets : /\ t # u => call'[t] = call[t] /\ files'[t] = files[t]
                         /\ call'[u] \in Publishing
  BY <1>0 DEF WriteFiles, RemoveSymlink, RemoveSocket, Publishing
<1>3. StatLeaving'
  BY <1>0, <1>2 DEF HInv, StatLeaving, Publishing
<1>4. ASSUME NEW t \in Targets PROVE Clean(t)'
  <2>1. CASE t # u
    BY <1>0, <1>2, <2>1, Untouched
  <2>2. CASE t = u /\ WriteFiles(u)
    <3>1. "dir" \in files'[t] /\ files'[t] \cap {"error", "handoff-error"} = {}
      BY <1>0, <2>2 DEF WriteFiles, ClearedStatus
    <3> QED
      BY <3>1 DEF Clean, SidecarFailed
  <2>3. CASE t = u /\ (RemoveSymlink(u) \/ RemoveSocket(u))
    <3>1. Attempting(t) /\ UNCHANGED files
      BY <2>3 DEF RemoveSymlink, RemoveSocket, Attempting, Publishing
    <3> QED
      BY <1>0, <3>1, CleanFrame, FailedFrame
  <2> QED
    BY <2>1, <2>2, <2>3
<1> QED
  BY <1>1, <1>3, <1>4 DEF CleanAttempt

\* A connection of no target but t can be t's mount.
LEMMA OtherMount ==
  ASSUME HInv, NEW t \in Targets, NEW u \in Targets, t # u
  PROVE  mount[t] \in Conns => mount[t] # mount[u] /\ Owner(mount[t]) = t
  BY MountsDiffer, ConnFacts DEF HInv, IInv, ConnInv, MountOwned

\* sidecarMount gives up, and undoes its mount.
LEMMA CleanupHStep ==
  ASSUME HInv, NEW u \in Targets, Cleanup(u)
  PROVE  MarkInv' /\ StatLeaving' /\ CleanAttempt'
<1>u. UNCHANGED <<volumeID, kubelet, files, pendingSidecarMinors>>
  BY DEF Cleanup, diskVars
<1>0. /\ mount[u] \in Conns /\ conn[mount[u]].handoff = "none"
      /\ \A c \in Conns : conn'[c] = IF c = mount[u] THEN Unused ELSE conn[c]
      /\ \A t \in Targets : mount'[t] = IF t = u THEN None ELSE mount[t]
      /\ \A t \in Targets : call'[t] = IF t = u THEN "idle" ELSE call[t]
  BY DEF Cleanup, Without, HInv, IInv, TypeOK, ConnInv, PublishingHolds, Publishing
<1>1. \A c \in Conns : conn[c].handoff # "none" /\ mount[Owner(c)] = c => Owner(c) # u
  BY <1>0
<1>2. MarkInv'
  BY <1>u, <1>0, <1>1, MarkFrame, ConnFacts
<1>3. StatLeaving'
  BY <1>u, <1>0 DEF HInv, StatLeaving
<1>4. ASSUME NEW t \in Targets PROVE Clean(t)'
  <2>1. CASE t # u
    BY <1>u, <1>0, <2>1, Untouched, OtherMount
  <2>2. CASE t = u
    BY <1>0, <2>2, ConnFacts DEF Clean, Attempting, Publishing
  <2> QED
    BY <2>1, <2>2
<1> QED
  BY <1>2, <1>3, <1>4 DEF CleanAttempt

LEMMA CleanupFailsHStep ==
  ASSUME HInv, NEW u \in Targets, CleanupFails(u)
  PROVE  MarkInv' /\ StatLeaving' /\ CleanAttempt'
<1>u. UNCHANGED <<volumeID, kubelet, mount, files, pendingSidecarMinors>>
  BY DEF CleanupFails, diskVars
<1> DEFINE c == mount[u]
           new == [conn[c] EXCEPT !.fd = "closed"]
<1>0. c \in Conns /\ conn[c] \in ConnRecs /\ conn[c].handoff = "none"
  BY DEF CleanupFails, HInv, IInv, TypeOK, ConnInv, PublishingHolds, Publishing
<1>1. /\ new.fd = "closed" /\ new.handoff = "none" /\ new.minor = conn[c].minor
      /\ \A e \in Conns : conn'[e] = IF e = c THEN new ELSE conn[e]
      /\ \A t \in Targets : call'[t] = IF t = u THEN "idle" ELSE call[t]
  BY <1>0 DEF CleanupFails, ConnRecs, HInv, IInv, TypeOK
<1> HIDE DEF new
<1>2. MarkInv'
  BY <1>u, <1>0, <1>1, MarkFrame
<1>3. StatLeaving'
  BY <1>u, <1>1 DEF HInv, StatLeaving
<1>4. ASSUME NEW t \in Targets PROVE Clean(t)'
  <2>1. CASE t # u
    BY <1>u, <1>1, <2>1, Untouched, OtherMount
  <2>2. CASE t = u
    <3>1. conn'[mount'[t]].fd = "closed" /\ call'[t] = "idle"
      BY <1>u, <1>0, <1>1, <2>2
    <3> QED
      BY <3>1, ConnFacts DEF Clean, Attempting, Publishing
  <2> QED
    BY <2>1, <2>2
<1> QED
  BY <1>2, <1>3, <1>4 DEF CleanAttempt

\* sidecarMount fails.
LEMMA GiveUpHStep ==
  ASSUME HInv, NEW u \in Targets, GiveUp(u), UNCHANGED <<volumeID, kubelet, files, pendingSidecarMinors>>
  PROVE  MarkInv' /\ StatLeaving' /\ CleanAttempt'
<1>1. /\ UNCHANGED <<mount, conn>>
      /\ \A t \in Targets : call'[t] = IF t = u THEN "cleanup" ELSE call[t]
  BY DEF GiveUp, HInv, IInv, TypeOK
<1>2. MarkInv'
  BY <1>1, MarkUnchanged
<1>3. StatLeaving'
  BY <1>1 DEF HInv, StatLeaving
<1>4. ASSUME NEW t \in Targets PROVE Clean(t)'
  <2>1. call'[t] \in Publishing \ {"files", "cleanup"} => call[t] \in Publishing \ {"files", "cleanup"}
    BY <1>1
  <2> QED
    BY <1>1, <2>1, CleanFrame, FailedFrame, AttemptFrame
<1> QED
  BY <1>2, <1>3, <1>4 DEF CleanAttempt

LEMMA SymlinkHStep ==
  ASSUME HInv, NEW u \in Targets, Symlink(u) \/ PublishFails(u)
  PROVE  MarkInv' /\ StatLeaving' /\ CleanAttempt'
<1>0. /\ UNCHANGED <<volumeID, kubelet, files, pendingSidecarMinors>> /\ call[u] \in Publishing
  BY DEF Symlink, PublishFails, Publishing, diskVars
<1>1. CASE GiveUp(u)
  BY <1>0, <1>1, GiveUpHStep
<1>2. CASE Symlink(u) /\ call' = [call EXCEPT ![u] = "unsocket"] /\ UNCHANGED <<mount, conn>>
  <2>1. /\ call[u] = "symlink"
        /\ \A t \in Targets : call'[t] = IF t = u THEN "unsocket" ELSE call[t]
    BY <1>2 DEF Symlink, HInv, IInv, TypeOK
  <2>2. StatLeaving'
    BY <1>0, <2>1 DEF HInv, StatLeaving
  <2>3. ASSUME NEW t \in Targets PROVE Clean(t)'
    BY <1>0, <1>2, <2>1, CleanFrame, FailedFrame, AttemptFrame DEF Publishing
  <2> QED
    BY <1>0, <1>2, <2>2, <2>3, MarkUnchanged DEF CleanAttempt
<1> QED
  BY <1>1, <1>2 DEF Symlink, PublishFails

\* NodePublishVolume mounts where no goroutine is left, with a new minor.
LEMMA PublishMountHStep ==
  ASSUME HInv, ~MinorReuse, NEW u \in Targets, PublishMount(u)
  PROVE  MarkInv' /\ StatLeaving' /\ CleanAttempt'
<1>0. UNCHANGED <<volumeID, kubelet, files, pendingSidecarMinors>>
  BY DEF PublishMount
<1>1. CASE UNCHANGED <<call, mount, conn>>
  <2>1. StatLeaving'
    BY <1>0, <1>1 DEF HInv, StatLeaving
  <2> QED
    BY <1>0, <1>1, <2>1, MarkUnchanged, Untouched DEF CleanAttempt
<1>2. CASE emptyDir[u] /\ ~UNCHANGED <<call, mount, conn>>
  <2> DEFINE c == CHOOSE c \in FreeConns(u) : TRUE
             m == CHOOSE m \in FreeMinors : TRUE
             new == [Unused EXCEPT !.fd = "driver", !.minor = m]
  <2>0. /\ FreeMinors # {} /\ FreeConns(u) # {}
        /\ mount' = [mount EXCEPT ![u] = c] /\ conn' = [conn EXCEPT ![c] = new]
        /\ call' = [call EXCEPT ![u] = "files"]
        /\ mount[u] = None /\ kubelet[u] = "up"
    BY <1>2 DEF PublishMount, Up, Mounted
  <2>1. c \in {u} \X Slots
    BY <2>0 DEF FreeConns
  <2>2. c \in Conns /\ Owner(c) = u
    BY <2>1 DEF Conns, Owner
  <2>3. \A e \in Conns : conn[e].minor # m
    BY <2>0 DEF FreeMinors
  <2>4. new.fd = "driver" /\ new.minor = m /\ new.handoff = "none"
    BY DEF Unused
  <2> HIDE DEF c, m, new
  <2>5. /\ \A e \in Conns : conn'[e] = IF e = c THEN new ELSE conn[e]
        /\ \A t \in Targets : mount'[t] = IF t = u THEN c ELSE mount[t]
        /\ \A t \in Targets : call'[t] = IF t = u THEN "files" ELSE call[t]
    BY <2>0, <2>2 DEF HInv, IInv, TypeOK
  <2>6. MinorsDistinct'
    BY <2>3, <2>4, <2>5 DEF HInv, MarkInv, MinorsDistinct
  <2>7. HandoffMarked'
    BY <1>0, <2>4, <2>5 DEF HInv, MarkInv, HandoffMarked
  <2>8. HandoffMounted'
    BY <1>0, <2>0, <2>2, <2>4, <2>5, ConnFacts DEF HInv, MarkInv, HandoffMounted
  <2>9. StatLeaving'
    BY <1>0, <2>5 DEF HInv, StatLeaving
  <2>10. ASSUME NEW t \in Targets PROVE Clean(t)'
    <3>1. CASE t # u
      <4>1. mount[t] \in Conns => mount[t] # c
        BY <2>2, <3>1, OtherMount
      <4> QED
        BY <1>0, <2>5, <3>1, <4>1, Untouched
    <3>2. CASE t = u
      BY <2>2, <2>4, <2>5, <3>2, ConnFacts DEF Clean, Attempting, Publishing
    <3> QED
      BY <3>1, <3>2
  <2> QED
    BY <2>6, <2>7, <2>8, <2>9, <2>10 DEF MarkInv, CleanAttempt
<1> QED
  BY <1>1, <1>2 DEF PublishMount

\* The handoff starts on the mount sidecarMount has just made.
LEMMA ListenHStep ==
  ASSUME HInv, NEW u \in Targets, Listen(u)
  PROVE  MarkInv' /\ StatLeaving' /\ CleanAttempt'
<1>0. UNCHANGED <<volumeID, kubelet, files>> /\ call[u] = "listen"
  BY DEF Listen
<1>1. CASE GiveUp(u) /\ UNCHANGED pendingSidecarMinors
  BY <1>0, <1>1, GiveUpHStep
<1>2. CASE /\ pendingSidecarMinors' = pendingSidecarMinors \cup {conn[mount[u]].minor}
           /\ conn' = [conn EXCEPT ![mount[u]].handoff = "accept"]
           /\ call' = [call EXCEPT ![u] = "idle"]
           /\ UNCHANGED mount
  <2> DEFINE c == mount[u]
             new == [conn[c] EXCEPT !.handoff = "accept"]
  <2>1. c \in Conns /\ Owner(c) = u /\ conn[c] \in ConnRecs
    BY <1>0, ConnFacts DEF HInv, IInv, TypeOK, ConnInv, PublishingHolds, Publishing, MountOwned
  <2>2. new.minor = conn[c].minor /\ new.handoff = "accept" /\ conn' = [conn EXCEPT ![c] = new]
    BY <1>2, <2>1 DEF ConnRecs
  <2>3. /\ \A e \in Conns : conn'[e] = IF e = c THEN new ELSE conn[e]
        /\ \A t \in Targets : call'[t] = IF t = u THEN "idle" ELSE call[t]
    BY <1>2, <2>1, <2>2 DEF HInv, IInv, TypeOK
  <2> HIDE DEF c, new
  <2>4. MinorsDistinct'
    BY <2>2, <2>3 DEF HInv, MarkInv, MinorsDistinct
  <2>5. HandoffMarked'
    BY <1>2, <2>1, <2>2, <2>3 DEF c, HInv, MarkInv, HandoffMarked
  <2>6. HandoffMounted'
    BY <1>0, <1>2, <2>1, <2>2, <2>3 DEF c, HInv, MarkInv, HandoffMounted
  <2>7. StatLeaving'
    BY <1>0, <2>3 DEF HInv, StatLeaving
  <2>8. ASSUME NEW t \in Targets PROVE Clean(t)'
    <3>1. CASE t # u
      BY <1>0, <1>2, <2>3, <3>1, Untouched, OtherMount DEF c
    <3>2. CASE t = u
      BY <1>0, <3>2, CleanFrame, FailedFrame DEF Attempting, Publishing
    <3> QED
      BY <3>1, <3>2
  <2> QED
    BY <2>4, <2>5, <2>6, <2>7, <2>8 DEF MarkInv, CleanAttempt
<1> QED
  BY <1>1, <1>2 DEF Listen

\* A republish writes no error file.
LEMMA RefreshedClean ==
  ASSUME HInv, NEW u \in Targets, files' \in {files, RefreshedToken(u)}, NEW t \in Targets
  PROVE  (~SidecarFailed(t) => ~SidecarFailed(t)') /\ (SidecarFailed(t) => SidecarFailed(t)')
<1>1. /\ "dir" \in files[t] <=> "dir" \in files'[t]
      /\ files'[t] \cap {"error", "handoff-error"} = files[t] \cap {"error", "handoff-error"}
  BY DEF RefreshedToken, HInv, IInv, TypeOK
<1> QED
  BY <1>1 DEF SidecarFailed

LEMMA RepublishHStep ==
  ASSUME HInv, NEW u \in Targets, Republish(u)
  PROVE  MarkInv' /\ StatLeaving' /\ CleanAttempt'
<1>0. /\ UNCHANGED <<volumeID, kubelet, mount, conn, call, pendingSidecarMinors>>
      /\ files' \in {files, RefreshedToken(u)}
  BY DEF Republish
<1>1. StatLeaving'
  BY <1>0 DEF HInv, StatLeaving
<1>2. ASSUME NEW t \in Targets PROVE Clean(t)'
  BY <1>0, CleanFrame, AttemptFrame, RefreshedClean
<1> QED
  BY <1>0, <1>1, <1>2, MarkUnchanged DEF CleanAttempt

\* What abortFuseConnection does to the other targets and to the goroutines.
LEMMA AbortIs ==
  ASSUME HInv, NEW u \in Targets, Abort(u, Without(u)) \/ Abort(u, mount)
  PROVE  /\ \A c \in Conns : /\ conn'[c].handoff = conn[c].handoff
                             /\ conn'[c].minor \in {conn[c].minor, None}
                             /\ conn[c].handoff # "none" => conn'[c].minor = conn[c].minor
         /\ \A t \in Targets : t # u =>
              mount'[t] = mount[t] /\ (mount[t] \in Conns => conn'[mount[t]] = conn[mount[t]])
         /\ mount'[u] \in Conns =>
              mount'[u] = mount[u] /\ conn'[mount[u]].fd \notin {"driver"} \cup Targets
<1>0. conn \in [Conns -> ConnRecs] /\ mount \in [Targets -> Conns \cup {None}]
  BY DEF HInv, IInv, TypeOK
<1>1. PICK m \in {mount, Without(u)} : mount' = m /\ conn' = Settled(Closed(conn, {mount[u]}), m)
  BY DEF Abort
<1>2. \A t \in Targets : t # u => mount'[t] = mount[t]
  BY <1>0, <1>1 DEF Without
<1>3. \A c \in Conns : /\ conn'[c].handoff = conn[c].handoff
                       /\ conn'[c].minor \in {conn[c].minor, None}
                       /\ conn[c].handoff # "none" => conn'[c].minor = conn[c].minor
  BY <1>0, <1>1, SettledIs
<1>4. ASSUME NEW t \in Targets, t # u, mount[t] \in Conns
      PROVE  conn'[mount[t]] = conn[mount[t]]
  <2>1. mount[t] # mount[u] /\ Owner(mount[t]) = t
    BY <1>4, OtherMount
  <2> QED
    BY <1>0, <1>1, <1>2, <1>4, <2>1, SettledIs
<1>5. ASSUME mount'[u] \in Conns
      PROVE  mount'[u] = mount[u] /\ conn'[mount[u]].fd \notin {"driver"} \cup Targets
  <2>1. mount'[u] = mount[u] /\ mount[u] \in Conns
    BY <1>0, <1>1, <1>5, ConnFacts DEF Without
  <2>2. Owner(mount[u]) = u
    BY <2>1, ConnFacts DEF HInv, IInv, ConnInv, MountOwned
  <2> QED
    BY <1>0, <1>1, <2>1, <2>2, SettledIs
<1> QED
  BY <1>2, <1>3, <1>4, <1>5

\* The pending guard of NodePublishVolume: a mount that is torn down has no
\* goroutine, and a target that stays mounted has no attempt.
LEMMA RepublishUnhealthyHStep ==
  ASSUME HInv, NEW u \in Targets, RepublishUnhealthy(u)
  PROVE  MarkInv' /\ StatLeaving' /\ CleanAttempt'
<1>0. /\ UNCHANGED <<volumeID, kubelet, call, pendingSidecarMinors>>
      /\ files' \in {files, RefreshedToken(u)}
      /\ Abort(u, Without(u)) \/ Abort(u, mount)
      /\ call[u] = "idle" /\ mount[u] \in Conns /\ SidecarFailed(u)
      /\ conn[mount[u]].minor \notin pendingSidecarMinors
  BY DEF RepublishUnhealthy, Up, Mounted, sidecarHandoffPending, HInv, IInv, TypeOK
<1>1. conn[mount[u]].handoff = "none"
  BY <1>0 DEF HInv, MarkInv, HandoffMarked
<1>2. MarkInv'
  BY <1>0, <1>1, AbortIs, MarkFrame, ConnFacts
<1>3. StatLeaving'
  BY <1>0 DEF HInv, StatLeaving
<1>4. ASSUME NEW t \in Targets PROVE Clean(t)'
  <2>1. CASE t # u
    BY <1>0, <2>1, AbortIs, CleanFrame, AttemptFrame, RefreshedClean
  <2>2. CASE t = u
    <3>1. ~Attempting(t)'
      BY <1>0, <2>2, AbortIs, ConnFacts DEF Attempting, Publishing
    <3> QED
      BY <3>1 DEF Clean
  <2> QED
    BY <2>1, <2>2
<1> QED
  BY <1>2, <1>3, <1>4 DEF CleanAttempt

\* NodeUnpublishVolume works on targets kubelet has left.
LEMMA UnpublishHStep ==
  ASSUME HInv, NEW u \in Targets, Unpublish(u)
  PROVE  MarkInv' /\ StatLeaving' /\ CleanAttempt'
<1>0. /\ UNCHANGED <<volumeID, files, pendingSidecarMinors>>
      /\ kubelet[u] # "up" /\ kubelet'[u] # "up"
      /\ \A t \in Targets \ {u} : kubelet'[t] = kubelet[t] /\ call'[t] = call[t]
  BY DEF Unpublish, UnpublishTracked, UnpublishUntracked, StatReturns, Gone, diskVars,
         HInv, IInv, TypeOK, StatLeaving
<1>1. CASE UNCHANGED <<mount, conn>>
  <2>1. MarkInv'
    BY <1>0, <1>1, MarkUnchanged
  <2>2. StatLeaving'
    BY <1>0 DEF HInv, StatLeaving
  <2>3. ASSUME NEW t \in Targets PROVE Clean(t)'
    <3>1. CASE t # u
      BY <1>0, <1>1, <3>1, Untouched
    <3> QED
      BY <1>0, <3>1 DEF Clean
  <2> QED
    BY <2>1, <2>2, <2>3 DEF CleanAttempt
<1>2. CASE Abort(u, Without(u)) \/ Abort(u, mount)
  <2>1. MarkInv'
    BY <1>0, <1>2, AbortIs, MarkFrame, ConnFacts
  <2>2. StatLeaving'
    BY <1>0 DEF HInv, StatLeaving
  <2>3. ASSUME NEW t \in Targets PROVE Clean(t)'
    <3>1. CASE t # u
      BY <1>0, <1>2, <3>1, AbortIs, Untouched
    <3> QED
      BY <1>0, <3>1 DEF Clean
  <2> QED
    BY <2>1, <2>2, <2>3 DEF CleanAttempt
<1> QED
  BY <1>1, <1>2 DEF Unpublish, UnpublishTracked, UnpublishUntracked, StatReturns

\* Steps that touch neither mounts, goroutines nor files.
LEMMA SmallHSteps ==
  ASSUME HInv, UNCHANGED <<volumeID, mount, conn, files, call, pendingSidecarMinors>>,
         \A t \in Targets : kubelet'[t] = "up" => kubelet[t] = "up"
  PROVE  MarkInv' /\ StatLeaving' /\ CleanAttempt'
<1>1. StatLeaving'
  BY DEF HInv, StatLeaving
<1> QED
  BY <1>1, MarkUnchanged, Untouched DEF CleanAttempt

\* The daemon in u ends: of the targets that are alone, only u loses it.
LEMMA DaemonEndsH ==
  ASSUME HInv, NEW u \in Targets, conn' = Settled(Closed(conn, HeldBy(u)), mount),
         UNCHANGED <<volumeID, kubelet, mount, call, pendingSidecarMinors>>,
         \A t \in Targets : t # u => files'[t] = files[t],
         kubelet[u] = "up" => sidecar[u] = "serving"
  PROVE  MarkInv' /\ StatLeaving' /\ CleanAttempt'
<1>0. conn \in [Conns -> ConnRecs] /\ mount \in [Targets -> Conns \cup {None}]
  BY DEF HInv, IInv, TypeOK
<1>1. \A c \in Conns : /\ conn'[c].handoff = conn[c].handoff
                       /\ conn'[c].minor \in {conn[c].minor, None}
                       /\ conn[c].handoff # "none" => conn'[c].minor = conn[c].minor
  BY <1>0, SettledIs
<1>2. MarkInv'
  BY <1>1, MarkFrame
<1>3. StatLeaving'
  BY DEF HInv, StatLeaving
<1>4. ASSUME NEW t \in Targets, Alone(t), kubelet[t] = "up" PROVE Clean(t)'
  <2>1. CASE t # u
    <3>1. ASSUME mount[t] \in Conns PROVE conn'[mount[t]] = conn[mount[t]]
      <4>1. conn[mount[t]].fd # u /\ Owner(mount[t]) = t
        BY <1>4, <2>1, <3>1, AloneHolds, ConnFacts DEF HInv
      <4>2. mount[t] \notin HeldBy(u)
        BY <4>1 DEF HeldBy
      <4> QED
        BY <1>0, <3>1, <4>1, <4>2, SettledIs
    <3> QED
      BY <2>1, <3>1, Untouched
  <2>2. CASE t = u
    <3>1. PICK c \in Conns : conn[c].fd = t
      BY <1>4, <2>2 DEF HInv, IInv, ConnInv, DaemonHasFd, Daemon
    <3>2. Owner(c) = t /\ mount[t] = c
      BY <1>4, <3>1, ConnFacts DEF HInv, IInv, ConnInv, FdWithinVolume, FdMounted, Alone
    <3>3. c \in HeldBy(u)
      BY <2>2, <3>1 DEF HeldBy
    <3>4. conn'[c].fd \notin {"driver"} \cup Targets
      BY <1>0, <3>1, <3>3, SettledIs
    <3>5. call[t] \notin Publishing
      BY <3>1, <3>2, ConnFacts DEF HInv, IInv, ConnInv, PublishingHolds
    <3>6. ~Attempting(t)'
      BY <3>2, <3>4, <3>5 DEF Attempting
    <3> QED
      BY <3>6 DEF Clean
  <2> QED
    BY <2>1, <2>2
<1>5. CleanAttempt'
  BY <1>4 DEF CleanAttempt, Clean, Alone
<1> QED
  BY <1>2, <1>3, <1>5

\* The driver's part of a handoff: c is the mount of a target kubelet keeps.
LEMMA HandoffOfMount ==
  ASSUME HInv, NEW c \in Conns, conn[c].handoff # "none"
  PROVE  /\ Owner(c) \in Targets
         /\ kubelet[Owner(c)] = "up" => mount[Owner(c)] = c
         /\ \A t \in Targets : mount[t] = c => t = Owner(c) /\ call[t] \notin Publishing
<1>1. \A t \in Targets : mount[t] = c => t = Owner(c)
  BY ConnFacts DEF HInv, IInv, ConnInv, MountOwned
<1>2. \A t \in Targets : mount[t] = c => call[t] \notin Publishing
  BY DEF HInv, IInv, ConnInv, PublishingHolds
<1> QED
  BY <1>1, <1>2, ConnFacts DEF HInv, MarkInv, HandoffMounted

\* A goroutine goes from one of its points to the next.
LEMMA HandoffMovesH ==
  ASSUME HInv, NEW c \in Conns, conn[c].handoff # "none",
         \A e \in Conns : e # c => conn'[e] = conn[e],
         conn'[c].minor = conn[c].minor, conn'[c].handoff # "accept",
         \/ conn'[c].fd \in {conn[c].fd, "closed"}
         \/ conn[c].fd = "driver" /\ conn[c].handoff = "accept",
         UNCHANGED <<volumeID, kubelet, mount, call, pendingSidecarMinors>>,
         \A t \in Targets : /\ files[t] \subseteq files'[t]
                            /\ \/ files'[t] = files[t]
                               \/ Alone(t) /\ kubelet[t] = "up" => mount[t] = c /\ conn'[c].fd = "closed"
  PROVE  MarkInv' /\ StatLeaving' /\ CleanAttempt'
<1>1. MarkInv'
  BY MarkFrame
<1>2. StatLeaving'
  BY DEF HInv, StatLeaving
<1>3. ASSUME NEW t \in Targets, Alone(t), kubelet[t] = "up" PROVE Clean(t)'
  <2>1. CASE mount[t] = c /\ conn'[c].fd = "closed"
    <3>1. ~Attempting(t)'
      BY <2>1, HandoffOfMount, ConnFacts DEF Attempting
    <3> QED
      BY <3>1 DEF Clean
  <2>2. CASE files'[t] = files[t] /\ ~(mount[t] = c /\ conn'[c].fd = "closed")
    <3>1. Attempting(t)' => Attempting(t)
      BY <2>2 DEF Attempting
    <3> QED
      BY <2>2, <3>1, CleanFrame, FailedFrame
  <2> QED
    BY <1>3, <2>1, <2>2
<1>4. CleanAttempt'
  BY <1>3 DEF CleanAttempt, Clean, Alone
<1> QED
  BY <1>1, <1>2, <1>4

LEMMA ConnectHStep ==
  ASSUME HInv, NEW d \in Targets, Connect(d)
  PROVE  MarkInv' /\ StatLeaving' /\ CleanAttempt'
<1> DEFINE c == socket[d]
<1>0. /\ c \in Conns /\ conn[c].handoff = "accept" /\ conn[c] \in ConnRecs
      /\ volumeID[Owner(c)] = volumeID[d]
      /\ UNCHANGED <<volumeID, kubelet, mount, call, pendingSidecarMinors>>
  BY DEF Connect, driverVars, HInv, IInv, TypeOK, DiskInv, SocketOwned
<1>1. CASE /\ conn[c].fd = "closed"
           /\ conn' = [conn EXCEPT ![c].handoff = "unlink"]
           /\ files' = [files EXCEPT ![d] = @ \cup {"error"}]
  <2> DEFINE new == [conn[c] EXCEPT !.handoff = "unlink"]
  <2>1. /\ new.minor = conn[c].minor /\ new.handoff = "unlink" /\ new.fd = "closed"
        /\ \A e \in Conns : conn'[e] = IF e = c THEN new ELSE conn[e]
    BY <1>0, <1>1 DEF HInv, IInv, TypeOK, ConnRecs
  <2>2. /\ \A t \in Targets : files[t] \subseteq files'[t]
        /\ \A t \in Targets : t # d => files'[t] = files[t]
    BY <1>1 DEF HInv, IInv, TypeOK
  <2>3. Alone(d) /\ kubelet[d] = "up" => mount[d] = c
    BY <1>0, HandoffOfMount DEF Alone
  <2> HIDE DEF new, c
  <2> QED
    BY <1>0, <1>1, <2>1, <2>2, <2>3, HandoffMovesH
<1>2. CASE /\ conn[c].fd = "driver"
           /\ conn' = [conn EXCEPT ![c].handoff = "unlink", ![c].fd = d]
           /\ UNCHANGED files
  <2> DEFINE new == [conn[c] EXCEPT !.handoff = "unlink", !.fd = d]
  <2>1. /\ new.minor = conn[c].minor /\ new.handoff = "unlink"
        /\ \A e \in Conns : conn'[e] = IF e = c THEN new ELSE conn[e]
    BY <1>0, <1>2 DEF HInv, IInv, TypeOK, ConnRecs
  <2> HIDE DEF new, c
  <2> QED
    BY <1>0, <1>2, <2>1, HandoffMovesH
<1> QED
  BY <1>1, <1>2 DEF Connect

LEMMA GoroutineHStep ==
  ASSUME HInv, NEW c \in Conns,
         HandoffFails(c) \/ RecordFailure(c) \/ RecordFails(c) \/ DropSymlink(c) \/ CloseListener(c)
  PROVE  MarkInv' /\ StatLeaving' /\ CleanAttempt'
<1>0. /\ UNCHANGED <<volumeID, kubelet, mount, call, pendingSidecarMinors>>
      /\ conn[c].handoff # "none" /\ conn[c] \in ConnRecs
  BY DEF HandoffFails, RecordFailure, RecordFails, DropSymlink, CloseListener, driverVars, HInv, IInv, TypeOK
<1>1. CASE HandoffFails(c)
  <2> DEFINE new == [conn[c] EXCEPT !.handoff = "failed", !.fd = "closed"]
  <2>1. /\ new.minor = conn[c].minor /\ new.handoff = "failed" /\ new.fd = "closed"
        /\ \A e \in Conns : conn'[e] = IF e = c THEN new ELSE conn[e]
        /\ UNCHANGED files
    BY <1>0, <1>1 DEF HInv, IInv, TypeOK, ConnRecs, HandoffFails, diskVars
  <2> HIDE DEF new
  <2> QED
    BY <1>0, <2>1, HandoffMovesH
<1>2. CASE RecordFailure(c)
  <2> DEFINE new == [conn[c] EXCEPT !.handoff = "unlink"]
  <2>1. /\ new.minor = conn[c].minor /\ new.handoff = "unlink" /\ new.fd = conn[c].fd
        /\ \A e \in Conns : conn'[e] = IF e = c THEN new ELSE conn[e]
    BY <1>0, <1>2 DEF HInv, IInv, TypeOK, ConnRecs, RecordFailure
  <2>2. conn[c].fd = "closed"
    BY <1>2 DEF RecordFailure, HInv, IInv, ConnInv, HandoffFd
  <2>3. /\ \A t \in Targets : files[t] \subseteq files'[t]
        /\ \A t \in Targets : t # Owner(c) => files'[t] = files[t]
    BY <1>2, ConnFacts DEF RecordFailure, HInv, IInv, TypeOK
  <2> HIDE DEF new
  <2> QED
    BY <1>0, <2>1, <2>2, <2>3, HandoffOfMount, HandoffMovesH
<1>3. CASE RecordFails(c) \/ DropSymlink(c) \/ CloseListener(c)
  <2>1. PICK h \in {"unlink", "close", "clear"} :
          conn' = [conn EXCEPT ![c].handoff = h] /\ UNCHANGED files
    BY <1>3 DEF RecordFails, DropSymlink, CloseListener, diskVars
  <2> DEFINE new == [conn[c] EXCEPT !.handoff = h]
  <2>2. /\ new.minor = conn[c].minor /\ new.handoff = h /\ new.fd = conn[c].fd
        /\ \A e \in Conns : conn'[e] = IF e = c THEN new ELSE conn[e]
        /\ UNCHANGED files
    BY <1>0, <2>1 DEF HInv, IInv, TypeOK, ConnRecs
  <2> HIDE DEF new
  <2> QED
    BY <1>0, <2>2, HandoffMovesH
<1> QED
  BY <1>1, <1>2, <1>3

\* The end of a goroutine takes away its own mark and no other.
LEMMA ClearPendingHStep ==
  ASSUME HInv, NEW c \in Conns, ClearPending(c)
  PROVE  MarkInv' /\ StatLeaving' /\ CleanAttempt'
<1>0. /\ UNCHANGED <<volumeID, kubelet, mount, files, call>>
      /\ pendingSidecarMinors' = pendingSidecarMinors \ {conn[c].minor}
      /\ conn[c].handoff = "clear"
  BY DEF ClearPending, diskVars
<1> DEFINE new == [conn[c] EXCEPT !.handoff = "none"]
           cs == [conn EXCEPT ![c] = new]
<1>1. /\ new.minor = conn[c].minor /\ new.handoff = "none" /\ new.fd = conn[c].fd
      /\ cs = [conn EXCEPT ![c].handoff = "none"]
      /\ cs \in [Conns -> ConnRecs]
  BY DEF HInv, IInv, TypeOK, ConnRecs
<1>2. conn' = Settled(Closed(cs, {}), mount)
  BY <1>1, ClosedNothing DEF ClearPending
<1>3. \A e \in Conns : cs[e] = IF e = c THEN new ELSE conn[e]
  BY DEF HInv, IInv, TypeOK
<1> HIDE DEF cs, new
<1>4. \A e \in Conns : /\ conn'[e].handoff = cs[e].handoff
                       /\ conn'[e].minor \in {cs[e].minor, None}
                       /\ cs[e].handoff # "none" => conn'[e].minor = cs[e].minor
                       /\ mount[Owner(e)] = e => conn'[e] = cs[e]
  <2>1. cs \in [Conns -> ConnRecs]
    BY <1>1
  <2> QED
    BY <1>2, <2>1, SettledIs
<1>5. \A e \in Conns : /\ conn'[e].minor \in {conn[e].minor, None}
                       /\ conn'[e].handoff # "none" =>
                            e # c /\ conn[e].handoff # "none" /\ conn'[e].minor = conn[e].minor
  BY <1>1, <1>3, <1>4
<1>6. MinorsDistinct'
  BY <1>5 DEF HInv, MarkInv, MinorsDistinct
<1>7. HandoffMarked'
  <2> SUFFICES ASSUME NEW e \in Conns, conn'[e].handoff # "none"
               PROVE  conn'[e].minor \in pendingSidecarMinors'
    BY DEF HandoffMarked
  <2>1. e # c /\ conn'[e].minor = conn[e].minor /\ conn[e].minor \in pendingSidecarMinors
    BY <1>5 DEF HInv, MarkInv, HandoffMarked
  <2>2. conn[e].minor # None
    BY <2>1, SidecarAssumption DEF HInv, IInv, TypeOK
  <2>3. conn[e].minor # conn[c].minor
    BY <2>1, <2>2 DEF HInv, MarkInv, MinorsDistinct
  <2> QED
    BY <1>0, <2>1, <2>3
<1>8. HandoffMounted'
  BY <1>0, <1>5, ConnFacts DEF HInv, MarkInv, HandoffMounted
<1>9. StatLeaving'
  BY <1>0 DEF HInv, StatLeaving
<1>10. ASSUME NEW t \in Targets PROVE Clean(t)'
  <2>1. mount[t] \in Conns => Owner(mount[t]) = t
    BY ConnFacts DEF HInv, IInv, ConnInv, MountOwned
  <2>2. Attempting(t)' => Attempting(t)
    BY <1>0, <1>1, <1>3, <1>4, <2>1 DEF Attempting
  <2> QED
    BY <1>0, <2>2, CleanFrame, FailedFrame
<1> QED
  BY <1>6, <1>7, <1>8, <1>9, <1>10 DEF MarkInv, CleanAttempt

\* No goroutine survives the node plugin.
LEMMA DriverRestartHStep ==
  ASSUME HInv, DriverRestart
  PROVE  MarkInv' /\ StatLeaving' /\ CleanAttempt'
<1>0. /\ UNCHANGED <<volumeID, kubelet, mount, files>>
      /\ call' = [t \in Targets |-> "idle"]
  BY DEF DriverRestart
<1> DEFINE D == {c \in Conns : conn[c].fd = "driver"}
           cs == [c \in Conns |-> [Closed(conn, D)[c] EXCEPT !.handoff = "none"]]
<1>1. \A c \in Conns : /\ cs[c] \in ConnRecs
                        /\ cs[c].handoff = "none" /\ cs[c].minor = conn[c].minor
                        /\ cs[c].fd = IF conn[c].fd = "driver" THEN "closed" ELSE conn[c].fd
  <2> TAKE c \in Conns
  <2> DEFINE k == Closed(conn, D)[c]
  <2>1. k = IF c \in D /\ conn[c].fd # "none" THEN [conn[c] EXCEPT !.fd = "closed"] ELSE conn[c]
    BY DEF Closed
  <2>2. conn[c] \in ConnRecs
    BY DEF HInv, IInv, TypeOK
  <2>3. k \in ConnRecs /\ k.minor = conn[c].minor
        /\ k.fd = IF conn[c].fd = "driver" THEN "closed" ELSE conn[c].fd
    BY <2>1, <2>2 DEF ConnRecs
  <2>4. cs[c] = [k EXCEPT !.handoff = "none"]
    OBVIOUS
  <2> HIDE DEF k, cs
  <2> QED
    BY <2>3, <2>4 DEF ConnRecs
<1>2. cs \in [Conns -> ConnRecs]
  BY <1>1
<1>3. conn' = Settled(Closed(cs, {}), mount)
  BY <1>2, ClosedNothing DEF DriverRestart
<1> HIDE DEF cs, D
<1>4. \A c \in Conns : /\ conn'[c].handoff = "none" /\ conn'[c].minor \in {conn[c].minor, None}
                       /\ conn'[c].fd \in {conn[c].fd, "closed", "none"}
  BY <1>1, <1>2, <1>3, SettledIs
<1>5. MarkInv'
  BY <1>4 DEF HInv, MarkInv, MinorsDistinct, HandoffMarked, HandoffMounted
<1>6. StatLeaving'
  BY <1>0 DEF StatLeaving
<1>7. ASSUME NEW t \in Targets PROVE Clean(t)'
  <2>1. Attempting(t)' => Attempting(t)
    BY <1>0, <1>4, ConnFacts DEF Attempting, Publishing
  <2> QED
    BY <1>0, <2>1, CleanFrame, FailedFrame
<1> QED
  BY <1>5, <1>6, <1>7 DEF CleanAttempt

LEMMA NextHInv ==
  ASSUME ~MinorReuse, HInv, [Next]_vars
  PROVE  HInv'
<1>0. IInv'
  BY NextIInv DEF HInv
<1> DEFINE H == MarkInv' /\ StatLeaving' /\ CleanAttempt'
<1>1. ASSUME NEW t \in Targets, Publish(t) \/ PublishFails(t) \/ CleanupFails(t)
      PROVE  H
  BY <1>1, PublishMountHStep, FilesHStep, SymlinkHStep, ListenHStep, CleanupHStep, CleanupFailsHStep,
     RepublishHStep, RepublishUnhealthyHStep DEF Publish
<1>2. ASSUME NEW t \in Targets, Unpublish(t)
      PROVE  H
  BY <1>2, UnpublishHStep
<1>3. ASSUME NEW t \in Targets, EmptyDirReady(t) \/ Leave(t) \/ SidecarStart(t) \/ SidecarWedges(t)
      PROVE  H
  <2>1. UNCHANGED <<volumeID, mount, conn, files, call, pendingSidecarMinors>>
        /\ \A u \in Targets : kubelet'[u] = "up" => kubelet[u] = "up"
    BY <1>3 DEF EmptyDirReady, Leave, SidecarStart, SidecarWedges, diskVars, driverVars,
                HInv, IInv, TypeOK
  <2> QED
    BY <2>1, SmallHSteps
<1>4. ASSUME NEW t \in Targets, PodStop(t) \/ SidecarDies(t)
      PROVE  H
  <2>1. /\ conn' = Settled(Closed(conn, HeldBy(t)), mount)
        /\ UNCHANGED <<volumeID, kubelet, mount, call, pendingSidecarMinors>>
        /\ \A u \in Targets : u # t => files'[u] = files[u]
        /\ kubelet[t] = "up" => sidecar[t] = "serving"
    BY <1>4 DEF PodStop, SidecarDies, driverVars, HInv, IInv, TypeOK
  <2> QED
    BY <2>1, DaemonEndsH
<1>5. ASSUME NEW t \in Targets, Connect(t)
      PROVE  H
  BY <1>5, ConnectHStep
<1>6. ASSUME NEW c \in Conns, Handoff(c) \/ RecordFails(c)
      PROVE  H
  BY <1>6, GoroutineHStep, ClearPendingHStep DEF Handoff
<1>7. ASSUME DriverRestart
      PROVE  H
  BY <1>7, DriverRestartHStep
<1>8. ASSUME UNCHANGED vars
      PROVE  H
  BY <1>8, SmallHSteps DEF vars, diskVars, driverVars
<1>9. H
  BY <1>1, <1>2, <1>3, <1>4, <1>5, <1>6, <1>7, <1>8 DEF Next
<1> QED
  BY <1>0, <1>9 DEF HInv

LEMMA HInvAlways ==
  ASSUME ~MinorReuse
  PROVE  Spec => []HInv
<1>1. HInv /\ [Next]_vars => HInv'
  BY NextHInv
<1> QED
  BY <1>1, InitHInv, PTL DEF Spec

-----------------------------------------------------------------------------
(* Theorems. *)

\* "Its cleanup must not unlink a replacement listener's socket/symlink"
\* (NodePublishVolume): the mark in pendingSidecarMinors keeps a second
\* goroutine from starting before the first has ended.
THEOREM HandoffsFollowOneAnother ==
  ASSUME ~MinorReuse
  PROVE  Spec => []OneHandoff
<1>1. HInv => OneHandoff
  BY ConnFacts DEF HInv, MarkInv, HandoffMounted, OneHandoff
<1> QED
  BY <1>1, HInvAlways, PTL

\* The republish of a volume no other pod shares leaves a mount that is served
\* alone: the error files it looks at are of the current attempt.
LEMMA NextKeepsServed ==
  ASSUME HInv, [Next]_vars, NEW t \in Targets, Alone(t), kubelet[t] = "up", Served(t)
  PROVE  mount'[t] = mount[t]
<1>0. /\ mount[t] # None /\ conn[mount[t]].fd = t /\ mount[t] \in Conns
      /\ mount \in [Targets -> Conns \cup {None}]
  BY DEF Served, Mounted, HInv, IInv, TypeOK
<1>1. call[t] \notin Publishing
  BY <1>0, ConnFacts DEF HInv, IInv, ConnInv, PublishingHolds
<1>2. ~SidecarFailed(t)
  BY <1>0 DEF HInv, CleanAttempt, Clean, Attempting
<1>3. call[t] # "stat"
  BY DEF HInv, StatLeaving
<1>4. ASSUME NEW u \in Targets, Publish(u) \/ PublishFails(u) \/ CleanupFails(u)
      PROVE  mount'[t] = mount[t]
  <2>1. CASE u = t
    <3>1. \/ Republish(t)
          \/ RepublishUnhealthy(t)
      BY <1>0, <1>1, <1>4, <2>1 DEF Publish, PublishFails, PublishMount, WriteFiles, RemoveSymlink,
           Symlink, RemoveSocket, Listen, Cleanup, CleanupFails, Mounted, Publishing
    <3> QED
      BY <1>2, <3>1 DEF Republish, RepublishUnhealthy
  <2>2. CASE u # t
    <3>1. \/ UNCHANGED mount
          \/ \E c : mount' = [mount EXCEPT ![u] = c]
      BY <1>4 DEF Publish, PublishFails, PublishMount, WriteFiles, RemoveSymlink,
           Symlink, RemoveSocket, Listen, Republish, RepublishUnhealthy, GiveUp, Cleanup, CleanupFails,
           Abort, Without
    <3> QED
      BY <1>0, <2>2, <3>1
  <2> QED
    BY <2>1, <2>2
<1>5. ASSUME NEW u \in Targets, Unpublish(u)
      PROVE  mount'[t] = mount[t]
  <2>1. CASE u = t
    BY <1>3, <1>5, <2>1 DEF Unpublish, UnpublishTracked, UnpublishUntracked, StatReturns
  <2>2. CASE u # t
    BY <1>0, <1>5, <2>2
       DEF Unpublish, UnpublishTracked, UnpublishUntracked, StatReturns, Abort, Without
  <2> QED
    BY <2>1, <2>2
<1>6. ASSUME NEW u \in Targets,
             \/ EmptyDirReady(u) \/ Leave(u) \/ PodStop(u) \/ SidecarStart(u) \/ Connect(u)
             \/ SidecarDies(u) \/ SidecarWedges(u)
      PROVE  mount'[t] = mount[t]
  BY <1>6 DEF EmptyDirReady, Leave, PodStop, SidecarStart, Connect, SidecarDies, SidecarWedges
<1>7. ASSUME NEW c \in Conns, Handoff(c) \/ RecordFails(c)
      PROVE  mount'[t] = mount[t]
  BY <1>7 DEF Handoff, HandoffFails, RecordFailure, RecordFails, DropSymlink, CloseListener, ClearPending
<1>8. CASE DriverRestart \/ UNCHANGED vars
  BY <1>8 DEF DriverRestart, vars
<1> QED
  BY <1>4, <1>5, <1>6, <1>7, <1>8 DEF Next

\* NodePublishVolume aborts and unmounts on a sign of failure only, and while
\* the sidecar serves there is none: the files of an earlier attempt were
\* cleared, and no goroutine of one is left to write more.
THEOREM ServedMountsStay ==
  ASSUME ~MinorReuse
  PROVE  Spec => ServedStaysMounted
<1>1. HInv /\ [Next]_vars =>
        [\A t \in Targets : Alone(t) /\ kubelet[t] = "up" /\ Served(t) => mount'[t] = mount[t]]_vars
  BY NextKeepsServed
<1> QED
  BY <1>1, HInvAlways, PTL DEF Spec, ServedStaysMounted
=============================================================================
