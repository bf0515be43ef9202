----------------------------- MODULE MirrorLock -----------------------------
(***************************************************************************)
(* The lock of a mirror (src/accounts/mirror_lock.vala): one MirrorLock per*)
(* process and path, which counts its acquisitions (depth) and takes the   *)
(* kernel's flock on the file it opened.                                   *)
(*                                                                         *)
(* The clients are the SyncedCollections of the processes, as sync() uses  *)
(* sync_lock: acquire_async polls try_acquire, release ends the sync, and  *)
(* forget() discards the lock at any moment the main loop is free, during  *)
(* a sync too.  An flock belongs to an inode; unlinking the path leaves the*)
(* inode to those who opened it, and the next open makes another one.      *)
(*                                                                         *)
(* open and flock are one step: what another process may do in between, it *)
(* may as well do after the flock.                                         *)
(***************************************************************************)
EXTENDS Naturals, FiniteSets

CONSTANTS
  Proc,       \* processes
  Client,     \* SyncedCollections of one path
  Home,       \* the process of each client
  Lock,       \* bound: MirrorLock objects alive at one time
  Inode,      \* bound: files ever created at the path
  None,
  Forgets,    \* does anybody call forget()?
  OpenFails   \* may the file fail to open?

ASSUME HomeAssumption == Home \in [Client -> Proc]
ASSUME NoneAssumption == None \notin Lock \cup Inode
ASSUME FlagAssumption == Forgets \in BOOLEAN /\ OpenFails \in BOOLEAN

VARIABLES
  locks,      \* per process, the static table's MirrorLock for the path
  lock,       \* per client, its sync_lock
  fd,         \* per lock, the inode it opened
  depth,      \* per lock
  flock,      \* per inode, the lock whose descriptor holds the kernel's lock
  path,       \* the inode the path names
  made,       \* inodes created
  pc,         \* per client, where its sync is
  weakened    \* history: a lock was discarded, or its file did not open

vars == <<locks, lock, fd, depth, flock, path, made, pc, weakened>>

TypeOK ==
  /\ locks \in [Proc -> Lock \cup {None}]
  /\ lock \in [Client -> Lock \cup {None}]
  /\ fd \in [Lock -> Inode \cup {None}]
  /\ depth \in [Lock -> Nat]
  /\ flock \in [Inode -> Lock \cup {None}]
  /\ path \in Inode \cup {None}
  /\ made \subseteq Inode
  /\ pc \in [Client -> {"idle", "waiting", "syncing"}]
  /\ weakened \in BOOLEAN

Init ==
  /\ locks = [p \in Proc |-> None] /\ lock = [c \in Client |-> None]
  /\ fd = [l \in Lock |-> None] /\ depth = [l \in Lock |-> 0]
  /\ flock = [i \in Inode |-> None]
  /\ path = None /\ made = {}
  /\ pc = [c \in Client |-> "idle"]
  /\ weakened = FALSE

-----------------------------------------------------------------------------
\* for_path(), in the constructor of a SyncedCollection: the lock of the table,
\* or a new one.  A client starts anew once its lock was taken off the table.
Referenced == {locks[p] : p \in Proc} \cup {lock[c] : c \in Client}

for_path(c) ==
  LET p == Home[c] IN
  /\ pc[c] = "idle"
  /\ lock[c] = None \/ lock[c] # locks[p]
  /\ \E l \in IF locks[p] # None THEN {locks[p]} ELSE Lock \ Referenced :
       /\ lock' = [lock EXCEPT ![c] = l]
       /\ locks' = [locks EXCEPT ![p] = l]
  /\ UNCHANGED <<fd, depth, flock, path, made, pc, weakened>>

\* sync() calls acquire_async.
acquire_async(c) ==
  /\ pc[c] = "idle" /\ lock[c] # None
  /\ pc' = [pc EXCEPT ![c] = "waiting"]
  /\ UNCHANGED <<locks, lock, fd, depth, flock, path, made, weakened>>

\* open_file(): the descriptor that is there, or the file at the path, which is
\* created when there is none.
Opens(l, i) ==
  IF fd[l] # None THEN i = fd[l]
  ELSE IF path # None THEN i = path
  ELSE i \in Inode \ made

\* A try that does not look at the depth.
try_acquire_Nested(c) ==
  LET l == lock[c] IN
  /\ pc[c] = "waiting"
  /\ \E i \in Inode :
       /\ Opens(l, i)
       /\ flock[i] \in {l, None}
       /\ fd' = [fd EXCEPT ![l] = i]
       /\ flock' = [flock EXCEPT ![i] = l]
       /\ path' = IF fd[l] = None THEN i ELSE path
       /\ made' = made \cup {i}
  /\ depth' = [depth EXCEPT ![l] = @ + 1]
  /\ pc' = [pc EXCEPT ![c] = "syncing"]
  /\ UNCHANGED <<locks, lock, weakened>>

\* try_acquire() succeeds.
try_acquire(c) ==
  LET l == lock[c] IN
  /\ pc[c] = "waiting"
  /\ depth[l] = 0
  /\ \/ \E i \in Inode :
          /\ Opens(l, i)
          /\ flock[i] \in {l, None}
          /\ fd' = [fd EXCEPT ![l] = i]
          /\ flock' = [flock EXCEPT ![i] = l]
          /\ path' = IF fd[l] = None THEN i ELSE path
          /\ made' = made \cup {i}
          /\ UNCHANGED weakened
     \/ /\ OpenFails /\ fd[l] = None
        /\ weakened' = TRUE
        /\ UNCHANGED <<fd, flock, path, made>>
  /\ depth' = [depth EXCEPT ![l] = 1]
  /\ pc' = [pc EXCEPT ![c] = "syncing"]
  /\ UNCHANGED <<locks, lock>>

\* try_acquire() finds the lock taken by another process: the file stays open
\* until the next try.
try_acquire_busy(c) ==
  LET l == lock[c] IN
  /\ pc[c] = "waiting" /\ depth[l] = 0 /\ fd[l] = None
  /\ \E i \in Inode :
       /\ Opens(l, i) /\ flock[i] # None
       /\ fd' = [fd EXCEPT ![l] = i]
  /\ UNCHANGED <<locks, lock, depth, flock, path, made, pc, weakened>>

\* acquire_async returns FALSE: its cancellable is cancelled after a failed try.
Cancelled(c) ==
  LET l == lock[c] IN
  /\ pc[c] = "waiting"
  /\ depth[l] > 0 \/ (fd[l] # None /\ flock[fd[l]] \notin {l, None})
  /\ pc' = [pc EXCEPT ![c] = "idle"]
  /\ UNCHANGED <<locks, lock, fd, depth, flock, path, made, weakened>>

\* A release of a lock that was discarded meanwhile.
release_Unguarded(c) ==
  LET l == lock[c]
      last == depth[l] = 1 /\ fd[l] # None
  IN
  /\ pc[c] = "syncing"
  /\ pc' = [pc EXCEPT ![c] = "idle"]
  /\ depth' = [depth EXCEPT ![l] = @ - 1]
  /\ flock' = [i \in Inode |-> IF last /\ i = fd[l] THEN None ELSE flock[i]]
  /\ UNCHANGED <<locks, lock, fd, path, made, weakened>>

\* A release that leaves the file locked.
release_Counts(c) ==
  /\ pc[c] = "syncing"
  /\ pc' = [pc EXCEPT ![c] = "idle"]
  /\ depth' = [depth EXCEPT ![lock[c]] = IF @ = 0 THEN 0 ELSE @ - 1]
  /\ UNCHANGED <<locks, lock, fd, flock, path, made, weakened>>

\* The end of sync().
release(c) ==
  LET l == lock[c]
      last == depth[l] = 1 /\ fd[l] # None
  IN
  /\ pc[c] = "syncing"
  /\ pc' = [pc EXCEPT ![c] = "idle"]
  /\ depth' = [depth EXCEPT ![l] = IF @ = 0 THEN 0 ELSE @ - 1]
  /\ flock' = [i \in Inode |-> IF last /\ i = fd[l] THEN None ELSE flock[i]]
  /\ UNCHANGED <<locks, lock, fd, path, made, weakened>>

\* Closing a descriptor gives its lock up.
Closed(gone) ==
  /\ fd' = [l \in Lock |-> IF l \in gone THEN None ELSE fd[l]]
  /\ depth' = [l \in Lock |-> IF l \in gone THEN 0 ELSE depth[l]]
  /\ flock' = [i \in Inode |-> IF flock[i] \in gone THEN None ELSE flock[i]]

\* A discard that does not close the file.
discard_Open(c) ==
  /\ Forgets /\ lock[c] # None
  /\ depth' = [depth EXCEPT ![lock[c]] = 0]
  /\ path' = None
  /\ locks' = [locks EXCEPT ![Home[c]] = None]
  /\ weakened' = TRUE
  /\ UNCHANGED <<lock, fd, flock, made, pc>>

\* discard(), called by forget().
discard(c) ==
  /\ Forgets /\ lock[c] # None
  /\ Closed({lock[c]})
  /\ path' = None
  /\ locks' = [locks EXCEPT ![Home[c]] = None]
  /\ weakened' = TRUE
  /\ UNCHANGED <<lock, made, pc>>

\* A process dies, and with it its descriptors, its locks and its clients.
Exit(p) ==
  /\ Closed({lock[c] : c \in {d \in Client : Home[d] = p}} \cup {locks[p]})
  /\ locks' = [locks EXCEPT ![p] = None]
  /\ lock' = [c \in Client |-> IF Home[c] = p THEN None ELSE lock[c]]
  /\ pc' = [c \in Client |-> IF Home[c] = p THEN "idle" ELSE pc[c]]
  /\ UNCHANGED <<path, made, weakened>>

-----------------------------------------------------------------------------
Poll(c) == try_acquire(c) \/ try_acquire_busy(c)

Next ==
  \/ \E c \in Client :
       \/ for_path(c) \/ acquire_async(c)
       \/ Poll(c) \/ Cancelled(c) \/ release(c) \/ discard(c)
  \/ \E p \in Proc : Exit(p)

Spec == Init /\ [][Next]_vars

\* The 150 ms timer of acquire_async goes on polling, and a sync ends.
FairSpec ==
  Spec /\ \A c \in Client : WF_vars(try_acquire(c)) /\ WF_vars(release(c))

-----------------------------------------------------------------------------
(* Properties *)

\* Only one process, and in it only one collection object, syncs at a time:
\* whichever processes die, give up waiting or open the collection twice, as long
\* as no lock is discarded and the file opens.
OneSync == \A c, d \in Client : pc[c] = "syncing" /\ pc[d] = "syncing" => c = d
MutualExclusion == ~weakened => OneSync

\* Nobody keeps what no sync will release, whatever was discarded, failed to open
\* or died: a counted acquisition and a kernel lock both belong to a sync that is
\* running.
NothingLeaked ==
  \A l \in Lock :
    depth[l] > 0 \/ (\E i \in Inode : flock[i] = l) =>
      \E c \in Client : lock[c] = l /\ pc[c] = "syncing"

\* The lock is found again: when a sync keeps waiting, one runs in the end, whatever
\* processes died while they held the lock or waited for it.
SomebodySyncs ==
  \A c \in Client :
    pc[c] = "waiting" ~> pc[c] # "waiting" \/ \E d \in Client : pc[d] = "syncing"
=============================================================================
