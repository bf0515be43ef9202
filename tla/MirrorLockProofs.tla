-------------------------- MODULE MirrorLockProofs --------------------------
(***************************************************************************)
(* The safety of the mirror's lock for every number of processes, clients, *)
(* lock objects and files.                                                 *)
(*                                                                         *)
(* Two things keep syncs apart: the kernel's lock those of two processes,  *)
(* since all of them opened the inode the path names, and the depth those  *)
(* of one process, since its clients share the lock object.  Discarding a  *)
(* lock breaks the first, so the invariant speaks of it only before.       *)
(***************************************************************************)
EXTENDS MirrorLock, TLAPS

\* A lock object belongs to one process.
LocksApart ==
  /\ \A p, q \in Proc : locks[p] = locks[q] /\ locks[p] # None => p = q
  /\ \A p \in Proc, c \in Client : locks[p] = lock[c] /\ lock[c] # None => Home[c] = p
  /\ \A c, d \in Client : lock[c] = lock[d] /\ lock[c] # None => Home[c] = Home[d]

HasLock == \A c \in Client : pc[c] # "idle" => lock[c] # None

\* What is counted or locked belongs to a sync, whatever was discarded.
Kept ==
  /\ \A l \in Lock : depth[l] # 0 =>
       depth[l] = 1 /\ \E c \in Client : lock[c] = l /\ pc[c] = "syncing"
  /\ \A i \in Inode : flock[i] # None => fd[flock[i]] = i /\ depth[flock[i]] = 1

\* Before any lock is discarded everybody opened the inode the path names, and
\* the one who syncs has locked it.
OneFile ==
  ~weakened =>
    /\ \A l \in Lock : fd[l] \in {None, path}
    /\ \A c \in Client : pc[c] = "syncing" =>
         path # None /\ flock[path] = lock[c] /\ depth[lock[c]] = 1

IInv == TypeOK /\ LocksApart /\ HasLock /\ Kept /\ OneFile /\ MutualExclusion

-----------------------------------------------------------------------------
(* Types.                                                                  *)

LEMMA InitTypeOK == Init => TypeOK
<1> SUFFICES ASSUME Init PROVE TypeOK
  OBVIOUS
<1>1. locks \in [Proc -> Lock \cup {None}] /\ lock \in [Client -> Lock \cup {None}]
  BY DEF Init
<1>2. fd \in [Lock -> Inode \cup {None}] /\ depth \in [Lock -> Nat]
  BY DEF Init
<1>3. flock \in [Inode -> Lock \cup {None}] /\ path \in Inode \cup {None}
  BY DEF Init
<1>4. made \subseteq Inode
  BY DEF Init
<1>5. pc \in [Client -> {"idle", "waiting", "syncing"}] /\ weakened \in BOOLEAN
  BY DEF Init
<1> QED
  BY <1>1, <1>2, <1>3, <1>4, <1>5 DEF TypeOK

LEMMA NextTypeOK == TypeOK /\ HasLock /\ [Next]_vars => TypeOK'
<1> SUFFICES ASSUME TypeOK, HasLock, [Next]_vars PROVE TypeOK'
  OBVIOUS
<1> USE HomeAssumption, NoneAssumption
<1>1. ASSUME NEW c \in Client, for_path(c) PROVE TypeOK'
  <2>1. PICK l \in Lock : /\ lock' = [lock EXCEPT ![c] = l]
                          /\ locks' = [locks EXCEPT ![Home[c]] = l]
    BY <1>1 DEF for_path, TypeOK
  <2> QED
    BY <1>1, <2>1 DEF for_path, TypeOK
<1>2. ASSUME NEW c \in Client, acquire_async(c) PROVE TypeOK'
  BY <1>2 DEF acquire_async, TypeOK
<1>3. ASSUME NEW c \in Client, try_acquire(c) PROVE TypeOK'
  <2>1. /\ lock[c] \in Lock /\ UNCHANGED <<locks, lock>>
        /\ pc' = [pc EXCEPT ![c] = "syncing"] /\ depth' = [depth EXCEPT ![lock[c]] = 1]
    BY <1>3 DEF try_acquire, TypeOK, HasLock
  <2>2. ASSUME NEW i \in Inode, fd' = [fd EXCEPT ![lock[c]] = i],
               flock' = [flock EXCEPT ![i] = lock[c]],
               path' = IF fd[lock[c]] = None THEN i ELSE path,
               made' = made \cup {i}, UNCHANGED weakened
        PROVE  TypeOK'
    BY <2>1, <2>2 DEF TypeOK
  <2>3. ASSUME weakened' = TRUE, UNCHANGED <<fd, flock, path, made>> PROVE TypeOK'
    BY <2>1, <2>3 DEF TypeOK
  <2> QED
    BY <1>3, <2>2, <2>3 DEF try_acquire
<1>4. ASSUME NEW c \in Client, try_acquire_busy(c) PROVE TypeOK'
  BY <1>4 DEF try_acquire_busy, TypeOK, HasLock
<1>5. ASSUME NEW c \in Client, Cancelled(c) PROVE TypeOK'
  BY <1>5 DEF Cancelled, TypeOK
<1>6. ASSUME NEW c \in Client, release(c) PROVE TypeOK'
  BY <1>6 DEF release, TypeOK, HasLock
<1>7. ASSUME NEW c \in Client, discard(c) PROVE TypeOK'
  BY <1>7 DEF discard, Closed, TypeOK
<1>8. ASSUME NEW p \in Proc, Exit(p) PROVE TypeOK'
  BY <1>8 DEF Exit, Closed, TypeOK
<1>9. CASE UNCHANGED vars
  BY <1>9 DEF vars, TypeOK
<1> QED
  BY <1>1, <1>2, <1>3, <1>4, <1>5, <1>6, <1>7, <1>8, <1>9 DEF Next, Poll

-----------------------------------------------------------------------------
(* Each action preserves the rest of the invariant.                        *)

Rest == LocksApart /\ HasLock /\ Kept /\ OneFile /\ MutualExclusion

LEMMA InitRest == Init => Rest
BY HomeAssumption DEF Init, Rest, LocksApart, HasLock, Kept, OneFile, MutualExclusion,
   OneSync

LEMMA ForPath ==
  ASSUME IInv, TypeOK', NEW c \in Client, for_path(c) PROVE Rest'
<1> DEFINE p == Home[c]
<1> USE HomeAssumption, NoneAssumption
<1>0. p \in Proc
  OBVIOUS
<1>1. PICK l \in Lock :
        /\ lock' = [lock EXCEPT ![c] = l]
        /\ locks' = [locks EXCEPT ![p] = l]
        /\ l = locks[p] \/ l \notin Referenced
  BY <1>0 DEF for_path, IInv, TypeOK
<1>2. pc[c] = "idle" /\ UNCHANGED <<fd, depth, flock, path, made, pc, weakened>>
  BY DEF for_path
<1>3. /\ \A q \in Proc : locks[q] = l => q = p
      /\ \A d \in Client : lock[d] = l => Home[d] = p
  BY <1>0, <1>1 DEF Referenced, IInv, LocksApart, TypeOK
<1>4. LocksApart' /\ HasLock'
  BY <1>0, <1>1, <1>2, <1>3 DEF IInv, LocksApart, HasLock, TypeOK
<1>5. Kept'
  BY <1>1, <1>2 DEF IInv, Kept, TypeOK
<1>6. OneFile' /\ MutualExclusion'
  BY <1>1, <1>2 DEF IInv, OneFile, MutualExclusion, OneSync, TypeOK
<1> QED
  BY <1>4, <1>5, <1>6 DEF Rest

\* A step of a client that only moves it, to where it does not sync.
LEMMA Waits ==
  ASSUME IInv, TypeOK', NEW c \in Client, acquire_async(c) \/ Cancelled(c) PROVE Rest'
<1>1. /\ pc[c] # "syncing" /\ pc'[c] # "syncing" /\ lock[c] # None
      /\ \A d \in Client : d # c => pc'[d] = pc[d]
      /\ UNCHANGED <<locks, lock, fd, depth, flock, path, made, weakened>>
  BY DEF acquire_async, Cancelled, IInv, TypeOK, HasLock
<1>2. LocksApart' /\ HasLock'
  BY <1>1 DEF IInv, LocksApart, HasLock
<1>3. Kept'
  BY <1>1 DEF IInv, Kept
<1>4. OneFile' /\ MutualExclusion'
  BY <1>1 DEF IInv, OneFile, MutualExclusion, OneSync
<1> QED
  BY <1>2, <1>3, <1>4 DEF Rest

LEMMA TryAcquire ==
  ASSUME IInv, TypeOK', NEW c \in Client, try_acquire(c) PROVE Rest'
<1> DEFINE l == lock[c]
<1> USE NoneAssumption
<1>1. /\ l \in Lock /\ depth[l] = 0 /\ pc[c] = "waiting"
      /\ pc' = [pc EXCEPT ![c] = "syncing"] /\ depth' = [depth EXCEPT ![l] = 1]
      /\ UNCHANGED <<locks, lock>>
  BY DEF try_acquire, IInv, TypeOK, HasLock
<1>2. LocksApart' /\ HasLock'
  BY <1>1 DEF IInv, TypeOK, LocksApart, HasLock
<1>3. ASSUME NEW i \in Inode, Opens(l, i), flock[i] \in {l, None},
             fd' = [fd EXCEPT ![l] = i], flock' = [flock EXCEPT ![i] = l],
             path' = IF fd[l] = None THEN i ELSE path, UNCHANGED weakened
      PROVE  Rest'
  <2>1. flock[i] = None
    BY <1>1, <1>3 DEF IInv, Kept, TypeOK
  <2>2. Kept'
    BY <1>1, <1>3, <2>1 DEF IInv, Kept, TypeOK
  <2>3. ASSUME ~weakened PROVE path' = i /\ \A k \in Lock : fd'[k] \in {None, i}
    BY <1>1, <1>3, <2>3 DEF IInv, OneFile, TypeOK, Opens
  <2>4. ASSUME ~weakened, NEW d \in Client PROVE pc[d] # "syncing"
    BY <1>1, <1>3, <2>1, <2>3, <2>4 DEF IInv, OneFile, HasLock, TypeOK, Opens
  <2>5. OneFile'
    BY <1>1, <1>3, <2>3, <2>4 DEF IInv, OneFile, TypeOK
  <2>6. MutualExclusion'
    BY <1>1, <1>3, <2>4 DEF IInv, MutualExclusion, OneSync, TypeOK
  <2> QED
    BY <1>2, <2>2, <2>5, <2>6 DEF Rest
<1>4. ASSUME weakened' = TRUE, UNCHANGED <<fd, flock, path, made>> PROVE Rest'
  <2>1. Kept'
    BY <1>1, <1>4 DEF IInv, Kept, TypeOK
  <2>2. OneFile' /\ MutualExclusion'
    BY <1>4 DEF OneFile, MutualExclusion
  <2> QED
    BY <1>2, <2>1, <2>2 DEF Rest
<1> QED
  BY <1>3, <1>4 DEF try_acquire

LEMMA TryAcquireBusy ==
  ASSUME IInv, TypeOK', NEW c \in Client, try_acquire_busy(c) PROVE Rest'
<1> DEFINE l == lock[c]
<1> USE NoneAssumption
<1>1. PICK i \in Inode : Opens(l, i) /\ flock[i] # None /\ fd' = [fd EXCEPT ![l] = i]
  BY DEF try_acquire_busy
<1>2. /\ l \in Lock /\ fd[l] = None
      /\ UNCHANGED <<locks, lock, depth, flock, path, made, pc, weakened>>
  BY DEF try_acquire_busy, IInv, TypeOK, HasLock
<1>3. LocksApart' /\ HasLock' /\ MutualExclusion'
  BY <1>2 DEF IInv, LocksApart, HasLock, MutualExclusion, OneSync
<1>4. Kept'
  BY <1>1, <1>2 DEF IInv, Kept, TypeOK
<1>5. OneFile'
  <2>1. ASSUME ~weakened PROVE i = path
    BY <1>1, <1>2, <2>1 DEF IInv, OneFile, Kept, TypeOK, Opens
  <2> QED
    BY <1>1, <1>2, <2>1 DEF IInv, OneFile, TypeOK
<1> QED
  BY <1>3, <1>4, <1>5 DEF Rest

LEMMA Release ==
  ASSUME IInv, TypeOK', NEW c \in Client, release(c) PROVE Rest'
<1> DEFINE l == lock[c]
<1> USE NoneAssumption
<1>1. /\ l \in Lock /\ pc[c] = "syncing" /\ pc' = [pc EXCEPT ![c] = "idle"]
      /\ depth' = [depth EXCEPT ![l] = IF @ = 0 THEN 0 ELSE @ - 1]
      /\ flock' = [i \in Inode |-> IF depth[l] = 1 /\ fd[l] # None /\ i = fd[l]
                                   THEN None ELSE flock[i]]
      /\ UNCHANGED <<locks, lock, fd, path, made, weakened>>
  BY DEF release, IInv, TypeOK, HasLock
<1>2. LocksApart' /\ HasLock'
  BY <1>1 DEF IInv, TypeOK, LocksApart, HasLock
<1>3. depth[l] \in {0, 1} /\ depth'[l] = 0
  BY <1>1 DEF IInv, TypeOK, Kept
<1>4. \A i \in Inode : flock'[i] # None => flock'[i] = flock[i] /\ flock[i] # l
  BY <1>1 DEF IInv, TypeOK, Kept
<1>5. Kept'
  <2>1. \A k \in Lock : k # l => depth'[k] = depth[k]
    BY <1>1 DEF IInv, TypeOK
  <2>2. \A d \in Client : pc[d] = "syncing" /\ lock[d] # l => pc'[d] = "syncing"
    BY <1>1 DEF IInv, TypeOK
  <2> QED
    BY <1>1, <1>3, <1>4, <2>1, <2>2 DEF IInv, Kept, TypeOK
<1>6. OneFile' /\ MutualExclusion'
  <2>1. ASSUME ~weakened, NEW d \in Client PROVE pc'[d] # "syncing"
    BY <1>1, <2>1 DEF IInv, MutualExclusion, OneSync, TypeOK
  <2> QED
    BY <1>1, <2>1 DEF IInv, OneFile, MutualExclusion, OneSync
<1> QED
  BY <1>2, <1>5, <1>6 DEF Rest

\* Closing the files of locks no sync uses afterwards.
LEMMA CloseKeeps ==
  ASSUME IInv, NEW gone, Closed(gone), None \notin gone,
         \A c \in Client : pc[c] = "syncing" /\ lock[c] \notin gone =>
           pc'[c] = "syncing" /\ lock'[c] = lock[c]
  PROVE  Kept'
<1>1. /\ \A l \in Lock : fd'[l] = IF l \in gone THEN None ELSE fd[l]
      /\ \A l \in Lock : depth'[l] = IF l \in gone THEN 0 ELSE depth[l]
      /\ \A i \in Inode : flock'[i] = IF flock[i] \in gone THEN None ELSE flock[i]
  BY DEF Closed
<1> QED
  BY <1>1, NoneAssumption DEF IInv, Kept, TypeOK

LEMMA Discard ==
  ASSUME IInv, TypeOK', NEW c \in Client, discard(c) PROVE Rest'
<1>1. /\ lock[c] # None /\ Closed({lock[c]})
      /\ locks' = [locks EXCEPT ![Home[c]] = None]
      /\ weakened' = TRUE /\ UNCHANGED <<lock, made, pc>>
  BY DEF discard
<1>2. LocksApart' /\ HasLock'
  BY <1>1, HomeAssumption DEF IInv, LocksApart, HasLock, TypeOK
<1>3. Kept'
  BY <1>1, CloseKeeps
<1>4. OneFile' /\ MutualExclusion'
  BY <1>1 DEF OneFile, MutualExclusion
<1> QED
  BY <1>2, <1>3, <1>4 DEF Rest

LEMMA ExitKeeps ==
  ASSUME IInv, TypeOK', NEW p \in Proc, Exit(p) PROVE Rest'
<1> DEFINE gone == {lock[c] : c \in {d \in Client : Home[d] = p}} \cup {locks[p]}
<1> USE HomeAssumption, NoneAssumption
<1>1. /\ Closed(gone)
      /\ locks' = [locks EXCEPT ![p] = None]
      /\ lock' = [c \in Client |-> IF Home[c] = p THEN None ELSE lock[c]]
      /\ pc' = [c \in Client |-> IF Home[c] = p THEN "idle" ELSE pc[c]]
      /\ UNCHANGED <<path, made, weakened>>
  BY DEF Exit
<1>2. \A c \in Client : Home[c] # p /\ lock[c] # None => lock[c] \notin gone
  BY DEF IInv, LocksApart, TypeOK
<1>3. LocksApart' /\ HasLock'
  BY <1>1 DEF IInv, LocksApart, HasLock, TypeOK
<1>4. Kept'
  <2>1. Closed(gone \ {None})
    BY <1>1 DEF Closed, IInv, TypeOK
  <2>2. \A c \in Client : pc[c] = "syncing" /\ lock[c] \notin gone \ {None} =>
           pc'[c] = "syncing" /\ lock'[c] = lock[c]
    BY <1>1 DEF IInv, HasLock
  <2>3. None \notin gone \ {None}
    OBVIOUS
  <2> HIDE DEF gone
  <2> QED
    BY <2>1, <2>2, <2>3, CloseKeeps
<1>5. OneFile'
  <2>1. \A l \in Lock : fd'[l] \in {None, fd[l]}
    BY <1>1 DEF Closed
  <2>2. ASSUME ~weakened, NEW c \in Client, pc'[c] = "syncing"
        PROVE  path # None /\ flock'[path] = lock'[c] /\ depth'[lock'[c]] = 1
    <3>1. Home[c] # p /\ pc[c] = "syncing" /\ lock'[c] = lock[c] /\ lock[c] \in Lock
      BY <1>1, <2>2 DEF IInv, HasLock, TypeOK
    <3>2. path \in Inode /\ flock[path] = lock[c] /\ depth[lock[c]] = 1
      BY <2>2, <3>1 DEF IInv, OneFile, TypeOK
    <3>3. lock[c] \notin gone
      BY <1>2, <3>1
    <3> QED
      BY <1>1, <3>1, <3>2, <3>3 DEF Closed
  <2> QED
    BY <1>1, <2>1, <2>2 DEF IInv, OneFile
<1>6. MutualExclusion'
  BY <1>1 DEF IInv, MutualExclusion, OneSync, TypeOK
<1> QED
  BY <1>3, <1>4, <1>5, <1>6 DEF Rest

-----------------------------------------------------------------------------
(* Theorems.                                                               *)

LEMMA Inductive == Spec => []IInv
<1>1. Init => IInv
  BY InitTypeOK, InitRest DEF IInv, Rest
<1>2. IInv /\ [Next]_vars => IInv'
  <2> SUFFICES ASSUME IInv, [Next]_vars PROVE IInv'
    OBVIOUS
  <2>1. TypeOK'
    BY NextTypeOK DEF IInv
  <2>2. ASSUME UNCHANGED vars PROVE Rest'
    BY <2>2 DEF vars, IInv, Rest, LocksApart, HasLock, Kept, OneFile,
                MutualExclusion, OneSync
  <2>3. Rest'
    BY <2>1, <2>2, ForPath, Waits, TryAcquire, TryAcquireBusy, Release, Discard,
       ExitKeeps DEF Next, Poll
  <2> QED
    BY <2>1, <2>3 DEF IInv, Rest
<1> QED
  BY <1>1, <1>2, PTL DEF Spec

\* The variables keep their types, whatever processes do.
THEOREM TypeCorrect == Spec => []TypeOK
<1>1. IInv => TypeOK
  BY DEF IInv
<1> QED
  BY <1>1, Inductive, PTL

\* As long as no lock was discarded and the file opened, one collection object of
\* one process syncs at a time (mirror_lock.vala, try_acquire).
THEOREM OneSyncAtATime == Spec => []MutualExclusion
<1>1. IInv => MutualExclusion
  BY DEF IInv
<1> QED
  BY <1>1, Inductive, PTL

\* A counted acquisition and a kernel lock belong to a sync that is running,
\* whatever was discarded, failed to open or died (release, discard).
THEOREM NobodyKeepsALock == Spec => []NothingLeaked
<1>1. IInv => NothingLeaked
  BY NoneAssumption DEF IInv, Kept, NothingLeaked, TypeOK
<1> QED
  BY <1>1, Inductive, PTL
=============================================================================
