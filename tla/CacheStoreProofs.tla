--------------------------- MODULE CacheStoreProofs ---------------------------
(***************************************************************************)
(* For any processes, entries, archive ids and settings: what removes from *)
(* the cache runs alone (LockInv), prune leaves no archive without a       *)
(* reference and nothing referenced is touched (RemovalInv), and where no  *)
(* removing command is killed every archive in use is whole (UseInv).      *)
(*                                                                         *)
(* The second part is about the bucket of Git checkouts, which has its own *)
(* locks and markers (GitResolver): for any number of processes and tasks, *)
(* and however often the branch moves, the `.ok` file of a checkout        *)
(* vouches for it, and the checkouts in use are complete.                  *)
(***************************************************************************)
EXTENDS CacheStore, GitCheckouts, TLAPS

\* A removing command begins with one of three phases.
LEMMA FirstPhaseIs ==
  ASSUME NEW c
  PROVE  /\ FirstPhase(c) \in {"sweep", "unlink", "collect"}
         /\ FirstPhase(c) = "unlink" => IsPrune(c)
<1>1. CASE c = "clean"
  <2>1. FirstPhase(c) = "sweep"
    BY <1>1, Zenon DEF FirstPhase
  <2> QED
    BY <2>1
<1>2. CASE IsPrune(c)
  <2>1. c # "clean"
    BY <1>2 DEF IsPrune
  <2>2. FirstPhase(c) = "unlink"
    BY <1>2, <2>1, Zenon DEF FirstPhase, IsPrune
  <2> QED
    BY <1>2, <2>2
<1>3. CASE c # "clean" /\ ~IsPrune(c)
  <2>1. FirstPhase(c) = "collect"
    BY <1>3, Zenon DEF FirstPhase, IsPrune
  <2> QED
    BY <2>1
<1> QED
  BY <1>1, <1>2, <1>3

\* A process that stays in the cache, or goes on removing, keeps its lock.
LEMMA SameLocks ==
  ASSUME LockInv, UNCHANGED <<lockVars, commands>>,
         \A q \in Procs : \/ pc'[q] = pc[q]
                          \/ pc[q] \in InCache /\ pc'[q] \in InCache
                          \/ pc[q] \in Removing /\ pc'[q] \in Removing
  PROVE  OneLockFile' /\ LocksFollowPc' /\ LocksExclude'
<1> USE DEF LockInv, lockVars
<1>1. OneLockFile'
  BY DEF OneLockFile, InCache, Removing
<1>2. LocksFollowPc'
  BY DEF LocksFollowPc, InCache, Removing
<1>3. LocksExclude'
  BY DEF LocksExclude
<1> QED
  BY <1>1, <1>2, <1>3

\* A command starts.
LEMMA StartLocks ==
  ASSUME LockInv, NEW p \in Procs, Start(p)
  PROVE  LockInv'
<1> USE DEF LockInv, Start, lockVars, diskVars
<1>c. PICK c \in Commands :
         /\ cmd' = [cmd EXCEPT ![p] = c]
         /\ pc' = [pc EXCEPT ![p] = IF c = "use" THEN "init" ELSE "grab"]
  OBVIOUS
<1>0. setting.commands \in Nat
  BY CommandAssumption DEF TypeOK, SettingType
<1>1. TypeOK'
  BY <1>c, <1>0 DEF TypeOK, InCache, Removing
<1>2. OneLockFile'
  BY <1>c, <1>0 DEF OneLockFile, TypeOK
<1>3. LocksFollowPc'
  BY <1>c DEF LocksFollowPc, TypeOK, InCache, Removing
<1>4. LocksExclude'
  BY DEF LocksExclude
<1>5. FillsEntry'
  BY <1>c DEF FillsEntry, TypeOK
<1> QED
  BY <1>1, <1>2, <1>3, <1>4, <1>5

\* A process ends, wherever it is.
LEMMA EndLocks ==
  ASSUME LockInv, NEW p \in Procs, End(p), deaths' \in 0..MaxDeaths
  PROVE  LockInv'
<1> USE DEF LockInv, End, diskVars
<1>1. TypeOK'
  BY DEF TypeOK, InCache, Removing
<1>2. OneLockFile'
  BY DEF OneLockFile, TypeOK
<1>3. LocksFollowPc'
  BY DEF LocksFollowPc, TypeOK, InCache, Removing
<1>4. LocksExclude'
  BY DEF LocksExclude, TypeOK
<1>5. FillsEntry'
  BY DEF FillsEntry, TypeOK
<1> QED
  BY <1>1, <1>2, <1>3, <1>4, <1>5

\* Whoever opens `.lock` opens the one there is.
LEMMA OpenLockLocks ==
  ASSUME LockInv, NEW p \in Procs, NEW next \in {"lock", "try", "block"},
         pc[p] \in {"init", "grab", "again"}, OpenLock(p, next)
  PROVE  LockInv'
<1> USE DEF LockInv, OpenLock, diskVars, bounds
<1>0. setting.commands \in Nat /\ setting.commands >= 1
  <2>1. setting.commands \in Nat
    BY CommandAssumption DEF TypeOK, SettingType
  <2>2. commands > 0 /\ commands \in 0..setting.commands
    BY DEF TypeOK, OneLockFile
  <2> QED
    BY <2>1, <2>2
<1>i. inode' = 1 /\ inodes' = 1
  BY DEF OneLockFile, TypeOK
<1>1. TypeOK'
  BY <1>0, <1>i DEF TypeOK, OneLockFile, InCache, Removing
<1>2. OneLockFile'
  BY <1>i DEF OneLockFile, TypeOK
<1>3. LocksFollowPc'
  BY <1>i DEF LocksFollowPc, OneLockFile, TypeOK, InCache, Removing
<1>4. LocksExclude'
  BY DEF LocksExclude
<1>5. FillsEntry'
  BY DEF FillsEntry, TypeOK
<1> QED
  BY <1>1, <1>2, <1>3, <1>4, <1>5

\* A lock is granted: every other holder has the same inode open.
LEMMA LockLocks ==
  ASSUME LockInv, NEW p \in Procs, NEW mode, NEW next, Lock(p, mode, next),
         pc[p] \in {"lock", "try", "block"},
         \/ mode = "shared" /\ next = "ready"
         \/ mode = "exclusive" /\ next \in {"sweep", "unlink", "collect"}
  PROVE  LockInv'
<1> USE DEF LockInv, Lock, diskVars, bounds
<1>1. TypeOK'
  BY DEF TypeOK, InCache, Removing
<1>2. OneLockFile'
  BY DEF OneLockFile, TypeOK
<1>3. LocksFollowPc'
  BY DEF LocksFollowPc, TypeOK, InCache, Removing
<1>4. LocksExclude'
  <2>1. ASSUME NEW q \in Procs \ {p}, held[q] # "none"
        PROVE  mode = "shared" /\ held[q] = "shared"
    <3>1. fd[q] = inode /\ fd[p] = inode
      BY <2>1 DEF OneLockFile, LocksFollowPc, TypeOK
    <3> QED
      BY <2>1, <3>1 DEF Free
  <2> QED
    BY <2>1 DEF LocksExclude, TypeOK
<1>5. FillsEntry'
  BY DEF FillsEntry, TypeOK
<1> QED
  BY <1>1, <1>2, <1>3, <1>4, <1>5

\* with_exclusive_lock_no_wait closes the file of a busy lock.
LEMMA GrabBusyLocks ==
  ASSUME LockInv, NEW p \in Procs, GrabBusy(p)
  PROVE  LockInv'
<1> USE DEF LockInv, GrabBusy, diskVars, bounds
<1>1. TypeOK'
  BY DEF TypeOK, InCache, Removing
<1>2. OneLockFile'
  BY DEF OneLockFile, TypeOK
<1>3. LocksFollowPc'
  BY DEF LocksFollowPc, TypeOK, InCache, Removing
<1>4. LocksExclude'
  BY DEF LocksExclude
<1>5. FillsEntry'
  BY DEF FillsEntry, TypeOK
<1> QED
  BY <1>1, <1>2, <1>3, <1>4, <1>5

\* The entries and the archives: what a process in the cache does.
LEMMA PickLocks ==
  ASSUME LockInv, NEW p \in Procs, NEW s \in Slots, Pick(p, s) \/ PickCached(p, s)
  PROVE  LockInv'
<1> USE DEF LockInv, Pick, PickCached, Obtain, lockVars, diskVars, bounds
<1>1. TypeOK'
  <2>1. CASE Pick(p, s)
    BY <2>1 DEF TypeOK, InCache, Removing
  <2>2. CASE PickCached(p, s)
    <3>1. link[s] \in Ids
      BY <2>2 DEF TypeOK, Present
    <3> QED
      BY <2>2, <3>1 DEF TypeOK, InCache, Removing
  <2> QED
    BY <2>1, <2>2
<1>2. \A q \in Procs : pc'[q] = pc[q] \/ (pc[q] \in InCache /\ pc'[q] \in InCache)
  BY DEF TypeOK, InCache
<1>3. FillsEntry'
  BY DEF FillsEntry, TypeOK
<1> QED
  BY <1>1, <1>2, <1>3, SameLocks

LEMMA LookupLocks ==
  ASSUME LockInv, NEW p \in Procs, LockWheel(p) \/ Hit(p) \/ Fetch(p)
  PROVE  LockInv'
<1> USE DEF LockInv, LockWheel, Hit, Fetch, Obtain, lockVars, diskVars, bounds
<1>1. TypeOK'
  <2>1. CASE LockWheel(p)
    BY <2>1 DEF TypeOK, InCache, Removing, FillsEntry
  <2>2. CASE Hit(p)
    <3>1. Cached(slot[p]) \in Ids
      BY <2>2 DEF TypeOK, FillsEntry, Present, Cached, Slots, WheelSlots
    <3> QED
      BY <2>2, <3>1 DEF TypeOK, InCache, Removing
  <2>3. CASE Fetch(p)
    <3>1. PICK i \in Ids : /\ id' = [id EXCEPT ![p] = i]
                          /\ issued' = IF i <= issued THEN issued ELSE i
      BY <2>3
    <3>2. issued' \in 0..MaxIds
      <4>1. issued \in 0..MaxIds /\ i \in 1..MaxIds
        BY DEF TypeOK, Ids
      <4> QED
        BY <3>1, <4>1
    <3> QED
      BY <2>3, <3>1, <3>2 DEF TypeOK, InCache, Removing
  <2> QED
    BY <2>1, <2>2, <2>3
<1>2. \A q \in Procs : pc'[q] = pc[q] \/ (pc[q] \in InCache /\ pc'[q] \in InCache)
  BY DEF TypeOK, InCache
<1>3. FillsEntry'
  BY DEF FillsEntry, TypeOK
<1> QED
  BY <1>1, <1>2, <1>3, SameLocks

LEMMA StoreLocks ==
  ASSUME LockInv, NEW p \in Procs, Rename(p) \/ CreateLink(p) \/ WritePointer(p)
  PROVE  LockInv'
<1> USE DEF LockInv, Rename, CreateLink, WritePointer, Obtain, lockVars, diskVars, bounds
<1>0. id[p] \in Ids /\ slot[p] \in Slots
  BY DEF FillsEntry
<1>1. TypeOK'
  <2>1. CASE Rename(p)
    BY <1>0, <2>1 DEF TypeOK, InCache, Removing
  <2>2. CASE CreateLink(p)
    <3>1. link' \in [Slots -> Ids \cup {None}]
      BY <1>0, <2>2 DEF TypeOK
    <3>2. CASE slot[p] \in HttpSlots
      BY <2>2, <3>1, <3>2 DEF TypeOK, InCache, Removing
    <3>3. CASE slot[p] \notin HttpSlots
      BY <1>0, <2>2, <3>1, <3>3 DEF TypeOK, InCache, Removing
    <3> QED
      BY <3>2, <3>3
  <2>3. CASE WritePointer(p)
    BY <1>0, <2>3 DEF TypeOK, InCache, Removing
  <2> QED
    BY <2>1, <2>2, <2>3
<1>2. \A q \in Procs : pc'[q] = pc[q] \/ (pc[q] \in InCache /\ pc'[q] \in InCache)
  BY DEF TypeOK, InCache
<1>3. FillsEntry'
  BY DEF FillsEntry, TypeOK
<1> QED
  BY <1>1, <1>2, <1>3, SameLocks

\* What a process that removes does: the disk changes, or its phase does.
LEMMA RemoveLocks ==
  ASSUME LockInv, NEW p \in Procs, Sweep(p) \/ Unlink(p) \/ Delete(p)
  PROVE  LockInv'
<1> USE DEF LockInv, Sweep, Unlink, Delete, Damage, RemoveLink, RemovePointer, lockVars,
        procVars, bounds
<1>1. TypeOK'
  <2>1. /\ archive' \in [Ids -> {"absent", "whole", "torn"}]
        /\ link' \in [Slots -> Ids \cup {None}]
        /\ pointer' \in [HttpSlots -> Ids \cup {None}]
    BY DEF TypeOK
  <2> QED
    BY <2>1 DEF TypeOK
<1>2. FillsEntry'
  BY DEF FillsEntry
<1> QED
  BY <1>1, <1>2, SameLocks

LEMMA PhaseLocks ==
  ASSUME LockInv, NEW p \in Procs,
         SweepDone(p) \/ Collect(p) \/ UnlinkDone(p) \/ DeleteDone(p)
  PROVE  LockInv'
<1> USE DEF LockInv, SweepDone, Collect, UnlinkDone, DeleteDone, lockVars, diskVars, bounds
<1>1. TypeOK'
  <2>1. References \subseteq WheelSlots \X Ids
    BY DEF References
  <2> QED
    BY <2>1 DEF TypeOK, InCache, Removing
<1>2. \A q \in Procs : pc'[q] = pc[q] \/ (pc[q] \in Removing /\ pc'[q] \in Removing)
  BY DEF TypeOK, Removing
<1>3. FillsEntry'
  BY DEF FillsEntry, TypeOK
<1> QED
  BY <1>1, <1>2, <1>3, SameLocks

\* The cache starts empty and unlocked.
LEMMA InitLocks == Init => LockInv
<1> SUFFICES ASSUME Init PROVE LockInv
  OBVIOUS
<1>1. setting.commands \in Nat
  BY CommandAssumption DEF Init, SettingType
<1>2. TypeOK
  <2>1. 0 \in 0..(2 * setting.commands) /\ 0 \in 0..setting.commands
    BY <1>1
  <2>2. 0 \in 0..MaxIds /\ 0 \in 0..MaxDeaths /\ 0 \in 0..0
    <3>1. MaxIds \in Nat /\ MaxDeaths \in Nat
      BY CommandAssumption, Zenon
    <3> QED
      BY <3>1
  <2> QED
    BY <2>1, <2>2 DEF Init, TypeOK
<1> QED
  BY <1>2 DEF Init, LockInv, OneLockFile, LocksFollowPc, LocksExclude, FillsEntry,
     InCache, Removing

\* Every step preserves LockInv.
LEMMA NextLocks == LockInv /\ [Next]_vars => LockInv'
<1> SUFFICES ASSUME LockInv, [Next]_vars PROVE LockInv'
  OBVIOUS
<1>1. ASSUME NEW p \in Procs, Start(p) PROVE LockInv'
  BY <1>1, StartLocks
<1>2. ASSUME NEW p \in Procs, Finish(p) \/ Timeout(p) \/ Die(p) PROVE LockInv'
  <2>1. deaths \in 0..MaxDeaths /\ MaxDeaths \in Nat
    BY CommandAssumption DEF LockInv, TypeOK
  <2>2. End(p) /\ (deaths' = deaths \/ (deaths < MaxDeaths /\ deaths' = deaths + 1))
    BY <1>2 DEF Finish, Timeout, Die
  <2>3. deaths' \in 0..MaxDeaths
    BY <2>1, <2>2
  <2> QED
    BY <2>2, <2>3, EndLocks
<1>3. ASSUME NEW p \in Procs, InitOpen(p) \/ GrabOpen(p) \/ BlockOpen(p) PROVE LockInv'
  BY <1>3, OpenLockLocks DEF InitOpen, GrabOpen, BlockOpen
<1>4. ASSUME NEW p \in Procs, InitLock(p) PROVE LockInv'
  BY <1>4, LockLocks DEF InitLock
<1>5. ASSUME NEW p \in Procs, GrabLock(p) \/ BlockLock(p) PROVE LockInv'
  BY <1>5, LockLocks, FirstPhaseIs DEF GrabLock, BlockLock
<1>6. ASSUME NEW p \in Procs, GrabBusy(p) PROVE LockInv'
  BY <1>6, GrabBusyLocks
<1>7. ASSUME NEW p \in Procs, LockWheel(p) \/ Hit(p) \/ Fetch(p) PROVE LockInv'
  BY <1>7, LookupLocks
<1>8. ASSUME NEW p \in Procs, Rename(p) \/ CreateLink(p) \/ WritePointer(p) PROVE LockInv'
  BY <1>8, StoreLocks
<1>9. ASSUME NEW p \in Procs, Sweep(p) \/ Unlink(p) \/ Delete(p) PROVE LockInv'
  BY <1>9, RemoveLocks
<1>10. ASSUME NEW p \in Procs,
              SweepDone(p) \/ Collect(p) \/ UnlinkDone(p) \/ DeleteDone(p)
       PROVE  LockInv'
  BY <1>10, PhaseLocks
<1>11. ASSUME NEW p \in Procs, NEW s \in Slots, Pick(p, s) \/ PickCached(p, s)
       PROVE  LockInv'
  BY <1>11, PickLocks
<1>12. CASE UNCHANGED vars
  BY <1>12 DEF vars, lockVars, procVars, diskVars, bounds, LockInv, TypeOK, OneLockFile,
     LocksFollowPc, LocksExclude, FillsEntry
<1> QED
  BY <1>1, <1>2, <1>3, <1>4, <1>5, <1>6, <1>7, <1>8, <1>9, <1>10, <1>11, <1>12
     DEF Next, Step

\* LockInv holds in every reachable state.
THEOREM LocksHold == Spec => []LockInv
BY InitLocks, NextLocks, PTL DEF Spec

\* The locks keep a removing process alone.
LEMMA AloneByLocks == LockInv => RemovesAlone
BY DEF LockInv, RemovesAlone, LocksFollowPc, LocksExclude, InCache, Removing

\* However processes open, wait for, time out on and give up the root lock, a
\* command that removes from the cache runs alone.
THEOREM RemovalIsAlone == Spec => []RemovesAlone
BY LocksHold, AloneByLocks, PTL

-----------------------------------------------------------------------------
(* Prune and the removal of a package. *)

ProcStep(p) == \/ Start(p) \/ Step(p) \/ Finish(p) \/ Timeout(p) \/ Die(p)
               \/ \E s \in Slots : Pick(p, s) \/ PickCached(p, s)

LEMMA NextIsProcStep == Next => \E p \in Procs : ProcStep(p)
BY DEF Next, ProcStep

\* find_archive_references finds exactly the links that resolve.
LEMMA RefersTo ==
  ASSUME NEW s \in WheelSlots, NEW i \in Ids
  PROVE  <<s, i>> \in References <=> link[s] = i /\ archive[i] # "absent"
<1>1. i # None
  BY CommandAssumption
<1> QED
  BY <1>1 DEF References, Present

\* A process touches only its own command.
LEMMA OwnCommand ==
  ASSUME LockInv, NEW p \in Procs, NEW q \in Procs \ {p}, ProcStep(q)
  PROVE  /\ pc'[p] = pc[p] /\ cmd'[p] = cmd[p] /\ refs'[p] = refs[p]
         /\ id'[p] = id[p] /\ uses'[p] = uses[p]
<1> USE DEF LockInv, TypeOK, lockVars, procVars, diskVars, bounds
<1>1. CASE Start(q) \/ GrabBusy(q)
  BY <1>1 DEF Start, GrabBusy
<1>2. CASE End(q)
  BY <1>2 DEF End
<1>3. CASE \E next : OpenLock(q, next)
  BY <1>3 DEF OpenLock
<1>4. CASE \E mode, next : Lock(q, mode, next)
  BY <1>4 DEF Lock
<1>5. CASE LockWheel(q) \/ Hit(q) \/ Fetch(q)
  BY <1>5 DEF LockWheel, Hit, Fetch, Obtain
<1>6. CASE Rename(q) \/ CreateLink(q) \/ WritePointer(q)
  BY <1>6 DEF Rename, CreateLink, WritePointer, Obtain
<1>7. CASE Sweep(q) \/ Unlink(q) \/ Delete(q)
  BY <1>7 DEF Sweep, Unlink, Delete
<1>8. CASE SweepDone(q) \/ Collect(q) \/ UnlinkDone(q) \/ DeleteDone(q)
  BY <1>8 DEF SweepDone, Collect, UnlinkDone, DeleteDone
<1>9. CASE \E s \in Slots : Pick(q, s) \/ PickCached(q, s)
  BY <1>9 DEF Pick, PickCached, Obtain
<1> QED
  BY <1>1, <1>2, <1>3, <1>4, <1>5, <1>6, <1>7, <1>8, <1>9
     DEF ProcStep, Step, Finish, Timeout, Die, InitOpen, InitLock, GrabOpen, GrabLock,
         BlockOpen, BlockLock

\* Who changes the archives or the links is inside the cache.
LEMMA DiskChanges ==
  ASSUME LockInv, NEW q \in Procs, ProcStep(q), ~UNCHANGED <<archive, link>>
  PROVE  \/ Rename(q) \/ CreateLink(q)
         \/ Sweep(q) \/ Unlink(q) \/ Delete(q)
<1> USE DEF lockVars, procVars, diskVars, bounds
<1>1. ~(Start(q) \/ End(q) \/ GrabBusy(q))
  BY DEF Start, End, GrabBusy
<1>2. ~\E next : OpenLock(q, next)
  BY DEF OpenLock
<1>3. ~\E mode, next : Lock(q, mode, next)
  BY DEF Lock
<1>4. ~(LockWheel(q) \/ Hit(q) \/ Fetch(q) \/ WritePointer(q))
  BY DEF LockWheel, Hit, Fetch, WritePointer
<1>5. ~(SweepDone(q) \/ Collect(q) \/ UnlinkDone(q) \/ DeleteDone(q))
  BY DEF SweepDone, Collect, UnlinkDone, DeleteDone
<1>6. ~\E s \in Slots : Pick(q, s) \/ PickCached(q, s)
  BY DEF Pick, PickCached
<1> QED
  BY <1>1, <1>2, <1>3, <1>4, <1>5, <1>6
     DEF ProcStep, Step, Finish, Timeout, Die, InitOpen, InitLock, GrabOpen, GrabLock,
         BlockOpen, BlockLock

\* While a process removes, the others leave the archives and links alone.
LEMMA OthersStandStill ==
  ASSUME LockInv, NEW p \in Procs, pc[p] \in Removing, NEW q \in Procs \ {p}, ProcStep(q)
  PROVE  UNCHANGED <<archive, link>>
<1>1. pc[q] \notin InCache \cup Removing
  BY AloneByLocks DEF RemovesAlone
<1> QED
  BY <1>1, DiskChanges DEF Rename, CreateLink, Sweep, Unlink, Delete, InCache, Removing

\* How a process comes to the phases that unlink and delete.
LEMMA ReachesPhase ==
  ASSUME LockInv, NEW p \in Procs, ProcStep(p), pc'[p] \in {"unlink", "delete", "removed"}
  PROVE  \/ pc'[p] = "unlink" /\ IsPrune(cmd'[p])
         \/ Collect(p) \/ Unlink(p) \/ UnlinkDone(p)
         \/ Delete(p) \/ DeleteDone(p) \/ SweepDone(p)
<1> USE DEF LockInv, TypeOK, lockVars, procVars, diskVars, bounds
<1>1. ~(Start(p) \/ End(p) \/ GrabBusy(p))
  BY DEF Start, End, GrabBusy
<1>2. ~(OpenLock(p, "lock") \/ OpenLock(p, "try") \/ OpenLock(p, "block"))
  BY DEF OpenLock
<1>3. ~Lock(p, "shared", "ready")
  BY DEF Lock
<1>4. Lock(p, "exclusive", FirstPhase(cmd[p])) => pc'[p] = "unlink" /\ IsPrune(cmd'[p])
  <2> SUFFICES ASSUME Lock(p, "exclusive", FirstPhase(cmd[p]))
               PROVE  pc'[p] = "unlink" /\ IsPrune(cmd'[p])
    OBVIOUS
  <2>1. pc'[p] = FirstPhase(cmd[p]) /\ cmd' = cmd
    BY DEF Lock
  <2> QED
    BY <2>1, FirstPhaseIs
<1>5. ~(LockWheel(p) \/ Hit(p) \/ Fetch(p))
  BY DEF LockWheel, Hit, Fetch, Obtain
<1>6. ~(Rename(p) \/ CreateLink(p) \/ WritePointer(p))
  BY DEF Rename, CreateLink, WritePointer, Obtain
<1>7. ~Sweep(p)
  BY DEF Sweep
<1>8. ~\E s \in Slots : Pick(p, s) \/ PickCached(p, s)
  BY DEF Pick, PickCached, Obtain
<1> QED
  BY <1>1, <1>2, <1>3, <1>4, <1>5, <1>6, <1>7, <1>8
     DEF ProcStep, Step, Finish, Timeout, Die, InitOpen, InitLock, GrabOpen, GrabLock,
         BlockOpen, BlockLock

\* Damage leaves the other archives as they are, and makes none appear.
LEMMA DamageShrinks ==
  ASSUME LockInv, NEW i \in Ids, Damage(i)
  PROVE  /\ archive[i] # "absent" /\ archive'[i] \in {"torn", "absent"}
         /\ \A j \in Ids \ {i} : archive'[j] = archive[j]
         /\ \A j \in Ids : archive[j] = "absent" => archive'[j] = "absent"
BY DEF Damage, LockInv, TypeOK

\* The references shrink while a process unlinks and deletes.
LEMMA ReferencesShrink ==
  ASSUME LockInv, NEW p \in Procs, Unlink(p) \/ Delete(p)
  PROVE  References' \subseteq References
<1>1. ASSUME NEW s \in WheelSlots, NEW i \in Ids, <<s, i>> \in References'
      PROVE  <<s, i>> \in References
  <2>0. i # None /\ s \in Slots
    BY CommandAssumption DEF Slots
  <2>1. link'[s] = i /\ archive'[i] # "absent"
    BY <1>1, <2>0 DEF References, Present
  <2>2. link[s] = i
    BY <2>0, <2>1 DEF Unlink, Delete, RemoveLink, LockInv, TypeOK
  <2>3. archive[i] # "absent"
    BY <2>1, DamageShrinks DEF Unlink, Delete
  <2> QED
    BY <2>2, <2>3, RefersTo
<1> QED
  BY <1>1 DEF References

LEMMA CompleteStep ==
  ASSUME LockInv, RefsComplete, NEW q \in Procs, ProcStep(q)
  PROVE  RefsComplete'
<1> SUFFICES ASSUME NEW p \in Procs,
                    pc'[p] = "delete" \/ (pc'[p] = "unlink" /\ ~IsPrune(cmd'[p]))
             PROVE  References' \subseteq refs'[p]
  BY DEF RefsComplete
<1>1. CASE p # q
  <2>1. pc'[p] = pc[p] /\ cmd'[p] = cmd[p] /\ refs'[p] = refs[p]
    BY <1>1, OwnCommand
  <2>2. UNCHANGED <<archive, link>>
    BY <1>1, <2>1, OthersStandStill DEF Removing
  <2>3. References' = References
    BY <2>2 DEF References, Present
  <2> QED
    BY <2>1, <2>3 DEF RefsComplete
<1>2. CASE p = q
  <2>1. CASE Collect(p)
    BY <2>1 DEF Collect, References, Present, diskVars, LockInv, TypeOK
  <2>2. CASE UnlinkDone(p)
    <3>1. pc[p] = "unlink" /\ ~IsPrune(cmd[p]) /\ refs'[p] = refs[p]
      BY <2>2 DEF UnlinkDone, LockInv, TypeOK
    <3>2. References' = References
      BY <2>2 DEF UnlinkDone, References, Present, diskVars
    <3> QED
      BY <3>1, <3>2 DEF RefsComplete
  <2>3. CASE Unlink(p) \/ Delete(p)
    <3>1. pc' = pc /\ cmd' = cmd /\ refs' = refs
      BY <2>3 DEF Unlink, Delete, procVars
    <3> QED
      BY <2>3, <3>1, ReferencesShrink DEF RefsComplete
  <2>4. CASE DeleteDone(p) \/ SweepDone(p)
    BY <2>4 DEF DeleteDone, SweepDone, LockInv, TypeOK
  <2> QED
    BY <1>2, <2>1, <2>2, <2>3, <2>4, ReachesPhase
<1> QED
  BY <1>1, <1>2

LEMMA ExactStep ==
  ASSUME LockInv, RefsExact, NEW q \in Procs, ProcStep(q)
  PROVE  RefsExact'
<1> SUFFICES ASSUME NEW p \in Procs, pc'[p] = "delete", IsPrune(cmd'[p]),
                    NEW s \in WheelSlots, NEW i \in Ids, <<s, i>> \in refs'[p]
             PROVE  link'[s] = i
  BY DEF RefsExact
<1>1. CASE p # q
  <2>1. pc'[p] = pc[p] /\ cmd'[p] = cmd[p] /\ refs'[p] = refs[p]
    BY <1>1, OwnCommand
  <2>2. UNCHANGED <<archive, link>>
    BY <1>1, <2>1, OthersStandStill DEF Removing
  <2> QED
    BY <2>1, <2>2 DEF RefsExact
<1>2. CASE p = q
  <2>1. CASE Collect(p)
    <3>1. refs'[p] = References /\ link' = link
      BY <2>1 DEF Collect, diskVars, LockInv, TypeOK
    <3> QED
      BY <3>1, RefersTo
  <2>2. CASE UnlinkDone(p)
    BY <2>2 DEF UnlinkDone, LockInv, TypeOK
  <2>3. CASE Delete(p)
    BY <2>3 DEF Delete, procVars, RefsExact
  <2>4. CASE Unlink(p) \/ DeleteDone(p) \/ SweepDone(p)
    BY <2>4 DEF Unlink, DeleteDone, SweepDone, procVars, LockInv, TypeOK
  <2> QED
    BY <1>2, <2>1, <2>2, <2>3, <2>4, ReachesPhase
<1> QED
  BY <1>1, <1>2

LEMMA ReclaimsStep ==
  ASSUME LockInv, RefsExact, PruneReclaims, NEW q \in Procs, ProcStep(q)
  PROVE  PruneReclaims'
<1> SUFFICES ASSUME NEW p \in Procs, pc'[p] = "removed", IsPrune(cmd'[p]),
                    NEW i \in Ids, archive'[i] # "absent"
             PROVE  \E s \in WheelSlots : link'[s] = i
  BY DEF PruneReclaims
<1>1. CASE p # q
  <2>1. pc'[p] = pc[p] /\ cmd'[p] = cmd[p]
    BY <1>1, OwnCommand
  <2>2. UNCHANGED <<archive, link>>
    BY <1>1, <2>1, OthersStandStill DEF Removing
  <2> QED
    BY <2>1, <2>2 DEF PruneReclaims
<1>2. CASE p = q
  <2>1. CASE DeleteDone(p)
    <3>1. /\ pc[p] = "delete" /\ cmd'[p] = cmd[p] /\ UNCHANGED <<archive, link>>
          /\ ~Victim(p, i)
      BY <2>1 DEF DeleteDone, diskVars
    <3>2. PICK s \in WheelSlots : <<s, i>> \in refs[p]
      BY <3>1 DEF Victim
    <3> QED
      BY <3>1, <3>2 DEF RefsExact
  <2>2. CASE SweepDone(p)
    BY <2>2 DEF SweepDone, diskVars
  <2>3. CASE Collect(p) \/ Unlink(p) \/ UnlinkDone(p) \/ Delete(p)
    BY <2>3 DEF Collect, Unlink, UnlinkDone, Delete, procVars, LockInv, TypeOK
  <2> QED
    BY <1>2, <2>1, <2>2, <2>3, ReachesPhase
<1> QED
  BY <1>1, <1>2

LEMMA InitRemoval == Init => RemovalInv
BY DEF Init, RemovalInv, RefsComplete, RefsExact, PruneReclaims

LEMMA NextRemoval == LockInv /\ RemovalInv /\ [Next]_vars => RemovalInv'
<1> SUFFICES ASSUME LockInv, RemovalInv, [Next]_vars PROVE RemovalInv'
  OBVIOUS
<1>1. ASSUME NEW q \in Procs, ProcStep(q) PROVE RemovalInv'
  BY <1>1, CompleteStep, ExactStep, ReclaimsStep DEF RemovalInv
<1>2. CASE UNCHANGED vars
  BY <1>2 DEF vars, procVars, diskVars, RemovalInv, RefsComplete, RefsExact, PruneReclaims,
     References, Present
<1> QED
  BY <1>1, <1>2, NextIsProcStep

\* RemovalInv holds in every reachable state.
THEOREM RemovalHolds == Spec => []RemovalInv
BY InitRemoval, NextRemoval, LocksHold, PTL DEF Spec

\* When `uv cache prune` is through, whatever died before it and wherever, every
\* archive that is left has a wheel entry that links to it.
THEOREM PruneLeavesNoOrphan == Spec => []PruneReclaims
<1>1. RemovalInv => PruneReclaims
  BY DEF RemovalInv
<1> QED
  BY <1>1, RemovalHolds, PTL

\* Who damages an archive sweeps the whole cache, or finds no link to it.
LEMMA DamageStep ==
  ASSUME LockInv, RemovalInv, NEW q \in Procs, ProcStep(q), NEW i \in Ids,
         archive[i] # archive'[i], archive'[i] # "whole"
  PROVE  pc[q] = "sweep" \/ \A s \in WheelSlots : link[s] # i
<1>1. ~UNCHANGED <<archive, link>>
  OBVIOUS
<1>2. CASE Rename(q)
  <2>1. id[q] \in Ids /\ \E state \in IF archive[id[q]] = "torn" THEN {"torn", "whole"} ELSE {"whole"} :
                              archive' = [archive EXCEPT ![id[q]] = state]
    BY <1>2 DEF Rename, LockInv, FillsEntry
  <2> QED
    BY <2>1 DEF LockInv, TypeOK
<1>3. CASE CreateLink(q) \/ Unlink(q)
  BY <1>3 DEF CreateLink, Unlink
<1>4. CASE Sweep(q)
  BY <1>4 DEF Sweep
<1>5. CASE Delete(q)
  <2>1. pc[q] = "delete" /\ Victim(q, i) /\ archive[i] # "absent"
    BY <1>5, DamageShrinks DEF Delete
  <2>2. References \subseteq refs[q]
    BY <2>1 DEF RemovalInv, RefsComplete
  <2>3. ASSUME NEW s \in WheelSlots, link[s] = i PROVE FALSE
    <3>1. <<s, i>> \in refs[q]
      BY <2>1, <2>2, <2>3, RefersTo
    <3>2. Present(link[s])
      BY <2>1, <2>3, CommandAssumption DEF Present
    <3> QED
      BY <2>1, <3>1, <3>2 DEF Victim
  <2> QED
    BY <2>3
<1> QED
  BY <1>1, <1>2, <1>3, <1>4, <1>5, DiskChanges

\* An archive that a wheel entry links to is damaged by nothing but `uv cache
\* clean` of the whole cache: not by prune, and not by the removal of another
\* package that shares it.
THEOREM LinkedStaysWhole == Spec => UnlinkedBeforeRemoved
<1>1. ASSUME LockInv, RemovalInv, [Next]_vars
      PROVE  [\A i \in Ids :
                archive[i] # archive'[i] /\ archive'[i] # "whole" =>
                  \/ \E p \in Procs : pc[p] = "sweep"
                  \/ \A s \in WheelSlots : link[s] # i]_vars
  <2>1. CASE Next
    BY <1>1, <2>1, NextIsProcStep, DamageStep
  <2>2. CASE UNCHANGED vars
    BY <2>2
  <2> QED
    BY <1>1, <2>1, <2>2
<1> QED
  BY <1>1, LocksHold, RemovalHolds, PTL DEF Spec, UnlinkedBeforeRemoved

-----------------------------------------------------------------------------
(* Archives in use. *)

\* While anybody is in the cache, a whole archive stays whole.
LEMMA WholeStays ==
  ASSUME LockInv, NEW p \in Procs, pc[p] \in InCache, NEW q \in Procs, ProcStep(q),
         NEW i \in Ids, archive[i] = "whole"
  PROVE  archive'[i] = "whole"
<1>1. pc[q] \notin Removing
  BY AloneByLocks DEF RemovesAlone, InCache, Removing
<1>2. CASE Rename(q)
  <2>1. id[q] \in Ids /\ \E state \in IF archive[id[q]] = "torn" THEN {"torn", "whole"} ELSE {"whole"} :
                              archive' = [archive EXCEPT ![id[q]] = state]
    BY <1>2 DEF Rename, LockInv, FillsEntry
  <2> QED
    BY <2>1 DEF LockInv, TypeOK
<1>3. CASE CreateLink(q)
  BY <1>3 DEF CreateLink
<1>4. ~(Sweep(q) \/ Unlink(q) \/ Delete(q))
  BY <1>1 DEF Sweep, Unlink, Delete, Removing
<1> QED
  BY <1>2, <1>3, <1>4, DiskChanges

\* While anybody is in the cache, no archive is torn.
LEMMA NoneTorn ==
  ASSUME LockInv, TornWhileRemoving, NEW p \in Procs, pc[p] \in InCache, NEW i \in Ids
  PROVE  archive[i] # "torn"
BY AloneByLocks DEF TornWhileRemoving, RemovesAlone, InCache, Removing

\* An archive that is being removed stays a victim.
LEMMA VictimStays ==
  ASSUME LockInv, NEW p \in Procs, NEW i \in Ids, Victim(p, i),
         refs'[p] = refs[p], cmd'[p] = cmd[p], UNCHANGED link,
         \A j \in Ids : archive[j] = "absent" => archive'[j] = "absent"
  PROVE  Victim(p, i)'
<1>1. ASSUME NEW s \in WheelSlots, ~Present(link[s]) PROVE ~Present(link[s])'
  BY <1>1 DEF Present, LockInv, TypeOK, Slots
<1> QED
  BY <1>1 DEF Victim

\* A removal that is not killed ends only when nothing is torn.
LEMMA TornStep ==
  ASSUME LockInv, setting.killable = {}, TornWhileRemoving, NEW q \in Procs, ProcStep(q)
  PROVE  TornWhileRemoving'
<1> SUFFICES ASSUME NEW i \in Ids, archive'[i] = "torn"
             PROVE  \E p \in Procs : pc'[p] = "sweep" \/ (pc'[p] = "delete" /\ Victim(p, i)')
  BY DEF TornWhileRemoving
<1>1. CASE Sweep(q)
  BY <1>1 DEF Sweep, procVars
<1>2. CASE Delete(q)
  <2>1. /\ pc[q] = "delete" /\ UNCHANGED <<link, refs, cmd, pc>>
        /\ \E j \in Ids : Victim(q, j) /\ Damage(j)
    BY <1>2 DEF Delete, procVars
  <2>2. PICK j \in Ids : Victim(q, j) /\ Damage(j)
    BY <2>1
  <2>3. Victim(q, i)
    <3>1. CASE i = j
      BY <2>2, <3>1
    <3>2. CASE i # j
      <4>1. archive[i] = "torn"
        BY <2>2, <3>2, DamageShrinks
      <4>2. PICK p \in Procs : pc[p] = "sweep" \/ (pc[p] = "delete" /\ Victim(p, i))
        BY <4>1 DEF TornWhileRemoving
      <4>3. p = q
        BY <2>1, <4>2, AloneByLocks DEF RemovesAlone, Removing
      <4> QED
        BY <2>1, <4>2, <4>3
    <3> QED
      BY <3>1, <3>2
  <2>4. Victim(q, i)'
    BY <2>1, <2>2, <2>3, DamageShrinks, VictimStays
  <2> QED
    BY <2>1, <2>4
<1>3. CASE ~Sweep(q) /\ ~Delete(q)
  <2>1. archive[i] = "torn"
    <3>1. CASE Rename(q)
      <4>1. pc[q] \in InCache /\ id[q] \in Ids
        BY <3>1 DEF Rename, InCache, LockInv, FillsEntry
      <4>2. archive[id[q]] # "torn"
        BY <4>1, NoneTorn
      <4> QED
        BY <3>1, <4>1, <4>2 DEF Rename, LockInv, TypeOK
    <3>2. CASE ~Rename(q)
      BY <1>3, <3>2, DiskChanges DEF CreateLink, Unlink
    <3> QED
      BY <3>1, <3>2
  <2>2. PICK p \in Procs : pc[p] = "sweep" \/ (pc[p] = "delete" /\ Victim(p, i))
    BY <2>1 DEF TornWhileRemoving
  <2>3. CASE p # q
    <3>1. UNCHANGED <<archive, link>>
      BY <2>2, <2>3, OthersStandStill DEF Removing
    <3>2. pc'[p] = pc[p] /\ cmd'[p] = cmd[p] /\ refs'[p] = refs[p]
      BY <2>3, OwnCommand
    <3> QED
      BY <2>2, <3>1, <3>2, VictimStays
  <2>4. CASE p = q
    <3>1. pc[q] \in {"sweep", "delete"}
      BY <2>2, <2>4
    <3>2. ~Finish(q) /\ ~Timeout(q) /\ ~Die(q) /\ ~Start(q)
      BY <3>1 DEF Finish, Timeout, Die, Start, Removing
    <3>3. SweepDone(q) \/ DeleteDone(q)
      BY <1>3, <3>1, <3>2 DEF ProcStep, Step, InitOpen, InitLock, GrabOpen, GrabLock, GrabBusy,
         BlockOpen, BlockLock, LockWheel, Hit, Fetch, Rename, CreateLink, WritePointer,
         Collect, Unlink, UnlinkDone, Pick, PickCached
    <3> QED
      BY <2>1, <2>2, <2>4, <3>3 DEF SweepDone, DeleteDone
  <2> QED
    BY <2>3, <2>4
<1> QED
  BY <1>1, <1>2, <1>3

\* What a process in the cache does next, and what it then holds.
LEMMA HoldsStep ==
  ASSUME LockInv, TornWhileRemoving, UsesWhileInCache, UsedWhole, NEW p \in Procs, ProcStep(p)
  PROVE  /\ uses'[p] # {} => pc'[p] \in InCache
         /\ pc'[p] \in {"link", "point"} => archive'[id'[p]] = "whole"
         /\ \A i \in uses'[p] : archive'[i] = "whole"
<1> USE DEF lockVars, procVars, diskVars, bounds
<1> DEFINE Goal == /\ uses'[p] # {} => pc'[p] \in InCache
                   /\ pc'[p] \in {"link", "point"} => archive'[id'[p]] = "whole"
                   /\ \A i \in uses'[p] : archive'[i] = "whole"
<1>0. uses[p] \subseteq Ids
  BY DEF LockInv, TypeOK
<1>1. CASE End(p)
  <2>1. uses'[p] = {} /\ pc'[p] = "idle"
    BY <1>1 DEF End, LockInv, TypeOK
  <2> QED
    BY <2>1
<1>2. ASSUME uses'[p] = {}, pc'[p] \notin {"link", "point"} PROVE Goal
  BY <1>2
<1>3. CASE pc[p] \notin InCache
  <2>0. uses[p] = {}
    BY <1>3 DEF UsesWhileInCache
  <2>1. CASE Start(p) \/ GrabBusy(p)
    BY <2>0, <2>1, <1>2 DEF Start, GrabBusy, LockInv, TypeOK
  <2>2. CASE \E next \in {"lock", "try", "block"} : OpenLock(p, next)
    BY <2>0, <2>2, <1>2 DEF OpenLock, LockInv, TypeOK
  <2>3. CASE \E mode, next : Lock(p, mode, next) /\ next \in {"ready", FirstPhase(cmd[p])}
    <3>1. uses'[p] = {} /\ pc'[p] \notin {"link", "point"}
      BY <2>0, <2>3, FirstPhaseIs DEF Lock, LockInv, TypeOK
    <3> QED
      BY <3>1, <1>2
  <2>4. CASE Sweep(p) \/ Unlink(p) \/ Delete(p)
    BY <2>0, <2>4, <1>2 DEF Sweep, Unlink, Delete
  <2>5. CASE SweepDone(p) \/ Collect(p) \/ UnlinkDone(p) \/ DeleteDone(p)
    BY <2>0, <2>5, <1>2 DEF SweepDone, Collect, UnlinkDone, DeleteDone, LockInv, TypeOK
  <2>6. ~\E s \in Slots : Pick(p, s) \/ PickCached(p, s)
    BY <1>3 DEF Pick, PickCached, InCache
  <2>7. ~(LockWheel(p) \/ Hit(p) \/ Fetch(p) \/ Rename(p) \/ CreateLink(p) \/ WritePointer(p))
    BY <1>3 DEF LockWheel, Hit, Fetch, Rename, CreateLink, WritePointer, InCache
  <2> QED
    BY <1>1, <2>1, <2>2, <2>3, <2>4, <2>5, <2>6, <2>7
       DEF ProcStep, Step, Finish, Timeout, Die, InitOpen, InitLock, GrabOpen, GrabLock,
           BlockOpen, BlockLock
<1>4. CASE pc[p] \in InCache
  <2>0. /\ \A i \in Ids : archive[i] = "whole" => archive'[i] = "whole"
        /\ \A i \in Ids : archive[i] # "torn"
    BY <1>4, WholeStays, NoneTorn
  <2>1. \A i \in uses[p] : i \in Ids /\ archive'[i] = "whole"
    BY <1>0, <2>0 DEF UsedWhole
  <2>o. ASSUME NEW i \in Ids, Obtain(p, i), archive'[i] = "whole" PROVE Goal
    <3>1. uses'[p] = uses[p] \cup {i} /\ pc'[p] = "ready"
      BY <2>o DEF Obtain, LockInv, TypeOK
    <3> QED
      BY <2>1, <2>o, <3>1 DEF InCache
  <2>2. CASE LockWheel(p) \/ Fetch(p) \/ \E s \in Slots : Pick(p, s)
    <3>1. uses'[p] = uses[p] /\ pc'[p] \in {"lookup", "rename", "wlock"}
      BY <2>2 DEF LockWheel, Fetch, Pick, LockInv, TypeOK
    <3> QED
      BY <2>1, <3>1 DEF InCache
  <2>3. CASE \E s \in Slots : PickCached(p, s)
    <3>1. PICK s \in Slots : PickCached(p, s)
      BY <2>3
    <3>2. link[s] \in Ids /\ archive[link[s]] = "whole"
      BY <2>0, <3>1 DEF PickCached, Present, LockInv, TypeOK
    <3> QED
      BY <2>0, <2>o, <3>1, <3>2 DEF PickCached
  <2>4. CASE Hit(p)
    <3>1. Cached(slot[p]) \in Ids
      BY <2>4 DEF Hit, LockInv, TypeOK, FillsEntry, Present, Cached, Slots, WheelSlots
    <3>2. archive[Cached(slot[p])] = "whole"
      BY <2>0, <2>4, <3>1 DEF Hit, Present, LockInv, TypeOK
    <3> QED
      BY <2>0, <2>o, <2>4, <3>1, <3>2 DEF Hit
  <2>5. CASE Rename(p)
    <3>1. /\ id[p] \in Ids /\ archive[id[p]] # "torn"
          /\ uses'[p] = uses[p] /\ pc'[p] = "link" /\ id'[p] = id[p]
      BY <2>0, <2>5 DEF Rename, LockInv, TypeOK, FillsEntry
    <3>2. archive'[id[p]] = "whole"
      BY <2>5, <3>1 DEF Rename, LockInv, TypeOK
    <3> QED
      BY <2>1, <3>1, <3>2 DEF InCache
  <2>6. CASE CreateLink(p)
    <3>1. id[p] \in Ids /\ archive'[id[p]] = "whole"
      BY <2>6 DEF CreateLink, LockInv, FillsEntry, UsesWhileInCache
    <3>2. CASE slot[p] \in HttpSlots
      <4>1. uses'[p] = uses[p] /\ pc'[p] = "point" /\ id'[p] = id[p]
        BY <2>6, <3>2 DEF CreateLink, LockInv, TypeOK
      <4> QED
        BY <2>1, <3>1, <4>1 DEF InCache
    <3>3. CASE slot[p] \notin HttpSlots
      BY <2>o, <2>6, <3>1, <3>3 DEF CreateLink
    <3> QED
      BY <3>2, <3>3
  <2>7. CASE WritePointer(p)
    <3>1. id[p] \in Ids /\ archive'[id[p]] = "whole"
      BY <2>7 DEF WritePointer, LockInv, FillsEntry, UsesWhileInCache
    <3> QED
      BY <2>o, <2>7, <3>1 DEF WritePointer
  <2>8. ~(Start(p) \/ InitOpen(p) \/ InitLock(p) \/ GrabOpen(p) \/ GrabLock(p)
           \/ GrabBusy(p) \/ BlockOpen(p) \/ BlockLock(p))
    BY <1>4 DEF Start, InitOpen, InitLock, GrabOpen, GrabLock, GrabBusy, BlockOpen,
       BlockLock, InCache
  <2>9. ~(Sweep(p) \/ SweepDone(p) \/ Collect(p) \/ Unlink(p) \/ UnlinkDone(p)
           \/ Delete(p) \/ DeleteDone(p))
    BY <1>4 DEF Sweep, SweepDone, Collect, Unlink, UnlinkDone, Delete, DeleteDone, InCache
  <2> QED
    BY <1>1, <2>2, <2>3, <2>4, <2>5, <2>6, <2>7, <2>8, <2>9
       DEF ProcStep, Step, Finish, Timeout, Die
<1> QED
  BY <1>3, <1>4

LEMMA InitUse == Init => UseInv
<1> SUFFICES ASSUME Init PROVE TornWhileRemoving /\ UsesWhileInCache /\ UsedWhole
  BY DEF UseInv
<1> QED
  BY DEF Init, TornWhileRemoving, UsesWhileInCache, UsedWhole

\* The setting never changes.
LEMMA SettingStays == LockInv /\ [Next]_vars => setting' = setting
<1> SUFFICES ASSUME Next PROVE setting' = setting
  BY DEF vars, bounds
<1> USE DEF bounds
<1>1. ASSUME NEW p \in Procs, ProcStep(p) PROVE setting' = setting
  BY <1>1 DEF ProcStep, Step, Start, Finish, Timeout, Die, End, InitOpen, InitLock, GrabOpen,
     GrabLock, GrabBusy, BlockOpen, BlockLock, OpenLock, Lock, LockWheel, Hit, Fetch, Rename,
     CreateLink, WritePointer, Sweep, SweepDone, Collect, Unlink, UnlinkDone, Delete,
     DeleteDone, Pick, PickCached
<1> QED
  BY <1>1, NextIsProcStep

LEMMA NextUse == LockInv /\ UseInv /\ [Next]_vars => UseInv'
<1> SUFFICES ASSUME LockInv, UseInv, [Next]_vars, setting.killable = {}
             PROVE  TornWhileRemoving' /\ UsesWhileInCache' /\ UsedWhole'
  BY SettingStays DEF UseInv
<1>0. TornWhileRemoving /\ UsesWhileInCache /\ UsedWhole
  BY DEF UseInv
<1>1. ASSUME NEW q \in Procs, ProcStep(q)
      PROVE  TornWhileRemoving' /\ UsesWhileInCache' /\ UsedWhole'
  <2>1. TornWhileRemoving'
    BY <1>0, <1>1, TornStep
  <2>2. ASSUME NEW p \in Procs
        PROVE  /\ uses'[p] # {} => pc'[p] \in InCache
               /\ pc'[p] \in {"link", "point"} => archive'[id'[p]] = "whole"
               /\ \A i \in uses'[p] : archive'[i] = "whole"
    <3>1. CASE p = q
      BY <1>0, <1>1, <3>1, HoldsStep
    <3>2. CASE p # q
      <4>1. pc'[p] = pc[p] /\ id'[p] = id[p] /\ uses'[p] = uses[p]
        BY <1>1, <3>2, OwnCommand
      <4>2. ASSUME NEW i \in Ids, pc[p] \in InCache, archive[i] = "whole"
            PROVE  archive'[i] = "whole"
        BY <1>1, <4>2, WholeStays
      <4>3. uses[p] \subseteq Ids /\ (uses[p] # {} => pc[p] \in InCache)
        BY <1>0 DEF LockInv, TypeOK, UsesWhileInCache
      <4>4. \A i \in uses[p] : archive'[i] = "whole"
        BY <1>0, <4>2, <4>3 DEF UsedWhole
      <4>5. pc[p] \in {"link", "point"} => archive'[id[p]] = "whole"
        BY <1>0, <4>2 DEF UsesWhileInCache, LockInv, FillsEntry, InCache
      <4> QED
        BY <4>1, <4>3, <4>4, <4>5
    <3> QED
      BY <3>1, <3>2
  <2> QED
    BY <2>1, <2>2 DEF UsesWhileInCache, UsedWhole
<1>2. CASE UNCHANGED vars
  BY <1>0, <1>2 DEF vars, procVars, diskVars, TornWhileRemoving, UsesWhileInCache, UsedWhole,
     Victim, Present
<1> QED
  BY <1>1, <1>2, NextIsProcStep

\* Where no removing command is killed, every archive a command has obtained is
\* whole until the command ends, however many commands use, refresh, prune and
\* clean the cache, and whichever of the others die.
THEOREM UsedArchivesWhole == Spec => [](setting.killable = {} => UsedWhole)
<1>1. UseInv => (setting.killable = {} => UsedWhole)
  BY DEF UseInv
<1> QED
  BY <1>1, InitUse, NextUse, LocksHold, PTL DEF Spec

-----------------------------------------------------------------------------
(* The Git checkouts.  The argument is the inductive invariant IInv of     *)
(* GitResolver: only the holder of the repository's lock prepares a        *)
(* checkout; it has removed the `.ok` file before it touches the directory *)
(* and writes it when the directory is complete; and it never touches one  *)
(* that is fresh, as those in use are.                                     *)

CONSTANTS ProcOf, GitHub
VARIABLES head, known, limited, lock, db, want, answer

Git == INSTANCE GitResolver

USE DEF Git!Commits, Git!Maybe, Git!Locked, Git!Preparing, Git!Over

(* The initial state, where nothing is checked out, satisfies IInv.        *)
LEMMA GitInitIInv ==
    ASSUME Git!GitConstants PROVE Git!Init => Git!IInv
  BY DEF Git!GitConstants, Git!Init, Git!IInv, Git!TypeOK, Git!HolderOnly, Git!Stages, Git!MarkerVouches, Git!UsedMarked

(* The type invariant alone is preserved by every step.                    *)
LEMMA GitNextTypeOK ==
    ASSUME Git!GitConstants PROVE Git!TypeOK /\ Git!Stages /\ [Git!Next]_(Git!vars) => Git!TypeOK'
  <1> SUFFICES ASSUME Git!TypeOK, Git!Stages, [Git!Next]_(Git!vars) PROVE Git!TypeOK'
      OBVIOUS
  <1> USE DEF Git!GitConstants, Git!TypeOK, Git!Goto, Git!Answer, Git!Known, Git!remoteVars, Git!memoVars,
                            Git!diskVars, Git!taskVars
  <1>1. CASE Git!Push
      BY <1>1 DEF Git!Push
  <1>2. ASSUME NEW t \in Tasks, Git!FastKnown(t) \/ Git!FastSkip(t) \/ Git!FastAsk(t)
        PROVE Git!TypeOK'
    <2>1. CASE Git!FastKnown(t)
        BY <2>1 DEF Git!FastKnown
    <2>2. CASE Git!FastSkip(t)
        BY <2>2 DEF Git!FastSkip
    <2>3. CASE Git!FastAsk(t)
        BY <2>3 DEF Git!FastAsk
    <2> QED
        BY <1>2, <2>1, <2>2, <2>3
  <1>3. ASSUME NEW t \in Tasks, Git!FastServe(t) \/ Git!FastReply(t) \/ Git!FastFail(t)
        PROVE Git!TypeOK'
    <2>1. CASE Git!FastServe(t)
        BY <2>1 DEF Git!FastServe
    <2>2. CASE Git!FastReply(t)
        BY <2>2 DEF Git!FastReply
    <2>3. CASE Git!FastFail(t)
        BY <2>3 DEF Git!FastFail
    <2> QED
        BY <1>3, <2>1, <2>2, <2>3
  <1>4. ASSUME NEW t \in Tasks, Git!ReadKnown(t) \/ Git!AcquireLock(t) \/ Git!LockTimeout(t)
        PROVE Git!TypeOK'
    <2>1. CASE Git!ReadKnown(t)
        BY <2>1 DEF Git!ReadKnown
    <2>2. CASE Git!AcquireLock(t)
        BY <2>2 DEF Git!AcquireLock
    <2>3. CASE Git!LockTimeout(t)
        BY <2>3 DEF Git!LockTimeout
    <2> QED
        BY <1>4, <2>1, <2>2, <2>3
  <1>5. ASSUME NEW t \in Tasks, Git!Update(t) PROVE Git!TypeOK'
      BY <1>5 DEF Git!Update, Git!Target
  <1>6. ASSUME NEW t \in Tasks, Git!UseCheckout(t) \/ Git!Unmark(t) \/ Git!Mark(t) PROVE Git!TypeOK'
      BY <1>6 DEF Git!UseCheckout, Git!Unmark, Git!Mark
  <1>7. ASSUME NEW t \in Tasks, Git!Wipe(t) \/ Git!Clone(t) \/ Git!Reset(t) \/ Git!Submodules(t)
        PROVE Git!TypeOK'
      BY <1>7 DEF Git!Wipe, Git!Clone, Git!Reset, Git!Submodules, Git!Prepare
  <1>8. ASSUME NEW t \in Tasks, Git!Insert(t) PROVE Git!TypeOK'
      BY <1>8 DEF Git!Insert, Git!Stages
  <1>9. ASSUME NEW t \in Tasks, Git!Fail(t) PROVE Git!TypeOK'
      BY <1>9 DEF Git!Fail, Git!Unlock
  <1>10. ASSUME NEW p \in Procs, Git!Kill(p) PROVE Git!TypeOK'
      BY <1>10 DEF Git!Kill, Git!Unlock
  <1>11. CASE UNCHANGED Git!vars
      BY <1>11 DEF Git!vars
  <1> QED
      BY <1>1, <1>2, <1>3, <1>4, <1>5, <1>6, <1>7, <1>8, <1>9, <1>10, <1>11
         DEF Git!Next, Git!Step, Git!Respond

(* Steps of a task that is not in its critical section, and those of the   *)
(* remote, leave the lock, the checkouts and the `.ok` files alone.        *)
LEMMA GitOutsideSteps ==
    ASSUME Git!GitConstants, Git!IInv, NEW t \in Tasks,
           \/ Git!FastKnown(t) \/ Git!FastSkip(t) \/ Git!FastAsk(t) \/ Git!FastServe(t)
           \/ Git!FastReply(t) \/ Git!FastFail(t) \/ Git!ReadKnown(t) \/ Git!LockTimeout(t)
    PROVE  (Git!HolderOnly /\ Git!Stages /\ Git!MarkerVouches /\ Git!UsedMarked)'
  <1>1. UNCHANGED Git!diskVars /\ UNCHANGED rev
      BY DEF Git!FastKnown, Git!FastSkip, Git!FastAsk, Git!FastServe, Git!FastReply, Git!FastFail,
             Git!ReadKnown, Git!LockTimeout
  <1>2. \A u \in Tasks :
            stage'[u] = stage[u] \/ stage'[u] \in {"resolved", "read", "ask", "reply", "lock", "failed"}
      BY DEF Git!IInv, Git!TypeOK, Git!FastKnown, Git!FastSkip, Git!FastAsk, Git!FastServe, Git!FastReply, Git!FastFail,
             Git!ReadKnown, Git!LockTimeout, Git!Goto, Git!Answer
  <1> QED
      BY <1>1, <1>2
         DEF Git!IInv, Git!HolderOnly, Git!Stages, Git!MarkerVouches, Git!UsedMarked, Git!diskVars

(* Steps inside the critical section.                                      *)
LEMMA GitLockedSteps ==
    ASSUME Git!GitConstants, Git!IInv, NEW t \in Tasks,
           \/ Git!AcquireLock(t) \/ Git!Update(t) \/ Git!UseCheckout(t) \/ Git!Unmark(t)
           \/ Git!Wipe(t) \/ Git!Clone(t) \/ Git!Reset(t) \/ Git!Submodules(t) \/ Git!Mark(t)
           \/ Git!Insert(t) \/ Git!Fail(t)
    PROVE  (Git!HolderOnly /\ Git!Stages /\ Git!MarkerVouches /\ Git!UsedMarked)'
  <1> USE DEF Git!GitConstants, Git!IInv, Git!TypeOK, Git!Goto, Git!HolderOnly
  <1>1. CASE Git!AcquireLock(t)
      BY <1>1 DEF Git!AcquireLock, Git!Stages, Git!MarkerVouches, Git!UsedMarked
  <1>2. CASE Git!Update(t)
      BY <1>2 DEF Git!Update, Git!Target, Git!Stages, Git!MarkerVouches, Git!UsedMarked
  <1>3. CASE Git!UseCheckout(t)
      BY <1>3 DEF Git!UseCheckout, Git!IsFresh, Git!diskVars, Git!Stages, Git!MarkerVouches, Git!UsedMarked
  <1>4. CASE Git!Unmark(t)
    <2>1. Git!HolderOnly'
        BY <1>4 DEF Git!Unmark
    <2>2. Git!Stages'
        BY <1>4 DEF Git!Unmark, Git!Stages
    <2>3. Git!MarkerVouches'
        BY <1>4 DEF Git!Unmark, Git!Stages, Git!MarkerVouches
    <2>4. Git!UsedMarked'
        BY <1>4 DEF Git!Unmark, Git!IsFresh, Git!Stages, Git!MarkerVouches, Git!UsedMarked
    <2> QED
        BY <2>1, <2>2, <2>3, <2>4
  <1>5. ASSUME NEW from \in {"wipe", "clone", "reset", "submodules"},
               NEW state \in {"none", "cloned", "reset", "full"},
               NEW next \in {"clone", "reset", "submodules", "mark"},
               next = "mark" => state = "full",
               Git!Prepare(t, from, state, next)
        PROVE  (Git!HolderOnly /\ Git!Stages /\ Git!MarkerVouches /\ Git!UsedMarked)'
    <2>1. Git!HolderOnly'
        BY <1>5 DEF Git!Prepare
    <2>2. Git!Stages'
        BY <1>5 DEF Git!Prepare, Git!Stages
    <2>3. Git!MarkerVouches'
        BY <1>5 DEF Git!Prepare, Git!Stages, Git!MarkerVouches
    <2>4. Git!UsedMarked'
        BY <1>5 DEF Git!Prepare, Git!Stages, Git!UsedMarked
    <2> QED
        BY <2>1, <2>2, <2>3, <2>4
  <1>6. CASE Git!Wipe(t) \/ Git!Clone(t) \/ Git!Reset(t) \/ Git!Submodules(t)
      BY <1>5, <1>6 DEF Git!Wipe, Git!Clone, Git!Reset, Git!Submodules
  <1>7. CASE Git!Mark(t)
    <2>1. Git!HolderOnly' /\ Git!UsedMarked'
        BY <1>7 DEF Git!Mark, Git!Stages, Git!UsedMarked
    <2>2. Git!Stages'
        BY <1>7 DEF Git!Mark, Git!Stages
    <2>3. Git!MarkerVouches'
        BY <1>7 DEF Git!Mark, Git!Stages, Git!MarkerVouches
    <2> QED
        BY <2>1, <2>2, <2>3
  <1>8. CASE Git!Insert(t)
      BY <1>8 DEF Git!Insert, Git!Stages, Git!MarkerVouches, Git!UsedMarked
  <1>9. CASE Git!Fail(t)
      BY <1>9 DEF Git!Fail, Git!Unlock, Git!Stages, Git!MarkerVouches, Git!UsedMarked
  <1> QED
      BY <1>1, <1>2, <1>3, <1>4, <1>6, <1>7, <1>8, <1>9

(* A crash leaves the disk as it is and frees the lock of the dead.        *)
LEMMA GitKillStep ==
    ASSUME Git!GitConstants, Git!IInv, NEW p \in Procs, Git!Kill(p)
    PROVE  (Git!HolderOnly /\ Git!Stages /\ Git!MarkerVouches /\ Git!UsedMarked)'
  <1>1. \A t \in Tasks : stage'[t] = stage[t] \/ stage'[t] = "dead"
      BY DEF Git!Kill, Git!IInv, Git!TypeOK
  <1>2. UNCHANGED <<db, checkout, marker, rev>>
      BY DEF Git!Kill
  <1>3. Git!HolderOnly'
      BY DEF Git!Kill, Git!Unlock, Git!IInv, Git!TypeOK, Git!HolderOnly
  <1> QED
      BY <1>1, <1>2, <1>3 DEF Git!IInv, Git!Stages, Git!MarkerVouches, Git!UsedMarked

(* IInv is inductive.                                                      *)
LEMMA GitNextIInv ==
    ASSUME Git!GitConstants PROVE Git!IInv /\ [Git!Next]_(Git!vars) => Git!IInv'
  <1> SUFFICES ASSUME Git!IInv, [Git!Next]_(Git!vars) PROVE Git!IInv'
      OBVIOUS
  <1>1. Git!TypeOK'
      BY GitNextTypeOK DEF Git!IInv
  <1>2. (Git!HolderOnly /\ Git!Stages /\ Git!MarkerVouches /\ Git!UsedMarked)'
    <2>1. CASE Git!Push
        BY <2>1 DEF Git!Push, Git!IInv, Git!HolderOnly, Git!Stages, Git!MarkerVouches, Git!UsedMarked,
                    Git!diskVars, Git!taskVars
    <2>2. CASE UNCHANGED Git!vars
        BY <2>2 DEF Git!vars, Git!IInv, Git!HolderOnly, Git!Stages, Git!MarkerVouches, Git!UsedMarked,
                    Git!diskVars, Git!taskVars
    <2> QED
        BY <2>1, <2>2, GitOutsideSteps, GitLockedSteps, GitKillStep DEF Git!Next, Git!Step, Git!Respond
  <1> QED
      BY <1>1, <1>2 DEF Git!IInv

(* Every behaviour of the resolver keeps the inductive invariant, the type *)
(* invariant included.                                                     *)
THEOREM GitInductive ==
    ASSUME Git!GitConstants PROVE Git!Spec => []Git!IInv
  BY GitInitIInv, GitNextIInv, PTL DEF Git!Spec

(* The `.ok` file beside a checkout exists only when GitCheckout::reset    *)
(* has completed it, whatever crashes came before.                         *)
THEOREM MarkersVouch ==
    ASSUME Git!GitConstants PROVE Git!Spec => []MarkerVouches
  <1>1. Git!IInv => MarkerVouches
      BY DEF Git!IInv, Git!MarkerVouches, MarkerVouches, Commits
  <1> QED
      BY <1>1, GitInductive, PTL

(* The checkout that GitResolver::fetch returned to a task is complete for *)
(* as long as the task uses it, though the lock is dropped by then.        *)
THEOREM CheckoutsComplete ==
    ASSUME Git!GitConstants PROVE Git!Spec => []UsedCheckoutsComplete
  <1>1. Git!IInv => UsedCheckoutsComplete
      BY DEF Git!IInv, Git!UsedMarked, Git!MarkerVouches, UsedCheckoutsComplete
  <1> QED
      BY <1>1, GitInductive, PTL

===============================================================================
