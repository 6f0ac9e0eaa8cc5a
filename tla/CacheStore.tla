----------------------------- MODULE CacheStore -----------------------------
(***************************************************************************)
(* The on-disk cache shared by concurrent uv processes (uv-cache, with the *)
(* lock files of uv-fs and the readers of uv-distribution).                *)
(*                                                                         *)
(* Unpacked wheels and environments are directories of the archive bucket, *)
(* named by an archive id.  A cache entry (a slot) refers to an archive by *)
(* a symbolic link, and a downloaded wheel also by the archive id in its   *)
(* `.http` file (pointer).  Every command holds a shared lock on the file  *)
(* `.lock` of the cache root; `uv cache clean` and `uv cache prune` hold   *)
(* it exclusively.  A lock belongs to the inode that was opened, not to    *)
(* the path, so opening and locking are separate steps.  Removing a        *)
(* directory unlinks its files one at a time: between the first and the    *)
(* last the archive is torn.                                               *)
(*                                                                         *)
(* Left out: `--force`, by which the user vouches that no other uv runs;   *)
(* platforms without shared locks (a warning says that they are less       *)
(* safe); the files bucket, whose objects are counted by hard links; and   *)
(* the buckets that no archive is referenced from.                         *)
(***************************************************************************)
EXTENDS Naturals, FiniteSets

CONSTANTS
    Procs,            \* slots of the process table; each runs one command at a time
    HttpSlots,        \* entries of downloaded wheels
    BuiltSlots,       \* entries of wheels built from source
    EnvSlots,         \* entries of cached environments
    Packages,         \* the packages the wheel entries belong to
    PackageOf,        \* [HttpSlots \cup BuiltSlots -> Packages]
    MaxIds,           \* bound on the archive ids
    Commands,         \* the commands that are run
    Settings,         \* the settings considered, each a record as below
    MaxDeaths,        \* bound on the processes that are killed or fail
    None

WheelSlots == HttpSlots \cup BuiltSlots
Slots == WheelSlots \cup EnvSlots

(* Archive ids, numbered in the order in which they come up.               *)
Ids == 1..MaxIds

(* With digests, the archive id of a wheel is a digest of its contents;    *)
(* the removing commands in killable may be killed, too; commands bounds   *)
(* the commands started.                                                   *)
SettingType == [digests : BOOLEAN, killable : SUBSET Commands, commands : Nat]

(* A package name names the command `uv cache clean <package>`.            *)
ASSUME CommandAssumption ==
    /\ Commands \subseteq {"use", "clean", "prune", "prune --ci"} \cup Packages
    /\ Settings \subseteq SettingType
    /\ None \notin Procs \cup Slots \cup Ids
    /\ PackageOf \in [WheelSlots -> Packages]
    /\ MaxIds \in Nat /\ MaxDeaths \in Nat

VARIABLES
    setting,  \* the setting at hand
    inode,    \* the inode that the path `.lock` names, 0 if there is none
    inodes,   \* how many inodes were ever created for that path
    fd,       \* fd[p]: the inode p has opened, 0 if none
    held,     \* held[p]: how p has locked that inode
    pc, cmd,  \* pc[p], cmd[p]: where p is, and in which command
    slot, id, \* slot[p], id[p]: the entry p is filling, and its new archive id
    uses,     \* uses[p]: the archives p links or copies into an environment
    refs,     \* refs[p]: the links found by find_archive_references
    asked,    \* asked[p]: the entries p has asked for; a command asks once for each
    archive,  \* archive[i]: "absent", "whole" or "torn"
    issued,   \* how many ids were ever given to an archive
    link,     \* link[s]: the archive that the link of s names, or None
    pointer,  \* pointer[s]: the archive id in the `.http` file of s, or None
    wlock,    \* wlock[s]: the holder of the lock file of s, or None
    commands, deaths

lockVars == <<inode, inodes, fd, held>>
procVars == <<pc, cmd, slot, id, uses, refs, asked>>
diskVars == <<archive, issued, link, pointer>>
bounds == <<setting, commands, deaths>>
vars == <<lockVars, procVars, diskVars, wlock, bounds>>

InCache == {"ready", "wlock", "lookup", "rename", "link", "point"}
Removing == {"collect", "unlink", "sweep", "delete", "removed"}

TypeOK ==
    /\ setting \in Settings
    /\ inodes \in 0..(2 * setting.commands) /\ inode \in 0..inodes
    /\ fd \in [Procs -> 0..inodes]
    /\ held \in [Procs -> {"none", "shared", "exclusive"}]
    /\ pc \in [Procs -> {"idle", "init", "lock", "grab", "try", "again", "block"}
                          \cup InCache \cup Removing]
    /\ cmd \in [Procs -> Commands \cup {None}]
    /\ slot \in [Procs -> Slots \cup {None}]
    /\ id \in [Procs -> Ids \cup {None}]
    /\ uses \in [Procs -> SUBSET Ids]
    /\ refs \in [Procs -> SUBSET (WheelSlots \X Ids)]
    /\ asked \in [Procs -> SUBSET Slots]
    /\ archive \in [Ids -> {"absent", "whole", "torn"}]
    /\ issued \in 0..MaxIds
    /\ link \in [Slots -> Ids \cup {None}]
    /\ pointer \in [HttpSlots -> Ids \cup {None}]
    /\ wlock \in [Slots -> Procs \cup {None}]
    /\ commands \in 0..setting.commands /\ deaths \in 0..MaxDeaths

Init ==
    /\ setting \in Settings
    /\ inode = 0 /\ inodes = 0
    /\ fd = [p \in Procs |-> 0] /\ held = [p \in Procs |-> "none"]
    /\ pc = [p \in Procs |-> "idle"] /\ cmd = [p \in Procs |-> None]
    /\ slot = [p \in Procs |-> None] /\ id = [p \in Procs |-> None]
    /\ uses = [p \in Procs |-> {}] /\ refs = [p \in Procs |-> {}]
    /\ asked = [p \in Procs |-> {}]
    /\ archive = [i \in Ids |-> "absent"] /\ issued = 0
    /\ link = [s \in Slots |-> None] /\ pointer = [s \in HttpSlots |-> None]
    /\ wlock = [s \in Slots |-> None]
    /\ commands = 0 /\ deaths = 0

-----------------------------------------------------------------------------
(* The process table.                                                      *)

(* A removing command returns at once where there is no cache root, which  *)
(* exists from the first Open on; that case changes nothing and is left    *)
(* out.                                                                    *)
Start(p) ==
    /\ pc[p] = "idle" /\ commands < setting.commands
    /\ \E c \in Commands :
         /\ c = "use" \/ inodes > 0
         /\ cmd' = [cmd EXCEPT ![p] = c]
         /\ pc' = [pc EXCEPT ![p] = IF c = "use" THEN "init" ELSE "grab"]
    /\ commands' = commands + 1
    /\ UNCHANGED <<lockVars, slot, id, uses, refs, asked, diskVars, wlock, setting, deaths>>

(* What the operating system does when a process ends: its descriptors are *)
(* closed, which gives up its locks.                                       *)
End(p) ==
    /\ pc' = [pc EXCEPT ![p] = "idle"] /\ cmd' = [cmd EXCEPT ![p] = None]
    /\ slot' = [slot EXCEPT ![p] = None] /\ id' = [id EXCEPT ![p] = None]
    /\ uses' = [uses EXCEPT ![p] = {}] /\ refs' = [refs EXCEPT ![p] = {}]
    /\ asked' = [asked EXCEPT ![p] = {}]
    /\ fd' = [fd EXCEPT ![p] = 0] /\ held' = [held EXCEPT ![p] = "none"]
    /\ wlock' = [s \in Slots |-> IF wlock[s] = p THEN None ELSE wlock[s]]
    /\ UNCHANGED <<inode, inodes, diskVars, setting, commands>>

Finish(p) ==
    /\ pc[p] \in {"ready", "removed"}
    /\ End(p)
    /\ UNCHANGED deaths

(* A process is killed, or a download, a build or a file operation fails   *)
(* and the error ends the command.                                         *)
Die(p) ==
    /\ pc[p] # "idle" /\ deaths < MaxDeaths
    /\ pc[p] \in Removing => cmd[p] \in setting.killable
    /\ End(p)
    /\ deaths' = deaths + 1

-----------------------------------------------------------------------------
(* The root lock.                                                          *)

(* LockedFile::create: open the path, or create it without replacing one   *)
(* that appeared in the meantime.                                          *)
OpenLock(p, next) ==
    /\ inodes' = IF inode = 0 THEN inodes + 1 ELSE inodes
    /\ inode' = IF inode = 0 THEN inodes + 1 ELSE inode
    /\ fd' = [fd EXCEPT ![p] = inode']
    /\ pc' = [pc EXCEPT ![p] = next]
    /\ UNCHANGED <<held, cmd, slot, id, uses, refs, asked, diskVars, wlock,
                   bounds>>


(* flock: a lock conflicts with the locks on the same inode.               *)
Free(p, mode) ==
    \A q \in Procs \ {p} :
        fd[q] = fd[p] => \/ held[q] = "none"
                         \/ mode = "shared" /\ held[q] = "shared"

Lock(p, mode, next) ==
    /\ Free(p, mode)
    /\ held' = [held EXCEPT ![p] = mode]
    /\ pc' = [pc EXCEPT ![p] = next]
    /\ UNCHANGED <<inode, inodes, fd, cmd, slot, id, uses, refs, asked, diskVars,
                   wlock, bounds>>

(* Cache::init: shared, waiting.                                           *)
InitOpen(p) == pc[p] = "init" /\ OpenLock(p, "lock")
InitLock(p) == pc[p] = "lock" /\ Lock(p, "shared", "ready")

(* The first phase of each removing command.                               *)
FirstPhase(c) ==
    CASE c = "clean" -> "sweep"
      [] c \in {"prune", "prune --ci"} -> "unlink"
      [] OTHER -> "collect"

(* with_exclusive_lock_no_wait: one attempt, whose file is closed when the *)
(* lock is busy.                                                           *)
GrabOpen(p) == pc[p] = "grab" /\ OpenLock(p, "try")
GrabLock(p) == pc[p] = "try" /\ Lock(p, "exclusive", FirstPhase(cmd[p]))
GrabBusy(p) ==
    /\ pc[p] = "try" /\ ~Free(p, "exclusive")
    /\ fd' = [fd EXCEPT ![p] = 0]
    /\ pc' = [pc EXCEPT ![p] = "again"]
    /\ UNCHANGED <<inode, inodes, held, cmd, slot, id, uses, refs, asked, diskVars,
                   wlock, bounds>>

(* with_exclusive_lock: open again, and wait.                              *)
BlockOpen(p) == pc[p] = "again" /\ OpenLock(p, "block")
BlockLock(p) == pc[p] = "block" /\ Lock(p, "exclusive", FirstPhase(cmd[p]))

(* LOCK_TIMEOUT passes while the root lock, or the lock of an entry, is    *)
(* held by someone else: the command fails.                                *)
Timeout(p) ==
    /\ \/ pc[p] = "lock" /\ ~Free(p, "shared")
       \/ pc[p] = "block" /\ ~Free(p, "exclusive")
       \/ pc[p] = "wlock" /\ wlock[slot[p]] # None
    /\ End(p)
    /\ UNCHANGED deaths

-----------------------------------------------------------------------------
(* Using the cache: look an entry up under its lock, fill it if need be.   *)

(* canonicalize follows the link and fails when the directory is missing;  *)
(* Archive::exists looks only at the directory.                            *)
Present(i) == i # None /\ archive[i] # "absent"
Cached(s) == IF s \in HttpSlots THEN pointer[s] ELSE link[s]

(* A hit that keeps the lock of the entry until the command ends.          *)
ObtainKeepingLock(p, i) ==
    /\ uses' = [uses EXCEPT ![p] = @ \cup {i}]
    /\ slot' = [slot EXCEPT ![p] = None] /\ id' = [id EXCEPT ![p] = None]
    /\ pc' = [pc EXCEPT ![p] = "ready"]
    /\ UNCHANGED wlock

Obtain(p, i) ==
    /\ uses' = [uses EXCEPT ![p] = @ \cup {i}]
    /\ wlock' = [s \in Slots |-> IF wlock[s] = p THEN None ELSE wlock[s]]
    /\ slot' = [slot EXCEPT ![p] = None] /\ id' = [id EXCEPT ![p] = None]
    /\ pc' = [pc EXCEPT ![p] = "ready"]

Pick(p, s) ==
    /\ pc[p] = "ready" /\ s \notin asked[p]
    /\ slot' = [slot EXCEPT ![p] = s]
    /\ asked' = [asked EXCEPT ![p] = @ \cup {s}]
    /\ pc' = [pc EXCEPT ![p] = "wlock"]
    /\ UNCHANGED <<lockVars, cmd, id, uses, refs, diskVars, wlock, bounds>>

(* A cached environment is looked up once without the lock.                *)
PickCached(p, s) ==
    /\ pc[p] = "ready" /\ s \notin asked[p]
    /\ s \in EnvSlots /\ Present(link[s])
    /\ Obtain(p, link[s])
    /\ asked' = [asked EXCEPT ![p] = @ \cup {s}]
    /\ UNCHANGED <<lockVars, cmd, refs, diskVars, bounds>>

LockWheel(p) ==
    /\ pc[p] = "wlock" /\ wlock[slot[p]] = None
    /\ wlock' = [wlock EXCEPT ![slot[p]] = p]
    /\ pc' = [pc EXCEPT ![p] = "lookup"]
    /\ UNCHANGED <<lockVars, cmd, slot, id, uses, refs, asked, diskVars,
                   bounds>>

(* A lookup that trusts the recorded archive id.                           *)
HitBlindly(p) ==
    /\ pc[p] = "lookup" /\ Cached(slot[p]) # None
    /\ Obtain(p, Cached(slot[p]))
    /\ UNCHANGED <<lockVars, cmd, refs, asked, diskVars, bounds>>

Hit(p) ==
    /\ pc[p] = "lookup" /\ Present(Cached(slot[p]))
    /\ Obtain(p, Cached(slot[p]))
    /\ UNCHANGED <<lockVars, cmd, refs, asked, diskVars, bounds>>

(* Nothing is cached, or the server answers a revalidation with another    *)
(* response.  Ids drawn at random do not repeat; a digest of the contents  *)
(* may be that of an archive that is already there.                        *)
Fetch(p) ==
    /\ pc[p] = "lookup"
    /\ slot[p] \in HttpSlots \/ ~Present(Cached(slot[p]))
    /\ \E i \in Ids :
         /\ \/ i = issued + 1
            \/ i <= issued /\ setting.digests /\ slot[p] \in WheelSlots
         /\ id' = [id EXCEPT ![p] = i]
         /\ issued' = IF i <= issued THEN issued ELSE i
    /\ pc' = [pc EXCEPT ![p] = "rename"]
    /\ UNCHANGED <<lockVars, cmd, slot, uses, refs, asked, archive, link, pointer,
                   wlock, bounds>>

(* Cache::persist and persist_with_id: move the unpacked directory to its  *)
(* id.  rename replaces an empty directory, and fails on one with files,   *)
(* which persist_with_id then takes for the same contents.                 *)
Rename(p) ==
    /\ pc[p] = "rename"
    /\ \E state \in IF archive[id[p]] = "torn" THEN {"torn", "whole"} ELSE {"whole"} :
         archive' = [archive EXCEPT ![id[p]] = state]
    /\ pc' = [pc EXCEPT ![p] = "link"]
    /\ UNCHANGED <<lockVars, cmd, slot, id, uses, refs, asked, issued, link, pointer,
                   wlock, bounds>>

CreateLink(p) ==
    /\ pc[p] = "link"
    /\ link' = [link EXCEPT ![slot[p]] = id[p]]
    /\ IF slot[p] \in HttpSlots
       THEN pc' = [pc EXCEPT ![p] = "point"] /\ UNCHANGED <<slot, id, uses, wlock>>
       ELSE Obtain(p, id[p])
    /\ UNCHANGED <<lockVars, cmd, refs, asked, archive, issued, pointer,
                   bounds>>

(* The client stores the response, with the archive id, once the callback  *)
(* that unpacked it has returned.                                          *)
WritePointer(p) ==
    /\ pc[p] = "point"
    /\ pointer' = [pointer EXCEPT ![slot[p]] = id[p]]
    /\ Obtain(p, id[p])
    /\ UNCHANGED <<lockVars, cmd, refs, asked, archive, issued, link, bounds>>

-----------------------------------------------------------------------------
(* Removing from the cache.                                                *)

(* One file of an archive directory goes, or the last one with the         *)
(* directory itself.                                                       *)
Damage(i) ==
    \E state \in {"torn", "absent"} :
        /\ archive[i] # "absent"
        /\ archive' = [archive EXCEPT ![i] = state]

RemoveLink(s) == link[s] # None /\ link' = [link EXCEPT ![s] = None]
RemovePointer(s) ==
    /\ s \in HttpSlots /\ pointer[s] # None
    /\ pointer' = [pointer EXCEPT ![s] = None]

(* A clear that removes the lock file with the rest.                       *)
SweepAll(p) ==
    /\ pc[p] = "sweep"
    /\ \/ \E i \in Ids : Damage(i) /\ UNCHANGED <<inode, link, pointer>>
       \/ \E s \in Slots : RemoveLink(s) /\ UNCHANGED <<inode, archive, pointer>>
       \/ \E s \in HttpSlots : RemovePointer(s) /\ UNCHANGED <<inode, archive, link>>
       \/ inode # 0 /\ inode' = 0 /\ UNCHANGED <<archive, link, pointer>>
    /\ UNCHANGED <<inodes, fd, held, procVars, issued, wlock, bounds>>

(* Cache::clear: everything below the root but `.lock`, in the order of    *)
(* the directories.                                                        *)
Sweep(p) ==
    /\ pc[p] = "sweep"
    /\ \/ \E i \in Ids : Damage(i) /\ UNCHANGED <<link, pointer>>
       \/ \E s \in Slots : RemoveLink(s) /\ UNCHANGED <<archive, pointer>>
       \/ \E s \in HttpSlots : RemovePointer(s) /\ UNCHANGED <<archive, link>>
    /\ UNCHANGED <<lockVars, procVars, issued, wlock, bounds>>

SweepDone(p) ==
    /\ pc[p] = "sweep"
    /\ \A i \in Ids : archive[i] = "absent"
    /\ \A s \in Slots : link[s] = None
    /\ \A s \in HttpSlots : pointer[s] = None
    /\ pc' = [pc EXCEPT ![p] = "removed"]
    /\ UNCHANGED <<lockVars, cmd, slot, id, uses, refs, asked, diskVars, wlock,
                   bounds>>

(* find_archive_references walks the wheel buckets for links that resolve. *)
References == {r \in WheelSlots \X Ids : link[r[1]] = r[2] /\ Present(r[2])}

(* Cache::remove collects the references before it unlinks the entries of  *)
(* the package, Cache::prune after it has unlinked what it drops: all      *)
(* environments and, in CI, the unpacked wheels.                           *)
Doomed(c) ==
    CASE c = "prune" -> EnvSlots
      [] c = "prune --ci" -> Slots
      [] OTHER -> {s \in WheelSlots : PackageOf[s] = c}

IsPrune(c) == c \in {"prune", "prune --ci"}

Collect(p) ==
    /\ pc[p] = "collect"
    /\ refs' = [refs EXCEPT ![p] = References]
    /\ pc' = [pc EXCEPT ![p] = IF IsPrune(cmd[p]) THEN "delete" ELSE "unlink"]
    /\ UNCHANGED <<lockVars, cmd, slot, id, uses, asked, diskVars, wlock,
                   bounds>>

Unlink(p) ==
    /\ pc[p] = "unlink"
    /\ \E s \in Doomed(cmd[p]) :
         \/ RemoveLink(s) /\ UNCHANGED pointer
         \/ RemovePointer(s) /\ UNCHANGED link
    /\ UNCHANGED <<lockVars, procVars, archive, issued, wlock, bounds>>

UnlinkDone(p) ==
    /\ pc[p] = "unlink"
    /\ \A s \in Doomed(cmd[p]) :
         link[s] = None /\ (s \in HttpSlots => pointer[s] = None)
    /\ pc' = [pc EXCEPT ![p] = IF IsPrune(cmd[p]) THEN "collect" ELSE "delete"]
    /\ UNCHANGED <<lockVars, cmd, slot, id, uses, refs, asked, diskVars, wlock,
                   bounds>>

(* A removal for which one link less is enough.                            *)
VictimOnceUnlinked(p, i) ==
    LET linkers == {s \in WheelSlots : <<s, i>> \in refs[p]}
    IN  IF IsPrune(cmd[p]) THEN linkers = {}
        ELSE linkers # {} /\ \E s \in linkers : ~Present(link[s])

(* A prune that spares what a `.http` file names.                          *)
VictimUnnamed(p, i) ==
    LET linkers == {s \in WheelSlots : <<s, i>> \in refs[p]}
    IN  IF IsPrune(cmd[p]) THEN linkers = {} /\ \A s \in HttpSlots : pointer[s] # i
        ELSE linkers # {} /\ \A s \in linkers : ~Present(link[s])

(* prune removes the archives without a reference; remove those that had   *)
(* one and whose references are all gone.                                  *)
Victim(p, i) ==
    LET linkers == {s \in WheelSlots : <<s, i>> \in refs[p]}
    IN  IF IsPrune(cmd[p]) THEN linkers = {}
        ELSE linkers # {} /\ \A s \in linkers : ~Present(link[s])

Delete(p) ==
    /\ pc[p] = "delete"
    /\ \E i \in Ids : Victim(p, i) /\ Damage(i)
    /\ UNCHANGED <<lockVars, procVars, issued, link, pointer, wlock, bounds>>

DeleteDone(p) ==
    /\ pc[p] = "delete"
    /\ \A i \in Ids : Victim(p, i) => archive[i] = "absent"
    /\ pc' = [pc EXCEPT ![p] = "removed"]
    /\ UNCHANGED <<lockVars, cmd, slot, id, uses, refs, asked, diskVars, wlock,
                   bounds>>
-----------------------------------------------------------------------------
Step(p) ==
    \/ InitOpen(p) \/ InitLock(p)
    \/ GrabOpen(p) \/ GrabLock(p) \/ GrabBusy(p) \/ BlockOpen(p) \/ BlockLock(p)
    \/ LockWheel(p) \/ Hit(p) \/ Fetch(p) \/ Rename(p) \/ CreateLink(p) \/ WritePointer(p)
    \/ Sweep(p) \/ SweepDone(p) \/ Collect(p) \/ Unlink(p) \/ UnlinkDone(p)
    \/ Delete(p) \/ DeleteDone(p)

Next ==
    \/ \E p \in Procs : Start(p) \/ Step(p) \/ Finish(p) \/ Timeout(p) \/ Die(p)
    \/ \E p \in Procs, s \in Slots : Pick(p, s) \/ PickCached(p, s)

(* A running process keeps taking steps, flock grants a lock that stays    *)
(* free to a waiter, and a command asks for finitely many entries.  No     *)
(* timeout, death or new command is assumed to happen.                     *)
Fairness == \A p \in Procs : WF_vars(Step(p)) /\ WF_vars(Finish(p))
Spec == Init /\ [][Next]_vars /\ Fairness

-----------------------------------------------------------------------------
(* Whatever archive a command has obtained from the cache is there, with   *)
(* all its files, for as long as the command runs, whoever removes from    *)
(* the cache, refreshes the entry, or died halfway before.                 *)
UsedWhole == \A p \in Procs : \A i \in uses[p] : archive[i] = "whole"

(* A command that removes from the cache runs alone, although the lock     *)
(* file it opened may have been opened long before, by a process that      *)
(* waited while the cache was cleared.                                     *)
RemovesAlone ==
    \A p, q \in Procs :
        p # q /\ pc[p] \in Removing => pc[q] \notin InCache \cup Removing

(* When `uv cache prune` is through, each archive left is one that a wheel *)
(* entry refers to: what dead processes left behind is reclaimed.          *)
PruneReclaims ==
    \A p \in Procs :
        pc[p] = "removed" /\ IsPrune(cmd[p]) =>
            \A i \in Ids : archive[i] # "absent" => \E s \in WheelSlots : link[s] = i

(* `uv cache clean <package>` and `uv cache prune` touch an archive only   *)
(* once no wheel entry refers to it: an archive that two packages share    *)
(* stays, and dying in between leaves no entry with half an archive.       *)
UnlinkedBeforeRemoved ==
    [][\A i \in Ids :
          archive[i] # archive'[i] /\ archive'[i] # "whole" =>
              \/ \E p \in Procs : pc[p] = "sweep"
              \/ \A s \in WheelSlots : link[s] # i]_vars

(* What makes RemovesAlone inductive.  No command ever unlinks `.lock`, so *)
(* there is one inode to lock, and whoever has the file open has that one; *)
(* a process is in the cache exactly while it holds the shared lock, and   *)
(* removes from it exactly while it holds the exclusive one.               *)
OneLockFile ==
    /\ inode = inodes /\ inodes <= 1
    /\ \A p \in Procs : fd[p] \in {0, inode} /\ (pc[p] # "idle" => commands > 0)
LocksFollowPc ==
    \A p \in Procs :
        /\ held[p] = "shared" <=> pc[p] \in InCache
        /\ held[p] = "exclusive" <=> pc[p] \in Removing
        /\ pc[p] \in {"lock", "try", "block"} \cup InCache \cup Removing => fd[p] # 0
LocksExclude ==
    \A p, q \in Procs : p # q /\ held[p] = "exclusive" => held[q] = "none"

(* A process that fills an entry knows which, and under which id.          *)
FillsEntry ==
    \A p \in Procs :
        /\ pc[p] \in {"wlock", "lookup", "rename", "link", "point"} => slot[p] \in Slots
        /\ pc[p] \in {"rename", "link", "point"} => id[p] \in Ids
        /\ pc[p] = "point" => slot[p] \in HttpSlots

LockInv == TypeOK /\ OneLockFile /\ LocksFollowPc /\ LocksExclude /\ FillsEntry

(* What makes PruneReclaims and UnlinkedBeforeRemoved inductive.  Since    *)
(* the references were collected nobody else has touched the cache: none   *)
(* is missing from refs, and prune, which unlinks first, has no stale one. *)
RefsComplete ==
    \A p \in Procs :
        pc[p] = "delete" \/ (pc[p] = "unlink" /\ ~IsPrune(cmd[p])) =>
            References \subseteq refs[p]
RefsExact ==
    \A p \in Procs :
        pc[p] = "delete" /\ IsPrune(cmd[p]) =>
            \A s \in WheelSlots, i \in Ids : <<s, i>> \in refs[p] => link[s] = i

RemovalInv == RefsComplete /\ RefsExact /\ PruneReclaims

(* What makes UsedWhole inductive where no removing command is killed: an  *)
(* archive is torn only while the command that removes it runs, and a      *)
(* process that has moved an archive into place is using the cache.        *)
TornWhileRemoving ==
    \A i \in Ids :
        archive[i] = "torn" =>
            \E p \in Procs : pc[p] = "sweep" \/ (pc[p] = "delete" /\ Victim(p, i))
UsesWhileInCache ==
    \A p \in Procs :
        /\ uses[p] # {} => pc[p] \in InCache
        /\ pc[p] \in {"link", "point"} => archive[id[p]] = "whole"

UseInv == setting.killable = {} => TornWhileRemoving /\ UsesWhileInCache /\ UsedWhole

(* A process that would need one more archive id than the model has.       *)
Starved(p) ==
    /\ pc[p] = "lookup" /\ issued = MaxIds
    /\ ~(setting.digests /\ slot[p] \in WheelSlots)

(* Every command comes to its end: nobody waits for ever on the root lock  *)
(* or on the lock of an entry (as long as the bound on ids lasts).         *)
Terminates ==
    \A p \in Procs : pc[p] # "idle" ~> (pc[p] = "idle" \/ \E q \in Procs : Starved(q))
=============================================================================
