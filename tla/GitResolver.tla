---------------------------- MODULE GitResolver ----------------------------
(***************************************************************************)
(* Git sources (uv-git): the in-memory map from a reference to a commit    *)
(* that one process keeps (GitResolver), and the database and checkouts of *)
(* a repository that all processes share below the Git cache bucket.       *)
(*                                                                         *)
(* Several tasks of a process want the same branch of the same repository, *)
(* for instance two packages in subdirectories of one repository, while    *)
(* the branch moves on at the remote.  A task may learn the commit from    *)
(* the GitHub API (github_fast_path) and may then check it out (fetch).    *)
(* fetch looks the reference up, waits for the lock file of the            *)
(* repository, updates the database, prepares the checkout of the commit,  *)
(* and stores the commit.  A checkout is used when its HEAD is the commit  *)
(* and the `.ok` file beside it exists.                                    *)
(*                                                                         *)
(* The model has one repository and one branch.  URLs that name a commit   *)
(* never consult the remote and are left out, as is Git LFS, whose         *)
(* checkouts have directories of their own.                                *)
(***************************************************************************)
EXTENDS GitCheckouts

CONSTANTS
    Procs,      \* uv processes
    ProcOf,     \* [Tasks -> Procs]
    GitHub,     \* TRUE when the repository is on GitHub
    None

GitConstants ==
    /\ ProcOf \in [Tasks -> Procs]
    /\ MaxPushes \in Nat
    /\ None \notin Tasks \cup Nat
    /\ GitHub \in BOOLEAN
ASSUME GitAssumption == GitConstants

VARIABLES
    head,      \* the commit the branch points to at the remote
    known,     \* known[p]: the commit stored for the branch by p, or None
    limited,   \* limited[p]: GITHUB_RATE_LIMIT_STATUS
    lock,      \* the task that holds the lock file of the repository, or None
    db,        \* the commits in the database
    want,      \* want[t]: the commit the URL of the fetch was pinned to, or None
    answer     \* answer[t]: the commit the task went by last, or None

remoteVars == <<head>>
memoVars == <<known, limited>>
diskVars == <<lock, db, checkout, marker>>
taskVars == <<stage, want, rev, answer>>
vars == <<remoteVars, memoVars, diskVars, taskVars>>

Preparing == {"wipe", "clone", "reset", "submodules", "mark"}
Locked == {"update", "check", "insert"} \cup Preparing
Over == {"resolved", "using", "failed", "dead"}
Maybe(S) == S \cup {None}

TypeOK ==
    /\ head \in Commits
    /\ known \in [Procs -> Maybe(Commits)] /\ limited \in [Procs -> BOOLEAN]
    /\ lock \in Maybe(Tasks) /\ db \subseteq Commits
    /\ checkout \in [Commits -> {"none", "cloned", "reset", "full"}]
    /\ marker \in [Commits -> BOOLEAN]
    /\ stage \in [Tasks -> {"start", "ask", "reply", "read", "lock"} \cup Locked \cup Over]
    /\ want \in [Tasks -> Maybe(Commits)]
    /\ rev \in [Tasks -> Maybe(Commits)]
    /\ answer \in [Tasks -> Maybe(Commits)]

Init ==
    /\ head = 0
    /\ known = [p \in Procs |-> None] /\ limited = [p \in Procs |-> FALSE]
    /\ lock = None /\ db = {}
    /\ checkout = [c \in Commits |-> "none"] /\ marker = [c \in Commits |-> FALSE]
    /\ stage = [t \in Tasks |-> "start"]
    /\ want = [t \in Tasks |-> None] /\ rev = [t \in Tasks |-> None]
    /\ answer = [t \in Tasks |-> None]

Known(t) == known[ProcOf[t]]
Goto(t, l) == stage' = [stage EXCEPT ![t] = l]

(* External: someone pushes to the branch.                                 *)
Push ==
    /\ head < MaxPushes
    /\ head' = head + 1
    /\ UNCHANGED <<memoVars, diskVars, taskVars>>

-----------------------------------------------------------------------------
(* github_fast_path.                                                       *)

(* A caller that only resolves the revision, or finds static metadata in   *)
(* the file it downloads from GitHub, stops there; any other goes on to    *)
(* fetch, which looks the commit up again.                                 *)
Answer(t, c) ==
    /\ answer' = [answer EXCEPT ![t] = c]
    /\ \E l \in {"resolved", "read"} : Goto(t, l)

FastKnown(t) ==
    /\ stage[t] = "start" /\ Known(t) # None
    /\ Answer(t, Known(t))
    /\ UNCHANGED <<remoteVars, memoVars, diskVars, want, rev>>

(* GitHubRateLimitStatus, one flag of the process, never cleared.          *)
RateLimited(t) == limited[ProcOf[t]]

(* The repository is not on GitHub, or GitHub limits the rate.             *)
FastSkip(t) ==
    /\ stage[t] = "start" /\ Known(t) = None
    /\ ~GitHub \/ RateLimited(t)
    /\ Goto(t, "read")
    /\ UNCHANGED <<remoteVars, memoVars, diskVars, want, rev, answer>>

FastAsk(t) ==
    /\ stage[t] = "start" /\ Known(t) = None
    /\ GitHub /\ ~RateLimited(t)
    /\ Goto(t, "ask")
    /\ UNCHANGED <<remoteVars, memoVars, diskVars, want, rev, answer>>

(* External: GitHub answers with the current commit, which arrives later.  *)
FastServe(t) ==
    /\ stage[t] = "ask"
    /\ want' = [want EXCEPT ![t] = head]
    /\ Goto(t, "reply")
    /\ UNCHANGED <<remoteVars, memoVars, diskVars, rev, answer>>

FastReply(t) ==
    /\ stage[t] = "reply"
    /\ known' = [known EXCEPT ![ProcOf[t]] = want[t]]
    /\ Answer(t, want[t])
    /\ UNCHANGED <<remoteVars, limited, diskVars, want, rev>>

(* A status that is no success sends the task on to fetch; a request that  *)
(* cannot be made is an error.                                             *)
FastFail(t) ==
    /\ stage[t] = "ask"
    /\ \/ /\ \E b \in BOOLEAN : limited' = [limited EXCEPT ![ProcOf[t]] = @ \/ b]
          /\ Goto(t, "read")
       \/ UNCHANGED limited /\ Goto(t, "failed")
    /\ UNCHANGED <<remoteVars, known, diskVars, want, rev, answer>>

-----------------------------------------------------------------------------
(* fetch.                                                                  *)

ReadKnown(t) ==
    /\ stage[t] = "read"
    /\ want' = [want EXCEPT ![t] = Known(t)]
    /\ Goto(t, "lock")
    /\ UNCHANGED <<remoteVars, memoVars, diskVars, rev, answer>>

AcquireLock(t) ==
    /\ stage[t] = "lock" /\ lock = None
    /\ lock' = t
    /\ Goto(t, "update")
    /\ UNCHANGED <<remoteVars, memoVars, db, checkout, marker, want, rev, answer>>

(* The lock file is never awaited for longer than LOCK_TIMEOUT.            *)
LockTimeout(t) ==
    /\ stage[t] = "lock" /\ lock # None
    /\ Goto(t, "failed")
    /\ UNCHANGED <<remoteVars, memoVars, diskVars, want, rev, answer>>

(* GitRemote::checkout fetches the pinned commit, or what the branch       *)
(* points to now.                                                          *)
Target(t) == IF want[t] # None THEN want[t] ELSE head

(* GitSource::fetch: a pinned commit that the database has needs no        *)
(* network; the database of any other is updated.                          *)
Update(t) ==
    /\ stage[t] = "update"
    /\ rev' = [rev EXCEPT ![t] = Target(t)] /\ db' = db \cup {Target(t)}
    /\ Goto(t, "check")
    /\ UNCHANGED <<remoteVars, memoVars, lock, checkout, marker, want, answer>>

(* A checkout that is trusted for its HEAD alone.                          *)
HeadOnly(c) == checkout[c] \in {"reset", "full"}

(* GitCheckout::is_fresh: HEAD is the commit from the hard reset on.       *)
IsFresh(c) == checkout[c] \in {"reset", "full"} /\ marker[c]

(* GitDatabase::copy_to.                                                   *)
UseCheckout(t) ==
    /\ stage[t] = "check" /\ IsFresh(rev[t])
    /\ Goto(t, "insert")
    /\ UNCHANGED <<remoteVars, memoVars, diskVars, want, rev, answer>>

(* GitCheckout::clone_into and reset: remove the `.ok` file, then the      *)
(* directory, clone, reset, update the submodules, write the `.ok` file.   *)
Unmark(t) ==
    /\ stage[t] = "check" /\ ~IsFresh(rev[t])
    /\ marker' = [marker EXCEPT ![rev[t]] = FALSE]
    /\ Goto(t, "wipe")
    /\ UNCHANGED <<remoteVars, memoVars, lock, db, checkout, want, rev, answer>>

Prepare(t, from, state, next) ==
    /\ stage[t] = from
    /\ checkout' = [checkout EXCEPT ![rev[t]] = state]
    /\ Goto(t, next)
    /\ UNCHANGED <<remoteVars, memoVars, lock, db, marker, want, rev, answer>>

Wipe(t) == Prepare(t, "wipe", "none", "clone")
Clone(t) == Prepare(t, "clone", "cloned", "reset")

(* A reset that writes the `.ok` file before the submodules are there.     *)
ResetAndMark(t) ==
    /\ stage[t] = "reset"
    /\ checkout' = [checkout EXCEPT ![rev[t]] = "reset"]
    /\ marker' = [marker EXCEPT ![rev[t]] = TRUE]
    /\ Goto(t, "submodules")
    /\ UNCHANGED <<remoteVars, memoVars, lock, db, want, rev, answer>>

Reset(t) == Prepare(t, "reset", "reset", "submodules")

Submodules(t) == Prepare(t, "submodules", "full", "mark")

Mark(t) ==
    /\ stage[t] = "mark"
    /\ marker' = [marker EXCEPT ![rev[t]] = TRUE]
    /\ Goto(t, "insert")
    /\ UNCHANGED <<remoteVars, memoVars, lock, db, checkout, want, rev, answer>>

(* The end of fetch: store the commit, and drop the lock.                  *)
Insert(t) ==
    /\ stage[t] = "insert"
    /\ known' = [known EXCEPT ![ProcOf[t]] = rev[t]]
    /\ answer' = [answer EXCEPT ![t] = rev[t]]
    /\ lock' = None
    /\ Goto(t, "using")
    /\ UNCHANGED <<remoteVars, limited, db, checkout, marker, want, rev>>

(* An error that leaves the lock behind.                                   *)
KeepLock(S) == lock' = lock

Unlock(S) == lock' = IF lock \in S THEN None ELSE lock

(* A Git command or a file operation fails: the error drops the lock.      *)
Fail(t) ==
    /\ stage[t] \in Locked
    /\ Unlock({t})
    /\ Goto(t, "failed")
    /\ UNCHANGED <<remoteVars, memoVars, db, checkout, marker, want, rev, answer>>

(* A process is killed with all its tasks.                                 *)
Kill(p) ==
    LET mine == {t \in Tasks : ProcOf[t] = p}
    IN  /\ stage' = [t \in Tasks |-> IF t \in mine THEN "dead" ELSE stage[t]]
        /\ Unlock(mine)
        /\ UNCHANGED <<remoteVars, memoVars, db, checkout, marker, want, rev, answer>>

-----------------------------------------------------------------------------
Step(t) ==
    \/ FastKnown(t) \/ FastSkip(t) \/ FastAsk(t) \/ FastReply(t)
    \/ ReadKnown(t) \/ AcquireLock(t) \/ Update(t) \/ UseCheckout(t)
    \/ Unmark(t) \/ Wipe(t) \/ Clone(t) \/ Reset(t) \/ Submodules(t) \/ Mark(t)
    \/ Insert(t)

(* GitHub answers or fails to.                                             *)
Respond(t) == FastServe(t) \/ FastFail(t)

Next ==
    \/ Push
    \/ \E t \in Tasks : Step(t) \/ Respond(t) \/ LockTimeout(t) \/ Fail(t)
    \/ \E p \in Procs : Kill(p)

(* The runtime polls a task that can go on, requests have a timeout, and   *)
(* the lock file is granted to some waiter; a waiter that is passed over   *)
(* again and again can only be so by finitely many others.                 *)
Fairness == \A t \in Tasks : WF_vars(Step(t)) /\ WF_vars(Respond(t))
Spec == Init /\ [][Next]_vars /\ Fairness

-----------------------------------------------------------------------------
(* The strengthening of what GitCheckouts promises that is inductive: who has the lock, how   *)
(* far the checkout is that the lock's holder prepares, and that each      *)
(* checkout in use has its `.ok` file.                                     *)
HolderOnly == \A t \in Tasks : stage[t] \in Locked => lock = t
Stages ==
    \A t \in Tasks :
        /\ stage[t] \in Locked \ {"update"} => rev[t] \in Commits
        /\ stage[t] \in Preparing => ~marker[rev[t]]
        /\ stage[t] = "mark" => checkout[rev[t]] = "full"
        /\ stage[t] = "insert" => marker[rev[t]]
UsedMarked == \A t \in Tasks : stage[t] = "using" => rev[t] \in Commits /\ marker[rev[t]]
IInv == TypeOK /\ HolderOnly /\ Stages /\ MarkerVouches /\ UsedMarked

(* Every task comes to an end: the lock is never left behind.              *)
Terminates == <>(\A t \in Tasks : stage[t] \in Over)
=============================================================================
