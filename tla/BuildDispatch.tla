----------------------------- MODULE BuildDispatch -----------------------------
(***************************************************************************)
(* Preparing distributions with nested isolated builds: Preparer            *)
(* (crates/uv-installer/src/preparer.rs), BuildDispatch::install and        *)
(* setup_build (crates/uv-dispatch/src/lib.rs) and SourceBuild's setup and  *)
(* hooks (crates/uv-build-frontend/src/lib.rs).                             *)
(*                                                                         *)
(* A prepare runs one get_wheel future per requirement.  They meet in       *)
(* InFlight.downloads, a OnceMap used here through what OnceMemo promises.  *)
(* The future that registered a source distribution builds it, and its      *)
(* build environment is prepared by a nested prepare: since only one future *)
(* registers an id, a nested prepare is named by the id being built.        *)
(*                                                                         *)
(* With keepGoing the outermost futures are the resolver's metadata         *)
(* requests.  They register in index.distributions, another OnceMap, so an  *)
(* instance lets no build require what is requested outermost: the entry of *)
(* such an id then stands for the one in the index.                         *)
(***************************************************************************)
EXTENDS Naturals, FiniteSets

CONSTANTS
    Root,         \* the outermost prepare
    Ids,          \* DistributionIds: the keys of InFlight.downloads
    Reqs,         \* requested distributions; several may share an id
    IdOf,         \* IdOf[r]: r's DistributionId
    Sources,      \* the ids that are source distributions
    Jobs,         \* the commands considered, each a record as below
    BuildSlots    \* Concurrency::builds, the size of the builds semaphore

\* What a command is asked for and meets: the distributions it may want, the
\* build-system.requires of each source and what its get_requires_for_build_*
\* hook adds, the requests whose name or version is not the artifact's, those
\* that --no-build or --no-binary rejects, and the ids whose download or build
\* can fail.  With keepGoing the outermost futures are the resolver's metadata
\* requests, whose failures are responses; without, they are a prepare.
JobType ==
    [wants : SUBSET Reqs, requires : [Sources -> SUBSET Reqs],
     extra : [Sources -> SUBSET Reqs], misnamed : SUBSET Reqs,
     refused : SUBSET Reqs, mayFail : SUBSET Ids, keepGoing : BOOLEAN]

ASSUME Shape ==
    /\ Root \notin Ids /\ IsFiniteSet(Ids) /\ Sources \subseteq Ids
    /\ IdOf \in [Reqs -> Ids]
    /\ Jobs \subseteq JobType
    /\ BuildSlots \in Nat \ {0}

Prepares == Ids \cup {Root}

VARIABLES
    job,      \* the command at hand
    wanted,   \* the distributions the outermost prepare is asked for
    entry,    \* entry[i]: "absent", "waiting", "ok" or "err" in InFlight.downloads
    fut,      \* fut[c][r]: the get_wheel future of request r in the prepare c
    phase,    \* phase[c]: the outermost prepare's, or the state of the build of c
    stack,    \* stack[c]: the BuildStack of the prepare c
    cached,   \* the ids whose wheel is in the cache directory
    slots     \* permits left in the builds semaphore

vars == <<job, wanted, entry, fut, phase, stack, cached, slots>>

\* The phases of a prepare in which its futures are polled.
Polling == {"preparing", "env", "more"}

NoFutures == [r \in Reqs |-> "none"]
New(rs) == [r \in Reqs |-> IF r \in rs THEN "new" ELSE "none"]

Init ==
    /\ job \in Jobs
    /\ wanted \in SUBSET job.wants \ {{}}
    /\ entry = [i \in Ids |-> "absent"]
    /\ fut = [c \in Prepares |-> IF c = Root THEN New(wanted) ELSE NoFutures]
    /\ phase = [c \in Prepares |-> IF c = Root THEN "preparing" ELSE "idle"]
    /\ stack = [c \in Prepares |-> {}]
    /\ cached = {}
    /\ slots = BuildSlots

------------------------------------------------------------------------------
(* Errors *)

\* The permits held by the builds ds.
PermitsOf(ds) == Cardinality({d \in ds : phase[d] \in {"asking", "building"}})

\* Mutant: the future that fails returns its error without submitting it.
ChainAbove(c, r) == stack[c]

\* The ids that are being built for the future of r in the prepare c, its own
\* included if it is the owner: each has a get_wheel on the way up.
Chain(c, r) == stack[c] \cup (IF fut[c][r] = "owner" THEN {IdOf[r]} ELSE {})

\* The outermost futures that end with the failure of r in c.
FailedTops(c, r) ==
    {q \in Reqs : (c = Root /\ q = r) \/ (fut[Root][q] = "owner" /\ IdOf[q] \in Chain(c, r))}

\* The prepares that are dropped by it.
Dropped(c, r) ==
    IF job.keepGoing
    THEN {i \in Ids : \E q \in FailedTops(c, r) :
                          fut[Root][q] = "owner" /\ IdOf[q] \in stack[i]}
    ELSE Prepares

\* The future of r in the prepare c fails.  It submits Err if it is the owner;
\* try_collect returns the error and drops c's other futures, with every build
\* they run and every permit they hold, but submits nothing for them; then the
\* build of c fails the same way in the prepare around it.  No await is passed
\* on the way up, so nothing else runs in between.  The outermost prepare ends
\* with the error; the resolver keeps it as that request's response.
Fail(c, r) ==
    LET dropped == Dropped(c, r) IN
    /\ entry' = [i \in Ids |-> IF i \in Chain(c, r) THEN "err" ELSE entry[i]]
    /\ fut' = [d \in Prepares |->
                  IF d \in dropped THEN NoFutures
                  ELSE IF d # Root THEN fut[d]
                  ELSE [q \in Reqs |-> IF q \in FailedTops(c, r) THEN "err" ELSE fut[Root][q]]]
    /\ phase' = [d \in Prepares |->
                    IF d \notin dropped THEN phase[d] ELSE IF d = Root THEN "failed" ELSE "idle"]
    /\ stack' = [d \in Prepares |-> IF d \in dropped THEN {} ELSE stack[d]]
    /\ slots' = slots + PermitsOf(dropped)
    /\ UNCHANGED <<job, wanted, cached>>

\* The build of i fails: the future that owns it does.
FailBuild(i) ==
    \E c \in Prepares, r \in Reqs : fut[c][r] = "owner" /\ IdOf[r] = i /\ Fail(c, r)

------------------------------------------------------------------------------
(* Preparer::get_wheel *)

\* The future's result is Ok.
Ready(c, r) == fut' = [fut EXCEPT ![c][r] = "ok"]

\* Mutant: a waiter trusts the shared entry.
UseUnchecked(c, r) ==
    /\ Ready(c, r)
    /\ UNCHANGED <<job, wanted, entry, phase, stack, cached, slots>>

\* get_wheel with another future's Ok: "we need to double-check here", since
\* two requests can share an entry and only one of them be named right.
UseResult(c, r) ==
    IF r \in job.misnamed
    THEN Fail(c, r)
    ELSE /\ Ready(c, r)
         /\ UNCHANGED <<job, wanted, entry, phase, stack, cached, slots>>

\* get_wheel's first poll: the build options, then register_or_wait.
Poll(c, r) ==
    LET i == IdOf[r] IN
    /\ phase[c] \in Polling /\ fut[c][r] = "new"
    /\ \/ r \in job.refused /\ Fail(c, r)
       \/ /\ r \notin job.refused /\ entry[i] = "absent"
          /\ entry' = [entry EXCEPT ![i] = "waiting"]
          /\ fut' = [fut EXCEPT ![c][r] = "owner"]
          /\ phase' = IF i \in Sources THEN [phase EXCEPT ![i] = "setup"] ELSE phase
          /\ stack' = IF i \in Sources THEN [stack EXCEPT ![i] = stack[c] \cup {i}] ELSE stack
          /\ UNCHANGED <<job, wanted, cached, slots>>
       \/ /\ r \notin job.refused /\ entry[i] = "waiting"
          /\ fut' = [fut EXCEPT ![c][r] = "waiting"]
          /\ UNCHANGED <<job, wanted, entry, phase, stack, cached, slots>>
       \/ r \notin job.refused /\ entry[i] = "err" /\ Fail(c, r)
       \/ r \notin job.refused /\ entry[i] = "ok" /\ UseResult(c, r)

\* register_or_wait returns the result another future submitted.
Wake(c, r) ==
    /\ phase[c] \in Polling /\ fut[c][r] = "waiting"
    /\ \/ entry[IdOf[r]] = "ok" /\ UseResult(c, r)
       \/ entry[IdOf[r]] = "err" /\ Fail(c, r)

\* get_wheel's own download or build succeeds: the wheel, whose name and
\* version were validated against the request, is in the cache; done(id, Ok).
Submit(c, r) ==
    LET i == IdOf[r] IN
    /\ fut[c][r] = "owner"
    /\ r \notin job.misnamed
    /\ entry' = [entry EXCEPT ![i] = "ok"]
    /\ cached' = cached \cup {i}
    /\ Ready(c, r)

\* The owner is a wheel to download and unzip.
Download(c, r) ==
    /\ IdOf[r] \notin Sources
    /\ fut[c][r] = "owner"
    /\ \/ Submit(c, r) /\ UNCHANGED <<job, wanted, phase, stack, slots>>
       \/ /\ r \in job.misnamed \/ IdOf[r] \in job.mayFail
          /\ Fail(c, r)

------------------------------------------------------------------------------
(* BuildDispatch::install and SourceBuild, for the build of i *)

\* install: plan against the cache, "verify that none of the missing
\* distributions are already in the build stack", and prepare what is missing.
\* `free` permits were returned before.
Plan(i, reqs, label, next, free) ==
    LET remote == {r \in reqs : IdOf[r] \notin cached} IN
    IF \E r \in remote : IdOf[r] \in stack[i]
    THEN FailBuild(i)
    ELSE /\ phase' = [phase EXCEPT ![i] = IF remote = {} THEN next ELSE label]
         /\ fut' = [fut EXCEPT ![i] = New(remote)]
         /\ slots' = slots + free
         /\ UNCHANGED <<job, wanted, entry, stack, cached>>

\* setup: resolve the build requirements (which may fail) and install them.
Setup(i) ==
    /\ phase[i] = "setup"
    /\ \/ i \in job.mayFail /\ FailBuild(i)
       \/ Plan(i, job.requires[i], "env", "ask", 0)

\* Mutant: the environment is used as soon as one wheel is ready.
SomeReady(c) == \E r \in Reqs : fut[c][r] \in {"ok", "err"}

\* try_collect has every future's Ok; the resolver has every response.
AllReady(c) == \A r \in Reqs : fut[c][r] \in {"none", "ok", "err"}

\* install: the wheels are installed into the build environment, or that fails.
EnvReady(i) ==
    /\ phase[i] \in {"env", "more"} /\ AllReady(i)
    /\ \/ i \in job.mayFail /\ FailBuild(i)
       \/ /\ phase' = [phase EXCEPT ![i] = IF phase[i] = "env" THEN "ask" ELSE "queue"]
          /\ fut' = [fut EXCEPT ![i] = NoFutures]
          /\ UNCHANGED <<job, wanted, entry, stack, cached, slots>>

\* PythonRunner::run_script: concurrent_build_slots.acquire().await.
TakeSlot(i) ==
    /\ phase[i] \in {"ask", "queue"} /\ slots > 0
    /\ slots' = slots - 1
    /\ phase' = [phase EXCEPT ![i] = IF phase[i] = "ask" THEN "asking" ELSE "building"]
    /\ UNCHANGED <<job, wanted, entry, fut, stack, cached>>

\* Mutant: the permit is kept while more is installed.
AskedKeepingSlot(i) ==
    /\ phase[i] = "asking"
    /\ Plan(i, job.requires[i] \cup job.extra[i], "more", "queue", 0)

\* The get_requires_for_build_* hook has run and the permit is returned before
\* anything else is installed.  New requirements are installed with the old.
Asked(i) ==
    /\ phase[i] = "asking"
    /\ \/ i \in job.mayFail /\ FailBuild(i)
       \/ /\ job.extra[i] \subseteq job.requires[i]
          /\ phase' = [phase EXCEPT ![i] = "queue"]
          /\ slots' = slots + 1
          /\ UNCHANGED <<job, wanted, entry, fut, stack, cached>>
       \/ /\ ~(job.extra[i] \subseteq job.requires[i])
          /\ Plan(i, job.requires[i] \cup job.extra[i], "more", "queue", 1)

\* The build_wheel hook has run: the wheel is moved to the cache and the future
\* that owns the build submits it.
Built(c, r) ==
    LET i == IdOf[r] IN
    /\ i \in Sources /\ phase[i] = "building"
    /\ fut[c][r] = "owner"
    /\ \/ /\ Submit(c, r)
          /\ slots' = slots + 1
          /\ phase' = [phase EXCEPT ![i] = "idle"]
          /\ stack' = [stack EXCEPT ![i] = {}]
          /\ UNCHANGED <<job, wanted>>
       \/ /\ r \in job.misnamed \/ i \in job.mayFail
          /\ FailBuild(i)

\* The outermost prepare returns its wheels, or the resolver has all responses.
Complete ==
    /\ phase[Root] = "preparing" /\ AllReady(Root)
    /\ phase' = [phase EXCEPT ![Root] = "done"]
    /\ UNCHANGED <<job, wanted, entry, fut, stack, cached, slots>>

Over == phase[Root] \in {"done", "failed"}

\* The command goes on (to install, or to report the error).
Return == Over /\ UNCHANGED vars

Step == \/ \E c \in Prepares, r \in Reqs :
              Poll(c, r) \/ Wake(c, r) \/ Download(c, r) \/ Built(c, r)
        \/ \E i \in Sources : Setup(i) \/ EnvReady(i) \/ TakeSlot(i) \/ Asked(i)
        \/ Complete

Next == Step \/ Return

\* One task polls whichever future is ready; downloads and hooks end.  Some
\* step is taken as long as one is possible.
Spec == Init /\ [][Next]_vars /\ WF_vars(Step)

------------------------------------------------------------------------------
(* Properties *)

Futures == {"none", "new", "waiting", "owner", "ok", "err"}
Phases == {"preparing", "done", "failed", "idle", "setup", "env", "ask", "asking",
           "more", "queue", "building"}

TypeOK ==
    /\ job \in Jobs /\ wanted \subseteq job.wants
    /\ entry \in [Ids -> {"absent", "waiting", "ok", "err"}]
    /\ fut \in [Prepares -> [Reqs -> Futures]]
    /\ phase \in [Prepares -> Phases]
    /\ stack \in [Prepares -> SUBSET Ids]
    /\ cached \subseteq Ids
    /\ slots \in 0 .. BuildSlots

\* A backend hook runs only in an environment that holds everything the build
\* asked for: a wheel hook after every requirement, the backend's own included,
\* is prepared and cached.
HooksHaveEnv ==
    \A i \in Sources :
        /\ phase[i] \in {"ask", "asking"} => {IdOf[r] : r \in job.requires[i]} \subseteq cached
        /\ phase[i] \in {"queue", "building"} =>
              {IdOf[r] : r \in job.requires[i] \cup job.extra[i]} \subseteq cached

\* The wheels a prepare returns are the ones it was asked for, even when two
\* requests shared one download.
ReturnsWhatWasAsked ==
    phase[Root] = "done" /\ ~job.keepGoing =>
        /\ wanted \cap (job.misnamed \cup job.refused) = {}
        /\ {IdOf[r] : r \in wanted} \subseteq cached

\* The futures that will submit the result of i.
Owners(i) == {x \in Prepares \X Reqs : /\ fut[x[1]][x[2]] = "owner" /\ IdOf[x[2]] = i
                                       /\ phase[x[1]] \in Polling}

\* i is registered and nobody will submit its result: "other tasks will hang",
\* as OnceMap::register puts it.
Abandoned(i) == entry[i] = "waiting" /\ Owners(i) = {}

\* i is what some build required.
Required(i) == \E d \in Sources : i \in {IdOf[r] : r \in job.requires[d] \cup job.extra[d]}

\* The resolver goes on after the failure of a request, which is not for i, and i
\* was a build requirement.
SiblingFailed(i) ==
    /\ job.keepGoing /\ \E q \in Reqs : fut[Root][q] = "err"
    /\ \A q \in Reqs \ job.refused : IdOf[q] = i => fut[Root][q] # "err"
    /\ Required(i)

\* As long as the command runs, an entry that is waited for has one live future
\* that will submit its result.  One thing alone takes it away: under the
\* resolver, which goes on after an error, the failure of a build drops the
\* siblings of what failed, and what they had registered.  So some outermost
\* request has failed, and the entry is of a build requirement, never of the
\* request that failed: each future on the way up submits its error.
AbandonedBelowErrors ==
    ~Over => \A i \in Ids :
        /\ Cardinality(Owners(i)) \in {0, 1}
        /\ Abandoned(i) => SiblingFailed(i)

\* What makes these inductive.  A result is Ok only once the wheel is cached,
\* and a request that got one was neither refused nor misnamed; the error of a
\* nested future is not kept as its result.
ResultsHold ==
    /\ \A i \in Ids : entry[i] = "ok" => i \in cached
    /\ \A c \in Prepares, r \in Reqs :
          /\ fut[c][r] = "ok" => IdOf[r] \in cached /\ r \notin job.misnamed
          /\ fut[c][r] \in {"ok", "owner", "waiting"} => r \notin job.refused
          /\ fut[c][r] = "err" => c = Root

\* While an environment is prepared, what is not cached yet has a future.
EnvsCovered ==
    \A i \in Sources :
        /\ phase[i] = "env" =>
              \A r \in job.requires[i] : IdOf[r] \in cached \/ fut[i][r] # "none"
        /\ phase[i] = "more" =>
              \A r \in job.requires[i] \cup job.extra[i] : IdOf[r] \in cached \/ fut[i][r] # "none"

\* The outermost prepare has a future for every wheel, and is done once all
\* have a result; without keepGoing none of those is an error.
WantedCovered ==
    ~job.keepGoing /\ phase[Root] # "failed" =>
        \A r \in wanted : /\ fut[Root][r] \notin {"none", "err"}
                          /\ phase[Root] = "done" => fut[Root][r] = "ok"

EnvInv == ResultsHold /\ EnvsCovered /\ WantedCovered /\ HooksHaveEnv

\* Every permit of the builds semaphore is free, or held by a build that runs a
\* hook, through errors that drop builds too; a build is never entered twice.
Outermost == {"preparing", "done", "failed"}
BuildsRegistered ==
    /\ phase[Root] \in Outermost
    /\ \A i \in Ids : /\ phase[i] \notin Outermost
                      /\ phase[i] # "idle" => i \in Sources /\ entry[i] # "absent"
PermitsConserved == slots + PermitsOf(Ids) = BuildSlots
PermitInv == TypeOK /\ BuildsRegistered /\ PermitsConserved

\* An entry in flight has an owner unless a sibling's failure dropped it; who owns
\* one is in a prepare that is polled, and alone; a prepare that is not polled has
\* no futures, and those of a nested one are for requirements of its build.
Owns(c, r) == fut[c][r] = "owner"
OwnerInv ==
    ~Over =>
        /\ \A i \in Ids : entry[i] = "waiting" =>
              \/ job.keepGoing /\ (\E q \in Reqs : fut[Root][q] = "err") /\ Required(i)
              \/ \E c \in Prepares, r \in Reqs : Owns(c, r) /\ IdOf[r] = i
        /\ \A c \in Prepares, r \in Reqs :
              Owns(c, r) => entry[IdOf[r]] # "absent" /\ phase[c] \in Polling
        /\ \A c, d \in Prepares, r, q \in Reqs :
              Owns(c, r) /\ Owns(d, q) /\ IdOf[r] = IdOf[q] => c = d /\ r = q
        /\ \A q \in Reqs : fut[Root][q] = "err" =>
              q \in job.refused \/ entry[IdOf[q]] \in {"ok", "err"}
        /\ \A i \in Ids : phase[i] \notin Polling => fut[i] = NoFutures
        /\ \A i \in Ids, r \in Reqs : fut[i][r] # "none" =>
              i \in Sources /\ r \in job.requires[i] \cup job.extra[i]

\* The command ends: with a cyclic requirement reported, with an error or with
\* every wheel.  Nested builds share one semaphore and one in-flight map without
\* waiting for each other in a circle; only an abandoned entry can keep one.
Terminates ==
    \/ <>Over
    \/ <>[](\E c \in Prepares, r \in Reqs : fut[c][r] = "waiting" /\ Abandoned(IdOf[r]))
================================================================================
