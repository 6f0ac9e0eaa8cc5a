# A TLA+ verification project for uv

uv is a Python package manager: it resolves requirements, downloads or builds
distributions, keeps them in a cache on disk and installs them. This project
models the parts of it in which several tasks, threads or processes share state,
and checks and proves what they rely on each other for. Paths below are relative
to the root of the repository.

## 1. Inventory

| Part | State | Operations | Shared with | What makes it correct |
|---|---|---|---|---|
| Once-map (`uv-once-map`) | a concurrent map: key to `Waiting(Notify)` or `Filled(value)` | `register`, `register_or_wait`, `register_entry`, `wait`, `done`, `remove` | the resolver's index, in-flight downloads, credential fetches, workspace discovery, all on many threads | one job per key; no lost wakeup; no failed `expect` |
| Wheel preparation (`uv-installer/src/preparer.rs`), build dispatch (`uv-dispatch`), build frontend (`uv-build-frontend`) | in-flight map, a build stack per nested build, a semaphore for build hooks | `prepare`, `get_wheel`, `resolve`, `install`, `setup_build`, hooks | nested recursively: building a wheel prepares the wheels it needs | no waiting in circles; slots returned; waiters get what they asked for; errors submit results |
| Cache store (`uv-cache`) and lock files (`uv-fs/src/locked_file.rs`) | archives, links to them, pointers in `.http` files, lock files | `init`, `persist`, `persist_with_id`, lookups, `clear`, `remove`, `prune` | every uv process of the machine | what a command uses stays whole; removal runs alone; garbage is found |
| Git sources (`uv-git`) | map from reference to commit, database, checkouts, `.ok` markers, repository lock | `github_fast_path`, `fetch`, `checkout`, `copy_to`, `clone_into`, `reset` | tasks of one process and other processes | a marked checkout is complete, whoever died; a process sees one commit |
| HTTP cache entry (`uv-client/src/cached_client.rs`) | a file: payload, entry id, policy, checksum | read, heal, revalidate, store, `refresh_policy` | concurrent requests without a lock | a policy vouches only for its own payload; no mixed policy is accepted |
| Resolver, universal resolution (`uv-resolver/src/resolver/mod.rs`, `environment.rs`, `requirements.rs`) | PubGrub's state per fork, a stack of forks, an arena of incompatibilities that forks share | fork on markers, on conflicting items, on Python bounds, on platforms of local versions; checkpoint and resume | the request channel | every place and every permitted selection of extras is in one fork, which has every requirement that applies there |
| Resolver, request channel (`resolver/requests.rs`, `provider.rs`, `batch_prefetch.rs`, `index.rs`) | a bounded channel, the index of metadata in once-maps | solver thread: `request_package`, `choose_version`, `get_dependencies`; fetch task: `process_request`, prefetches | nested resolutions of builds use the same index | the solver never waits for an entry that nobody serves; an answer does not change |
| Distribution database (`uv-distribution/src/distribution_database.rs`) | a partial file, a hasher, an archive and its cache entry | `stream_wheel`, `download_wheel`, resumption by range | cache store, HTTP cache entry, retries | what is published is whole and has the hash that is recorded of it |
| Source builder (`uv-distribution/src/source/mod.rs`) | revisions and metadata in the cache | download, build, read metadata | cache store, build dispatch, Git | seen through `CacheStore`, `BuildDispatch` and `GitResolver` |
| Credentials (`uv-auth`) | cache of credentials by realm and user and by URL prefix, fetches in a once-map | `handle`, `complete_request`, `fetch_credentials` | all requests of a command | a credential stays in its realm and with its user; no waiter is left behind; `authenticate = "always"` is kept |
| Retries (`uv-client/src/retry.rs`) | a count of retries | `RetryState::send`, `record_request_retries`, `should_retry` | requests and their bodies | one budget, neither exceeded nor spent twice |
| Workspace cache (`uv-workspace`) | once-map by root and member | `insert`, `register_or_wait`, `invalidate_workspace` | discovery tasks | no removal while others wait |

The rest (lockfile, installation into an environment, virtual environments,
Python discovery, tools, publishing, versions and markers, parsers, settings, build
backend, archives, keyring, trampoline) is sequential, pure or input and output;
`PROJECT.json` lists each with its reason.

The parts interact as follows. A command takes the shared root lock of the cache
store. Its resolver registers metadata requests in once-maps; some of them need
a source distribution to be built, which goes through build dispatch. Build
dispatch resolves and prepares build requirements, recursively; the wheels it
prepares are registered in the in-flight once-map that all nested builds share.
Each wheel comes from the cache store, where it is looked up under the lock of
its entry; downloads go through an HTTP cache entry, Git distributions through
the Git resolver.

The hard behaviours, at their lines, are the `hazards` of `PROJECT.json`:
interleavings between two accesses to a lock-free map; futures that are dropped
when a sibling fails; nested waiting on one map and one semaphore; processes killed
between two file operations; lock files that are opened, waited for and replaced;
late responses that refresh an entry which has been replaced; a solver thread that
blocks on entries which a task, a prefetch or a nested resolution has to fill; forks
that take turns on one arena; a download that is resumed after the file has changed;
requests of several users that share fetched credentials.

## 2. Modules

### OnceMap, OnceMemo, OnceMapProofs

`OnceMap` models `OnceMap` and `RegisteredOnceMap`. A call is split at each access
to the map and at the await: `RegisterOrWait` (register, return or clone the
`Notify`), `Listen` (`notify.notified()`), `Recheck` (the second look), `Awake` (after
the await), `Fill` and `NotifyWaiters` (the two halves of `done`). `entry`, `value`
and `bell` are the map; `arc`, `woken`, `pc` the tasks. `Populate` is `done` without
a registration, as the workspace cache and pre-filled indexes use it. `DropWaiter` is a
future dropped at its await. tokio's `Notify` is external: a `Notified` future is
completed by every later `notify_waiters` and by no earlier one. `Remove` has the
guard `ExclusiveAccess`: `RegisteredOnceMap::remove` takes `&mut self`; the plain
`OnceMap::remove` takes `&self` and has one caller, `WorkspaceCache`
(`crates/uv-workspace/src/workspace.rs:249`), whose comment promises that nothing
runs in parallel. That promise is the assumption.

`OnceMemo` is what the map promises: a memo table in which a key is absent, running or
known, and a caller works, joins or holds a value. `ImplementsMemo` is the refinement,
with fairness, under the mapping at the end of `OnceMap`.

### BuildDispatch, BuildDispatchProofs

The outermost `prepare` (or, with `keepGoing`, the resolver's metadata requests) and
the builds nested in it, one per distribution. What is wanted and what each build
requires is a job, chosen in `Init` from the constant `Jobs`. `entry` is `InFlight.downloads`, `fut`
the state of each `get_wheel` future, `phase` where a build is in
`SourceBuild::setup` and `build`, `stack` its `BuildStack`, `slots` the semaphore.
`Poll` and `Wake` are `get_wheel`; `Submit` its `done`; `Plan` is `install` with the
cycle check; `TakeSlot`, `Asked` and `Built` are the hooks. `Fail` is one failing future
with all that follows without an await: the owner submits `Err`, `try_collect` drops the
siblings with their builds and permits, and the build around fails in turn.

Abstractions: resolving build requirements either fails or yields the job's
`requires` and `extra`; metadata that it needs from other builds is not modelled. A
distribution is a wheel or a source; downloads succeed or fail in one step. Not
modelled: builds without isolation, the direct call of uv's own backend, reuse of a
metadata build through the build arena, the lock of a setuptools source tree.

### CacheStore, CacheStoreProofs

Processes that run commands on one cache. `inode`, `fd`, `held` are the root lock
(`.lock`): a lock is taken on an inode, so `OpenLock` and `Lock` are separate steps.
`archive`, `link`, `pointer` are the archive bucket, the symbolic links of wheel and
environment entries, and the ids in `.http` files; removal tears an archive before it
is absent. `use` stands for every command that reads and fills the cache; the others
are `uv cache clean`, `uv cache clean <package>`, `uv cache prune` and `prune --ci`. `Die`
is a kill or an error. `wlock` is the lock of a wheel entry or an environment.
Whether archive ids are random or digests of the content, and which commands may be
killed, is a setting chosen in `Init`.

Not modelled: `--force` (the user vouches), file systems without shared locks (a
warning is printed), the files bucket, whose objects are counted by hard links, superseded
source revisions, and the Windows representation of links.

### GitCheckouts, GitResolver

`GitCheckouts` has the checkouts on disk and what their users rely on, `GitResolver` how they come about. The proofs are the last part of
`CacheStoreProofs`, which is about what lies on disk under locks. One repository and one branch that moves (`Push`). `known` is the map of a process,
`lock` the lock file, `db` the database, `checkout` and `marker` a checkout and its
`.ok` file, stepwise: `Unmark`, `Wipe`, `Clone`, `Reset`, `Submodules`, `Mark`. Any task
may fail under the lock, any process may be killed, at every step; either stops the work together with the lock. A `fetch`
future that is dropped (`crates/uv-git/src/resolver.rs:258`) is not modelled: it releases the lock while the thread of
`spawn_blocking` goes on with the checkout. A caller of the fast path
either stops with the commit (`uv-distribution/src/source/mod.rs:2305` when static
metadata is found) or goes on to `fetch`. URLs that name a commit, and LFS, are left out.

### HttpCacheEntry, HttpCacheEntryProofs

One file, as a sequence of inodes with a payload and a tail (policy cells and a footer that
holds the checksum). Readers `Open`, `Stat`, `Read` cell by cell and decode. A 304
leads to `refresh_policy`: `Reopen`, `Compare` the entry id, `Write` cell by cell,
`SetLen`. A new response replaces the file by rename (`Store`). Freshness is a choice within
`MayBeFresh`: a request that has to revalidate sends `no-cache`, which `CachePolicy::is_fresh` regards
unless the stored response is `immutable`. The payload is a version number; checksums do not collide.
`torn` remembers the files in which a refresh was interrupted or overlapped. Each request has a cache mode
of its own, chosen when it starts. Servers that fail end the request; the retry loop is left
out (it is in `WheelDownload`).

### ResolverRequests, ResolverRequestsProofs

The outermost resolution and the ones nested in the builds that it needs, on one index.
`entry` is the index: version lists under the implicit or an explicit index, and
distributions. `solver[r]` is the solver thread of `r`: what it still has to request
(`todo`, `out`), its decisions (`trail`) and what it has ruled out; `chan[r]` is its
channel and `tasks[r]` the requests that its fetch task has taken. `Enqueue`, `Send` and
`SendClosed` are `visit_dependencies`, the `request_...` methods of `MetadataRequests` and `blocking_send`; `Propagate`,
`Pick`, `ChooseVersion`, `ChooseUrl` and `GetDependencies` are the loop of `solve`, with
the waits on the index as guards; `Receive` and the `Serve` actions are `fetch` and
`process_request`; `FetchFails` is an error that ends a fetch task and with it the
resolution, whose solver thread lives on until it notices. `Refuse` is the hash policy: a URL is refused before
it is registered, the version that was chosen afterwards, by the `validate` of `request_metadata`
(`requests.rs:203`), which leaves the entry registered and sends nothing. `lost` remembers such entries, and
those whose request was dropped with a fetch task. A nested resolution is named by
the distribution whose build needs it. PubGrub is external: which package comes next and how
far a conflict backtracks are choices.

Not modelled: wheel variants, installed distributions, and the limits on the number of
batch prefetches.

### ResolverForks, ResolverForksProofs

Universal resolution. A marker is the set of places (Python version, platform) where it is true, so
that the marker algebra becomes set algebra. `ForkDependencies` is `ForkedDependencies::from_dependencies_universal`: for each
package name, in order, the requirements whose markers differ fork (`ForkOn`); then each set of
conflicting items splits every fork (`ForkOnConflict`), with `Filter` as `Fork::filter` and
`Dominated` for the items that an earlier set already excludes. `FromRequirement` and `Applicable`
turn requirements into dependencies on a package, its extras and its groups. `RequiresPython` forks where
a version needs a newer Python, `ForkOnPlatform` where a local version lacks files.
`pending` is the stack of fork checkpoints, `arena` what the forks share, `Materialize` and
`Finish` resume one and truncate the arena (`Rewind`). Which package, which version of its range and how
far a conflict goes back are choices, so every run of PubGrub is among the behaviours.

The properties speak of worlds: a place with a selection of conflicting items that does not itself
conflict, which is what somebody can install from the lockfile. `WellPosed`, `OwnExtras` and `WholeProjects` are what they ask of
a project (section 5). Not modelled: URLs, overrides,
constraints, recursive extras, required environments, preferences and the cache of selected versions of a
fork, the merging of the forks into a lockfile.

### WheelDownload, WheelDownloadProofs

One request for a wheel. `phase` is `stream_wheel` or, after it asked for a fallback,
`download_wheel`; `pass` is the cached request or the forced refresh. A byte is a pair of the version of
the file it came from and its position, so that mixed and displaced content shows. `file`, `hashed` and
`bytes_retrieved` are the partial file, the hasher and the counter, which a broken copy leaves apart.
`SendAnswered` and `SendFails` include the retries that the middleware made; `CopyBreaks`,
`Resume...` and `content_range` are the loop of `download_wheel`; `Retry` and `GiveUp` are
`get_cacheable_with_retry`; `Check` is the caller's look at what it got. The server may replace the file
at any time, answer a range from another file, with another start, end or length, or in full.

Which errors are transient is a choice; hashes do not collide; extraction is a step.

### AuthMiddleware, AuthMiddlewareProofs

Tasks in `handle`, split at each await. `Begin...` is the first attempt, with what the request or the
cache has; `First` the answer to it; `Search` the second look at the cache; `Register`, `Wait` and
`Fetch` are `fetch_credentials`; `Resume...` what is done with the result; `Send` the completed request,
whose success inserts into the cache. External sources (netrc, text store, keyring, provider tokens) are
sets of credentials by realm and user, a prompt is an answer or none. Each credential records
the realm that it belongs to.
`store_credentials` stores the credentials of the configuration, one by one, before the first request.
`ConfigsAssumption` says what the callers configure: credentials for their own realms, one destination for a
prompt, and no indexes for a client that uploads (`crates/uv-publish-commands/src/lib.rs:122`).

`Must` is `must_authenticate`. Under Dependabot, which adds credentials outside of uv, an index with
`authenticate = "always"` gets a first attempt without credentials all the same
(`crates/uv-auth/src/middleware.rs:412`), and so it does in the model (`dependabot` of a configuration); what is
sent after it carries a credential there too.

Two things seen here which no run is about. With `authenticate = "always"` a request that names no user may be
sent with a user and no password: `Search` finds such a credential in the cache for the index or the realm, the
fetch finds nothing, and `complete_request` is called without credentials, so that its check for
"Incomplete credentials" (`middleware.rs:559`) is not reached. `crates/uv-auth/src/index.rs:32` and
`docs/concepts/indexes.md:213` say that uv then fails. `AlwaysCarries` names this one exception and admits
no other. And a fetch is kept per realm while the text store looks up
per URL, so a result (also that there is none) is used for other URLs of the realm, as the comment at
`crates/uv-auth/src/middleware.rs:844` concedes.

Not modelled: cancellation, the default entry of a netrc file, the commands that log in and out. A fetch is one
step from the registration to `done`. In uv it can be dropped in between, with the `get_wheel` around it, when a
sibling of that fails (section 3); under a resolver that goes on, later requests for the realm would wait for
ever, which `Terminates` does not see.

## 3. Runs

Every passing run takes from some seconds to two and a half minutes. Deadlock is checked in
`once_map`, `resolver_forks` and `wheel_download`; elsewhere the system may stop (all
requests answered, no more commands, or, in `build_dispatch` and `resolver_requests`, a wait for an entry that
nobody will fill), so it is not.

| Run | States | Shows |
|---|---|---|
| `once_map` | 139,394 | `NoLostWakeup` (a sleeping waiter of a filled entry is woken or about to be), `NeverPanics`, `OneJobPerEntry`, `TypeOK`, and `ImplementsMemo`: the map implements the memo table, so every caller gets the value of its key |
| `build_dispatch` | 16,248 | `HooksHaveEnv`, `ReturnsWhatWasAsked`, `AbandonedBelowErrors` (an entry loses its owner only to the failure of a sibling under the resolver), `Terminates`, on an acyclic graph where an error ends the command, and under the resolver, where it does not, on one in which a hook asks for an ancestor and one in which a requirement fails beside another; one build slot |
| `cache_store` | 486,706 | `RemovesAlone`, `PruneReclaims`, `UsedWhole`, `UnlinkedBeforeRemoved`, `Terminates`: every command, with random ids and with digests that two packages share |
| `git_resolver` | 746,949 | `MarkerVouches`, `UsedCheckoutsComplete`, `Terminates` |
| `http_cache_entry` | 1,111,235 | `PolicyVouches`, `TornByOverlapOnly` (a file whose checksum fails was left by a refresh that was interrupted or overlapped), `RevalidatedIsRecent`, `Terminates`, for two requests in every pair of cache modes |
| `resolver_requests` | 310,594 | `WaitsAreServed` (an entry that somebody waits for is in a channel, a task or a build, or is lost), `NoUnregisteredTask`, `AnswersAreFinal`, `Terminates` |
| `resolver_forks` | 294,326 | `ForksPartition`, `ArenaAtCheckpoint`, `ConflictsApart`, `NothingLost`, `VersionsFit`, `Terminates`, for about a thousand projects |
| `wheel_download` | 112,616 | `HashVouches`, `PublishedInPlace`, `RecoversWithinBudget`, `GivesUpOnlySpent`, `Terminates` |
| `auth_middleware` | 193,369 | `RealmBound`, `UserKept`, `AlwaysCarries`, `Terminates` |

Every module has a type invariant, `TypeOK`. The once-map's is part of its run; those of the other modules
hold in the same instances but are not listed in their `.cfg`, to leave the runs to what the code could get
wrong. All but that of `WheelDownload` are proved, as conjuncts of the inductive invariants of section 5 (of that of
`ResolverForks` all but that the Python bounds of a fork are never empty, which is true of the instance and not of every project: a fork may
be for places below `requires-python` only).

Bounds. Three tasks let a registration, a wait and a removal or a population overlap on
one key; `MaxRegistrations` = 2 lets the key be registered again after a removal. Keys do not
interact but for their `Notify` objects, and that those of two keys differ is proved for any
number of keys. The build graphs have four sources and a wheel: enough for a shared
requirement, a nested build, a request under two names and a sibling that fails.
Two processes with three commands between them reach every pair of overlapping commands and
one that meets what is left; `MaxIds` = 2 lets an entry be replaced. Two processes with three tasks put a
competitor both inside and outside the process. Two requests of one HTTP entry let a refresh meet a
refresh, a replacement or a reader; `MaxSize` = 2 lets a policy grow and shrink, and the longer ones are immutable.

In `resolver_requests` the outermost resolution wants two packages: one has a version whose requirement
is not found on its explicit index, the other is a source distribution whose build requires a package that both
resolutions need and one from a URL. Either resolution may refuse the package that both need, the nested one
also the URL, and either fetch task may end with an error (`Unhashed`, `Fatal`). `Capacity` = 2, below the number of requests that one decision sends, lets the
channel fill up. In `resolver_forks` two Pythons and two platforms give four places, each of
the problem families varies markers, extras and groups in conflict, or initial forks, Python bounds
and local versions; two names suffice for a requirement that is forked on below a fork, and three items for conflict
sets that overlap. In `wheel_download` two versions of one size and a shorter one, a budget of two
retries, and files of two or three bytes let a download break, be resumed from another file and break again. In
`auth_middleware` two users, two realms, an index of each policy and three tasks let a third request find
what two others fetched or inserted at the same time.

`cache_store` allows one death, and not that of `uv cache clean`, nor any with digests. `UsedWhole` fails in the
model beyond that, because a lookup checks only that the directory of an archive is there.
With two deaths: a removal of a package dies between the link and the `.http` file of an
entry, and a prune, for which only links count, dies while it removes the archive; the
`.http` file then names a torn one. Clearing the cache removes directories in any order, so
that one death is enough. No line of the repository promises otherwise, so neither is
listed as a finding. With digests see `cache_store_torn`.

In `resolver_requests` an entry is lost when the hash policy refuses what was just registered, and when a resolution
whose fetch task has failed was asking for it. It stays `Waiting` in the index that all resolutions share: an outer
solver that needs the same distribution waits for ever, and so does a nested one whose
outer resolution refused it, which keeps the outer fetch task and with it the error. No line of the repository
says otherwise. `WaitsAreServed` and `Terminates` name these entries as the only ones nobody serves and the only
reason not to end; the strict `<>(res[Root] # "running")` fails in this instance.

### Findings: runs that are expected to fail

- `build_dispatch_cross`: two requested distributions whose builds need each
  other. The build stack holds a build's ancestors, not its siblings', so each
  waits for the other's in-flight entry. The comment at
  `crates/uv-dispatch/src/lib.rs:609` says the stack is there "to prevent cyclic dependencies".
- `cache_store_torn`: `persist_with_id` takes any directory under its id for the
  contents, though an interrupted removal leaves part of them (`crates/uv-cache/src/lib.rs:433`).
- `resolver_forks_extra`: when the requirements of an extra are turned into dependencies, the extra is looked up
  under the name of the requirement instead of the package that has it
  (`crates/uv-resolver/src/resolver/requirements.rs:272`). In a fork that excludes `a[x]`, the requirement
  `a==1` of `b[x]` is dropped, though `b[x]` belongs to that fork.

Behaviours seen in the models which are not runs of their own:

- `crates/uv-once-map/src/lib.rs:35` demands that who registers calls `done`, "or other tasks will hang". `try_collect`
  drops a registered `get_wheel` when a sibling fails (`crates/uv-installer/src/preparer.rs:100`). In an install the command
  ends with that error, so nobody is left waiting; under the resolver the command goes on, and whoever asks for the
  entry later waits for ever. The job `Siblings` of `build_dispatch` has this: a needs c and w, w fails while c is
  built for a, and b, which needs c too, never gets it. `AbandonedBelowErrors` and `Terminates` say that
  this is the only way.
- A request that has to revalidate (`--refresh`) is answered from the cache, without asking, when the stored
  response is `immutable` and fresh (`crates/uv-client/src/httpcache/mod.rs:766`, whose comment says that there is no path for a
  forced reload), although `docs/concepts/cache.md:29` says that `--refresh` forces uv to revalidate.
  `RevalidatedIsRecent` names the exception.
- A user without a password is sent to an index with `authenticate = "always"` (section 2, `AuthMiddleware`).
- Where no hash is pinned, a wheel put together from two versions of a file, by a resumed range, has the hash that is
  recorded of it: `HashVouches` tells such a file apart only from a pinned one.
- `GitResolver::fetch` reads the known commit before it awaits the lock, so that fetches of one process may
  use different commits of a branch that moves, although the comment at `crates/uv-git/src/resolver.rs:218` speaks of
  consistency.

## 4. Fairness

- `OnceMap`: a task inside a call goes on when it can, and the owner of a job
  submits it (the contract of `register`). Nobody is obliged to call.
- `BuildDispatch`: some step is taken as long as one is possible: futures are polled
  by one runtime, downloads and hooks end (they have timeouts or are killed by the user).
- `CacheStore`: a running process goes on, and a lock that stays free is granted. No timeout
  and no death is assumed: termination does not rest on them.
- `GitResolver`: each task goes on, GitHub answers or fails, the lock is granted when it
  stays free.
- `HttpCacheEntry`: each request goes on and the server responds.
- `ResolverRequests`: for each resolution, the solver thread goes on and the fetch task goes on: they are a
  thread and a future of their own. No fairness for one request over another, and none for failures.
- `ResolverForks`: the solver is one thread that runs until it returns. `Fairness` says so directly: it returns,
  or goes on changing its state for ever. With the deadlock check this is weak fairness of `Next`, in a form that
  is cheaper to check.
- `WheelDownload`: the request goes on; requests end in an answer or an error (clients have timeouts). No server
  is assumed to succeed: a server that breaks every transfer is among the behaviours.
- `AuthMiddleware`: some task that can go on does; requests, sources and prompts are answered or fail.

Weak fairness suffices everywhere: no step is needed that others can disable
again and again, since the tasks and commands are finitely many.

## 5. Proofs

Each proof module extends the module it is about and holds for every value of its constants that satisfies
the assumption named there: any number of tasks, processes, requests or resolutions, any distributions,
files, sizes, dependencies and builds. The assumptions are on shapes (a source is a distribution, a bound is a number,
`None` is no process) and on what the callers in the repository pass; TLC evaluates them in the runs. The strengthenings are
definitions of the modules themselves, at their ends, those of `ResolverForks` of its proof module. An invariant is proved with one lemma per action or
group of actions, under each one step per conjunct that the action can disturb; the temporal step is `PTL`.

| Module | Assumes | Theorems | Inductive invariant |
|---|---|---|---|
| `OnceMapProofs` | `NonEmpty`, `RegistrationBound` | `TypeCorrect`, `NoWakeupIsLost`, `NoPanic`, `JobsRunOnce`, `Refines` | `IInv` |
| `CacheStoreProofs`, of `CacheStore` | `CommandAssumption` | `RemovalIsAlone`, `PruneLeavesNoOrphan`, `LinkedStaysWhole`, `UsedArchivesWhole` | `LockInv`, then `RemovalInv` and `UseInv` |
| `CacheStoreProofs`, of `GitResolver` | `GitConstants`, which `GitAssumption` states | `GitInductive`, `MarkersVouch`, `CheckoutsComplete` | `Git!IInv` |
| `HttpCacheEntryProofs` | `HttpAssumption` | `PoliciesVouch`, `RevalidationIsRecent`, `TornOnlyByOverlap` | `IInv`, then `AInv` |
| `BuildDispatchProofs` | `Shape` | `PermitsAreConserved`, `HooksRunInFullEnv`, `PrepareReturnsWhatWasAsked`, `OwnersOrSiblingsFailed` | `PermitInv`, then `EnvInv` and `OwnerInv` |
| `WheelDownloadProofs` | `VersionsAssumption`, `ConfigsAssumption` | `RecoveryIsWithinBudget`, `GivingUpIsSpent`, `HashCoversArchive`, `PublishedIsInPlace` | `BudgetInv`, `FetchInv` |
| `ResolverForksProofs` | `ForksAssumption` | `ForkStack`, `ArenaRestored`, `ForksDivideWorlds`, `VersionsInstallable`, `RequirementsKept`, `ConflictsKeptApart` | `Shape` and `Stacked`, then `Divided`, `Fitting`, `Keeping` |
| `ResolverRequestsProofs` | `ResolverAssumption` | `TasksAreRegistered`, `ServersAreSingle`, `AnswersStay`, `WaitersAreServed` | `AskInv`, `ServeInv`, `WaitInv` |
| `AuthMiddlewareProofs` | `ConfigsAssumption` | `CredentialsStayInRealm`, `UsersAreKept`, `MustCarryCredentials` | `AuthInv` |

The arguments:

- `OnceMap`. `IInv` adds: who borrows the map names a present entry (`CallsKeepKey`); a
  waiter of a waiting entry holds that entry's current `Notify`, not an older one
  (`HoldsOwnBell`); two keys never share one (`BellsDistinct`); and a future is complete
  only once the entry is filled (`WakeupsAfterFill`). `HoldsOwnBell` is what `Remove` would
  break without exclusive access, and why a removal and a new registration of the key cannot
  leave a waiter on a dead `Notify`. `Refines` is the refinement without fairness, `Spec => Memo!SafeSpec`: each
  access to the map is a step of the memo table or a stutter, which rests on `IInv` for the accesses
  after an await.
- `GitResolver`. `IInv` adds: only the holder of the lock is in the locked part (`HolderOnly`); the checkout
  being prepared has no marker until it is complete (`Stages`); and each checkout in use has its marker
  (`UsedMarked`). The last is the reason that nobody rewrites a checkout in use: `is_fresh` is true of it, so
  `clone_into` is not entered.
- `CacheStore`. `LockInv`: nobody unlinks `.lock`, so whoever has it open has the one inode there is
  (`OneLockFile`), a process is in the cache exactly while it holds the lock (`LocksFollowPc`), and an exclusive
  lock excludes (`LocksExclude`). From it `RemovesAlone`. Alone, a removal has an exact picture
  of the references (`RefsComplete`, `RefsExact`), hence `PruneReclaims` and the action property
  `UnlinkedBeforeRemoved`. `UsedArchivesWhole` is about settings in which a command that removes
  is not killed, `[](setting.killable = {} => UsedWhole)`; other commands die anywhere. There an archive is torn only while the
  command that tears it runs (`TornWhileRemoving`), and then nobody uses one. With
  killed removals `UsedWhole` does not hold in general (section 3).
- `HttpCacheEntry`. `IInv`: the policy of a footer, in a file or read from one, was issued for the payload of that
  file (`FootersVouch`); a request that revalidates has the payload of the file it read and then a policy for it
  (`RequestsVouch`), and has seen the version its response is about (`ResponsesSeen`). Writers may overlap or be
  interrupted between any two cells: what then stands in the tail is no policy that decodes, because the
  checksum in the footer is that of the policy it was written with. `AInv` is about the files in which none was: there one
  request writes at a time, and what it has written is the beginning of the new tail (`WritesAlone`); so the
  length that it sets leaves the new policy whole. `docs/concepts/cache.md:132` says that interrupted or overlapping
  refreshes can invalidate an entry; this is that nothing else in the file's life does.
- `BuildDispatch`. `PermitInv` accounts for every permit, also when an error drops siblings that hold
  one. `EnvInv`: a result is Ok only if the wheel is cached (`ResultsHold`), and while an environment is prepared,
  what is not cached has a future (`EnvsCovered`, `WantedCovered`). `OwnerInv`: an entry that waits has an
  owner, alone and in a prepare that is polled, or is a build requirement's and an outermost request has failed. It needs that an
  owner's entry was registered, so that nobody registers it again; that an outermost request that failed was refused or has
  a result in the map, because each future on the way up submits its error; and that the futures of a nested
  prepare are for what its build requires.
- `ResolverForks`. First what the functions do. Forking is a fold over the requirements of a package, over their names and
  over the sets of conflicting items. A fold is the last of the sequence of its intermediate results (`TraceExists`), and what holds of the
  first and is handed on holds of the last (`Induction`: a least counterexample, from the well-foundedness of `<` on numbers). So: a fork stays in a
  set of environments (`Narrows`, `ForkEnvs`); a world that one fork is for has exactly one after every split and filter (`OneOf`, `NoneOf`); and
  each fork has what is asked for in its worlds (`Holds`) and, after each set of conflicting items, excludes what conflicts with
  what it has (`Settled`).
  Then the steps, each of which works on the fork at hand, splits it, resumes the next one or finishes (`Works`, `Pushes`,
  `Resumes`, `Finish`). `Stacked`: checkpoints higher up in the stack are later in the arena, so that truncating for the next fork takes nothing
  from those below; without it `ArenaAtCheckpoint` is not inductive. `Divided` says of each world that exactly one of the stack, the fork at hand and
  the forks that are done has one fork for it. `Fitting` relates each decision to what was known when it was made, since
  `VersionsFit` speaks of the end: what is free at the end was free then (`FreeOfLess`). `Keeping` says of each fork, with the
  dependencies that its part of the arena notes (`Kept`), that decisions rest on earlier ones, that those of a version answer all that it requires in the
  worlds of the fork, and that no two of them oppose each other. It is about the forks that wait too, as what a fork shares with another was noted
  before they were split.
- `ResolverForks`, hypotheses. They are conditions on projects and are in the statements: `AllWellPosed` of `MCResolverForks` has TLC check
  the first two for every project of `resolver_forks`. `WellPosed`: the initial forks divide the worlds, and a set of conflicting items with a project has the conflicting
  extras of that project. Initial forks come from the lockfile or from `tool.uv.environments`; of the latter
  `crates/uv-lock-operations/src/lock.rs:490` compares neighbours only. The extras of an excluded project are excluded with it
  (`crates/uv-resolver/src/resolver/environment.rs:201`), so that a set with the project alone would leave worlds without a fork.
  `OwnExtras`: no package that an extra requires is in conflict; otherwise the run `resolver_forks_extra` refutes
  `NothingLost`. `WholeProjects`: no project in conflict comes along with an extra of it that is required; otherwise an extra that is in no conflict brings a
  project that is, and that conflicts with an item required later. TLC goes beyond this one with a set of a project and a
  group of another, where `ConflictsApart` holds still. `ConflictsKeptApart` is about forks that are for some world: one
  for none is in the lockfile and installed by nobody.
- `WheelDownload`. `BudgetInv`: the retries performed are those counted plus those that the error at hand carries, so
  none is counted twice or lost. `FetchInv`: from the copy to the extraction the file is what was hashed, each
  byte in its place (`FileInPlace`), and its length is the one announced (`ArchiveVouched`). After an error
  file and hasher differ, and the file is not read again.
- `ResolverRequests`. `AskInv`: each request follows from what was asked before (`RequestsFollow`), and what a
  solver is about to wait for it has registered or is about to (`SolverAsks`). `ServeInv`: at most one request for a key
  is under way, in all resolutions together, and none for a filled entry that it could change (`OneServer`);
  from it the action property `AnswersAreFinal`. `WaitInv` adds that a resolution that is not running serves
  nothing, that what its thread still asks for is lost, and that a thread which has ended asks for nothing (`Quiet`).
  `WaitersAreServed` is `Spec => []WaitsAreServed`, with refusals and failing fetch tasks in any resolution.
- `AuthMiddleware`. `AuthInv`: the cache holds accepted credentials of the realm and user that they are stored
  for (`CacheHolds`), a shared fetch what belongs to its index or realm and user (`FetchesHold`), and a search
  goes on as the user that the request names (`SearchHolds`). Each of the three properties fails without
  the other parts: a request is sent with what another one left there.

Only model-checked, and why:

- liveness, which rests on fairness and so on `ENABLED`: `Terminates` of every module, the fairness half of
  `ImplementsMemo`;
- `UsedWhole` when a removal is killed: true of the instance that section 3 describes, not in general;
- `ConflictsApart` of a project that comes along with its extra, and in a fork for no world: true of the projects of `resolver_forks`;
- `TypeOK` of `WheelDownload`, which says that responses and archives are not `None` (no assumption keeps records apart from it; the
  theorems need only the types in `BudgetInv` and `FetchInv`), and that a fork's Python bounds are not empty in `ResolverForks`.

Induction over data is available as a fact about sets of numbers only, which suffices for folds over sequences; what a
`RECURSIVE` operator computes would be out of the prover's reach, so the modules have none.

## 6. Not modelled, and plan

The modules cover the code in which several tasks, threads or processes share state, which is a small part of
the repository's 300,000 lines. Most of the rest is deterministic: parsers and pure data types (versions, specifiers,
markers, URLs, requirements and lock files), the conversion between a resolution and a lockfile, the command line
and its settings, reports and messages, and file operations on one environment. There is nothing in them
to interleave, and their data is their content, so that a model would repeat the program; unit and snapshot
tests reach them well.

Next, in this order:

1. Revisions and metadata shards of source distributions (`uv-distribution/src/source/mod.rs`), with the entry
   locks of `CacheStore`.
2. The files bucket of `CacheStore`, whose objects are counted by hard links
   (`crates/uv-cache/src/lib.rs:642`), and superseded revisions.
3. `WorkspaceCache`: the once-map by root and member, publication order, invalidation.
4. `ResolverForks`: URLs per fork, overrides and the merging of forks into one graph.
5. Composition: `BuildDispatch`, `ResolverRequests` and `AuthMiddleware` over `OnceMemo`, so that what they
   assume of the map is what `OnceMap` implements.

Proofs to add: the weakest condition on the removals that are killed under which `UsedWhole` holds; the weakest condition on projects, in
place of `WholeProjects`, under which `ConflictsApart` does; with the composition of point 5, that
`BuildDispatch` and `ResolverRequests` use the memo table as its specification allows.
