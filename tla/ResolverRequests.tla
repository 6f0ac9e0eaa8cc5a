-------------------------- MODULE ResolverRequests --------------------------
(***************************************************************************)
(* The resolver's two sides (uv-resolver): a solver thread that decides    *)
(* versions and blocks on metadata, and a fetch task that serves its       *)
(* requests.  They meet in a bounded channel and in the InMemoryIndex,     *)
(* whose tables are OnceMaps: an entry is registered by whoever asks first *)
(* and filled by the fetch task that serves the request.                   *)
(*                                                                         *)
(* Metadata of a source distribution may need a build, whose requirements  *)
(* are resolved by a nested Resolver on the same index (uv-dispatch).      *)
(* Since an entry is registered once, a nested resolution is named by the  *)
(* distribution it is for.                                                 *)
(*                                                                         *)
(* PubGrub is external: which undecided package comes next and how far a   *)
(* conflict backtracks are choices; a range is the set of versions that    *)
(* are not ruled out.  Wheel variants, and forks of the environment (see   *)
(* ResolverForks), are left out.                                           *)
(***************************************************************************)
EXTENDS Naturals, Sequences, FiniteSets

CONSTANTS
    Names, Versions, \* package names, and versions as numbers
    Listed,          \* Listed[n]: the versions of n on the index, {} if not found
    Source,          \* Source[n]: "registry", "explicit" (index) or "url"
    AnyUrl,          \* the names with a URL in some fork of the environment
    AnyIndex,        \* the names with an explicit index in some fork
    Deps,            \* Deps[n][v]: the names that version v of n requires
    Wanted,          \* the requirements of the outermost resolution
    Builds,          \* distributions <<n, v>> whose metadata needs a build
    BuildRequires,   \* BuildRequires[d]: the names that building d requires
    Provided,        \* distributions whose metadata the index lists itself
    Incompatible,    \* distributions with no file for the platform
    Unreliable,      \* distributions whose metadata may be unavailable
    Fatal,           \* names whose request may fail so that it ends a resolution
    Unhashed,        \* <<r, d>>: what the hash policy of a resolution may refuse
    Capacity,        \* of the channel, 300 in the code
    Root             \* the outermost resolution

Dists == Names \X Versions
Resolutions == {Root} \cup Builds

ASSUME ResolverAssumption ==
    /\ Versions \subseteq Nat /\ 1 \in Versions /\ Capacity \in Nat \ {0}
    /\ Source \in [Names -> {"registry", "explicit", "url"}]
    /\ Listed \in [Names -> SUBSET Versions]
    /\ \A n \in Names : Source[n] = "url" => n \in AnyUrl
    /\ \A n \in Names : Source[n] = "explicit" => n \in AnyIndex
    /\ Builds \subseteq Dists /\ Provided \subseteq Dists /\ Unreliable \subseteq Dists
    /\ Root \notin Dists /\ Wanted \subseteq Names /\ Fatal \subseteq Names
    /\ BuildRequires \in [Builds -> SUBSET Names]
    /\ Deps \in [Names -> [Versions -> SUBSET Names]]

VARIABLES
    entry,   \* entry[k]: the tables of the index
    res,     \* res[r]: "idle", "running", "ok" or "failed"
    solver,  \* solver[r]: the state of the solver thread
    chan,    \* chan[r]: the requests in the channel
    tasks,   \* tasks[r]: the requests that the fetch task is processing
    lost     \* history: entries whose request was never sent, or was dropped

vars == <<entry, res, solver, chan, tasks, lost>>

-----------------------------------------------------------------------------
(* Keys of the index, and requests.                                        *)

VersionKeys == {"implicit", "explicit"} \X Names
DistKeys == {<<"dist", n, v>> : n \in Names, v \in Versions}
Keys == VersionKeys \cup DistKeys

(* The distribution of a key.                                              *)
DistOf(k) == <<k[2], k[3]>>

Request(k) == [key |-> k, range |-> {}]
Prefetch(n, range) == [key |-> <<"prefetch", n>>, range |-> range]
Requests ==
    {Request(k) : k \in Keys}
        \cup {Prefetch(n, range) : n \in Names, range \in SUBSET Versions}
IsPrefetch(q) == q.key[1] = "prefetch"

Filled(k) == entry[k] \notin {"absent", "waiting"}
Fill(k, value) == entry' = [entry EXCEPT ![k] = value]

(* A package is requested by its URL, or by its list of versions.          *)
SourceKey(n) ==
    IF Source[n] = "url" THEN <<"dist", n, 1>>
    ELSE IF Source[n] = "explicit" THEN <<"explicit", n>> ELSE <<"implicit", n>>

(* The highest version of S, if S has any.                                 *)
Highest(S) == {v \in S : \A w \in S : w <= v}

(* A thread that is closed has ended with an error.                        *)
Phases == {"propagate", "previsit", "request", "metadata", "visit", "solved",
           "unsolved", "closed"}

(* PackageSource::for_prefetch: a name that has a URL elsewhere waits until *)
(* it is chosen.                                                           *)
VisitNow(n) == Source[n] = "url" \/ n \notin AnyUrl

(* visit_dependencies.                                                     *)
Visit(names) == {Request(SourceKey(n)) : n \in {m \in names : VisitNow(m)}}

(* The root package is decided first: its dependencies are what is asked.  *)
Asked(r) == IF r = Root THEN Wanted ELSE BuildRequires[r]
NewSolver(r) ==
    [pc |-> "visit", next |-> <<>>, trail |-> <<>>, bad |-> {},
     pre |-> [n \in Names |-> {}], todo |-> Visit(Asked(r)), out |-> <<>>]

Init ==
    /\ entry = [k \in Keys |-> "absent"]
    /\ res = [r \in Resolutions |-> IF r = Root THEN "running" ELSE "idle"]
    /\ solver = [r \in Resolutions |-> NewSolver(r)]
    /\ chan = [r \in Resolutions |-> <<>>]
    /\ tasks = [r \in Resolutions |-> {}]
    /\ lost = {}

-----------------------------------------------------------------------------
(* The solver thread.  Its messages go out one by one: todo holds those    *)
(* still to be sent, out the one that blocking_send is waiting with.       *)

Update(r, new) == solver' = [solver EXCEPT ![r] = new]

Decided(r) == {solver[r].trail[i] : i \in 1..Len(solver[r].trail)}
Required(r) ==
    Asked(r) \cup UNION {Deps[d[1]][d[2]] : d \in Decided(r)}
Undecided(r) == {n \in Required(r) : \A d \in Decided(r) : d[1] # n}
RangeOf(r, n) == {v \in Versions : <<n, v>> \notin solver[r].bad}

Idle(r) == solver[r].todo = {} /\ solver[r].out = <<>>

(* MetadataRequests::enqueue_package, enqueue_metadata, request_package    *)
(* and request_metadata: register, and send if the entry is new.           *)
(* MetadataRequests::prefetch only sends.                                  *)
Enqueue(r) ==
    /\ solver[r].out = <<>>
    /\ \E q \in solver[r].todo :
         LET known == ~IsPrefetch(q) /\ entry[q.key] # "absent"
         IN  /\ Update(r, [solver[r] EXCEPT !.todo = @ \ {q},
                                            !.out = IF known THEN <<>> ELSE <<q>>])
             /\ IF known \/ IsPrefetch(q) THEN UNCHANGED <<entry, lost>>
                ELSE /\ Fill(q.key, "waiting")
                     /\ lost' = IF res[r] = "running" THEN lost ELSE lost \cup {q.key}
    /\ UNCHANGED <<res, chan, tasks>>

(* The hash policy refuses a URL before it is registered, or the version   *)
(* that was chosen after it is (the validate of request_metadata, where a  *)
(* name that does not match has the same effect): the thread ends with an  *)
(* error, and the entry stays without a request.                           *)
Refuse(r) ==
    /\ solver[r].out = <<>>
    /\ \E q \in solver[r].todo :
         /\ q.key \in DistKeys /\ <<r, DistOf(q.key)>> \in Unhashed
         /\ \/ Source[q.key[2]] = "url" /\ UNCHANGED <<entry, lost>>
            \/ /\ Source[q.key[2]] # "url" /\ DistOf(q.key) = solver[r].next
               /\ entry[q.key] = "absent"
               /\ Fill(q.key, "waiting") /\ lost' = lost \cup {q.key}
    /\ Update(r, [solver[r] EXCEPT !.pc = "closed", !.todo = {}])
    /\ UNCHANGED <<res, chan, tasks>>

(* blocking_send: wait for room.                                           *)
Send(r) ==
    /\ solver[r].out # <<>> /\ res[r] = "running"
    /\ Len(chan[r]) < Capacity
    /\ chan' = [chan EXCEPT ![r] = @ \o solver[r].out]
    /\ Update(r, [solver[r] EXCEPT !.out = <<>>])
    /\ UNCHANGED <<entry, res, tasks, lost>>

(* The receiver was dropped: the thread that outlived its resolution ends. *)
SendClosed(r) ==
    /\ solver[r].out # <<>> /\ res[r] = "failed"
    /\ Update(r, [solver[r] EXCEPT !.pc = "closed", !.todo = {}, !.out = <<>>])
    /\ UNCHANGED <<entry, res, chan, tasks, lost>>

(* A prefetch of packages that may turn out to be at a URL.                *)
PreVisitUrls(n) == n \notin AnyIndex

(* Names that pre_visit passes over: it cannot tell their source yet.      *)
PreVisitable(n) == n \notin AnyUrl /\ n \notin AnyIndex

(* pre_visit: prefetch for each undecided package whose range has changed. *)
Propagate(r) ==
    /\ solver[r].pc \in {"propagate", "visit"} /\ Idle(r)
    /\ LET s == solver[r]
           fresh == {n \in Undecided(r) : PreVisitable(n) /\ s.pre[n] # RangeOf(r, n)}
       IN  Update(r, [s EXCEPT !.pc = "previsit",
                      !.pre = [n \in Names |-> IF n \in fresh THEN RangeOf(r, n) ELSE s.pre[n]],
                      !.todo = {Prefetch(n, RangeOf(r, n)) : n \in fresh}])
    /\ UNCHANGED <<entry, res, chan, tasks, lost>>

(* Choose a package, and request it (again).                               *)
Pick(r) ==
    /\ solver[r].pc = "previsit" /\ Idle(r)
    /\ \E n \in Undecided(r) :
         Update(r, [solver[r] EXCEPT !.pc = "request", !.next = <<n>>,
                                     !.todo = {Request(SourceKey(n))}])
    /\ UNCHANGED <<entry, res, chan, tasks, lost>>

(* All packages are decided: the thread ends and drops its sender.         *)
Solve(r) ==
    /\ solver[r].pc = "previsit" /\ Idle(r) /\ Undecided(r) = {}
    /\ Update(r, [solver[r] EXCEPT !.pc = "solved"])
    /\ UNCHANGED <<entry, res, chan, tasks, lost>>

(* A conflict: no solution, or another version of an earlier decision.     *)
Conflict(r, bad) ==
    LET s == solver[r] IN
    \/ Update(r, [s EXCEPT !.pc = "unsolved", !.next = <<>>, !.bad = bad])
    \/ \E i \in 1..Len(s.trail) :
         Update(r, [s EXCEPT !.pc = "propagate", !.next = <<>>,
                             !.trail = SubSeq(s.trail, 1, i - 1), !.bad = bad \cup {s.trail[i]}])

(* prefetch_batches: other versions, with wheels, whose metadata may be    *)
(* requested too.                                                          *)
Batches(n, v) == SUBSET {w \in Listed[n] \ {v} : <<n, w>> \notin Incompatible \cup Builds}

(* choose_version_registry: wait for the versions, select one, request its *)
(* metadata; prefetch_batches may request that of others.                  *)
ChooseVersion(r) ==
    /\ solver[r].pc = "request" /\ Idle(r)
    /\ LET n == solver[r].next[1]
           candidates == Listed[n] \cap RangeOf(r, n)
       IN  /\ Source[n] # "url" /\ Filled(SourceKey(n))
           /\ IF candidates = {} THEN Conflict(r, solver[r].bad)
              ELSE \E v \in Highest(candidates) :
                   \/ /\ <<n, v>> \in Incompatible
                      /\ Update(r, [solver[r] EXCEPT !.pc = "propagate", !.next = <<>>,
                                                     !.bad = @ \cup {<<n, v>>}])
                   \/ /\ <<n, v>> \notin Incompatible
                      /\ \E batch \in Batches(n, v) :
                           Update(r, [solver[r] EXCEPT !.pc = "metadata", !.next = <<n, v>>,
                                        !.todo = {Request(<<"dist", n, w>>) : w \in batch \cup {v}}])
    /\ UNCHANGED <<entry, res, chan, tasks, lost>>

(* choose_version_url: the metadata was requested with the package.        *)
ChooseUrl(r) ==
    /\ solver[r].pc = "request" /\ Idle(r)
    /\ Source[solver[r].next[1]] = "url"
    /\ entry[SourceKey(solver[r].next[1])] # "absent"
    /\ Update(r, [solver[r] EXCEPT !.pc = "metadata", !.next = <<@[1], 1>>])
    /\ UNCHANGED <<entry, res, chan, tasks, lost>>

(* get_dependencies: wait for the metadata, and request the dependencies.  *)
GetDependencies(r) ==
    /\ solver[r].pc = "metadata" /\ Idle(r)
    /\ LET d == solver[r].next
           key == <<"dist", d[1], d[2]>>
           s == solver[r]
       IN  /\ Filled(key)
           /\ \/ /\ entry[key] = "found"
                 /\ Update(r, [s EXCEPT !.pc = "visit", !.next = <<>>, !.trail = Append(@, d),
                                        !.todo = Visit(Deps[d[1]][d[2]])])
              \/ /\ entry[key] = "unavailable"
                 /\ IF Source[d[1]] = "url" THEN Conflict(r, s.bad \cup {d})
                    ELSE Update(r, [s EXCEPT !.pc = "propagate", !.next = <<>>, !.bad = @ \cup {d}])
              \/ entry[key] = "error" /\ Update(r, [s EXCEPT !.pc = "unsolved", !.next = <<>>])
    /\ UNCHANGED <<entry, res, chan, tasks, lost>>

-----------------------------------------------------------------------------
(* The fetch task: requests are taken from the channel at once, and served *)
(* in any order (buffer_unordered).                                        *)

Task(q, stage) == [key |-> q.key, range |-> q.range, stage |-> stage]

(* A fetch task that serves one request at a time.                         *)
ReceiveOne(r) ==
    /\ res[r] = "running" /\ chan[r] # <<>> /\ tasks[r] = {}
    /\ tasks' = [tasks EXCEPT ![r] = @ \cup {Task(Head(chan[r]), "start")}]
    /\ chan' = [chan EXCEPT ![r] = Tail(@)]
    /\ UNCHANGED <<entry, res, solver, lost>>

Receive(r) ==
    /\ res[r] = "running" /\ chan[r] # <<>>
    /\ tasks' = [tasks EXCEPT ![r] = @ \cup {Task(Head(chan[r]), "start")}]
    /\ chan' = [chan EXCEPT ![r] = Tail(@)]
    /\ UNCHANGED <<entry, res, solver, lost>>

End(r, t) == tasks' = [tasks EXCEPT ![r] = @ \ {t}]
Goto(r, t, new) == tasks' = [tasks EXCEPT ![r] = (@ \ {t}) \cup {new}]

(* Request::Package: done with the versions, or with their absence.        *)
ServePackage(r, t) ==
    /\ t.key \in VersionKeys
    /\ Fill(t.key, IF Listed[t.key[2]] = {} THEN "missing" ELSE "found")
    /\ End(r, t)
    /\ UNCHANGED <<res, solver, chan, lost>>

ListsMetadata(k) ==
    /\ DistOf(k) \in Provided
    /\ \E table \in {"implicit", "explicit"} : entry[<<table, k[2]>>] = "found"

(* A fetch that does not look for metadata in the version lists.           *)
ServeDistAlways(r, t) ==
    /\ t.key \in DistKeys /\ t.stage = "start"
    /\ Goto(r, t, [t EXCEPT !.stage = "fetch"])
    /\ UNCHANGED <<entry, res, solver, chan, lost>>

(* Request::Dist: metadata that the index lists, or that is fetched.       *)
ServeDist(r, t) ==
    /\ t.key \in DistKeys /\ t.stage = "start"
    /\ IF ListsMetadata(t.key)
       THEN Fill(t.key, "found") /\ End(r, t)
       ELSE Goto(r, t, [t EXCEPT !.stage = "fetch"]) /\ UNCHANGED entry
    /\ UNCHANGED <<res, solver, chan, lost>>

(* get_or_build_wheel_metadata: a failure that the resolver can work       *)
(* around is Unavailable, another one is an Error for whoever needs it.    *)
Answers(d) == {"found"} \cup IF d \in Unreliable THEN {"unavailable"} ELSE {}

Fetch(r, t) ==
    /\ t.stage = "fetch" /\ DistOf(t.key) \notin Builds
    /\ \E value \in Answers(DistOf(t.key)) : Fill(t.key, value)
    /\ End(r, t)
    /\ UNCHANGED <<res, solver, chan, lost>>

(* The build resolves its requirements first.                              *)
StartBuild(r, t) ==
    /\ t.stage = "fetch" /\ DistOf(t.key) \in Builds
    /\ res' = [res EXCEPT ![DistOf(t.key)] = "running"]
    /\ Goto(r, t, [t EXCEPT !.stage = "build"])
    /\ UNCHANGED <<entry, solver, chan, lost>>

FinishBuild(r, t) ==
    /\ t.stage = "build" /\ res[DistOf(t.key)] \in {"ok", "failed"}
    /\ Fill(t.key, IF res[DistOf(t.key)] = "ok" THEN "found" ELSE "error")
    /\ End(r, t)
    /\ UNCHANGED <<res, solver, chan, lost>>

(* The candidates of a prefetch: the highest version, if there is a file.  *)
Candidates(t) ==
    LET S == Listed[t.key[2]] \cap t.range
    IN  {d \in Dists \ Incompatible : d[1] = t.key[2] /\ d[2] \in Highest(S)}

(* A prefetch that registers before it knows that it will fetch.           *)
ServePrefetchEagerly(r, t) ==
    /\ t.key[1] = "prefetch" /\ Filled(<<"implicit", t.key[2]>>)
    /\ \/ Candidates(t) = {} /\ End(r, t) /\ UNCHANGED entry
       \/ \E d \in Candidates(t) :
            LET key == <<"dist", d[1], d[2]>> IN
            IF entry[key] = "absent"
            THEN /\ Fill(key, "waiting")
                 /\ End(r, t) \/ Goto(r, t, Task(Request(key), "fetch"))
            ELSE End(r, t) /\ UNCHANGED entry
    /\ UNCHANGED <<res, solver, chan, lost>>

(* Request::Prefetch: wait for the versions, which must have been          *)
(* requested; listed metadata is done without registering; what the hashes *)
(* or Python versions rule out, and some source distributions, are passed  *)
(* over; anything else is registered and fetched, unless it already was.   *)
ServePrefetch(r, t) ==
    /\ t.key[1] = "prefetch" /\ Filled(<<"implicit", t.key[2]>>)
    /\ \/ Candidates(t) = {} /\ End(r, t) /\ UNCHANGED entry
       \/ \E d \in Candidates(t) :
            LET key == <<"dist", d[1], d[2]>> IN
            \/ ListsMetadata(key) /\ Fill(key, "found") /\ End(r, t)
            \/ ~ListsMetadata(key) /\ End(r, t) /\ UNCHANGED entry
            \/ /\ ~ListsMetadata(key) /\ entry[key] = "absent"
               /\ Fill(key, "waiting")
               /\ Goto(r, t, Task(Request(key), "fetch"))
    /\ UNCHANGED <<res, solver, chan, lost>>

-----------------------------------------------------------------------------
(* The end of a resolution (Resolver::resolve).                            *)

(* try_join: the solver has sent its result and dropped its sender, and    *)
(* the fetch task has served what was requested.                           *)
Return(r) ==
    /\ res[r] = "running" /\ solver[r].pc \in {"solved", "unsolved", "closed"}
    /\ chan[r] = <<>> /\ tasks[r] = {}
    /\ res' = [res EXCEPT ![r] = IF solver[r].pc = "solved" THEN "ok" ELSE "failed"]
    /\ UNCHANGED <<entry, solver, chan, tasks, lost>>

(* Where the requests for k are: with a solver that waits for room, in a   *)
(* channel, or with a fetch task.                                          *)
SentAt(r, k) == {<<r, "out", i>> : i \in {j \in 1..Len(solver[r].out) : solver[r].out[j].key = k}}
QueuedAt(r, k) == {<<r, "chan", i>> : i \in {j \in 1..Len(chan[r]) : chan[r][j].key = k}}
ServedAt(r, k) == {<<r, "task", t>> : t \in {u \in tasks[r] : u.key = k}}
Places(k) == UNION {SentAt(r, k) \cup QueuedAt(r, k) \cup ServedAt(r, k) : r \in Resolutions}

(* The resolutions that run inside the tasks of r, and inside theirs: the  *)
(* smallest set with r that is closed under the builds of its tasks.       *)
Inside(r) ==
    LET Direct(x) == {DistOf(t.key) : t \in {u \in tasks[x] : u.stage = "build"}}
        Closed(S) == \A x \in S : Direct(x) \subseteq S
    IN  {y \in Resolutions : \A S \in SUBSET Resolutions : r \in S /\ Closed(S) => y \in S}

(* A request ends the fetch task with an error.  try_join returns it and   *)
(* drops the rest, with the builds under way; the solver thread is not     *)
(* joined.                                                                 *)
FetchFails(r) ==
    /\ res[r] = "running"
    /\ \E t \in tasks[r] : t.key[2] \in Fatal /\ t.stage # "build" /\ t.key[1] # "prefetch"
    /\ res' = [x \in Resolutions |-> IF x \in Inside(r) THEN "failed" ELSE res[x]]
    /\ chan' = [x \in Resolutions |-> IF x \in Inside(r) THEN <<>> ELSE chan[x]]
    /\ tasks' = [x \in Resolutions |-> IF x \in Inside(r) THEN {} ELSE tasks[x]]
    /\ lost' = lost \cup {k \in Keys : \E p \in Places(k) : p[1] \in Inside(r)}
    /\ UNCHANGED <<entry, solver>>

SolverStep(r) ==
    /\ res[r] # "idle"
    /\ \/ Enqueue(r) \/ Refuse(r) \/ Send(r) \/ SendClosed(r) \/ Propagate(r) \/ Pick(r) \/ Solve(r)
       \/ ChooseVersion(r) \/ ChooseUrl(r) \/ GetDependencies(r)

FetchStep(r) ==
    \/ Receive(r) \/ Return(r)
    \/ \E t \in tasks[r] :
         \/ ServePackage(r, t) \/ ServeDist(r, t) \/ Fetch(r, t) \/ StartBuild(r, t)
         \/ FinishBuild(r, t) \/ ServePrefetch(r, t)

Next == \E r \in Resolutions : SolverStep(r) \/ FetchStep(r) \/ FetchFails(r)

(* The threads run, and requests are answered.                             *)
Fairness == \A r \in Resolutions : WF_vars(SolverStep(r)) /\ WF_vars(FetchStep(r))
Spec == Init /\ [][Next]_vars /\ Fairness

-----------------------------------------------------------------------------
Statuses == {"absent", "waiting", "found", "missing", "unavailable", "error"}
Tasks == {Task(q, stage) : q \in Requests, stage \in {"start", "fetch", "build"}}
Solvers ==
    [pc : Phases, next : {<<>>} \cup {<<n>> : n \in Names} \cup Dists,
     trail : Seq(Dists), bad : SUBSET Dists, pre : [Names -> SUBSET Versions],
     todo : SUBSET Requests, out : {<<>>} \cup {<<q>> : q \in Requests}]

TypeOK ==
    /\ entry \in [Keys -> Statuses]
    /\ res \in [Resolutions -> {"idle", "running", "ok", "failed"}]
    /\ solver \in [Resolutions -> Solvers]
    /\ chan \in [Resolutions -> Seq(Requests)]
    /\ tasks \in [Resolutions -> SUBSET Tasks]

(* Whoever waits for an entry is served: each registered entry is on its   *)
(* way to be filled, in the hands of exactly one request, of whichever     *)
(* resolution that runs.  The exceptions are what the hash policy refused, *)
(* and what a resolution whose fetch task failed was asking for.           *)
WaitsAreServed ==
    \A k \in Keys : entry[k] = "waiting" /\ k \notin lost =>
        /\ Cardinality(Places(k)) = 1
        /\ \A p \in Places(k) : res[p[1]] = "running"

(* UnregisteredTask is never reported: a prefetch follows the request for  *)
(* the package's versions, and metadata that the solver asks back was      *)
(* requested before, in any order of sources and decisions.                *)
NoUnregisteredTask ==
    \A r \in Resolutions :
        /\ \A t \in tasks[r] : IsPrefetch(t) => entry[<<"implicit", t.key[2]>>] # "absent"
        /\ solver[r].pc = "request" /\ Idle(r) => entry[SourceKey(solver[r].next[1])] # "absent"
        /\ solver[r].pc = "metadata" /\ Idle(r) =>
              entry[<<"dist", solver[r].next[1], solver[r].next[2]>>] # "absent"

(* The answer to a request does not change, although a prefetch fills      *)
(* entries that another task is fetching.                                  *)
AnswersAreFinal == [][\A k \in Keys : Filled(k) => entry'[k] = entry[k]]_vars

-----------------------------------------------------------------------------
(* What makes these inductive.                                             *)

(* An entry of a version list says what the index has.                     *)
ListsHold ==
    \A k \in VersionKeys :
        Filled(k) => entry[k] = IF Listed[k[2]] = {} THEN "missing" ELSE "found"

(* What comes before a request: a prefetch is of a package whose list was  *)
(* asked for, metadata of a version comes from the list it is on.          *)
Follows(q) ==
    /\ IsPrefetch(q) => PreVisitable(q.key[2]) /\ entry[<<"implicit", q.key[2]>>] # "absent"
    /\ q.key[1] = "dist" /\ Source[q.key[2]] # "url" => entry[SourceKey(q.key[2])] = "found"

RequestsFollow ==
    \A r \in Resolutions :
        /\ \A q \in solver[r].todo : Follows(q)
        /\ \A i \in 1..Len(solver[r].out) : Follows(solver[r].out[i])
        /\ \A i \in 1..Len(chan[r]) : Follows(chan[r][i])
        /\ \A t \in tasks[r] : Follows(t) /\ (t.stage # "start" => t.key \in DistKeys)

(* The solver r has registered k, or is about to.                          *)
Registers(r, k) == Request(k) \in solver[r].todo \/ entry[k] # "absent"

SolverAsks ==
    \A r \in Resolutions : solver[r].pc # "closed" =>
        /\ \A n \in Required(r) : VisitNow(n) => Registers(r, SourceKey(n))
        /\ solver[r].pc = "request" =>
              solver[r].next \in {<<n>> : n \in Names} /\ Registers(r, SourceKey(solver[r].next[1]))
        /\ solver[r].pc = "metadata" =>
              /\ solver[r].next \in Dists
              /\ Registers(r, <<"dist", solver[r].next[1], solver[r].next[2]>>)

AskInv == TypeOK /\ ListsHold /\ RequestsFollow /\ SolverAsks

(* Metadata that comes with the list of versions is not fetched.           *)
FromList(k) == k \in DistKeys /\ Source[k[2]] # "url" /\ DistOf(k) \in Provided

ListedIsFound ==
    /\ \A k \in Keys : FromList(k) => entry[k] \in {"absent", "waiting", "found"}
    /\ \A r \in Resolutions : \A t \in tasks[r] : t.stage # "start" => ~FromList(t.key)

(* At most one request for a key is under way, and none before the entry   *)
(* is registered or after it is filled.                                    *)
OneServer ==
    \A k \in Keys :
        /\ \A p, q \in Places(k) : p = q
        /\ entry[k] = "absent" => Places(k) = {}
        /\ Filled(k) /\ ~FromList(k) => Places(k) = {}

ServeInv == AskInv /\ ListedIsFound /\ OneServer

(* A resolution that is not running serves nothing, and what it still asks *)
(* for is lost; a thread that has ended asks for nothing.                  *)
Quiet ==
    \A r \in Resolutions :
        /\ res[r] = "running" \/ (chan[r] = <<>> /\ tasks[r] = {})
        /\ solver[r].pc \in {"solved", "unsolved", "closed"} => Idle(r)
        /\ res[r] = "running" \/ \A k \in Keys : SentAt(r, k) # {} => k \in lost

WaitInv ==
    /\ ServeInv /\ Quiet
    /\ \A k \in Keys : entry[k] = "waiting" => Places(k) # {} \/ k \in lost

(* The solver of r, or a prefetch that it asked for, waits for k.          *)
Waits(r, k) ==
    \/ /\ Idle(r)
       /\ \/ solver[r].pc = "request" /\ k = SourceKey(solver[r].next[1])
          \/ solver[r].pc = "metadata" /\ k = <<"dist", solver[r].next[1], solver[r].next[2]>>
    \/ \E t \in tasks[r] : IsPrefetch(t) /\ k = <<"implicit", t.key[2]>>

(* The resolution ends, with a solution or an error, unless it or one that *)
(* it started waits for ever for an entry that was lost.                   *)
Terminates ==
    \/ <>(res[Root] # "running")
    \/ <>[](\E r \in Resolutions : res[r] = "running" /\
               \E k \in lost : entry[k] = "waiting" /\ Waits(r, k))
=============================================================================
