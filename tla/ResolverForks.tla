--------------------------- MODULE ResolverForks ---------------------------
(***************************************************************************)
(* Universal resolution (uv-resolver): one resolution for a whole set of   *)
(* environments.  When a package's requirements differ between             *)
(* environments, or between extras and groups that are declared to         *)
(* conflict, the solver forks: each fork is solved for a part of the       *)
(* environments, and the parts make up the lockfile.                       *)
(*                                                                         *)
(* A marker is the set of places, <<python, platform>>, where it is true.  *)
(* A world is a place with the conflicting items that are asked for there: *)
(* what someone may install from the lockfile.                             *)
(*                                                                         *)
(* PubGrub is external: which undecided package comes next, which version  *)
(* in its range, and how far a conflict backtracks, are choices.  Marker,  *)
(* extra and group proxies, URLs, overrides and constraints, the           *)
(* flattening of a package's extras of itself, environments that must have *)
(* wheels, and the Python versions of wheels (as opposed to those that a   *)
(* version supports) are left out.                                         *)
(***************************************************************************)
EXTENDS Naturals, Sequences, SequencesExt, FiniteSets

CONSTANTS
    Pythons, Platforms, \* Python versions, as numbers, and platforms
    NameOrder,          \* the package names in their order
    Extras, Groups,     \* names of extras and of dependency groups
    Versions,           \* versions, as numbers
    Problems,           \* what is resolved
    Root                \* the package whose requirements are resolved

Places == Pythons \X Platforms
Names == {NameOrder[i] : i \in DOMAIN NameOrder}
Kinds == {"project"} \cup Extras \cup Groups
Items == (Names \cup {Root}) \X Kinds
RootItem == <<Root, "project">>

Envs == [markers : SUBSET Places, include : SUBSET Items, exclude : SUBSET Items]
Requirements ==
    [name : Names, kinds : SUBSET (Extras \cup Groups), marker : SUBSET Places,
     range : SUBSET Versions]

(* conflicts: the declared sets of items that exclude one another          *)
(* initial: the forks of the previous lockfile, or of the settings         *)
(* python: the project's requires-python, the lowest Python                *)
(* splits: whether to fork where a version requires a newer Python         *)
(* requires: the requirements of each item at each version                 *)
(* minPython: the lowest Python of each version                            *)
(* artifact: the places for which a version has a file                     *)
(* base: the version without the local segment, if v is a local version    *)
ProblemType(p) ==
    /\ p.conflicts \in Seq(SUBSET Items)
    /\ \A i \in DOMAIN p.conflicts : IsFiniteSet(p.conflicts[i])
    /\ p.initial \in Seq(Envs) /\ \A i \in DOMAIN p.initial : p.initial[i].markers # {}
    /\ p.python \in Pythons /\ p.splits \in BOOLEAN
    /\ \A k \in DOMAIN p.requires :
         k \in Items \X Versions /\ p.requires[k] \in Seq(Requirements)
    /\ \A k \in DOMAIN p.minPython : k \in Names \X Versions /\ p.minPython[k] \in Pythons
    /\ \A k \in DOMAIN p.artifact : k \in Names \X Versions /\ p.artifact[k] \subseteq Places
    /\ \A k \in DOMAIN p.base :
         /\ k \in Names \X Versions /\ p.base[k] \in Versions
         /\ <<k[1], p.base[k]>> \notin DOMAIN p.base

ASSUME ForksAssumption ==
    /\ Pythons \subseteq Nat \ {0} /\ IsFiniteSet(Pythons) /\ Platforms # {}
    /\ Versions \subseteq Nat /\ 1 \in Versions
    /\ NameOrder \in Seq(Names) /\ Root \notin Names
    /\ IsFiniteSet(Extras \cup Groups) /\ "project" \notin Extras \cup Groups
    /\ \A p \in Problems : ProblemType(p)

VARIABLES
    problem,  \* what is resolved, chosen at the start
    arena,    \* the incompatibilities, shared by all forks
    pending,  \* the stack of forks to solve
    active,   \* the fork being solved, <<>> if none
    done,     \* the environments of the forks that are solved
    status    \* "solving", "resolved" or "failed"

vars == <<problem, arena, pending, active, done, status>>

-----------------------------------------------------------------------------
(* The environment of a fork.                                              *)

Conflicting(p) == UNION {p.conflicts[i] : i \in DOMAIN p.conflicts}
ConflictItems == Conflicting(problem)
ProjectOf(item) == <<item[1], "project">>

(* The elements of s that are in K, in their order.                        *)
Keep(s, K) == FoldLeft(LAMBDA acc, x : IF x \in K THEN Append(acc, x) ELSE acc, <<>>, s)

Lowest(S) == CHOOSE p \in S : \A q \in S : p <= q
Highest(S) == CHOOSE p \in S : \A q \in S : q <= p

(* marker::requires_python: the bounds on the Python version of a marker.  *)
Bounds(marker) ==
    LET S == {m[1] : m \in marker} IN {p \in Pythons : Lowest(S) <= p /\ p <= Highest(S)}

PythonMarker(python) == python \X Platforms

IncludedByMarker(env, marker) == env.markers \cap marker # {}

(* An excluded project takes its extras with it, but not its groups.       *)
IncludedByGroup(env, item) ==
    /\ item \notin env.exclude
    /\ item[2] \in Extras /\ ProjectOf(item) \in env.exclude => item \in env.include

(* filter_by_group: <<>> if an item would be both included and excluded.   *)
FilterByGroup(env, allow, deny) ==
    IF allow \cap env.exclude # {} \/ deny \cap (env.include \cup allow) # {} THEN <<>>
    ELSE <<[env EXCEPT !.include = @ \cup allow, !.exclude = @ \cup deny]>>

Narrow(env, marker) == [env EXCEPT !.markers = @ \cap marker]

(* PythonRequirement::narrow.                                              *)
NarrowPython(python, env) == python \cap Bounds(env.markers)
Raises(python, marker) == Lowest(Bounds(marker)) > Lowest(python)

-----------------------------------------------------------------------------
(* From requirements to dependencies.                                      *)

(* is_requirement_applicable.  The extra that is expanded is looked up     *)
(* under the name of the requirement.                                      *)
Applicable(item, req, env, python) ==
    /\ item[2] \in Extras => IncludedByGroup(env, <<req.name, item[2]>>)
    /\ PythonMarker(python) \cap req.marker # {}
    /\ IncludedByMarker(env, req.marker)

Dependency(item, req, kind) ==
    [name |-> req.name, kind |-> kind, marker |-> req.marker, range |-> req.range,
     parent |-> kind = "project" /\ item # RootItem /\ item[2] = "project"]

Item(dep) == <<dep.name, dep.kind>>

(* Extras without their base package.                                      *)
FromRequirementAlone(item, req) ==
    LET kinds == IF req.kinds = {} THEN <<"project">> ELSE SetToSeq(req.kinds)
    IN  [i \in DOMAIN kinds |-> Dependency(item, req, kinds[i])]

(* PubGrubDependency::from_requirement: the base package comes along when  *)
(* an extra or a group is in conflict, for the fork that excludes it.      *)
FromRequirement(item, req) ==
    LET conflicting == \E k \in req.kinds : <<req.name, k>> \in ConflictItems
        base == IF req.kinds = {} \/ conflicting THEN <<"project">> ELSE <<>>
        kinds == base \o SetToSeq(req.kinds)
    IN  [i \in DOMAIN kinds |-> Dependency(item, req, kinds[i])]

Requires(item, v) ==
    IF <<item, v>> \in DOMAIN problem.requires THEN problem.requires[<<item, v>>] ELSE <<>>

GetDependencies(item, v, env, python) ==
    LET all == Requires(item, v)
        reqs == Keep(all, {q \in ToSet(all) : Applicable(item, q, env, python)})
    IN  FlattenSeq([i \in DOMAIN reqs |-> FromRequirement(item, reqs[i])])

-----------------------------------------------------------------------------
(* ForkedDependencies::fork.  A fork has an environment, the dependencies  *)
(* that apply there, and an index of their items.                          *)

AddDependency(fork, dep) ==
    [fork EXCEPT !.deps = Append(@, dep), !.index = @ \cup {Item(dep)}]

(* Retain the dependencies of `keep`; the items of the rest leave the      *)
(* index.                                                                  *)
Retain(fork, env, keep) ==
    [env |-> env, deps |-> Keep(fork.deps, keep),
     index |-> fork.index \ {Item(d) : d \in ToSet(fork.deps) \ keep}]

SetEnv(fork, env) ==
    Retain(fork, env, {d \in ToSet(fork.deps) : IncludedByMarker(env, d.marker)})

AddWhereIncluded(forks, dep) ==
    [i \in DOMAIN forks |->
        IF IncludedByMarker(forks[i].env, dep.marker) THEN AddDependency(forks[i], dep)
        ELSE forks[i]]

(* The part of a fork where the marker holds.                              *)
Place(fork, marker, dep) ==
    LET new == SetEnv(fork, Narrow(fork.env, marker))
    IN  IF IncludedByMarker(new.env, dep.marker) THEN AddDependency(new, dep) ELSE new

(* The parts of a fork where the marker does not hold, and where it does,  *)
(* as far as they are for a Python that is asked for.                      *)
Sides(fork, marker, dep, python) ==
    LET Side(m) ==
            LET new == Place(fork, m, dep)
            IN  IF IncludedByMarker(new.env, PythonMarker(python)) THEN <<new>> ELSE <<>>
    IN  (IF fork.env.markers \subseteq marker THEN <<>> ELSE Side(Places \ marker))
        \o Side(marker)

Split(acc, fork, dep, python) ==
    IF ~IncludedByMarker(fork.env, acc.marker)
    THEN [acc EXCEPT !.forks = Append(@, fork)]
    ELSE [marker |-> acc.marker \ fork.env.markers,
          forks |-> acc.forks \o Sides(fork, acc.marker, dep, python)]

(* Forker::fork, over all forks: the forker keeps the part of the marker   *)
(* that no fork has met yet.                                               *)
ForkOn(forks, dep, python) ==
    FoldLeft(LAMBDA acc, fork : Split(acc, fork, dep, python),
             [marker |-> dep.marker, forks |-> <<>>], forks).forks

(* A requirement forks only if those of its name differ in their markers,  *)
(* or it raises the lowest Python.                                         *)
ForkByDependency(forks, dep, same, env, python) ==
    IF same /\ ~Raises(python, dep.marker) THEN AddWhereIncluded(forks, dep)
    ELSE IF ~IncludedByMarker(env, dep.marker) THEN forks
    ELSE IF dep.marker = Places THEN [i \in DOMAIN forks |-> AddDependency(forks[i], dep)]
    ELSE ForkOn(forks, dep, python)

ForkByName(forks, deps, env, python) ==
    LET same == \A i \in DOMAIN deps : deps[i].marker = deps[1].marker
    IN  FoldLeft(LAMBDA acc, dep : ForkByDependency(acc, dep, same, env, python), forks, deps)

(* A filter that leaves the dependencies alone.                            *)
FilterEnv(fork, allow, deny) ==
    LET env == FilterByGroup(fork.env, allow, deny)
    IN  IF env = <<>> THEN <<>> ELSE <<[fork EXCEPT !.env = env[1]]>>

(* Fork::filter: dependencies on what is excluded go, except on a project  *)
(* that another package requires.                                          *)
Filter(fork, allow, deny) ==
    LET env == FilterByGroup(fork.env, allow, deny)
    IN  IF env = <<>> THEN <<>>
        ELSE <<Retain(fork, env[1], {d \in ToSet(fork.deps) :
                                       IncludedByGroup(env[1], Item(d)) \/ d.parent})>>

(* Whether item is free of conflicts with what is not excluded, in the     *)
(* sets other than S.                                                      *)
Dominated(item, S, env) ==
    \A i \in DOMAIN problem.conflicts :
        LET T == problem.conflicts[i] IN
        T # S /\ item \in T => \A other \in T \ {item} : ~IncludedByGroup(env, other)

(* A fork for each of the items, and none for what has none of them.       *)
ForkOnEach(fork, S) ==
    LET each == SetToSeq(S)
    IN  IF fork.index \cap S = {} THEN <<fork>>
        ELSE FlattenSeq([i \in DOMAIN each |-> Filter(fork, {each[i]}, S \ {each[i]})])

(* A fork for none of the items in S, and one for each.                    *)
ForkOnConflict(fork, S) ==
    LET free == {item \in S : IncludedByGroup(fork.env, item)}
        each == SetToSeq(S)
    IN  IF fork.index \cap S = {} THEN <<fork>>
        ELSE IF Cardinality(free) < 2 /\ \A item \in free : Dominated(item, S, fork.env)
        THEN Filter(fork, {}, S \ free)
        ELSE Filter(fork, {}, S)
             \o FlattenSeq([i \in DOMAIN each |-> Filter(fork, {each[i]}, S \ {each[i]})])

ForkByNames(env, python, deps) ==
    FoldLeft(LAMBDA acc, n :
                 ForkByName(acc, Keep(deps, {d \in ToSet(deps) : d.name = n}), env, python),
             <<[env |-> env, deps |-> <<>>, index |-> {}]>>, NameOrder)

ForkByConflict(forks, S) == FlattenSeq([i \in DOMAIN forks |-> ForkOnConflict(forks[i], S)])

ForkDependencies(env, python, deps) ==
    FoldLeft(LAMBDA acc, S : ForkByConflict(acc, S), ForkByNames(env, python, deps),
             problem.conflicts)

(* Forks with higher Python bounds are solved first, or last if the fewest *)
(* versions are wanted.                                                    *)
Prioritize(forks, p) ==
    LET newest == Highest(Pythons)
        From(python) ==
            Keep(forks, {f \in ToSet(forks) : Lowest(Bounds(f.env.markers)) = python})
    IN  FlattenSeq([i \in 1..newest |-> From(IF p.splits THEN i ELSE newest + 1 - i)])

-----------------------------------------------------------------------------
(* The state of a fork: how much of the arena is its own, what it has      *)
(* decided, the versions whose dependencies it has added, and what to go   *)
(* on with.                                                                *)

WithEnvOnly(s, env) == [s EXCEPT !.env = env]

WithEnv(s, env) ==
    [s EXCEPT !.env = env, !.python = NarrowPython(@, env)]

AllEnv == [markers |-> Places, include |-> {}, exclude |-> {}]
FreshState(p) ==
    [env |-> AllEnv, python |-> {q \in Pythons : q >= p.python}, len |-> 0,
     trail |-> <<>>, added |-> {}, cont |-> <<>>]

(* A pending fork: a checkpoint, the environment to solve it in, what to   *)
(* go on with, and the dependencies of its last decision to add.           *)
Pending(s, env, cont, deps) == [state |-> s, env |-> env, cont |-> cont, deps |-> deps]

(* initial_forked_states, sorted.                                          *)
InitialForks(p) ==
    LET envs == IF p.initial = <<>> THEN <<AllEnv>> ELSE Reverse(p.initial)
    IN  Prioritize([i \in DOMAIN envs |-> Pending(FreshState(p), envs[i], <<>>, <<>>)], p)

Init ==
    /\ problem \in Problems
    /\ pending = InitialForks(problem)
    /\ arena = <<>> /\ active = <<>> /\ done = <<>> /\ status = "solving"

(* An incompatibility: a version that is ruled out, or what it depends on. *)
Entry(item, v, deps) == [item |-> item, v |-> v, dep |-> deps]

AddDependencies(item, v, deps) ==
    arena \o [i \in DOMAIN deps |-> Entry(item, v, <<deps[i]>>)]

(* materialize_fork: the next fork gets the arena.                         *)
Materialize ==
    /\ status = "solving" /\ active = <<>> /\ pending # <<>>
    /\ LET p == Last(pending)
           s == [WithEnv(p.state, p.env) EXCEPT !.cont = p.cont]
           grown == IF p.deps = <<>> THEN arena
                    ELSE AddDependencies(Last(s.trail)[1], Last(s.trail)[2], p.deps)
       IN  /\ arena' = grown
           /\ active' = <<[s EXCEPT !.len = Len(grown)]>>
    /\ pending' = Front(pending)
    /\ UNCHANGED <<problem, done, status>>

Fork == active[1]
Entries == {arena[i] : i \in 1..Len(arena)}
RuledOut == {<<e.item[1], e.v>> : e \in {x \in Entries : x.dep = <<>>}}

(* The nodes that a dependency stands for: an extra brings its package.    *)
Nodes(dep) == {Item(dep)} \cup IF dep.kind \in Extras THEN {ProjectOf(Item(dep))} ELSE {}

Decided == {Fork.trail[i] : i \in DOMAIN Fork.trail}
InForce == {e.dep[1] : e \in {x \in Entries : x.dep # <<>> /\ <<x.item, x.v>> \in Decided}}
Undecided ==
    ({RootItem} \cup UNION {Nodes(d) : d \in InForce}) \ {d[1] : d \in Decided}

RangeOf(item) ==
    IF item = RootItem THEN {1}
    ELSE {v \in Versions :
            /\ <<item[1], v>> \notin RuledOut
            /\ \A d \in InForce : d.name = item[1] => v \in d.range
            /\ \A d \in Decided : d[1][1] = item[1] => d[2] = v}

MinPython(n, v) == IF <<n, v>> \in DOMAIN problem.minPython THEN problem.minPython[<<n, v>>]
                   ELSE Lowest(Pythons)
Artifact(n, v) == IF <<n, v>> \in DOMAIN problem.artifact THEN problem.artifact[<<n, v>>]
                  ELSE Places

Push(forks) ==
    /\ pending' = pending \o forks
    /\ active' = <<>>

(* Whether what is decided is within what is required.                     *)
Consistent == \A d \in InForce, e \in Decided : e[1][1] = d.name => e[2] \in d.range

Solving == status = "solving" /\ active # <<>> /\ Consistent
NextItems ==
    IF Fork.cont # <<>> THEN {Fork.cont[1]} \cap Undecided ELSE Undecided

(* No version is left: the resolution fails, or PubGrub learns from the    *)
(* conflict and undoes decisions.                                          *)
NoVersions ==
    /\ status = "solving" /\ active # <<>>
    /\ ~Consistent \/ \E item \in NextItems : RangeOf(item) = {}
    /\ \/ status' = "failed" /\ UNCHANGED <<arena, active>>
       \/ \E i \in DOMAIN Fork.trail :
            /\ Fork.trail[i][1] # RootItem
            /\ arena' = Append(arena, Entry(Fork.trail[i][1], Fork.trail[i][2], <<>>))
            /\ active' = <<[Fork EXCEPT !.trail = SubSeq(@, 1, i - 1), !.cont = <<>>,
                                        !.len = Len(arena')]>>
            /\ UNCHANGED status
    /\ UNCHANGED <<problem, pending, done>>

(* The choice of a version, and whether the fork operation has made it.    *)
UseVersion == Len(Fork.cont) = 2
Chosen(item, v) == v \in RangeOf(item) /\ (UseVersion => v = Fork.cont[2])
Known(item, v) == <<item, v>> \in Fork.added

(* A version fits if it supports some of the Pythons.                      *)
TooNewForAll(item, v) == Highest(Fork.python) < MinPython(item[1], v)

(* check_requires_python, of the file that is selected and of its metadata. *)
TooNew(item, v) ==
    /\ Lowest(Fork.python) < MinPython(item[1], v)
    /\ ~(UseVersion /\ Known(item, v))

(* fork_version_by_python_requirement: split the Python requirement.       *)
PythonSides(item, v) ==
    LET below == {p \in Fork.python : p < MinPython(item[1], v)}
        above == Fork.python \ below
        Side(python) ==
            LET env == Narrow(Fork.env, PythonMarker(python))
            IN  IF env.markers = {} THEN <<>> ELSE <<env>>
    IN  IF below = {} \/ above = {} THEN <<>>
        ELSE Side(below) \o Side(above)

(* A version that requires a newer Python: fork, or rule it out.           *)
RequiresPython ==
    /\ Solving
    /\ \E item \in NextItems, v \in Versions :
         LET sides == IF problem.splits THEN PythonSides(item, v) ELSE <<>> IN
         /\ Chosen(item, v) /\ TooNew(item, v)
         /\ IF sides # <<>>
            THEN /\ Push([i \in DOMAIN sides |-> Pending(Fork, sides[i], <<item>>, <<>>)])
                 /\ UNCHANGED arena
            ELSE /\ arena' = Append(arena, Entry(item, v, <<>>))
                 /\ active' = <<[Fork EXCEPT !.cont = <<>>, !.len = Len(arena')]>>
                 /\ UNCHANGED pending
    /\ UNCHANGED <<problem, done, status>>

(* fork_version_registry: where the version without the local segment has  *)
(* files and the local version has none.                                   *)
Remainder(n, v) == Artifact(n, problem.base[<<n, v>>]) \ Artifact(n, v)

(* The same, extended to whole platforms that the local version has no     *)
(* files for.                                                              *)
Extended(n, v) ==
    Remainder(n, v) \cup {m \in Places :
        /\ \E x \in Remainder(n, v) : x[2] = m[2]
        /\ Artifact(n, v) \cap (Pythons \X {m[2]}) = {}}

(* The base version of a local version, where that must be considered.     *)
BaseOf(item, v) ==
    IF <<item[1], v>> \in DOMAIN problem.base
       /\ problem.base[<<item[1], v>>] \in RangeOf(item)
       /\ ~UseVersion
       /\ ~TooNew(item, v)
       /\ IncludedByMarker(Fork.env, Remainder(item[1], v))
    THEN {problem.base[<<item[1], v>>]} ELSE {}

ForkOnPlatform ==
    /\ Solving
    /\ \E item \in NextItems, v \in Versions :
         /\ Chosen(item, v) /\ IncludedByMarker(Fork.env, Artifact(item[1], v))
         /\ \E b \in BaseOf(item, v) :
              Push(<<Pending(Fork, Narrow(Fork.env, Extended(item[1], v)), <<item, b>>, <<>>),
                     Pending(Fork, Narrow(Fork.env, Places \ Extended(item[1], v)),
                             <<item, v>>, <<>>)>>)
    /\ UNCHANGED <<problem, arena, done, status>>

(* The versions that are decided on: the base version if the local one has *)
(* no file in this fork.                                                   *)
Selects(item, v) ==
    \/ Chosen(item, v) /\ ~TooNew(item, v) /\ BaseOf(item, v) = {}
    \/ \E w \in Versions :
         /\ Chosen(item, w) /\ v \in BaseOf(item, w)
         /\ ~IncludedByMarker(Fork.env, Artifact(item[1], w))
         /\ ~TooNew(item, v)

Decide(item, v, deps, added) ==
    LET grown == AddDependencies(item, v, deps)
    IN  /\ arena' = grown
        /\ active' = <<[Fork EXCEPT !.trail = Append(@, <<item, v>>), !.cont = <<>>,
                                    !.added = added, !.len = Len(grown)]>>
        /\ UNCHANGED pending

(* Decide on a version, and add its dependencies, in forks if need be.     *)
DecideVersion ==
    /\ Solving
    /\ \E item \in NextItems, v \in Versions :
         /\ Selects(item, v)
         /\ LET forks == ForkDependencies(Fork.env, Fork.python,
                             GetDependencies(item, v, Fork.env, Fork.python))
                added == Fork.added \cup {<<item, v>>}
                s == [Fork EXCEPT !.added = added, !.trail = Append(@, <<item, v>>)]
                sorted == Prioritize(forks, problem)
            IN  IF Known(item, v) THEN Decide(item, v, <<>>, added)
                ELSE IF Len(forks) < 2
                THEN Decide(item, v, IF forks = <<>> THEN <<>> ELSE forks[1].deps, added)
                ELSE /\ Push([i \in DOMAIN sorted |->
                                Pending(s, sorted[i].env, <<>>, sorted[i].deps)])
                     /\ UNCHANGED arena
    /\ UNCHANGED <<problem, done, status>>

(* All packages are decided: the fork is solved.                           *)
Solved == Solving /\ Undecided = {}

RewindNothing == IF pending = <<>> THEN <<>> ELSE arena

(* into_resolution gives the arena back, as it was at the checkpoint of    *)
(* the next fork.                                                          *)
Rewind == IF pending = <<>> THEN <<>> ELSE SubSeq(arena, 1, Last(pending).state.len)

Finish ==
    /\ Solved
    /\ done' = Append(done, Fork.env)
    /\ arena' = Rewind
    /\ active' = <<>>
    /\ status' = IF pending = <<>> THEN "resolved" ELSE "solving"
    /\ UNCHANGED <<problem, pending>>

(* The result is returned.                                                 *)
Stop == status # "solving" /\ UNCHANGED vars

Next ==
    \/ Materialize \/ NoVersions \/ RequiresPython \/ ForkOnPlatform \/ DecideVersion
    \/ Finish \/ Stop

(* The solver runs until it returns.  This is WF_vars(Next): while it is   *)
(* solving, some step is enabled, or the check for deadlocks fails.        *)
Fairness == <>[](status # "solving") \/ []<><<vars' # vars>>_vars
Spec == Init /\ [][Next]_vars /\ Fairness

-----------------------------------------------------------------------------
(* Worlds: a place that the project supports, and conflicting items that   *)
(* may be asked for together.                                              *)
SupportedBy(p) ==
    {m \in Places : m[1] >= p.python
        /\ (p.initial # <<>> => \E i \in DOMAIN p.initial : m \in p.initial[i].markers)}
SelectionsOf(p) ==
    {A \in SUBSET Conflicting(p) :
        \A i \in DOMAIN p.conflicts : Cardinality(A \cap p.conflicts[i]) <= 1}
Supported == SupportedBy(problem)
Selections == SelectionsOf(problem)
Covers(env, m, A) == m \in env.markers /\ env.include \subseteq A /\ env.exclude \cap A = {}

(* What a partition asks of a project's settings: the forks to begin with  *)
(* are one for each world, and a set of conflicting items with a project   *)
(* has all the extras of that project that are in conflict.                *)
Tidy(p, env) ==
    /\ env.include \cap env.exclude = {}
    /\ \A x \in Conflicting(p) :
         x[2] \in Extras /\ ProjectOf(x) \in env.exclude => x \in env.include \cup env.exclude
WellPosed(p) ==
    /\ \A i \in DOMAIN p.initial : Tidy(p, p.initial[i])
    /\ \A m \in SupportedBy(p), A \in SelectionsOf(p) :
         p.initial # <<>> =>
            \E i \in DOMAIN p.initial :
                /\ Covers(p.initial[i], m, A)
                /\ \A j \in DOMAIN p.initial : j # i => ~Covers(p.initial[j], m, A)
    /\ \A i \in DOMAIN p.conflicts : \A x \in Conflicting(p) :
         x[2] \in Extras /\ ProjectOf(x) \in p.conflicts[i] => x \in p.conflicts[i]

(* What NothingLost asks: the initial forks exclude only what is in        *)
(* conflict, and no package that an extra requires is in conflict, nor its *)
(* extra of that name, which is what is looked up.                         *)
OwnExtras(p) ==
    /\ \A i \in DOMAIN p.initial : p.initial[i].exclude \subseteq Conflicting(p)
    /\ \A k \in DOMAIN p.requires : k[1][2] \in Extras =>
         \A i \in DOMAIN p.requires[k] :
            LET n == p.requires[k][i].name IN
            <<n, k[1][2]>> \notin Conflicting(p) /\ <<n, "project">> \notin Conflicting(p)

(* What ConflictsApart asks: no project in conflict comes along with an    *)
(* extra of it.                                                            *)
WholeProjects(p) ==
    /\ RootItem \notin Conflicting(p)
    /\ \A k \in DOMAIN p.requires : \A i \in DOMAIN p.requires[k] :
         LET req == p.requires[k][i] IN
         req.kinds \cap Extras # {} => <<req.name, "project">> \notin Conflicting(p)

TypeOK ==
    /\ ProblemType(problem) /\ status \in {"solving", "resolved", "failed"}
    /\ \A i \in DOMAIN arena : arena[i].item \in Items /\ arena[i].v \in Versions
    /\ \A i \in DOMAIN pending : pending[i].env \in Envs /\ pending[i].state.len \in Nat
    /\ Len(active) <= 1
    /\ active # <<>> =>
         Fork.env \in Envs /\ Fork.python \subseteq Pythons /\ Fork.python # {}

(* The forks partition the worlds: whatever combination of place and items *)
(* is installed, exactly one fork, to solve or solved, is for it.  Two     *)
(* would give it two versions of a package; none, no resolution at all.    *)
ForksPartition ==
    status # "failed" => \A m \in Supported, A \in Selections :
        Cardinality({i \in DOMAIN pending : Covers(pending[i].env, m, A)})
            + Cardinality({i \in DOMAIN active : Covers(active[i].env, m, A)})
            + Cardinality({i \in DOMAIN done : Covers(done[i], m, A)}) = 1

(* A fork that is resumed finds the arena as it was at its checkpoint,     *)
(* however many forks, and forks of forks, were solved in between.         *)
ArenaAtCheckpoint ==
    status = "solving" =>
        /\ active = <<>> => Len(arena) = Last(pending).state.len
        /\ active # <<>> => Len(arena) = Fork.len
        /\ \A i \in DOMAIN pending : pending[i].state.len <= Len(arena)

(* Items that conflict are never in one resolution, unless one of them is  *)
(* a project that another package requires.                                *)
ConflictsApart ==
    Solved => \A j \in DOMAIN problem.conflicts :
        LET required(x) ==
                \E d \in Decided :
                    /\ d[1] # RootItem /\ d[1][2] = "project"
                    /\ \E k \in DOMAIN Requires(d[1], d[2]) : Requires(d[1], d[2])[k].name = x[1]
            here == {d[1] : d \in Decided} \cap problem.conflicts[j]
        IN  Cardinality({x \in here : x[2] = "project" => ~required(x)}) <= 1

(* What a requirement of item asks for in a world.                         *)
Active(item, A) ==
    /\ item \in ConflictItems => item \in A
    /\ item[2] \in Extras /\ ProjectOf(item) \in ConflictItems => ProjectOf(item) \in A
Asks(req, A) ==
    {x \in {<<req.name, k>> : k \in req.kinds} : Active(x, A)}
        \cup IF req.kinds \cap Groups = {} /\ Active(<<req.name, "project">>, A)
             THEN {<<req.name, "project">>} ELSE {}

(* Nothing is lost: in each world, the resolution that is for it has, for  *)
(* each package in it, all that the package requires there, at a version   *)
(* in the range.                                                           *)
NothingLost ==
    Solved => \A m \in Supported, A \in Selections :
        Covers(Fork.env, m, A) =>
            \A d \in Decided : \A k \in DOMAIN Requires(d[1], d[2]) :
                LET req == Requires(d[1], d[2])[k] IN
                m \in req.marker =>
                    \A x \in Asks(req, A) : \E e \in Decided : e[1] = x /\ e[2] \in req.range

(* A version is installable: it supports the Pythons of its fork, and a    *)
(* local version is not chosen for a place that only the version without   *)
(* the local segment has files for, if that one would do as well.          *)
VersionsFit ==
    Solved => \A d \in Decided : \A m \in Fork.env.markers \cap Supported :
        LET n == d[1][1] v == d[2]
            inRange(b) == <<n, b>> \notin RuledOut /\ \A e \in InForce : e.name = n => b \in e.range
        IN  /\ MinPython(n, v) <= m[1]
            /\ <<n, v>> \in DOMAIN problem.base /\ inRange(problem.base[<<n, v>>]) =>
                 m \notin Artifact(n, problem.base[<<n, v>>]) \ Artifact(n, v)

(* The resolution ends.                                                    *)
Terminates == <>(status # "solving")
=============================================================================
