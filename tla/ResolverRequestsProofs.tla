----------------------- MODULE ResolverRequestsProofs -----------------------
(***************************************************************************)
(* For any packages, sources, builds and channel capacity: what the solver  *)
(* waits for was requested, an answer does not change, and as long as no    *)
(* nested fetch task fails, whoever waits is served by exactly one request. *)
(***************************************************************************)
EXTENDS ResolverRequests, SequenceTheorems, FiniteSetTheorems, TLAPS

-----------------------------------------------------------------------------
(* Keys, requests and tasks.                                               *)

LEMMA VersionKeyIs ==
    ASSUME NEW k \in VersionKeys
    PROVE  k[1] \in {"implicit", "explicit"} /\ k[2] \in Names /\ k = <<k[1], k[2]>> /\ k \in Keys
BY DEF VersionKeys, Keys

LEMMA DistKeyIs ==
    ASSUME NEW k \in DistKeys
    PROVE  /\ k[1] = "dist" /\ k[2] \in Names /\ k[3] \in Versions
           /\ k = <<"dist", k[2], k[3]>> /\ k \in Keys /\ k \notin VersionKeys
<1>1. PICK n \in Names, v \in Versions : k = <<"dist", n, v>>
    BY DEF DistKeys
<1>2. k[1] = "dist" /\ k[2] = n /\ k[3] = v
    BY <1>1
<1> QED
    BY <1>1, <1>2 DEF VersionKeys, Keys

LEMMA SourceKeyIs ==
    ASSUME NEW n \in Names
    PROVE  /\ SourceKey(n) \in Keys /\ SourceKey(n)[2] = n
           /\ Source[n] = "url" => SourceKey(n) = <<"dist", n, 1>> /\ SourceKey(n) \in DistKeys
           /\ Source[n] # "url" => SourceKey(n) \in VersionKeys /\ SourceKey(n)[1] # "dist"
           /\ n \notin AnyUrl /\ n \notin AnyIndex => SourceKey(n) = <<"implicit", n>>
<1>1. 1 \in Versions /\ Source[n] \in {"registry", "explicit", "url"}
    BY ResolverAssumption
<1>2. CASE Source[n] = "url"
    BY <1>1, <1>2, ResolverAssumption DEF SourceKey, Keys, DistKeys
<1>3. CASE Source[n] = "explicit"
    BY <1>1, <1>3, ResolverAssumption DEF SourceKey, Keys, VersionKeys
<1>4. CASE Source[n] = "registry"
    BY <1>1, <1>4, ResolverAssumption DEF SourceKey, Keys, VersionKeys
<1> QED
    BY <1>1, <1>2, <1>3, <1>4

LEMMA RequestIs ==
    ASSUME NEW k \in Keys
    PROVE  Request(k) \in Requests /\ Request(k).key = k /\ ~IsPrefetch(Request(k))
<1>1. k[1] # "prefetch"
    BY VersionKeyIs, DistKeyIs DEF Keys
<1>2. Request(k) \in Requests
    BY DEF Requests
<1>3. Request(k).key = k
    BY DEF Request
<1> QED
    BY <1>1, <1>2, <1>3 DEF IsPrefetch

LEMMA RequestsAre ==
    ASSUME NEW q \in Requests
    PROVE  \/ q.key \in Keys /\ q = Request(q.key) /\ ~IsPrefetch(q)
           \/ /\ q.key[2] \in Names /\ q.key = <<"prefetch", q.key[2]>>
              /\ q.range \subseteq Versions /\ IsPrefetch(q) /\ q.key \notin Keys
<1>1. CASE \E k \in Keys : q = Request(k)
    BY <1>1, RequestIs
<1>2. CASE \E n \in Names, range \in SUBSET Versions : q = Prefetch(n, range)
    <2>1. PICK n \in Names, range \in SUBSET Versions : q = Prefetch(n, range)
        BY <1>2
    <2>2. q.key = <<"prefetch", n>> /\ q.range = range
        BY <2>1 DEF Prefetch
    <2>3. q.key[1] = "prefetch" /\ q.key[2] = n
        BY <2>2
    <2>4. q.key \notin Keys
        BY <2>3, VersionKeyIs, DistKeyIs DEF Keys
    <2> QED
        BY <2>2, <2>3, <2>4 DEF IsPrefetch
<1> QED
    BY <1>1, <1>2 DEF Requests

LEMMA TaskIs ==
    ASSUME NEW q \in Requests, NEW stage \in {"start", "fetch", "build"}
    PROVE  /\ Task(q, stage) \in Tasks /\ Task(q, stage).key = q.key
           /\ Task(q, stage).range = q.range /\ Task(q, stage).stage = stage
BY DEF Task, Tasks

LEMMA Restaged ==
    ASSUME NEW t \in Tasks, NEW stage \in {"start", "fetch", "build"}
    PROVE  LET u == [t EXCEPT !.stage = stage]
           IN  u \in Tasks /\ u.key = t.key /\ u.stage = stage
<1>1. PICK q \in Requests, old \in {"start", "fetch", "build"} : t = Task(q, old)
    BY DEF Tasks
<1>2. [t EXCEPT !.stage = stage] = Task(q, stage) /\ t.key = q.key
    BY <1>1 DEF Task
<1> QED
    BY <1>2, TaskIs

LEMMA TasksAre ==
    ASSUME NEW t \in Tasks
    PROVE  /\ \/ t.key \in Keys /\ ~IsPrefetch(t)
              \/ /\ t.key[2] \in Names /\ t.key = <<"prefetch", t.key[2]>>
                 /\ t.range \subseteq Versions /\ IsPrefetch(t) /\ t.key \notin Keys
           /\ t.stage \in {"start", "fetch", "build"}
<1>1. PICK q \in Requests, stage \in {"start", "fetch", "build"} : t = Task(q, stage)
    BY DEF Tasks
<1>2. t.key = q.key /\ t.range = q.range /\ t.stage = stage
    BY <1>1, TaskIs
<1>3. \/ t.key \in Keys /\ ~IsPrefetch(t)
      \/ /\ t.key[2] \in Names /\ t.key = <<"prefetch", t.key[2]>>
         /\ t.range \subseteq Versions /\ IsPrefetch(t) /\ t.key \notin Keys
    BY <1>2, RequestsAre DEF IsPrefetch
<1> QED
    BY <1>2, <1>3

-----------------------------------------------------------------------------
(* Types.                                                                  *)

LEMMA RequiredAre ==
    ASSUME TypeOK, NEW r \in Resolutions
    PROVE  /\ Asked(r) \subseteq Names /\ Required(r) \subseteq Names /\ Undecided(r) \subseteq Names
           /\ Decided(r) \subseteq Dists
<1>1. solver[r].trail \in Seq(Dists)
    BY DEF TypeOK, Solvers
<1>2. Decided(r) \subseteq Dists
    <2>1. \A i \in 1..Len(solver[r].trail) : solver[r].trail[i] \in Dists
        BY <1>1, ElementOfSeq
    <2> QED
        BY <2>1 DEF Decided
<1>3. Asked(r) \subseteq Names
    BY ResolverAssumption DEF Asked, Resolutions
<1>4. ASSUME NEW d \in Dists PROVE Deps[d[1]][d[2]] \subseteq Names
    <2>1. d[1] \in Names /\ d[2] \in Versions
        BY DEF Dists
    <2>2. Deps \in [Names -> [Versions -> SUBSET Names]]
        BY ResolverAssumption
    <2>3. Deps[d[1]] \in [Versions -> SUBSET Names]
        BY <2>1, <2>2
    <2> QED
        BY <2>1, <2>3
<1> QED
    BY <1>2, <1>3, <1>4 DEF Required, Undecided

LEMMA VisitIs ==
    ASSUME NEW names \in SUBSET Names
    PROVE  /\ Visit(names) \in SUBSET Requests
           /\ \A q \in Visit(names) : \E n \in names : q = Request(SourceKey(n))
           /\ \A n \in names : VisitNow(n) => Request(SourceKey(n)) \in Visit(names)
BY SourceKeyIs, RequestIs DEF Visit

LEMMA NewSolverIs ==
    ASSUME NEW r \in Resolutions
    PROVE  NewSolver(r) \in Solvers
<1>1. Asked(r) \subseteq Names
    BY ResolverAssumption DEF Asked, Resolutions
<1>2. Visit(Asked(r)) \in SUBSET Requests
    BY <1>1, VisitIs
<1> QED
    BY <1>2 DEF NewSolver, Solvers, Phases

\* A solver keeps its type when some of its fields change.
LEMMA SolverFields ==
    ASSUME TypeOK, NEW r \in Resolutions
    PROVE  /\ solver[r] \in Solvers
           /\ solver[r].pc \in Phases
           /\ solver[r].next \in {<<>>} \cup {<<n>> : n \in Names} \cup Dists
           /\ solver[r].trail \in Seq(Dists) /\ solver[r].bad \subseteq Dists
           /\ solver[r].pre \in [Names -> SUBSET Versions] /\ solver[r].todo \subseteq Requests
           /\ solver[r].out \in {<<>>} \cup {<<q>> : q \in Requests}
BY DEF TypeOK, Solvers

-----------------------------------------------------------------------------
(* The decisions of a solver.                                              *)

\* What a solver in the state s has asked for, or is about to.
Needs(r, s) == Asked(r) \cup UNION {Deps[d[1]][d[2]] : d \in {s.trail[i] : i \in 1..Len(s.trail)}}
WillHave(s, k) == Request(k) \in s.todo \/ entry[k] # "absent"
Asks(r, s) ==
    s.pc # "closed" =>
        /\ \A n \in Needs(r, s) : VisitNow(n) => WillHave(s, SourceKey(n))
        /\ s.pc = "request" => s.next \in {<<n>> : n \in Names} /\ WillHave(s, SourceKey(s.next[1]))
        /\ s.pc = "metadata" => s.next \in Dists /\ WillHave(s, <<"dist", s.next[1], s.next[2]>>)

LEMMA AsksIs == SolverAsks <=> \A r \in Resolutions : Asks(r, solver[r])
BY DEF SolverAsks, Asks, Needs, WillHave, Required, Decided, Registers

\* A decision: the solver r, which has nothing left to send, moves to s.
Decides(r, s) ==
    /\ Idle(r) /\ solver[r].pc \notin {"solved", "unsolved", "closed"}
    /\ solver' = [solver EXCEPT ![r] = s] /\ s \in Solvers
    /\ UNCHANGED <<entry, res, chan, tasks>>
    /\ s.out = <<>> /\ s.pc # "closed" /\ (s.pc \in {"solved", "unsolved"} => s.todo = {})
    /\ \A q \in s.todo : Follows(q)
    /\ Asks(r, s)

\* What was required so far is registered.
LEMMA RequiredIsRegistered ==
    ASSUME AskInv, NEW r \in Resolutions, Idle(r), solver[r].pc # "closed"
    PROVE  \A n \in Required(r) : VisitNow(n) => entry[SourceKey(n)] # "absent"
BY DEF AskInv, SolverAsks, Registers, Idle

\* The trail is what it was, or shorter.
LEMMA Asking ==
    ASSUME AskInv, NEW r \in Resolutions, Idle(r), solver[r].pc # "closed",
           NEW s, s.trail = solver[r].trail
    PROVE  \A n \in Needs(r, s) : VisitNow(n) => WillHave(s, SourceKey(n))
BY RequiredIsRegistered DEF Needs, Required, Decided, WillHave

LEMMA SameTrail ==
    ASSUME AskInv, NEW r \in Resolutions
    PROVE  Len(solver[r].trail) \in Nat /\ solver[r] \in Solvers
BY DEF AskInv, TypeOK, Solvers

LEMMA PropagateDecides ==
    ASSUME AskInv, NEW r \in Resolutions, Propagate(r)
    PROVE  \E s : Decides(r, s)
<1>0. TypeOK /\ solver[r] \in Solvers /\ Len(solver[r].trail) \in Nat
    BY SameTrail DEF AskInv
<1> DEFINE fresh == {n \in Undecided(r) : PreVisitable(n) /\ solver[r].pre[n] # RangeOf(r, n)}
           pre == [n \in Names |-> IF n \in fresh THEN RangeOf(r, n) ELSE solver[r].pre[n]]
           todo == {Prefetch(n, RangeOf(r, n)) : n \in fresh}
<1>1. PICK s : s = [solver[r] EXCEPT !.pc = "previsit", !.pre = pre, !.todo = todo]
    OBVIOUS
<1>2. /\ solver' = [solver EXCEPT ![r] = s] /\ UNCHANGED <<entry, res, chan, tasks>>
      /\ Idle(r) /\ solver[r].pc \in {"propagate", "visit"}
    BY <1>1 DEF Propagate, Update
<1>3. pre \in [Names -> SUBSET Versions] /\ todo \in SUBSET Requests
    <2>1. Undecided(r) \subseteq Names /\ solver[r].pre \in [Names -> SUBSET Versions]
        BY <1>0, RequiredAre DEF Solvers
    <2>2. \A n \in Names : RangeOf(r, n) \in SUBSET Versions
        BY DEF RangeOf
    <2>3. pre \in [Names -> SUBSET Versions]
        BY <2>1, <2>2
    <2>4. todo \in SUBSET Requests
        BY <2>1, <2>2 DEF Requests
    <2> QED
        BY <2>3, <2>4
<1>4. /\ s \in Solvers /\ s.out = <<>> /\ s.pc = "previsit" /\ s.todo = todo
      /\ s.trail = solver[r].trail
    <2> HIDE DEF fresh, pre, todo
    <2>1. s \in Solvers
        BY <1>0, <1>1, <1>3 DEF Solvers, Phases
    <2>2. s.pc = "previsit" /\ s.todo = todo /\ s.trail = solver[r].trail /\ s.out = solver[r].out
        BY <1>0, <1>1 DEF Solvers
    <2> QED
        BY <1>2, <2>1, <2>2 DEF Idle
<1>5. ASSUME NEW n \in fresh PROVE Follows(Prefetch(n, RangeOf(r, n)))
    <2>1. n \in Required(r) /\ n \in Names /\ n \notin AnyUrl /\ n \notin AnyIndex
        BY <1>0, RequiredAre DEF Undecided, PreVisitable
    <2>2. SourceKey(n) = <<"implicit", n>> /\ VisitNow(n)
        BY <2>1, SourceKeyIs DEF VisitNow
    <2>3. entry[<<"implicit", n>>] # "absent"
        BY <1>2, <2>1, <2>2, RequiredIsRegistered
    <2>4. Prefetch(n, RangeOf(r, n)).key = <<"prefetch", n>>
        BY DEF Prefetch
    <2> QED
        BY <2>1, <2>3, <2>4 DEF Follows, IsPrefetch, PreVisitable
<1>6. Asks(r, s)
    BY <1>2, <1>4, Asking DEF Asks
<1>7. \A q \in s.todo : Follows(q)
    BY <1>4, <1>5
<1> QED
    BY <1>2, <1>4, <1>6, <1>7 DEF Decides

LEMMA PickDecides ==
    ASSUME AskInv, NEW r \in Resolutions, Pick(r)
    PROVE  \E s : Decides(r, s)
<1>0. TypeOK /\ solver[r] \in Solvers /\ Len(solver[r].trail) \in Nat
    BY SameTrail DEF AskInv
<1>1. PICK n \in Undecided(r) :
        solver' = [solver EXCEPT ![r] = [solver[r] EXCEPT !.pc = "request", !.next = <<n>>,
                                                          !.todo = {Request(SourceKey(n))}]]
    BY DEF Pick, Update
<1>2. PICK s : s = [solver[r] EXCEPT !.pc = "request", !.next = <<n>>, !.todo = {Request(SourceKey(n))}]
    OBVIOUS
<1>3. /\ UNCHANGED <<entry, res, chan, tasks>> /\ Idle(r) /\ solver[r].pc = "previsit"
    BY DEF Pick
<1>4. n \in Names
    BY <1>0, RequiredAre
<1>5. /\ SourceKey(n) \in Keys /\ Request(SourceKey(n)) \in Requests
      /\ SourceKey(n)[2] = n /\ (Source[n] # "url" => SourceKey(n)[1] # "dist")
      /\ ~IsPrefetch(Request(SourceKey(n))) /\ Request(SourceKey(n)).key = SourceKey(n)
    BY <1>4, SourceKeyIs, RequestIs
<1>6. /\ s.pc = "request" /\ s.next = <<n>> /\ s.todo = {Request(SourceKey(n))}
      /\ s.trail = solver[r].trail /\ s.out = solver[r].out
    BY <1>0, <1>2 DEF Solvers
<1>7. s \in Solvers
    BY <1>0, <1>2, <1>4, <1>5 DEF Solvers, Phases
<1>8. s.next \in {<<m>> : m \in Names} /\ s.next[1] = n
    BY <1>4, <1>6
<1>9. Asks(r, s)
    <2>1. \A m \in Needs(r, s) : VisitNow(m) => WillHave(s, SourceKey(m))
        BY <1>3, <1>6, Asking
    <2>2. WillHave(s, SourceKey(s.next[1]))
        BY <1>6, <1>8 DEF WillHave
    <2> QED
        BY <1>6, <1>8, <2>1, <2>2 DEF Asks
<1>10. \A q \in s.todo : Follows(q)
    BY <1>5, <1>6 DEF Follows
<1> QED
    BY <1>1, <1>2, <1>3, <1>6, <1>7, <1>9, <1>10 DEF Decides, Idle

LEMMA SolveDecides ==
    ASSUME AskInv, NEW r \in Resolutions, Solve(r)
    PROVE  \E s : Decides(r, s)
<1>0. TypeOK /\ solver[r] \in Solvers /\ Len(solver[r].trail) \in Nat
    BY SameTrail DEF AskInv
<1>1. PICK s : s = [solver[r] EXCEPT !.pc = "solved"]
    OBVIOUS
<1>2. /\ UNCHANGED <<entry, res, chan, tasks>> /\ Idle(r) /\ solver[r].pc = "previsit"
      /\ solver' = [solver EXCEPT ![r] = s]
    BY <1>1 DEF Solve, Update
<1>3. /\ s.pc = "solved" /\ s.todo = solver[r].todo
      /\ s.trail = solver[r].trail /\ s.out = solver[r].out
    BY <1>0, <1>1 DEF Solvers
<1>4. s \in Solvers
    BY <1>0, <1>1 DEF Solvers, Phases
<1>5. Asks(r, s)
    BY <1>2, <1>3, Asking DEF Asks
<1> QED
    BY <1>2, <1>3, <1>4, <1>5 DEF Decides, Idle

\* A conflict keeps a part of the trail, and asks for nothing.
LEMMA ConflictDecides ==
    ASSUME AskInv, NEW r \in Resolutions, NEW bad \in SUBSET Dists, Conflict(r, bad), Idle(r),
           solver[r].pc \in {"request", "metadata"}, UNCHANGED <<entry, res, chan, tasks>>
    PROVE  \E s : Decides(r, s)
<1>0. /\ TypeOK /\ solver[r] \in Solvers /\ Len(solver[r].trail) \in Nat
      /\ solver[r].trail \in Seq(Dists)
    BY SameTrail DEF AskInv, Solvers
<1>1. CASE Update(r, [solver[r] EXCEPT !.pc = "unsolved", !.next = <<>>, !.bad = bad])
    <2>1. PICK s : s = [solver[r] EXCEPT !.pc = "unsolved", !.next = <<>>, !.bad = bad]
        OBVIOUS
    <2>2. s \in Solvers
        BY <1>0, <2>1 DEF Solvers, Phases
    <2>3. /\ s.pc = "unsolved" /\ s.todo = solver[r].todo
          /\ s.trail = solver[r].trail /\ s.out = solver[r].out
        BY <1>0, <2>1 DEF Solvers
    <2>4. Asks(r, s)
        BY <2>3, Asking DEF Asks
    <2> QED
        BY <1>1, <2>1, <2>2, <2>3, <2>4 DEF Decides, Idle, Update
<1>2. CASE \E i \in 1..Len(solver[r].trail) :
         Update(r, [solver[r] EXCEPT !.pc = "propagate", !.next = <<>>,
              !.trail = SubSeq(solver[r].trail, 1, i - 1), !.bad = bad \cup {solver[r].trail[i]}])
    <2>1. PICK i \in 1..Len(solver[r].trail) :
         Update(r, [solver[r] EXCEPT !.pc = "propagate", !.next = <<>>,
              !.trail = SubSeq(solver[r].trail, 1, i - 1), !.bad = bad \cup {solver[r].trail[i]}])
        BY <1>2
    <2>2. PICK s : s = [solver[r] EXCEPT !.pc = "propagate", !.next = <<>>,
              !.trail = SubSeq(solver[r].trail, 1, i - 1), !.bad = bad \cup {solver[r].trail[i]}]
        OBVIOUS
    <2>3. /\ SubSeq(solver[r].trail, 1, i - 1) \in Seq(Dists)
          /\ Len(SubSeq(solver[r].trail, 1, i - 1)) = i - 1
          /\ \A j \in 1..(i - 1) : SubSeq(solver[r].trail, 1, i - 1)[j] = solver[r].trail[j]
        <3>1. \A j \in 1..(i - 1) : solver[r].trail[j] \in Dists
            BY <1>0, ElementOfSeq
        <3> QED
            BY <1>0, <3>1, SubSeqProperties
    <2>4. bad \cup {solver[r].trail[i]} \in SUBSET Dists
        BY <1>0, ElementOfSeq
    <2>5. s \in Solvers
        BY <1>0, <2>2, <2>3, <2>4 DEF Solvers, Phases
    <2>6. /\ s.pc = "propagate" /\ s.todo = solver[r].todo /\ s.out = solver[r].out
          /\ s.trail = SubSeq(solver[r].trail, 1, i - 1)
        BY <1>0, <2>2 DEF Solvers
    <2>7. Needs(r, s) \subseteq Required(r)
        <3>1. Len(s.trail) = i - 1 /\ \A j \in 1..(i - 1) : s.trail[j] = solver[r].trail[j]
            BY <2>3, <2>6
        <3>2. ASSUME NEW j \in 1..Len(s.trail) PROVE s.trail[j] \in Decided(r)
            <4>1. j \in 1..Len(solver[r].trail) /\ s.trail[j] = solver[r].trail[j]
                BY <1>0, <3>1, <3>2
            <4> QED
                BY <4>1 DEF Decided
        <3> QED
            BY <3>2 DEF Needs, Required
    <2>8. Asks(r, s)
        BY <2>6, <2>7, RequiredIsRegistered DEF Asks, WillHave
    <2> QED
        BY <2>1, <2>2, <2>5, <2>6, <2>8 DEF Decides, Idle, Update
<1> QED
    BY <1>1, <1>2 DEF Conflict

\* The next decision is ruled out.
LEMMA RulesOut ==
    ASSUME AskInv, NEW r \in Resolutions, NEW d \in Dists, Idle(r),
           solver[r].pc \in {"request", "metadata"}, UNCHANGED <<entry, res, chan, tasks>>,
           Update(r, [solver[r] EXCEPT !.pc = "propagate", !.next = <<>>, !.bad = @ \cup {d}])
    PROVE  \E s : Decides(r, s)
<1>0. TypeOK /\ solver[r] \in Solvers
    BY SameTrail DEF AskInv
<1>1. PICK s : s = [solver[r] EXCEPT !.pc = "propagate", !.next = <<>>, !.bad = @ \cup {d}]
    OBVIOUS
<1>2. s \in Solvers
    BY <1>0, <1>1 DEF Solvers, Phases
<1>3. /\ s.pc = "propagate" /\ s.todo = solver[r].todo
      /\ s.trail = solver[r].trail /\ s.out = solver[r].out
    BY <1>0, <1>1 DEF Solvers
<1>4. Asks(r, s)
    BY <1>3, Asking DEF Asks
<1> QED
    BY <1>1, <1>2, <1>3, <1>4 DEF Decides, Idle, Update

LEMMA ChooseVersionDecides ==
    ASSUME AskInv, NEW r \in Resolutions, ChooseVersion(r)
    PROVE  \E s : Decides(r, s)
<1>0. /\ TypeOK /\ solver[r] \in Solvers /\ solver[r].bad \in SUBSET Dists
      /\ UNCHANGED <<entry, res, chan, tasks>> /\ Idle(r) /\ solver[r].pc = "request"
    BY SameTrail DEF AskInv, ChooseVersion, Solvers
<1> DEFINE n == solver[r].next[1]
<1>1. n \in Names
    <2>1. solver[r].next \in {<<m>> : m \in Names}
        BY <1>0 DEF AskInv, SolverAsks
    <2> QED
        BY <2>1
<1> DEFINE candidates == Listed[n] \cap RangeOf(r, n)
<1>2. /\ Source[n] # "url" /\ Filled(SourceKey(n))
      /\ \/ candidates = {} /\ Conflict(r, solver[r].bad)
         \/ candidates # {} /\ \E v \in Highest(candidates) :
              \/ Update(r, [solver[r] EXCEPT !.pc = "propagate", !.next = <<>>, !.bad = @ \cup {<<n, v>>}])
              \/ \E batch \in Batches(n, v) :
                   Update(r, [solver[r] EXCEPT !.pc = "metadata", !.next = <<n, v>>,
                                !.todo = {Request(<<"dist", n, w>>) : w \in batch \cup {v}}])
    <2>2. Source[n] # "url" /\ Filled(SourceKey(n))
        BY DEF ChooseVersion
    <2>3. IF candidates = {} THEN Conflict(r, solver[r].bad)
          ELSE \E v \in Highest(candidates) :
              \/ /\ <<n, v>> \in Incompatible
                 /\ Update(r, [solver[r] EXCEPT !.pc = "propagate", !.next = <<>>,
                                                !.bad = @ \cup {<<n, v>>}])
              \/ /\ <<n, v>> \notin Incompatible
                 /\ \E batch \in Batches(n, v) :
                      Update(r, [solver[r] EXCEPT !.pc = "metadata", !.next = <<n, v>>,
                                   !.todo = {Request(<<"dist", n, w>>) : w \in batch \cup {v}}])
        BY Zenon DEF ChooseVersion
    <2> HIDE DEF candidates, n
    <2> QED
        BY <2>2, <2>3, Zenon
<1> HIDE DEF n
<1>3. Listed[n] \subseteq Versions
    BY <1>1, ResolverAssumption
<1>4. CASE candidates = {} /\ Conflict(r, solver[r].bad)
    BY <1>0, <1>4, ConflictDecides
<1>5. ASSUME NEW v \in Highest(candidates),
             Update(r, [solver[r] EXCEPT !.pc = "propagate", !.next = <<>>, !.bad = @ \cup {<<n, v>>}])
      PROVE  \E s : Decides(r, s)
    <2>1. <<n, v>> \in Dists
        BY <1>1, <1>3, <1>5 DEF Highest, Dists
    <2> QED
        BY <1>0, <1>5, <2>1, RulesOut
<1>6. ASSUME NEW v \in Highest(candidates), NEW batch \in Batches(n, v),
             Update(r, [solver[r] EXCEPT !.pc = "metadata", !.next = <<n, v>>,
                                !.todo = {Request(<<"dist", n, w>>) : w \in batch \cup {v}}])
      PROVE  \E s : Decides(r, s)
    <2> DEFINE todo == {Request(<<"dist", n, w>>) : w \in batch \cup {v}}
    <2>1. v \in Listed[n] /\ batch \subseteq Listed[n]
        BY <1>6 DEF Highest, Batches
    <2>2. entry[SourceKey(n)] = "found"
        <3>1. SourceKey(n) \in VersionKeys /\ SourceKey(n)[2] = n
            BY <1>1, <1>2, SourceKeyIs
        <3> QED
            BY <1>2, <2>1, <3>1 DEF AskInv, ListsHold
    <2>3. ASSUME NEW w \in batch \cup {v}
          PROVE  Request(<<"dist", n, w>>) \in Requests /\ Follows(Request(<<"dist", n, w>>))
        <3>1. <<"dist", n, w>> \in Keys
            BY <1>1, <1>3, <2>1, <2>3 DEF Keys, DistKeys
        <3>2. /\ Request(<<"dist", n, w>>) \in Requests /\ Request(<<"dist", n, w>>).key = <<"dist", n, w>>
              /\ ~IsPrefetch(Request(<<"dist", n, w>>))
            BY <3>1, RequestIs
        <3> QED
            BY <2>2, <3>2 DEF Follows
    <2>4. PICK s : s = [solver[r] EXCEPT !.pc = "metadata", !.next = <<n, v>>, !.todo = todo]
        OBVIOUS
    <2>5. todo \in SUBSET Requests /\ (\A q \in todo : Follows(q)) /\ Request(<<"dist", n, v>>) \in todo
        BY <2>3
    <2> HIDE DEF todo
    <2>6. <<n, v>> \in Dists
        BY <1>1, <1>3, <2>1 DEF Dists
    <2>7. s \in Solvers
        BY <1>0, <2>4, <2>5, <2>6 DEF Solvers, Phases
    <2>8. /\ s.pc = "metadata" /\ s.todo = todo /\ s.next = <<n, v>>
          /\ s.trail = solver[r].trail /\ s.out = solver[r].out
        BY <1>0, <2>4 DEF Solvers
    <2>9. WillHave(s, <<"dist", s.next[1], s.next[2]>>)
        BY <2>5, <2>8 DEF WillHave
    <2>10. \A m \in Needs(r, s) : VisitNow(m) => WillHave(s, SourceKey(m))
        BY <1>0, <2>8, Asking
    <2>11. Asks(r, s)
        BY <2>6, <2>8, <2>9, <2>10 DEF Asks
    <2>12. solver' = [solver EXCEPT ![r] = s]
        BY <1>6, <2>4 DEF Update, todo
    <2> QED
        BY <1>0, <2>5, <2>7, <2>8, <2>11, <2>12 DEF Decides, Idle
<1> QED
    BY <1>2, <1>4, <1>5, <1>6

LEMMA ChooseUrlDecides ==
    ASSUME AskInv, NEW r \in Resolutions, ChooseUrl(r)
    PROVE  \E s : Decides(r, s)
<1>0. /\ TypeOK /\ solver[r] \in Solvers
      /\ UNCHANGED <<entry, res, chan, tasks>> /\ Idle(r) /\ solver[r].pc = "request"
    BY SameTrail DEF AskInv, ChooseUrl
<1>1. PICK n \in Names : solver[r].next = <<n>> /\ n = solver[r].next[1]
    <2>1. solver[r].next \in {<<n>> : n \in Names}
        BY <1>0 DEF AskInv, SolverAsks
    <2> QED
        BY <2>1
<1>2. Source[n] = "url" /\ entry[SourceKey(n)] # "absent"
    BY <1>1 DEF ChooseUrl
<1>3. SourceKey(n) = <<"dist", n, 1>>
    BY <1>2, SourceKeyIs
<1>4. PICK s : s = [solver[r] EXCEPT !.pc = "metadata", !.next = <<n, 1>>]
    OBVIOUS
<1>5. solver' = [solver EXCEPT ![r] = s]
    <2>1. [solver[r] EXCEPT !.pc = "metadata", !.next = <<@[1], 1>>] = s
        BY <1>0, <1>1, <1>4 DEF Solvers
    <2> QED
        BY <2>1 DEF ChooseUrl, Update
<1>6. <<n, 1>> \in Dists
    BY ResolverAssumption DEF Dists
<1>7. s \in Solvers
    BY <1>0, <1>4, <1>6 DEF Solvers, Phases
<1>8. /\ s.pc = "metadata" /\ s.todo = solver[r].todo /\ s.next = <<n, 1>>
      /\ s.trail = solver[r].trail /\ s.out = solver[r].out
    BY <1>0, <1>4 DEF Solvers
<1>9. WillHave(s, <<"dist", s.next[1], s.next[2]>>)
    BY <1>2, <1>3, <1>8 DEF WillHave
<1>10. \A m \in Needs(r, s) : VisitNow(m) => WillHave(s, SourceKey(m))
    BY <1>0, <1>8, Asking
<1>11. Asks(r, s)
    BY <1>6, <1>8, <1>9, <1>10 DEF Asks
<1> QED
    BY <1>0, <1>5, <1>7, <1>8, <1>11 DEF Decides, Idle

LEMMA GetDependenciesDecides ==
    ASSUME AskInv, NEW r \in Resolutions, GetDependencies(r)
    PROVE  \E s : Decides(r, s)
<1>0. /\ TypeOK /\ solver[r] \in Solvers /\ solver[r].bad \in SUBSET Dists
      /\ solver[r].trail \in Seq(Dists)
      /\ UNCHANGED <<entry, res, chan, tasks>> /\ Idle(r) /\ solver[r].pc = "metadata"
    BY SameTrail DEF AskInv, GetDependencies, Solvers
<1>1. PICK d \in Dists : d = solver[r].next
    BY <1>0 DEF AskInv, SolverAsks
<1>2. \/ Update(r, [solver[r] EXCEPT !.pc = "visit", !.next = <<>>, !.trail = Append(@, d),
                                     !.todo = Visit(Deps[d[1]][d[2]])])
      \/ Conflict(r, solver[r].bad \cup {d})
      \/ Update(r, [solver[r] EXCEPT !.pc = "propagate", !.next = <<>>, !.bad = @ \cup {d}])
      \/ Update(r, [solver[r] EXCEPT !.pc = "unsolved", !.next = <<>>])
    BY <1>1 DEF GetDependencies
<1>3. CASE Update(r, [solver[r] EXCEPT !.pc = "visit", !.next = <<>>, !.trail = Append(@, d),
                                       !.todo = Visit(Deps[d[1]][d[2]])])
    <2> DEFINE names == Deps[d[1]][d[2]]
    <2>1. PICK s : s = [solver[r] EXCEPT !.pc = "visit", !.next = <<>>,
                          !.trail = Append(solver[r].trail, d), !.todo = Visit(names)]
        OBVIOUS
    <2>2. solver' = [solver EXCEPT ![r] = s]
        BY <1>0, <1>3, <2>1 DEF Update
    <2>3. names \subseteq Names
        <3>1. d[1] \in Names /\ d[2] \in Versions
            BY DEF Dists
        <3>2. Deps \in [Names -> [Versions -> SUBSET Names]]
            BY ResolverAssumption
        <3>3. Deps[d[1]] \in [Versions -> SUBSET Names]
            BY <3>1, <3>2
        <3> QED
            BY <3>1, <3>3
    <2>4. Visit(names) \in SUBSET Requests
        BY <2>3, VisitIs
    <2>5. Append(solver[r].trail, d) \in Seq(Dists)
        BY <1>0
    <2> HIDE DEF names
    <2>6. s \in Solvers
        BY <1>0, <2>1, <2>4, <2>5 DEF Solvers, Phases
    <2>7. /\ s.pc = "visit" /\ s.todo = Visit(names) /\ s.trail = Append(solver[r].trail, d)
          /\ s.out = solver[r].out
        BY <1>0, <2>1 DEF Solvers
    <2>8. \A q \in s.todo : Follows(q)
        <3> SUFFICES ASSUME NEW q \in Visit(names) PROVE Follows(q)
            BY <2>7
        <3>1. PICK n \in names : q = Request(SourceKey(n))
            BY <2>3, VisitIs
        <3>2. /\ q.key = SourceKey(n) /\ ~IsPrefetch(q)
              /\ SourceKey(n)[2] = n /\ (Source[n] # "url" => SourceKey(n)[1] # "dist")
            BY <2>3, <3>1, SourceKeyIs, RequestIs
        <3> QED
            BY <3>2 DEF Follows
    <2>9. Needs(r, s) \subseteq Required(r) \cup names
        <3>1. \A i \in 1..Len(s.trail) : s.trail[i] \in Decided(r) \/ s.trail[i] = d
            BY <1>0, <2>7 DEF Decided
        <3> QED
            BY <3>1 DEF Needs, Required, names
    <2>10. ASSUME NEW n \in Needs(r, s), VisitNow(n) PROVE WillHave(s, SourceKey(n))
        <3>1. CASE n \in Required(r)
            BY <1>0, <2>10, <3>1, RequiredIsRegistered DEF WillHave
        <3>2. CASE n \in names
            BY <2>3, <2>7, <2>10, <3>2, VisitIs DEF WillHave
        <3> QED
            BY <2>9, <3>1, <3>2
    <2>11. Asks(r, s)
        BY <2>7, <2>10 DEF Asks
    <2> QED
        BY <1>0, <2>2, <2>6, <2>7, <2>8, <2>11 DEF Decides, Idle
<1>4. CASE Conflict(r, solver[r].bad \cup {d})
    BY <1>0, <1>4, ConflictDecides
<1>5. CASE Update(r, [solver[r] EXCEPT !.pc = "propagate", !.next = <<>>, !.bad = @ \cup {d}])
    BY <1>0, <1>5, RulesOut
<1>6. CASE Update(r, [solver[r] EXCEPT !.pc = "unsolved", !.next = <<>>])
    <2>1. PICK s : s = [solver[r] EXCEPT !.pc = "unsolved", !.next = <<>>]
        OBVIOUS
    <2>2. s \in Solvers
        BY <1>0, <2>1 DEF Solvers, Phases
    <2>3. /\ s.pc = "unsolved" /\ s.todo = solver[r].todo
          /\ s.trail = solver[r].trail /\ s.out = solver[r].out
        BY <1>0, <2>1 DEF Solvers
    <2>4. Asks(r, s)
        BY <1>0, <2>3, Asking DEF Asks
    <2> QED
        BY <1>0, <1>6, <2>1, <2>2, <2>3, <2>4 DEF Decides, Idle, Update
<1> QED
    BY <1>2, <1>3, <1>4, <1>5, <1>6

\* What a solver does when it has nothing left to send.
LEMMA SolverDecides ==
    ASSUME AskInv, NEW r \in Resolutions,
           \/ Propagate(r) \/ Pick(r) \/ Solve(r)
           \/ ChooseVersion(r) \/ ChooseUrl(r) \/ GetDependencies(r)
    PROVE  \E s : Decides(r, s)
BY PropagateDecides, PickDecides, SolveDecides, ChooseVersionDecides, ChooseUrlDecides,
   GetDependenciesDecides

-----------------------------------------------------------------------------
(* The entries.                                                            *)

ListValue(k) == IF Listed[k[2]] = {} THEN "missing" ELSE "found"

\* A step registers an entry, or fills one with what its kind allows.
Registering(k, value) == value = "waiting" /\ entry[k] = "absent"
Answering(k, value) ==
    \/ k \in VersionKeys /\ value = ListValue(k)
    \/ k \in DistKeys /\ value \in {"found", "unavailable", "error"}
EntryStep ==
    \/ UNCHANGED entry
    \/ \E k \in Keys, value \in Statuses : Fill(k, value) /\ (Registering(k, value) \/ Answering(k, value))

LEMMA CandidatesAre ==
    ASSUME NEW t \in Tasks, NEW d \in Candidates(t)
    PROVE  /\ d \in Dists /\ d[1] = t.key[2] /\ d[1] \in Names /\ Listed[d[1]] # {}
           /\ <<"dist", d[1], d[2]>> \in DistKeys /\ DistOf(<<"dist", d[1], d[2]>>) = d
<1>1. d \in Dists /\ d[1] = t.key[2] /\ Listed[t.key[2]] # {}
    BY DEF Candidates, Highest
<1>2. d[1] \in Names /\ d[2] \in Versions /\ d = <<d[1], d[2]>>
    BY <1>1 DEF Dists
<1> QED
    BY <1>1, <1>2 DEF DistKeys, DistOf

\* The thread of r ends, and nothing is sent.
LEMMA RefuseIs ==
    ASSUME TypeOK, NEW r \in Resolutions, Refuse(r)
    PROVE  \E s \in Solvers :
             /\ solver' = [solver EXCEPT ![r] = s] /\ solver[r].out = <<>> /\ solver[r].todo # {}
             /\ s.pc = "closed" /\ s.todo = {} /\ s.out = <<>> /\ UNCHANGED <<res, chan, tasks>>
             /\ \/ UNCHANGED <<entry, lost>>
                \/ \E k \in Keys : entry[k] = "absent" /\ Fill(k, "waiting") /\ lost' = lost \cup {k}
<1>1. PICK s : s = [solver[r] EXCEPT !.pc = "closed", !.todo = {}]
    OBVIOUS
<1>2. /\ solver' = [solver EXCEPT ![r] = s] /\ solver[r].out = <<>> /\ solver[r].todo # {}
      /\ UNCHANGED <<res, chan, tasks>>
    BY <1>1 DEF Refuse, Update
<1>3. solver[r] \in Solvers
    BY SolverFields
<1>4. s \in Solvers /\ s.pc = "closed" /\ s.todo = {} /\ s.out = solver[r].out
    BY <1>1, <1>3 DEF Solvers, Phases
<1>5. \/ UNCHANGED <<entry, lost>>
      \/ \E k \in DistKeys : entry[k] = "absent" /\ Fill(k, "waiting") /\ lost' = lost \cup {k}
    BY DEF Refuse
<1>6. DistKeys \subseteq Keys
    BY DEF Keys
<1> QED
    BY <1>2, <1>4, <1>5, <1>6

LEMMA EntrySteps ==
    ASSUME AskInv, Next
    PROVE  EntryStep
<1>0. TypeOK
    BY DEF AskInv
<1>1. PICK r \in Resolutions : SolverStep(r) \/ FetchStep(r) \/ FetchFails(r)
    BY DEF Next
<1>2. CASE Enqueue(r)
    <2>1. PICK q \in solver[r].todo :
            LET known == ~IsPrefetch(q) /\ entry[q.key] # "absent"
            IN  IF known \/ IsPrefetch(q) THEN UNCHANGED entry ELSE Fill(q.key, "waiting")
        BY <1>2 DEF Enqueue
    <2>2. q \in Requests
        BY <1>0, SolverFields
    <2> QED
        BY <2>1, <2>2, RequestsAre DEF EntryStep, Registering, Statuses
<1>5. CASE Refuse(r)
    BY <1>0, <1>5, RefuseIs DEF EntryStep, Registering, Statuses
<1>3. CASE \/ Send(r) \/ SendClosed(r) \/ Propagate(r) \/ Pick(r) \/ Solve(r)
           \/ ChooseVersion(r) \/ ChooseUrl(r) \/ GetDependencies(r)
           \/ Receive(r) \/ Return(r) \/ FetchFails(r)
    BY <1>3 DEF EntryStep, Send, SendClosed, Propagate, Pick, Solve, ChooseVersion, ChooseUrl,
       GetDependencies, Receive, Return, FetchFails
<1>4. ASSUME NEW t \in tasks[r],
             \/ ServePackage(r, t) \/ ServeDist(r, t) \/ Fetch(r, t) \/ StartBuild(r, t)
             \/ FinishBuild(r, t) \/ ServePrefetch(r, t)
      PROVE  EntryStep
    <2>0. t \in Tasks /\ (t.stage # "start" => t.key \in DistKeys)
        BY <1>0 DEF TypeOK, AskInv, RequestsFollow
    <2>1. CASE ServePackage(r, t)
        BY <2>1, VersionKeyIs DEF ServePackage, EntryStep, Answering, ListValue, Statuses
    <2>2. CASE ServeDist(r, t)
        BY <2>2, DistKeyIs DEF ServeDist, EntryStep, Answering, Statuses
    <2>3. CASE Fetch(r, t)
        <3>1. t.key \in DistKeys /\ t.key \in Keys
            BY <2>0, <2>3, DistKeyIs DEF Fetch
        <3>2. PICK value \in Answers(DistOf(t.key)) : Fill(t.key, value)
            BY <2>3 DEF Fetch
        <3>3. value \in {"found", "unavailable"}
            BY <3>2 DEF Answers
        <3> QED
            BY <3>1, <3>2, <3>3 DEF EntryStep, Answering, Statuses
    <2>4. CASE StartBuild(r, t)
        BY <2>4 DEF StartBuild, EntryStep
    <2>5. CASE FinishBuild(r, t)
        <3>1. t.key \in DistKeys /\ t.key \in Keys
            BY <2>0, <2>5, DistKeyIs DEF FinishBuild
        <3> QED
            BY <2>5, <3>1 DEF FinishBuild, EntryStep, Answering, Statuses
    <2>6. CASE ServePrefetch(r, t)
        <3>1. CASE UNCHANGED entry
            BY <3>1 DEF EntryStep
        <3>2. CASE ~UNCHANGED entry
            <4>1. PICK d \in Candidates(t) :
                    \/ Fill(<<"dist", d[1], d[2]>>, "found")
                    \/ /\ entry[<<"dist", d[1], d[2]>>] = "absent"
                       /\ Fill(<<"dist", d[1], d[2]>>, "waiting")
                BY <2>6, <3>2 DEF ServePrefetch
            <4>2. <<"dist", d[1], d[2]>> \in DistKeys /\ <<"dist", d[1], d[2]>> \in Keys
                BY <2>0, CandidatesAre, DistKeyIs
            <4> QED
                BY <4>1, <4>2 DEF EntryStep, Registering, Answering, Statuses
        <3> QED
            BY <3>1, <3>2
    <2> QED
        BY <1>4, <2>1, <2>2, <2>3, <2>4, <2>5, <2>6
<1> QED
    BY <1>1, <1>2, <1>3, <1>4, <1>5 DEF SolverStep, FetchStep

\* An entry is not forgotten, and a list keeps what it says.
LEMMA EntryGrows ==
    ASSUME AskInv, EntryStep
    PROVE  /\ entry' \in [Keys -> Statuses] /\ ListsHold'
           /\ \A k \in Keys : entry[k] # "absent" => entry'[k] # "absent"
           /\ \A k \in VersionKeys : Filled(k) => entry'[k] = entry[k]
           /\ \A q \in Requests \cup Tasks : Follows(q) => Follows(q)'
<1>0. entry \in [Keys -> Statuses] /\ ListsHold
    BY DEF AskInv, TypeOK
<1>1. CASE UNCHANGED entry
    BY <1>0, <1>1 DEF ListsHold, Filled, Follows
<1>2. ASSUME NEW k \in Keys, NEW value \in Statuses, Fill(k, value),
             Registering(k, value) \/ Answering(k, value)
      PROVE  /\ entry' \in [Keys -> Statuses]
             /\ \A j \in Keys : entry[j] # "absent" => entry'[j] # "absent"
             /\ \A j \in VersionKeys : Filled(j) => entry'[j] = entry[j]
             /\ ListsHold'
    <2>1. entry' \in [Keys -> Statuses] /\ entry'[k] = value
          /\ \A j \in Keys : j # k => entry'[j] = entry[j]
        BY <1>0, <1>2 DEF Fill
    <2>2. value # "absent"
        BY <1>2 DEF Registering, Answering, ListValue
    <2>3. k \in VersionKeys => value \in {"waiting", ListValue(k)} /\ (Filled(k) => value = entry[k])
        BY <1>0, <1>2, DistKeyIs DEF Registering, Answering, ListValue, ListsHold, Filled
    <2>4. \A j \in VersionKeys : j \in Keys
        BY VersionKeyIs
    <2>5. ListsHold'
        BY <1>0, <2>1, <2>3, <2>4 DEF ListsHold, ListValue, Filled
    <2> QED
        BY <2>1, <2>2, <2>3, <2>4, <2>5
<1>3. /\ entry' \in [Keys -> Statuses] /\ ListsHold'
      /\ \A k \in Keys : entry[k] # "absent" => entry'[k] # "absent"
      /\ \A k \in VersionKeys : Filled(k) => entry'[k] = entry[k]
    BY <1>0, <1>1, <1>2 DEF EntryStep
<1>4. ASSUME NEW q \in Requests \cup Tasks, Follows(q) PROVE Follows(q)'
    <2>1. /\ IsPrefetch(q) => q.key[2] \in Names
          /\ q.key[1] = "dist" => q.key[2] \in Names
        <3>1. \/ q.key \in Keys /\ ~IsPrefetch(q)
              \/ q.key[2] \in Names /\ q.key = <<"prefetch", q.key[2]>>
            BY RequestsAre, TasksAre
        <3>2. q.key \in Keys => q.key[2] \in Names
            BY VersionKeyIs, DistKeyIs DEF Keys
        <3> QED
            BY <3>1, <3>2
    <2>2. IsPrefetch(q) => PreVisitable(q.key[2]) /\ entry'[<<"implicit", q.key[2]>>] # "absent"
        <3>1. IsPrefetch(q) => <<"implicit", q.key[2]>> \in Keys
            BY <2>1 DEF Keys, VersionKeys
        <3> QED
            BY <1>3, <1>4, <3>1 DEF Follows
    <2>3. q.key[1] = "dist" /\ Source[q.key[2]] # "url" => entry'[SourceKey(q.key[2])] = "found"
        BY <1>3, <1>4, <2>1, SourceKeyIs DEF Follows, Filled
    <2> QED
        BY <2>2, <2>3 DEF Follows
<1> QED
    BY <1>3, <1>4

-----------------------------------------------------------------------------
(* What the solver waits for was requested.                                *)

Serving(r, t) ==
    \/ ServePackage(r, t) \/ ServeDist(r, t) \/ Fetch(r, t) \/ StartBuild(r, t)
    \/ FinishBuild(r, t) \/ ServePrefetch(r, t)

\* A task ends, or goes on with the metadata of a distribution.
LEMMA TaskServed ==
    ASSUME AskInv, EntryStep, NEW r \in Resolutions, NEW t \in tasks[r], Serving(r, t)
    PROVE  /\ UNCHANGED <<solver, chan>>
           /\ End(r, t) \/ \E u \in Tasks : /\ Goto(r, t, u) /\ Follows(u)'
                                            /\ u.stage # "start" /\ u.key \in DistKeys
           /\ res' \in [Resolutions -> {"idle", "running", "ok", "failed"}]
<1>0. /\ TypeOK /\ t \in Tasks /\ Follows(t) /\ (t.stage # "start" => t.key \in DistKeys)
      /\ Follows(t)'
    BY EntryGrows DEF TypeOK, AskInv, RequestsFollow
<1>1. UNCHANGED <<solver, chan>>
    BY DEF Serving, ServePackage, ServeDist, Fetch, StartBuild, FinishBuild, ServePrefetch
<1>2. res' \in [Resolutions -> {"idle", "running", "ok", "failed"}]
    BY <1>0 DEF TypeOK, Serving, ServePackage, ServeDist, Fetch, StartBuild, FinishBuild, ServePrefetch
<1>3. ASSUME NEW stage \in {"fetch", "build"}, t.key \in DistKeys, Goto(r, t, [t EXCEPT !.stage = stage])
      PROVE  \E u \in Tasks : Goto(r, t, u) /\ Follows(u)' /\ u.stage # "start" /\ u.key \in DistKeys
    <2>1. PICK u : u = [t EXCEPT !.stage = stage]
        OBVIOUS
    <2>2. u \in Tasks /\ u.key = t.key /\ u.stage = stage
        BY <1>0, <2>1, Restaged
    <2>3. Follows(u)'
        BY <1>0, <2>2 DEF Follows, IsPrefetch
    <2> QED
        BY <1>3, <2>1, <2>2, <2>3
<1>4. CASE End(r, t)
    BY <1>1, <1>2, <1>4
<1>5. CASE ~End(r, t) /\ (ServePackage(r, t) \/ Fetch(r, t) \/ FinishBuild(r, t))
    BY <1>5 DEF ServePackage, Fetch, FinishBuild
<1>6. CASE ~End(r, t) /\ ServeDist(r, t)
    <2>1. t.key \in DistKeys /\ Goto(r, t, [t EXCEPT !.stage = "fetch"])
        BY <1>6 DEF ServeDist
    <2> QED
        BY <1>1, <1>2, <1>3, <2>1
<1>7. CASE ~End(r, t) /\ StartBuild(r, t)
    <2>1. t.key \in DistKeys /\ Goto(r, t, [t EXCEPT !.stage = "build"])
        BY <1>0, <1>7 DEF StartBuild
    <2> QED
        BY <1>1, <1>2, <1>3, <2>1
<1>8. CASE ~End(r, t) /\ ServePrefetch(r, t)
    <2>1. PICK d \in Candidates(t) : Goto(r, t, Task(Request(<<"dist", d[1], d[2]>>), "fetch"))
        BY <1>8 DEF ServePrefetch
    <2>2. PICK k : k = <<"dist", d[1], d[2]>>
        OBVIOUS
    <2>3. /\ k \in DistKeys /\ k \in Keys /\ k[1] = "dist" /\ k[2] = d[1] /\ d[1] = t.key[2]
          /\ d[1] \in Names /\ Listed[d[1]] # {}
        BY <1>0, <2>2, CandidatesAre, DistKeyIs
    <2>4. PICK u : u = Task(Request(k), "fetch")
        OBVIOUS
    <2>5. u \in Tasks /\ u.key = k /\ u.stage = "fetch"
        BY <2>3, <2>4, RequestIs, TaskIs
    <2>6. t.key[1] = "prefetch" /\ Filled(<<"implicit", t.key[2]>>)
        BY <1>8 DEF ServePrefetch
    <2>7. SourceKey(d[1]) = <<"implicit", d[1]>>
        BY <1>0, <2>3, <2>6, SourceKeyIs DEF Follows, IsPrefetch, PreVisitable
    <2>8. <<"implicit", d[1]>> \in VersionKeys
        BY <2>3 DEF VersionKeys
    <2>9. entry[<<"implicit", d[1]>>] = "found"
        BY <2>3, <2>6, <2>8 DEF AskInv, ListsHold
    <2>10. entry'[SourceKey(d[1])] = "found"
        BY <2>7, <2>8, <2>9, EntryGrows DEF Filled
    <2>11. Follows(u)'
        BY <2>3, <2>5, <2>10 DEF Follows, IsPrefetch
    <2> QED
        BY <1>1, <1>2, <2>1, <2>2, <2>3, <2>4, <2>5, <2>11
<1> QED
    BY <1>4, <1>5, <1>6, <1>7, <1>8 DEF Serving

\* What follows still does after a step.
OnTheWay(r) ==
    solver[r].todo \cup {solver[r].out[i] : i \in 1..Len(solver[r].out)}
                   \cup {chan[r][i] : i \in 1..Len(chan[r])}

LEMMA FollowsOn ==
    ASSUME AskInv, EntryStep, NEW r \in Resolutions
    PROVE  /\ \A q \in OnTheWay(r) : q \in Requests /\ Follows(q)'
           /\ \A t \in tasks[r] : t \in Tasks /\ Follows(t)' /\ (t.stage # "start" => t.key \in DistKeys)
<1>0. TypeOK /\ RequestsFollow
    BY DEF AskInv
<1>1. /\ solver[r].todo \subseteq Requests
      /\ \A i \in 1..Len(solver[r].out) : solver[r].out[i] \in Requests
      /\ \A i \in 1..Len(chan[r]) : chan[r][i] \in Requests
      /\ \A t \in tasks[r] : t \in Tasks
    <2>1. solver[r].todo \subseteq Requests /\ solver[r].out \in {<<>>} \cup {<<q>> : q \in Requests}
        BY <1>0, SolverFields
    <2>2. chan[r] \in Seq(Requests) /\ tasks[r] \subseteq Tasks
        BY <1>0 DEF TypeOK
    <2>3. \A i \in 1..Len(solver[r].out) : solver[r].out[i] \in Requests
        BY <2>1
    <2> QED
        BY <2>1, <2>2, <2>3, ElementOfSeq
<1>2. \A q \in Requests \cup Tasks : Follows(q) => Follows(q)'
    BY EntryGrows
<1>3. \A q \in OnTheWay(r) : q \in Requests /\ Follows(q)
    BY <1>0, <1>1 DEF RequestsFollow, OnTheWay
<1>4. \A t \in tasks[r] : Follows(t) /\ (t.stage # "start" => t.key \in DistKeys)
    BY <1>0 DEF RequestsFollow
<1> QED
    BY <1>1, <1>2, <1>3, <1>4

\* A solver that is left alone still has asked for what it needs.
LEMMA AsksOn ==
    ASSUME AskInv, EntryStep, NEW r \in Resolutions, NEW s \in Solvers, Asks(r, s)
    PROVE  Asks(r, s)'
<1>0. \A k \in Keys : WillHave(s, k) => WillHave(s, k)'
    BY EntryGrows DEF WillHave
<1>1. Needs(r, s) \subseteq Names
    <2>1. s.trail \in Seq(Dists)
        BY DEF Solvers
    <2>2. \A i \in 1..Len(s.trail) : s.trail[i][1] \in Names /\ s.trail[i][2] \in Versions
        <3>1. \A i \in 1..Len(s.trail) : s.trail[i] \in Dists
            BY <2>1, ElementOfSeq
        <3> QED
            BY <3>1 DEF Dists
    <2>3. Deps \in [Names -> [Versions -> SUBSET Names]]
        BY ResolverAssumption
    <2>4. \A n \in Names, v \in Versions : Deps[n][v] \subseteq Names
        BY <2>3
    <2>5. Asked(r) \subseteq Names
        BY ResolverAssumption DEF Asked, Resolutions
    <2> QED
        BY <2>2, <2>4, <2>5 DEF Needs
<1>2. \A n \in Needs(r, s) : SourceKey(n) \in Keys
    BY <1>1, SourceKeyIs
<1>3. s.next \in {<<n>> : n \in Names} => SourceKey(s.next[1]) \in Keys
    BY SourceKeyIs
<1>4. s.next \in Dists => <<"dist", s.next[1], s.next[2]>> \in Keys
    BY DEF Dists, DistKeys, Keys
<1>5. CASE s.pc = "closed"
    BY <1>5 DEF Asks
<1>6. CASE s.pc # "closed"
    <2>1. \A n \in Needs(r, s) : VisitNow(n) => WillHave(s, SourceKey(n))'
        BY <1>0, <1>2, <1>6 DEF Asks
    <2>2. s.pc = "request" => s.next \in {<<n>> : n \in Names} /\ WillHave(s, SourceKey(s.next[1]))'
        BY <1>0, <1>3, <1>6 DEF Asks
    <2>3. s.pc = "metadata" => s.next \in Dists /\ WillHave(s, <<"dist", s.next[1], s.next[2]>>)'
        BY <1>0, <1>4, <1>6 DEF Asks
    <2> QED
        BY <2>1, <2>2, <2>3 DEF Asks
<1> QED
    BY <1>5, <1>6

\* The invariant, by the variable it is about.
SolversHold ==
    /\ solver \in [Resolutions -> Solvers]
    /\ \A r \in Resolutions :
         /\ \A q \in solver[r].todo : Follows(q)
         /\ \A q \in Requests : solver[r].out = <<q>> => Follows(q)
         /\ Asks(r, solver[r])
ChansHold ==
    /\ chan \in [Resolutions -> Seq(Requests)]
    /\ \A r \in Resolutions : \A i \in 1..Len(chan[r]) : Follows(chan[r][i])
TasksHold ==
    /\ tasks \in [Resolutions -> SUBSET Tasks]
    /\ \A r \in Resolutions : \A t \in tasks[r] : Follows(t) /\ (t.stage # "start" => t.key \in DistKeys)

LEMMA AskParts ==
    AskInv <=> /\ entry \in [Keys -> Statuses] /\ ListsHold
               /\ res \in [Resolutions -> {"idle", "running", "ok", "failed"}]
               /\ SolversHold /\ ChansHold /\ TasksHold
<1>1. ASSUME solver \in [Resolutions -> Solvers], NEW r \in Resolutions
      PROVE  (\A i \in 1..Len(solver[r].out) : Follows(solver[r].out[i]))
               <=> (\A q \in Requests : solver[r].out = <<q>> => Follows(q))
    <2>1. solver[r].out \in {<<>>} \cup {<<q>> : q \in Requests}
        BY <1>1 DEF Solvers
    <2>2. CASE solver[r].out = <<>>
        BY <2>2
    <2>3. CASE \E q \in Requests : solver[r].out = <<q>>
        <3>1. PICK q \in Requests : solver[r].out = <<q>>
            BY <2>3
        <3>2. Len(solver[r].out) = 1 /\ solver[r].out[1] = q
            BY <3>1
        <3> QED
            BY <3>1, <3>2
    <2> QED
        BY <2>1, <2>2, <2>3
<1>2. CASE solver \in [Resolutions -> Solvers]
    BY <1>1, <1>2, AsksIs DEF AskInv, TypeOK, RequestsFollow, SolversHold, ChansHold, TasksHold
<1>3. CASE solver \notin [Resolutions -> Solvers]
    BY <1>3 DEF AskInv, TypeOK, SolversHold
<1> QED
    BY <1>2, <1>3

LEMMA SolversOn ==
    ASSUME AskInv, EntryStep, NEW r \in Resolutions, NEW s \in Solvers,
           solver' = [solver EXCEPT ![r] = s],
           \A q \in s.todo : Follows(q)',
           \A q \in Requests : s.out = <<q>> => Follows(q)',
           Asks(r, s)'
    PROVE  SolversHold'
<1>0. SolversHold /\ TypeOK
    BY AskParts DEF AskInv
<1>1. solver' \in [Resolutions -> Solvers]
    BY <1>0 DEF SolversHold
<1>2. ASSUME NEW x \in Resolutions
      PROVE  /\ \A q \in solver'[x].todo : Follows(q)'
             /\ \A q \in Requests : solver'[x].out = <<q>> => Follows(q)'
             /\ Asks(x, solver[x])'
    <2>1. CASE x = r
        <3>1. solver'[x] = s
            BY <1>0, <2>1 DEF SolversHold
        <3>2. Asks(x, solver[x])' <=> Asks(r, s)'
            BY <2>1, <3>1 DEF Asks, Needs, WillHave
        <3> QED
            BY <3>1, <3>2
    <2>2. CASE x # r
        <3>1. solver'[x] = solver[x]
            BY <1>0, <2>2 DEF SolversHold
        <3>2. PICK o : o = solver[x]
            OBVIOUS
        <3>3. o \in Solvers /\ Asks(x, o) /\ o.todo \subseteq Requests
            BY <1>0, <3>2 DEF SolversHold, Solvers
        <3>4. Asks(x, o)'
            BY <3>3, AsksOn
        <3>5. Asks(x, solver[x])' <=> Asks(x, o)'
            BY <3>1, <3>2 DEF Asks, Needs, WillHave
        <3>6. \A q \in Requests : Follows(q) => Follows(q)'
            BY EntryGrows
        <3>7. \A q \in solver'[x].todo : Follows(q)'
            BY <1>0, <3>1, <3>2, <3>3, <3>6 DEF SolversHold
        <3>8. \A q \in Requests : solver'[x].out = <<q>> => Follows(q)'
            BY <1>0, <3>1, <3>6 DEF SolversHold
        <3> QED
            BY <3>4, <3>5, <3>7, <3>8
    <2> QED
        BY <2>1, <2>2
<1> QED
    BY <1>1, <1>2 DEF SolversHold

LEMMA SolversStay ==
    ASSUME AskInv, EntryStep, UNCHANGED solver
    PROVE  SolversHold'
<1>0. SolversHold
    BY AskParts
<1>1. ASSUME NEW x \in Resolutions
      PROVE  /\ \A q \in solver'[x].todo : Follows(q)'
             /\ \A q \in Requests : solver'[x].out = <<q>> => Follows(q)'
             /\ Asks(x, solver[x])'
    <2>1. PICK o : o = solver[x]
        OBVIOUS
    <2>2. o \in Solvers /\ Asks(x, o) /\ o.todo \subseteq Requests
        BY <1>0, <2>1 DEF SolversHold, Solvers
    <2>3. Asks(x, o)'
        BY <2>2, AsksOn
    <2>4. Asks(x, solver[x])' <=> Asks(x, o)'
        BY <2>1 DEF Asks, Needs, WillHave
    <2>5. \A q \in Requests : Follows(q) => Follows(q)'
        BY EntryGrows
    <2> QED
        BY <1>0, <2>1, <2>2, <2>3, <2>4, <2>5 DEF SolversHold
<1> QED
    BY <1>0, <1>1 DEF SolversHold

LEMMA ChansOn ==
    ASSUME AskInv, EntryStep, chan' \in [Resolutions -> Seq(Requests)],
           \A x \in Resolutions : \A i \in 1..Len(chan'[x]) :
              \/ \E j \in 1..Len(chan[x]) : chan'[x][i] = chan[x][j]
              \/ solver[x].out = <<chan'[x][i]>>
    PROVE  ChansHold'
<1>0. ChansHold /\ SolversHold
    BY AskParts
<1>1. ASSUME NEW x \in Resolutions, NEW i \in 1..Len(chan'[x]) PROVE Follows(chan[x][i])'
    <2>1. PICK q : q = chan'[x][i]
        OBVIOUS
    <2>2. q \in Requests
        BY <2>1, ElementOfSeq
    <2>3. Follows(q)
        BY <1>0, <2>1, <2>2 DEF ChansHold, SolversHold
    <2>4. Follows(q)'
        BY <2>2, <2>3, EntryGrows
    <2> QED
        BY <2>1, <2>4 DEF Follows, IsPrefetch
<1> QED
    BY <1>1 DEF ChansHold

LEMMA TasksOn ==
    ASSUME AskInv, EntryStep, tasks' \in [Resolutions -> SUBSET Tasks],
           \A x \in Resolutions : \A t \in tasks'[x] :
              \/ t \in tasks[x]
              \/ Follows(t)' /\ (t.stage # "start" => t.key \in DistKeys)
    PROVE  TasksHold'
<1>0. TasksHold
    BY AskParts
<1>1. \A x \in Resolutions : \A t \in tasks[x] : t \in Tasks /\ Follows(t)'
    BY <1>0, EntryGrows DEF TasksHold
<1> QED
    BY <1>0, <1>1 DEF TasksHold

LEMMA AskInit == Init => AskInv
<1> SUFFICES ASSUME Init PROVE AskInv
    OBVIOUS
<1>1. entry \in [Keys -> Statuses] /\ ListsHold
    <2>1. entry \in [Keys -> Statuses] /\ \A k \in Keys : entry[k] = "absent"
        BY DEF Init, Statuses
    <2> QED
        BY <2>1, VersionKeyIs DEF ListsHold, Filled
<1>2. res \in [Resolutions -> {"idle", "running", "ok", "failed"}]
    BY DEF Init
<1>3. ChansHold /\ TasksHold
    BY DEF Init, ChansHold, TasksHold
<1>4. SolversHold
    <2>1. solver \in [Resolutions -> Solvers]
        BY NewSolverIs DEF Init
    <2>2. ASSUME NEW r \in Resolutions
          PROVE  /\ \A q \in solver[r].todo : Follows(q)
                 /\ \A q \in Requests : solver[r].out = <<q>> => Follows(q)
                 /\ Asks(r, solver[r])
        <3>1. /\ solver[r].todo = Visit(Asked(r)) /\ solver[r].out = <<>> /\ solver[r].pc = "visit"
              /\ solver[r].trail = <<>>
            BY DEF Init, NewSolver
        <3>2. Asked(r) \subseteq Names
            BY ResolverAssumption DEF Asked, Resolutions
        <3>3. ASSUME NEW q \in Visit(Asked(r)) PROVE Follows(q)
            <4>1. PICK n \in Asked(r) : q = Request(SourceKey(n))
                BY <3>2, VisitIs
            <4>2. /\ q.key = SourceKey(n) /\ ~IsPrefetch(q)
                  /\ SourceKey(n)[2] = n /\ (Source[n] # "url" => SourceKey(n)[1] # "dist")
                BY <3>2, <4>1, SourceKeyIs, RequestIs
            <4> QED
                BY <4>2 DEF Follows
        <3>4. Needs(r, solver[r]) = Asked(r)
            BY <3>1 DEF Needs
        <3>5. \A n \in Asked(r) : VisitNow(n) => WillHave(solver[r], SourceKey(n))
            BY <3>1, <3>2, VisitIs DEF WillHave
        <3>6. Asks(r, solver[r])
            BY <3>1, <3>4, <3>5 DEF Asks
        <3>7. \A q \in Requests : solver[r].out # <<q>>
            BY <3>1
        <3> QED
            BY <3>1, <3>3, <3>6, <3>7
    <2> QED
        BY <2>1, <2>2 DEF SolversHold
<1> QED
    BY <1>1, <1>2, <1>3, <1>4, AskParts

LEMMA AskNext == AskInv /\ [Next]_vars => AskInv'
<1> SUFFICES ASSUME AskInv, [Next]_vars PROVE AskInv'
    OBVIOUS
<1>1. CASE UNCHANGED vars
    <2>1. UNCHANGED <<entry, res, solver, chan, tasks>>
        BY <1>1 DEF vars
    <2>2. EntryStep
        BY <2>1 DEF EntryStep
    <2>3. SolversHold'
        BY <2>1, <2>2, SolversStay
    <2>4. entry' \in [Keys -> Statuses] /\ ListsHold'
        BY <2>2, EntryGrows
    <2>5. ChansHold'
        BY <2>1, AskParts DEF ChansHold, Follows
    <2>6. TasksHold'
        BY <2>1, AskParts DEF TasksHold, Follows
    <2>7. res' \in [Resolutions -> {"idle", "running", "ok", "failed"}]
        BY <2>1, AskParts
    <2>8. (entry \in [Keys -> Statuses] /\ ListsHold
               /\ res \in [Resolutions -> {"idle", "running", "ok", "failed"}]
               /\ SolversHold /\ ChansHold /\ TasksHold)'
        BY <2>3, <2>4, <2>5, <2>6, <2>7
    <2> QED
        BY <2>8, AskParts, PTL
<1>2. CASE Next
    <2>0. EntryStep /\ TypeOK
        BY <1>2, EntrySteps DEF AskInv
    <2>1. entry' \in [Keys -> Statuses] /\ ListsHold'
        BY <2>0, EntryGrows
    <2>2. PICK r \in Resolutions : SolverStep(r) \/ FetchStep(r) \/ FetchFails(r)
        BY <1>2 DEF Next
    <2>3. SolversHold'
        <3>1. CASE Enqueue(r)
            <4>1. PICK q \in solver[r].todo :
                    /\ Update(r, [solver[r] EXCEPT !.todo = @ \ {q},
                         !.out = IF ~IsPrefetch(q) /\ entry[q.key] # "absent" THEN <<>> ELSE <<q>>])
                    /\ IF ~IsPrefetch(q) /\ entry[q.key] = "absent"
                         THEN Fill(q.key, "waiting") ELSE UNCHANGED entry
                BY <3>1 DEF Enqueue
            <4>2. PICK out : out = IF ~IsPrefetch(q) /\ entry[q.key] # "absent" THEN <<>> ELSE <<q>>
                OBVIOUS
            <4>3. PICK s : s = [solver[r] EXCEPT !.todo = @ \ {q}, !.out = out]
                OBVIOUS
            <4>4. solver' = [solver EXCEPT ![r] = s]
                BY <4>1, <4>2, <4>3 DEF Update
            <4>5. solver[r] \in Solvers /\ q \in Requests /\ solver[r].todo \subseteq Requests
                BY <2>0, SolverFields
            <4>6. s \in Solvers
                BY <4>2, <4>3, <4>5 DEF Solvers
            <4>7. /\ s.todo = solver[r].todo \ {q} /\ s.out = out /\ s.pc = solver[r].pc
                  /\ s.next = solver[r].next /\ s.trail = solver[r].trail
                BY <4>3, <4>5 DEF Solvers
            <4>8. \A p \in solver[r].todo : Follows(p)'
                BY <2>0, FollowsOn DEF OnTheWay
            <4>9. \A p \in Requests : s.out = <<p>> => Follows(p)'
                BY <4>2, <4>7, <4>8
            <4>10. Asks(r, s)'
                <5>1. PICK o : o = solver[r]
                    OBVIOUS
                <5>2. Asks(r, o) /\ o \in Solvers
                    BY <4>5, <5>1, AskParts DEF SolversHold
                <5>3. Asks(r, o)'
                    BY <2>0, <5>2, AsksOn
                <5>4. ASSUME NEW k \in Keys, WillHave(o, k)' PROVE WillHave(s, k)'
                    <6>1. CASE Request(k) = q
                        <7>1. q.key = k /\ ~IsPrefetch(q)
                            BY <6>1, RequestIs
                        <7>2. entry'[k] # "absent"
                            BY <2>0, <4>1, <7>1 DEF Fill, TypeOK
                        <7> QED
                            BY <7>2 DEF WillHave
                    <6>2. CASE Request(k) # q
                        BY <4>7, <5>1, <5>4, <6>2 DEF WillHave
                    <6> QED
                        BY <6>1, <6>2
                <5>5. Needs(r, s) = Needs(r, o) /\ Needs(r, o) \subseteq Names
                    <6>1. Needs(r, s) = Needs(r, o)
                        BY <4>7, <5>1 DEF Needs
                    <6>2. Needs(r, o) = Required(r)
                        BY <5>1 DEF Needs, Required, Decided
                    <6> QED
                        BY <2>0, <6>1, <6>2, RequiredAre
                <5>6. \A n \in Names : SourceKey(n) \in Keys
                    BY SourceKeyIs
                <5>7. s.next \in {<<n>> : n \in Names} => SourceKey(s.next[1]) \in Keys
                    BY <5>6
                <5>8. s.next \in Dists => <<"dist", s.next[1], s.next[2]>> \in Keys
                    BY DEF Dists, DistKeys, Keys
                <5>9. CASE s.pc = "closed"
                    BY <5>9 DEF Asks
                <5>10. CASE s.pc # "closed"
                    <6>1. \A n \in Needs(r, s) : VisitNow(n) => WillHave(s, SourceKey(n))'
                        BY <4>7, <5>1, <5>3, <5>4, <5>5, <5>6, <5>10 DEF Asks
                    <6>2. s.pc = "request" =>
                            s.next \in {<<n>> : n \in Names} /\ WillHave(s, SourceKey(s.next[1]))'
                        BY <4>7, <5>1, <5>3, <5>4, <5>7, <5>10 DEF Asks
                    <6>3. s.pc = "metadata" =>
                            s.next \in Dists /\ WillHave(s, <<"dist", s.next[1], s.next[2]>>)'
                        BY <4>7, <5>1, <5>3, <5>4, <5>8, <5>10 DEF Asks
                    <6> QED
                        BY <6>1, <6>2, <6>3 DEF Asks
                <5> QED
                    BY <5>9, <5>10
            <4> QED
                BY <2>0, <4>4, <4>6, <4>7, <4>8, <4>9, <4>10, SolversOn
        <3>2. CASE Send(r)
            <4>1. PICK s : s = [solver[r] EXCEPT !.out = <<>>]
                OBVIOUS
            <4>2. solver' = [solver EXCEPT ![r] = s]
                BY <3>2, <4>1 DEF Send, Update
            <4>3. solver[r] \in Solvers
                BY <2>0, SolverFields
            <4>4. s \in Solvers
                BY <4>1, <4>3 DEF Solvers
            <4>5. /\ s.todo = solver[r].todo /\ s.out = <<>> /\ s.pc = solver[r].pc
                  /\ s.next = solver[r].next /\ s.trail = solver[r].trail
                BY <4>1, <4>3 DEF Solvers
            <4>6. Asks(r, s)
                <5>1. Asks(r, solver[r])
                    BY AskParts DEF SolversHold
                <5> QED
                    BY <4>5, <5>1 DEF Asks, Needs, WillHave
            <4>7. Asks(r, s)'
                BY <2>0, <4>4, <4>6, AsksOn
            <4>8. \A p \in s.todo : Follows(p)'
                BY <2>0, <4>5, FollowsOn DEF OnTheWay
            <4>9. \A p \in Requests : s.out # <<p>>
                BY <4>5
            <4> QED
                BY <2>0, <4>2, <4>4, <4>7, <4>8, <4>9, SolversOn
        <3>3. CASE SendClosed(r)
            <4>1. PICK s : s = [solver[r] EXCEPT !.pc = "closed", !.todo = {}, !.out = <<>>]
                OBVIOUS
            <4>2. solver' = [solver EXCEPT ![r] = s]
                BY <3>3, <4>1 DEF SendClosed, Update
            <4>3. solver[r] \in Solvers
                BY <2>0, SolverFields
            <4>4. s \in Solvers
                BY <4>1, <4>3 DEF Solvers, Phases
            <4>5. s.todo = {} /\ s.out = <<>> /\ s.pc = "closed"
                BY <4>1, <4>3 DEF Solvers
            <4>6. Asks(r, s)'
                BY <4>5 DEF Asks
            <4>7. \A p \in Requests : s.out # <<p>>
                BY <4>5
            <4> QED
                BY <2>0, <4>2, <4>4, <4>5, <4>6, <4>7, SolversOn
        <3>4. CASE \/ Propagate(r) \/ Pick(r) \/ Solve(r)
                   \/ ChooseVersion(r) \/ ChooseUrl(r) \/ GetDependencies(r)
            <4>1. PICK s : Decides(r, s)
                BY <3>4, SolverDecides
            <4>2. /\ s \in Solvers /\ solver' = [solver EXCEPT ![r] = s] /\ s.out = <<>>
                  /\ Asks(r, s) /\ \A q \in s.todo : Follows(q)
                BY <4>1 DEF Decides
            <4>3. Asks(r, s)'
                BY <2>0, <4>2, AsksOn
            <4>4. \A q \in s.todo : Follows(q)'
                <5>1. s.todo \subseteq Requests
                    BY <4>2 DEF Solvers
                <5> QED
                    BY <2>0, <4>2, <5>1, EntryGrows
            <4>5. \A p \in Requests : s.out # <<p>>
                BY <4>2
            <4> QED
                BY <2>0, <4>2, <4>3, <4>4, <4>5, SolversOn
        <3>5. CASE UNCHANGED solver
            BY <2>0, <3>5, SolversStay
        <3>6. CASE Refuse(r)
            <4>1. PICK s \in Solvers : /\ solver' = [solver EXCEPT ![r] = s]
                                       /\ s.pc = "closed" /\ s.todo = {} /\ s.out = <<>>
                BY <2>0, <3>6, RefuseIs
            <4>2. Asks(r, s)' /\ \A p \in Requests : s.out # <<p>>
                BY <4>1 DEF Asks
            <4> QED
                BY <2>0, <4>1, <4>2, SolversOn
        <3> QED
            BY <2>2, <3>1, <3>2, <3>3, <3>4, <3>5, <3>6 DEF SolverStep, FetchStep, FetchFails, Receive, Return,
               ServePackage, ServeDist, Fetch, StartBuild, FinishBuild, ServePrefetch
    <2>4. ChansHold'
        <3>1. CASE UNCHANGED chan
            BY <2>0, <3>1, ChansOn DEF TypeOK
        <3>2. CASE Send(r)
            <4>1. PICK q \in Requests : solver[r].out = <<q>>
                BY <2>0, <3>2, SolverFields DEF Send
            <4>2. chan' = [chan EXCEPT ![r] = chan[r] \o <<q>>] /\ chan[r] \in Seq(Requests)
                BY <2>0, <3>2, <4>1 DEF Send, TypeOK
            <4>3. chan[r] \o <<q>> = Append(chan[r], q)
                BY <4>1, <4>2
            <4>4. chan' \in [Resolutions -> Seq(Requests)]
                BY <2>0, <4>2, <4>3 DEF TypeOK
            <4>5. ASSUME NEW x \in Resolutions, NEW i \in 1..Len(chan'[x])
                  PROVE  \/ \E j \in 1..Len(chan[x]) : chan'[x][i] = chan[x][j]
                         \/ solver[x].out = <<chan'[x][i]>>
                <5>1. CASE x # r
                    BY <2>0, <4>2, <4>5, <5>1 DEF TypeOK
                <5>2. CASE x = r
                    <6>1. chan'[x] = Append(chan[r], q)
                        BY <2>0, <4>2, <4>3, <5>2 DEF TypeOK
                    <6>2. \/ i \in 1..Len(chan[r]) /\ chan'[x][i] = chan[r][i]
                          \/ chan'[x][i] = q
                        BY <4>1, <4>2, <4>5, <6>1
                    <6> QED
                        BY <4>1, <5>2, <6>2
                <5> QED
                    BY <5>1, <5>2
            <4> QED
                BY <2>0, <4>4, <4>5, ChansOn
        <3>3. CASE Receive(r)
            <4>1. chan' = [chan EXCEPT ![r] = Tail(chan[r])] /\ chan[r] \in Seq(Requests) /\ chan[r] # <<>>
                BY <2>0, <3>3 DEF Receive, TypeOK
            <4>2. chan' \in [Resolutions -> Seq(Requests)]
                BY <2>0, <4>1 DEF TypeOK
            <4>3. ASSUME NEW x \in Resolutions, NEW i \in 1..Len(chan'[x])
                  PROVE  \E j \in 1..Len(chan[x]) : chan'[x][i] = chan[x][j]
                <5>1. CASE x # r
                    BY <2>0, <4>1, <4>3, <5>1 DEF TypeOK
                <5>2. CASE x = r
                    <6>1. chan'[x] = Tail(chan[r]) /\ Len(chan[r]) \in Nat \ {0}
                        BY <2>0, <4>1, <5>2, EmptySeq DEF TypeOK
                    <6>a. /\ Len(Tail(chan[r])) = Len(chan[r]) - 1
                          /\ \A j \in 1..Len(Tail(chan[r])) : Tail(chan[r])[j] = chan[r][j + 1]
                        BY <4>1, HeadTailProperties
                    <6>2. i + 1 \in 1..Len(chan[r]) /\ chan'[x][i] = chan[r][i + 1]
                        BY <4>3, <6>1, <6>a
                    <6> QED
                        BY <5>2, <6>2
                <5> QED
                    BY <5>1, <5>2
            <4> QED
                BY <2>0, <4>2, <4>3, ChansOn
        <3>4. CASE FetchFails(r)
            <4>1. chan' = [x \in Resolutions |-> IF x \in Inside(r) THEN <<>> ELSE chan[x]]
                BY <3>4 DEF FetchFails
            <4>2. chan' \in [Resolutions -> Seq(Requests)]
                BY <2>0, <4>1 DEF TypeOK
            <4>3. \A x \in Resolutions : chan'[x] = <<>> \/ chan'[x] = chan[x]
                BY <4>1
            <4> QED
                BY <2>0, <4>2, <4>3, ChansOn
        <3> QED
            BY <2>2, <3>1, <3>2, <3>3, <3>4 DEF SolverStep, FetchStep, Enqueue, Refuse, SendClosed, Propagate,
               Pick, Solve, ChooseVersion, ChooseUrl, GetDependencies, Return,
               ServePackage, ServeDist, Fetch, StartBuild, FinishBuild, ServePrefetch
    <2>5. TasksHold'
        <3>1. CASE UNCHANGED tasks
            BY <2>0, <3>1, TasksOn DEF TypeOK
        <3>2. CASE Receive(r)
            <4>1. PICK q : q = Head(chan[r])
                OBVIOUS
            <4>2. chan[r] \in Seq(Requests) /\ chan[r] # <<>> /\ Len(chan[r]) \in Nat \ {0}
                BY <2>0, <3>2, EmptySeq DEF Receive, TypeOK
            <4>3. q \in Requests /\ q = chan[r][1]
                BY <4>1, <4>2
            <4>4. Follows(q)'
                BY <2>0, <4>2, <4>3, FollowsOn DEF OnTheWay
            <4>5. PICK t : t = Task(q, "start")
                OBVIOUS
            <4>6. t \in Tasks /\ t.key = q.key /\ t.stage = "start"
                BY <4>3, <4>5, TaskIs
            <4>7. Follows(t)'
                BY <4>4, <4>6 DEF Follows, IsPrefetch
            <4>8. tasks' = [tasks EXCEPT ![r] = tasks[r] \cup {t}]
                BY <3>2, <4>1, <4>5 DEF Receive
            <4>9. tasks' \in [Resolutions -> SUBSET Tasks]
                BY <2>0, <4>6, <4>8 DEF TypeOK
            <4>10. \A x \in Resolutions : \A u \in tasks'[x] : u \in tasks[x] \/ u = t
                BY <2>0, <4>8 DEF TypeOK
            <4> QED
                BY <2>0, <4>6, <4>7, <4>9, <4>10, TasksOn
        <3>3. ASSUME NEW t \in tasks[r], Serving(r, t) PROVE TasksHold'
            <4>1. CASE End(r, t)
                <5>1. tasks' = [tasks EXCEPT ![r] = tasks[r] \ {t}]
                    BY <4>1 DEF End
                <5>2. tasks' \in [Resolutions -> SUBSET Tasks]
                    BY <2>0, <5>1 DEF TypeOK
                <5>3. \A x \in Resolutions : tasks'[x] \subseteq tasks[x]
                    BY <2>0, <5>1 DEF TypeOK
                <5> QED
                    BY <2>0, <5>2, <5>3, TasksOn
            <4>2. CASE \E u \in Tasks : /\ Goto(r, t, u) /\ Follows(u)'
                                        /\ u.stage # "start" /\ u.key \in DistKeys
                <5>1. PICK u \in Tasks : Goto(r, t, u) /\ Follows(u)' /\ u.stage # "start" /\ u.key \in DistKeys
                    BY <4>2
                <5>2. tasks' = [tasks EXCEPT ![r] = (tasks[r] \ {t}) \cup {u}]
                    BY <5>1 DEF Goto
                <5>3. tasks' \in [Resolutions -> SUBSET Tasks]
                    BY <2>0, <5>2 DEF TypeOK
                <5>4. \A x \in Resolutions : \A y \in tasks'[x] : y \in tasks[x] \/ y = u
                    BY <2>0, <5>2 DEF TypeOK
                <5> QED
                    BY <2>0, <5>1, <5>3, <5>4, TasksOn
            <4> QED
                BY <2>0, <3>3, <4>1, <4>2, TaskServed
        <3>4. CASE FetchFails(r)
            <4>1. tasks' = [x \in Resolutions |-> IF x \in Inside(r) THEN {} ELSE tasks[x]]
                BY <3>4 DEF FetchFails
            <4>2. tasks' \in [Resolutions -> SUBSET Tasks]
                BY <2>0, <4>1 DEF TypeOK
            <4>3. \A x \in Resolutions : tasks'[x] \subseteq tasks[x]
                BY <4>1
            <4> QED
                BY <2>0, <4>2, <4>3, TasksOn
        <3> QED
            BY <2>2, <3>1, <3>2, <3>3, <3>4 DEF SolverStep, FetchStep, Serving, Enqueue, Refuse, Send, SendClosed,
               Propagate, Pick, Solve, ChooseVersion, ChooseUrl, GetDependencies, Return
    <2>6. res' \in [Resolutions -> {"idle", "running", "ok", "failed"}]
        <3>1. CASE UNCHANGED res
            BY <2>0, <3>1 DEF TypeOK
        <3>2. CASE Return(r)
            BY <2>0, <3>2 DEF TypeOK, Return
        <3>3. CASE FetchFails(r)
            BY <2>0, <3>3 DEF TypeOK, FetchFails
        <3>4. ASSUME NEW t \in tasks[r], Serving(r, t)
              PROVE  res' \in [Resolutions -> {"idle", "running", "ok", "failed"}]
            BY <2>0, <3>4, TaskServed
        <3> QED
            BY <2>2, <3>1, <3>2, <3>3, <3>4 DEF SolverStep, FetchStep, Serving, Enqueue, Refuse, Send, SendClosed,
               Propagate, Pick, Solve, ChooseVersion, ChooseUrl, GetDependencies, Receive
    <2>7. (entry \in [Keys -> Statuses] /\ ListsHold
               /\ res \in [Resolutions -> {"idle", "running", "ok", "failed"}]
               /\ SolversHold /\ ChansHold /\ TasksHold)'
        BY <2>1, <2>3, <2>4, <2>5, <2>6
    <2> QED
        BY <2>7, AskParts, PTL
<1> QED
    BY <1>1, <1>2

\* The types, what the lists say, and that requests follow one another.
THEOREM RequestsAreOrdered == Spec => []AskInv
BY AskInit, AskNext, PTL DEF Spec

\* UnregisteredTask is never reported, whichever packages there are.
THEOREM TasksAreRegistered == Spec => []NoUnregisteredTask
<1>1. AskInv => NoUnregisteredTask
    <2> SUFFICES ASSUME AskInv, NEW r \in Resolutions
                 PROVE  /\ \A t \in tasks[r] : IsPrefetch(t) => entry[<<"implicit", t.key[2]>>] # "absent"
                        /\ solver[r].pc = "request" /\ Idle(r) => entry[SourceKey(solver[r].next[1])] # "absent"
                        /\ solver[r].pc = "metadata" /\ Idle(r) =>
                              entry[<<"dist", solver[r].next[1], solver[r].next[2]>>] # "absent"
        BY DEF NoUnregisteredTask
    <2> QED
        BY DEF AskInv, RequestsFollow, Follows, SolverAsks, Registers, Idle
<1> QED
    BY <1>1, RequestsAreOrdered, PTL

-----------------------------------------------------------------------------
(* At most one request serves an entry.                                    *)

\* What the fetch task r does with t: answer it, go on with it, or, for a
\* prefetch, pass it over, find the metadata in the list, or fetch it.
Settles(r, t) ==
    /\ t.key \in Keys /\ End(r, t)
    /\ \E value \in Statuses \ {"absent", "waiting"} :
         Fill(t.key, value) /\ (FromList(t.key) => value = "found")
GoesOn(r, t) ==
    /\ t.key \in Keys /\ UNCHANGED entry
    /\ \E u \in Tasks : Goto(r, t, u) /\ u.key = t.key /\ u.stage # "start" /\ ~FromList(u.key)
PassesOver(r, t) == t.key \notin Keys /\ End(r, t) /\ UNCHANGED entry
Finds(r, t) ==
    /\ t.key \notin Keys /\ End(r, t)
    /\ \E k \in DistKeys : FromList(k) /\ Fill(k, "found")
GoesFetching(r, t) ==
    /\ t.key \notin Keys
    /\ \E k \in DistKeys, u \in Tasks :
         /\ entry[k] = "absent" /\ ~FromList(k) /\ Fill(k, "waiting")
         /\ Goto(r, t, u) /\ u.key = k /\ u.stage # "start"

LEMMA ListHasIt ==
    ASSUME NEW k \in DistKeys, FromList(k), entry[SourceKey(k[2])] = "found"
    PROVE  ListsMetadata(k)
<1>1. k[2] \in Names /\ Source[k[2]] # "url" /\ DistOf(k) \in Provided
    BY DistKeyIs DEF FromList
<1>2. SourceKey(k[2]) \in VersionKeys /\ SourceKey(k[2])[2] = k[2]
    BY <1>1, SourceKeyIs
<1>3. SourceKey(k[2]) = <<SourceKey(k[2])[1], k[2]>> /\ SourceKey(k[2])[1] \in {"implicit", "explicit"}
    BY <1>2, VersionKeyIs
<1> QED
    BY <1>1, <1>3 DEF ListsMetadata

LEMMA ServingIs ==
    ASSUME AskInv, ListedIsFound, NEW r \in Resolutions, NEW t \in tasks[r], Serving(r, t)
    PROVE  /\ UNCHANGED <<solver, chan>>
           /\ \/ Settles(r, t) \/ GoesOn(r, t) \/ PassesOver(r, t) \/ Finds(r, t) \/ GoesFetching(r, t)
<1>0. /\ TypeOK /\ t \in Tasks /\ Follows(t)
      /\ t.stage # "start" => t.key \in DistKeys /\ ~FromList(t.key)
    BY DEF TypeOK, AskInv, RequestsFollow, ListedIsFound
<1>1. UNCHANGED <<solver, chan>>
    BY DEF Serving, ServePackage, ServeDist, Fetch, StartBuild, FinishBuild, ServePrefetch
<1>2. CASE ServePackage(r, t)
    <2>1. t.key \in Keys /\ ~FromList(t.key)
        BY <1>2, VersionKeyIs, DistKeyIs DEF ServePackage, FromList
    <2>2. Settles(r, t)
        BY <1>2, <2>1 DEF ServePackage, Settles, Statuses
    <2> QED
        BY <1>1, <2>2
<1>3. CASE ServeDist(r, t)
    <2>1. t.key \in DistKeys /\ t.key \in Keys /\ t.key[1] = "dist"
        BY <1>3, DistKeyIs DEF ServeDist
    <2>2. CASE ListsMetadata(t.key)
        <3>1. Settles(r, t)
            BY <1>3, <2>1, <2>2 DEF ServeDist, Settles, Statuses
        <3> QED
            BY <1>1, <3>1
    <2>3. CASE ~ListsMetadata(t.key)
        <3>1. ~FromList(t.key)
            BY <1>0, <2>1, <2>3, ListHasIt DEF Follows, FromList
        <3>2. Goto(r, t, [t EXCEPT !.stage = "fetch"]) /\ UNCHANGED entry
            BY <1>3, <2>3 DEF ServeDist
        <3>3. LET u == [t EXCEPT !.stage = "fetch"]
              IN  u \in Tasks /\ u.key = t.key /\ u.stage = "fetch"
            BY <1>0, Restaged
        <3>4. GoesOn(r, t)
            BY <2>1, <3>1, <3>2, <3>3 DEF GoesOn
        <3> QED
            BY <1>1, <3>4
    <2> QED
        BY <2>2, <2>3
<1>4. CASE Fetch(r, t)
    <2>1. t.key \in Keys /\ ~FromList(t.key) /\ End(r, t)
        BY <1>0, <1>4, DistKeyIs DEF Fetch
    <2>2. PICK value \in Answers(DistOf(t.key)) : Fill(t.key, value)
        BY <1>4 DEF Fetch
    <2>3. value \in Statuses \ {"absent", "waiting"}
        BY <2>2 DEF Answers, Statuses
    <2>4. Settles(r, t)
        BY <2>1, <2>2, <2>3 DEF Settles
    <2> QED
        BY <1>1, <2>4
<1>5. CASE StartBuild(r, t)
    <2>1. t.key \in Keys /\ ~FromList(t.key)
        BY <1>0, <1>5, DistKeyIs DEF StartBuild
    <2>2. Goto(r, t, [t EXCEPT !.stage = "build"]) /\ UNCHANGED entry
        BY <1>5 DEF StartBuild
    <2>3. LET u == [t EXCEPT !.stage = "build"]
          IN  u \in Tasks /\ u.key = t.key /\ u.stage = "build"
        BY <1>0, Restaged
    <2>4. GoesOn(r, t)
        BY <2>1, <2>2, <2>3 DEF GoesOn
    <2> QED
        BY <1>1, <2>4
<1>6. CASE FinishBuild(r, t)
    <2>1. t.key \in Keys /\ ~FromList(t.key) /\ End(r, t)
        BY <1>0, <1>6, DistKeyIs DEF FinishBuild
    <2>2. Settles(r, t)
        BY <1>6, <2>1 DEF FinishBuild, Settles, Statuses
    <2> QED
        BY <1>1, <2>2
<1>7. CASE ServePrefetch(r, t)
    <2>1. /\ IsPrefetch(t) /\ t.key \notin Keys /\ PreVisitable(t.key[2])
          /\ t.key[2] \in Names /\ Filled(<<"implicit", t.key[2]>>)
        BY <1>0, <1>7, TasksAre DEF ServePrefetch, IsPrefetch, Follows
    <2>2. SourceKey(t.key[2]) = <<"implicit", t.key[2]>> /\ Source[t.key[2]] # "url"
        BY <2>1, SourceKeyIs, ResolverAssumption DEF PreVisitable
    <2>3. CASE End(r, t) /\ UNCHANGED entry
        BY <1>1, <2>1, <2>3 DEF PassesOver
    <2>4. ASSUME NEW d \in Candidates(t), NEW k, k = <<"dist", d[1], d[2]>>,
                 ListsMetadata(k), Fill(k, "found"), End(r, t)
          PROVE  Finds(r, t)
        <3>1. k \in DistKeys /\ k[2] = t.key[2]
            BY <1>0, <2>4, CandidatesAre
        <3>2. FromList(k)
            BY <2>2, <2>4, <3>1 DEF FromList, ListsMetadata
        <3> QED
            BY <2>1, <2>4, <3>1, <3>2 DEF Finds
    <2>5. ASSUME NEW d \in Candidates(t), NEW k, k = <<"dist", d[1], d[2]>>,
                 ~ListsMetadata(k), entry[k] = "absent", Fill(k, "waiting"),
                 Goto(r, t, Task(Request(k), "fetch"))
          PROVE  GoesFetching(r, t)
        <3>1. /\ k \in DistKeys /\ k \in Keys /\ k[2] = t.key[2] /\ Listed[t.key[2]] # {}
            BY <1>0, <2>5, CandidatesAre, DistKeyIs
        <3>2. entry[SourceKey(k[2])] = "found"
            <4>1. <<"implicit", t.key[2]>> \in VersionKeys
                BY <2>1 DEF VersionKeys
            <4> QED
                BY <2>1, <2>2, <3>1, <4>1 DEF AskInv, ListsHold
        <3>3. ~FromList(k)
            BY <2>5, <3>1, <3>2, ListHasIt
        <3>4. /\ Task(Request(k), "fetch") \in Tasks /\ Task(Request(k), "fetch").key = k
              /\ Task(Request(k), "fetch").stage = "fetch"
            BY <3>1, RequestIs, TaskIs
        <3> QED
            BY <2>1, <2>5, <3>1, <3>3, <3>4 DEF GoesFetching
    <2>6. \/ End(r, t) /\ UNCHANGED entry
          \/ \E d \in Candidates(t), k \in {<<"dist", e[1], e[2]>> : e \in Candidates(t)} :
               /\ k = <<"dist", d[1], d[2]>>
               /\ \/ ListsMetadata(k) /\ Fill(k, "found") /\ End(r, t)
                  \/ /\ ~ListsMetadata(k) /\ entry[k] = "absent" /\ Fill(k, "waiting")
                     /\ Goto(r, t, Task(Request(k), "fetch"))
        BY <1>7 DEF ServePrefetch
    <2> QED
        BY <1>1, <2>3, <2>4, <2>5, <2>6
<1> QED
    BY <1>2, <1>3, <1>4, <1>5, <1>6, <1>7 DEF Serving

-----------------------------------------------------------------------------
(* The places of the requests for a key, after a step.                     *)

LEMMA PlacesAre ==
    ASSUME NEW k, NEW p
    PROVE  p \in Places(k) <=> \E x \in Resolutions :
             p \in SentAt(x, k) \/ p \in QueuedAt(x, k) \/ p \in ServedAt(x, k)
BY DEF Places

LEMMA PlacesWillBe ==
    ASSUME NEW k, NEW p
    PROVE  p \in Places(k)' <=> \E x \in Resolutions :
             p \in SentAt(x, k)' \/ p \in QueuedAt(x, k)' \/ p \in ServedAt(x, k)'
BY DEF Places

LEMMA SentSame ==
    ASSUME NEW k, NEW x, solver'[x].out = solver[x].out
    PROVE  SentAt(x, k)' = SentAt(x, k)
BY DEF SentAt

LEMMA SentNone ==
    ASSUME NEW k, NEW x, solver'[x].out = <<>>
    PROVE  SentAt(x, k)' = {}
BY DEF SentAt

LEMMA QueuedSame ==
    ASSUME NEW k, NEW x, chan'[x] = chan[x]
    PROVE  QueuedAt(x, k)' = QueuedAt(x, k)
BY DEF QueuedAt

LEMMA QueuedNone ==
    ASSUME NEW k, NEW x, chan'[x] = <<>>
    PROVE  QueuedAt(x, k)' = {}
BY DEF QueuedAt

LEMMA ServedSame ==
    ASSUME NEW k, NEW x, tasks'[x] = tasks[x]
    PROVE  ServedAt(x, k)' = ServedAt(x, k)
BY DEF ServedAt

LEMMA ServedFewer ==
    ASSUME NEW k, NEW x, tasks'[x] \subseteq tasks[x]
    PROVE  ServedAt(x, k)' \subseteq ServedAt(x, k)
BY DEF ServedAt

\* What the invariant says of a key in the next state.
ServedOnce(k) ==
    /\ \A p, q \in Places(k) : p = q
    /\ entry[k] = "absent" => Places(k) = {}
    /\ Filled(k) /\ ~FromList(k) => Places(k) = {}

LEMMA FewerServe ==
    ASSUME NEW k \in Keys, ServedOnce(k), Places(k)' \subseteq Places(k), entry'[k] = entry[k]
    PROVE  ServedOnce(k)'
BY DEF ServedOnce, Filled, FromList

\* The request at a moves to b.
LEMMA MovedServes ==
    ASSUME NEW k \in Keys, ServedOnce(k), NEW a, NEW b,
           \A p \in Places(k)' : (p \in Places(k) /\ p # a) \/ (p = b /\ a \in Places(k)),
           entry'[k] = entry[k]
    PROVE  ServedOnce(k)'
<1>1. \A p, q \in Places(k)' : p = q
    BY DEF ServedOnce
<1>2. Places(k) = {} => Places(k)' = {}
    OBVIOUS
<1> QED
    BY <1>1, <1>2 DEF ServedOnce, Filled, FromList

\* The request of the task t in r.
LEMMA TaskIsAPlace ==
    ASSUME NEW r \in Resolutions, NEW t \in tasks[r]
    PROVE  <<r, "task", t>> \in Places(t.key)
<1>1. <<r, "task", t>> \in ServedAt(r, t.key)
    BY DEF ServedAt
<1> QED
    BY <1>1, PlacesAre

\* The task t of r ends.
LEMMA EndPlaces ==
    ASSUME TypeOK, UNCHANGED <<solver, chan>>, NEW r \in Resolutions, NEW t \in tasks[r], End(r, t),
           NEW k
    PROVE  Places(k)' \subseteq Places(k) \ {<<r, "task", t>>}
<1>1. tasks'[r] = tasks[r] \ {t} /\ \A x \in Resolutions : x # r => tasks'[x] = tasks[x]
    BY DEF End, TypeOK
<1>2. ASSUME NEW x \in Resolutions
      PROVE  /\ SentAt(x, k)' = SentAt(x, k) /\ QueuedAt(x, k)' = QueuedAt(x, k)
             /\ ServedAt(x, k)' \subseteq ServedAt(x, k)
             /\ <<r, "task", t>> \notin ServedAt(x, k)'
             /\ <<r, "task", t>> \notin SentAt(x, k) /\ <<r, "task", t>> \notin QueuedAt(x, k)
    <2>1. SentAt(x, k)' = SentAt(x, k) /\ QueuedAt(x, k)' = QueuedAt(x, k)
        BY SentSame, QueuedSame
    <2>2. tasks'[x] \subseteq tasks[x]
        BY <1>1
    <2>3. ServedAt(x, k)' \subseteq ServedAt(x, k)
        BY <2>2, ServedFewer
    <2>4. <<r, "task", t>> \notin ServedAt(x, k)'
        BY <1>1 DEF ServedAt
    <2>5. <<r, "task", t>> \notin SentAt(x, k) /\ <<r, "task", t>> \notin QueuedAt(x, k)
        BY DEF SentAt, QueuedAt
    <2> QED
        BY <2>1, <2>3, <2>4, <2>5
<1> QED
    BY <1>2, PlacesAre, PlacesWillBe

\* The task t of r goes on as u.
LEMMA GotoPlaces ==
    ASSUME TypeOK, UNCHANGED <<solver, chan>>, NEW r \in Resolutions, NEW t \in tasks[r], NEW u,
           Goto(r, t, u), NEW k, NEW p \in Places(k)'
    PROVE  (p \in Places(k) /\ p # <<r, "task", t>>) \/ (p = <<r, "task", u>> /\ u.key = k)
<1>1. tasks'[r] = (tasks[r] \ {t}) \cup {u} /\ \A x \in Resolutions : x # r => tasks'[x] = tasks[x]
    BY DEF Goto, TypeOK
<1>2. PICK x \in Resolutions : p \in SentAt(x, k)' \/ p \in QueuedAt(x, k)' \/ p \in ServedAt(x, k)'
    BY PlacesWillBe
<1>3. CASE p \in SentAt(x, k)' \/ p \in QueuedAt(x, k)'
    <2>1. p \in SentAt(x, k) \/ p \in QueuedAt(x, k)
        BY <1>3, SentSame, QueuedSame
    <2>2. p # <<r, "task", t>>
        BY <2>1 DEF SentAt, QueuedAt
    <2> QED
        BY <2>1, <2>2, PlacesAre
<1>4. CASE p \in ServedAt(x, k)'
    <2>1. PICK y \in tasks'[x] : p = <<x, "task", y>> /\ y.key = k
        BY <1>4 DEF ServedAt
    <2>2. CASE y \in tasks[x] /\ ~(x = r /\ y = t)
        <3>1. p \in ServedAt(x, k) /\ p # <<r, "task", t>>
            BY <2>1, <2>2 DEF ServedAt
        <3> QED
            BY <3>1, PlacesAre
    <2>3. CASE x = r /\ y = u
        BY <2>1, <2>3
    <2> QED
        BY <1>1, <2>1, <2>2, <2>3
<1> QED
    BY <1>2, <1>3, <1>4

\* What Enqueue does with the request q.
LEMMA EnqueueIs ==
    ASSUME TypeOK, NEW r \in Resolutions, Enqueue(r)
    PROVE  \E q \in Requests :
             /\ solver[r].out = <<>> /\ UNCHANGED <<res, chan, tasks>>
             /\ \A x \in Resolutions : x # r => solver'[x] = solver[x]
             /\ solver'[r].pc = solver[r].pc /\ solver'[r].todo = solver[r].todo \ {q} /\ q \in solver[r].todo
             /\ \/ q.key \in Keys /\ solver'[r].out = <<>> /\ UNCHANGED entry
                \/ q.key \notin Keys /\ solver'[r].out = <<q>> /\ UNCHANGED entry
                \/ /\ q.key \in Keys /\ solver'[r].out = <<q>> /\ entry[q.key] = "absent"
                   /\ Fill(q.key, "waiting") /\ (res[r] = "running" \/ q.key \in lost')
<1>1. PICK q \in solver[r].todo :
        /\ Update(r, [solver[r] EXCEPT !.todo = @ \ {q},
             !.out = IF ~IsPrefetch(q) /\ entry[q.key] # "absent" THEN <<>> ELSE <<q>>])
        /\ IF ~IsPrefetch(q) /\ entry[q.key] = "absent"
             THEN Fill(q.key, "waiting") /\ (res[r] = "running" \/ q.key \in lost') ELSE UNCHANGED entry
    BY DEF Enqueue
<1>2. solver[r].out = <<>> /\ UNCHANGED <<res, chan, tasks>>
    BY DEF Enqueue
<1>3. solver[r] \in Solvers /\ q \in Requests /\ solver \in [Resolutions -> Solvers]
    BY SolverFields DEF TypeOK
<1>4. /\ \A x \in Resolutions : x # r => solver'[x] = solver[x]
      /\ solver'[r].pc = solver[r].pc /\ solver'[r].todo = solver[r].todo \ {q}
      /\ solver'[r].out = IF ~IsPrefetch(q) /\ entry[q.key] # "absent" THEN <<>> ELSE <<q>>
    BY <1>1, <1>3 DEF Update, Solvers
<1>5. \/ q.key \in Keys /\ ~IsPrefetch(q)
      \/ q.key \notin Keys /\ IsPrefetch(q)
    BY <1>3, RequestsAre
<1> QED
    BY <1>1, <1>2, <1>3, <1>4, <1>5

LEMMA EnqueueServes ==
    ASSUME TypeOK, NEW r \in Resolutions, Enqueue(r), NEW k \in Keys, ServedOnce(k)
    PROVE  ServedOnce(k)'
<1>1. PICK q \in Requests :
        /\ solver[r].out = <<>> /\ UNCHANGED <<res, chan, tasks>>
        /\ \A x \in Resolutions : x # r => solver'[x] = solver[x]
        /\ \/ q.key \in Keys /\ solver'[r].out = <<>> /\ UNCHANGED entry
           \/ q.key \notin Keys /\ solver'[r].out = <<q>> /\ UNCHANGED entry
           \/ q.key \in Keys /\ solver'[r].out = <<q>> /\ entry[q.key] = "absent" /\ Fill(q.key, "waiting")
    BY EnqueueIs
<1>2. ASSUME NEW x \in Resolutions
      PROVE  /\ QueuedAt(x, k)' = QueuedAt(x, k) /\ ServedAt(x, k)' = ServedAt(x, k)
             /\ x # r => SentAt(x, k)' = SentAt(x, k)
    BY <1>1, QueuedSame, ServedSame, SentSame
<1>3. CASE solver'[r].out = <<q>> /\ q.key = k
    <2>1. entry[k] = "absent" /\ Fill(k, "waiting")
        BY <1>1, <1>3
    <2>2. Places(k) = {} /\ entry'[k] = "waiting"
        BY <2>1 DEF ServedOnce, Fill, TypeOK
    <2>3. SentAt(r, k)' = {<<r, "out", 1>>}
        BY <1>3 DEF SentAt
    <2>4. Places(k)' \subseteq {<<r, "out", 1>>}
        BY <1>2, <2>2, <2>3, PlacesAre, PlacesWillBe
    <2> QED
        BY <2>2, <2>4 DEF ServedOnce, Filled
<1>4. CASE ~(solver'[r].out = <<q>> /\ q.key = k)
    <2>1. SentAt(r, k)' = {}
        <3>1. CASE solver'[r].out = <<>>
            BY <3>1, SentNone
        <3>2. CASE solver'[r].out = <<q>>
            BY <1>4, <3>2 DEF SentAt
        <3> QED
            BY <1>1, <3>1, <3>2
    <2>2. Places(k)' \subseteq Places(k)
        BY <1>2, <2>1, PlacesAre, PlacesWillBe
    <2>3. entry'[k] = entry[k]
        BY <1>1, <1>4 DEF Fill, TypeOK
    <2> QED
        BY <2>2, <2>3, FewerServe
<1> QED
    BY <1>3, <1>4

LEMMA SendIs ==
    ASSUME TypeOK, NEW r \in Resolutions, Send(r)
    PROVE  \E q \in Requests :
             /\ solver[r].out = <<q>> /\ res[r] = "running" /\ UNCHANGED <<entry, res, tasks>>
             /\ solver'[r].out = <<>> /\ solver'[r].pc = solver[r].pc /\ solver'[r].todo = solver[r].todo
             /\ \A x \in Resolutions : x # r => solver'[x] = solver[x] /\ chan'[x] = chan[x]
             /\ chan[r] \in Seq(Requests) /\ chan'[r] = Append(chan[r], q)
<1>1. PICK q \in Requests : solver[r].out = <<q>>
    BY SolverFields DEF Send
<1>2. /\ solver[r] \in Solvers /\ solver \in [Resolutions -> Solvers]
      /\ chan[r] \in Seq(Requests) /\ chan \in [Resolutions -> Seq(Requests)]
    BY DEF TypeOK
<1>3. /\ \A x \in Resolutions : x # r => solver'[x] = solver[x]
      /\ solver'[r].pc = solver[r].pc /\ solver'[r].todo = solver[r].todo /\ solver'[r].out = <<>>
    BY <1>2 DEF Send, Update, Solvers
<1>4. /\ \A x \in Resolutions : x # r => chan'[x] = chan[x]
      /\ chan'[r] = chan[r] \o <<q>>
    BY <1>1, <1>2 DEF Send
<1>5. chan[r] \o <<q>> = Append(chan[r], q)
    BY <1>1, <1>2
<1>6. res[r] = "running" /\ UNCHANGED <<entry, res, tasks>>
    BY DEF Send
<1> QED
    BY <1>1, <1>2, <1>3, <1>4, <1>5, <1>6

\* The request leaves the solver for the end of the channel.
LEMMA SendPlaces ==
    ASSUME TypeOK, NEW r \in Resolutions, Send(r), NEW k
    PROVE  /\ \A p \in Places(k)' :
                \/ p \in Places(k) /\ p # <<r, "out", 1>>
                \/ p = <<r, "chan", Len(chan[r]) + 1>> /\ <<r, "out", 1>> \in Places(k)
           /\ \A p \in Places(k) :
                p \in Places(k)' \/ <<r, "chan", Len(chan[r]) + 1>> \in Places(k)'
<1>1. PICK q \in Requests :
             /\ solver[r].out = <<q>> /\ UNCHANGED <<entry, res, tasks>> /\ solver'[r].out = <<>>
             /\ \A x \in Resolutions : x # r => solver'[x] = solver[x] /\ chan'[x] = chan[x]
             /\ chan[r] \in Seq(Requests) /\ chan'[r] = Append(chan[r], q)
    BY SendIs
<1>2. /\ Len(chan[r]) \in Nat /\ Len(chan'[r]) = Len(chan[r]) + 1
      /\ chan'[r][Len(chan[r]) + 1] = q /\ \A i \in 1..Len(chan[r]) : chan'[r][i] = chan[r][i]
    BY <1>1
<1>3. ASSUME NEW x \in Resolutions
      PROVE  /\ ServedAt(x, k)' = ServedAt(x, k)
             /\ x # r => SentAt(x, k)' = SentAt(x, k) /\ QueuedAt(x, k)' = QueuedAt(x, k)
    BY <1>1, QueuedSame, ServedSame, SentSame
<1>4. SentAt(r, k)' = {}
    BY <1>1, SentNone
<1>5. SentAt(r, k) = IF q.key = k THEN {<<r, "out", 1>>} ELSE {}
    <2>1. Len(solver[r].out) = 1 /\ solver[r].out[1] = q
        BY <1>1
    <2> QED
        BY <2>1 DEF SentAt
<1>6. ASSUME NEW p
      PROVE  p \in QueuedAt(r, k)' <=>
               p \in QueuedAt(r, k) \/ (p = <<r, "chan", Len(chan[r]) + 1>> /\ q.key = k)
    <2>1. ASSUME p \in QueuedAt(r, k)'
          PROVE  p \in QueuedAt(r, k) \/ (p = <<r, "chan", Len(chan[r]) + 1>> /\ q.key = k)
        <3>1. PICK i \in 1..Len(chan'[r]) : p = <<r, "chan", i>> /\ chan'[r][i].key = k
            BY <2>1 DEF QueuedAt
        <3>2. CASE i \in 1..Len(chan[r])
            BY <1>2, <3>1, <3>2 DEF QueuedAt
        <3>3. CASE i = Len(chan[r]) + 1
            BY <1>2, <3>1, <3>3
        <3> QED
            BY <1>2, <3>1, <3>2, <3>3
    <2>2. ASSUME p \in QueuedAt(r, k) PROVE p \in QueuedAt(r, k)'
        <3>1. PICK i \in 1..Len(chan[r]) : p = <<r, "chan", i>> /\ chan[r][i].key = k
            BY <2>2 DEF QueuedAt
        <3>2. i \in 1..Len(chan'[r]) /\ chan'[r][i].key = k
            BY <1>2, <3>1
        <3> QED
            BY <3>1, <3>2 DEF QueuedAt
    <2>3. ASSUME p = <<r, "chan", Len(chan[r]) + 1>>, q.key = k PROVE p \in QueuedAt(r, k)'
        <3>1. Len(chan[r]) + 1 \in 1..Len(chan'[r]) /\ chan'[r][Len(chan[r]) + 1].key = k
            BY <1>2, <2>3
        <3> QED
            BY <2>3, <3>1 DEF QueuedAt
    <2> QED
        BY <2>1, <2>2, <2>3
<1>7. ASSUME NEW x \in Resolutions
      PROVE  /\ <<r, "out", 1>> \notin QueuedAt(x, k) \cup ServedAt(x, k)
             /\ x # r => <<r, "out", 1>> \notin SentAt(x, k)
    BY DEF QueuedAt, ServedAt, SentAt
<1>8. ASSUME NEW p \in Places(k)'
      PROVE  \/ p \in Places(k) /\ p # <<r, "out", 1>>
             \/ p = <<r, "chan", Len(chan[r]) + 1>> /\ <<r, "out", 1>> \in Places(k)
    <2>1. PICK x \in Resolutions : p \in SentAt(x, k)' \/ p \in QueuedAt(x, k)' \/ p \in ServedAt(x, k)'
        BY <1>8, PlacesWillBe
    <2>2. \/ (x # r /\ p \in SentAt(x, k)) \/ p \in QueuedAt(x, k) \/ p \in ServedAt(x, k)
          \/ p = <<r, "chan", Len(chan[r]) + 1>> /\ q.key = k
        BY <1>3, <1>4, <1>6, <2>1
    <2>3. CASE p = <<r, "chan", Len(chan[r]) + 1>> /\ q.key = k
        BY <1>5, <2>3, PlacesAre
    <2>4. CASE (x # r /\ p \in SentAt(x, k)) \/ p \in QueuedAt(x, k) \/ p \in ServedAt(x, k)
        <3>1. p \in Places(k)
            BY <2>4, PlacesAre
        <3>2. p # <<r, "out", 1>>
            BY <1>7, <2>4
        <3> QED
            BY <3>1, <3>2
    <2> QED
        BY <2>2, <2>3, <2>4
<1>9. ASSUME NEW p \in Places(k)
      PROVE  p \in Places(k)' \/ <<r, "chan", Len(chan[r]) + 1>> \in Places(k)'
    <2>1. PICK x \in Resolutions : p \in SentAt(x, k) \/ p \in QueuedAt(x, k) \/ p \in ServedAt(x, k)
        BY <1>9, PlacesAre
    <2>2. CASE p \in QueuedAt(x, k) \/ p \in ServedAt(x, k)
        BY <1>3, <1>6, <2>2, PlacesWillBe
    <2>3. CASE p \in SentAt(x, k) /\ x # r
        BY <1>3, <2>3, PlacesWillBe
    <2>4. CASE p \in SentAt(x, k) /\ x = r
        BY <1>5, <1>6, <2>4, PlacesWillBe
    <2> QED
        BY <2>1, <2>2, <2>3, <2>4
<1> QED
    BY <1>8, <1>9

\* The first request of the channel becomes a task, and the others move up.
LEMMA ReceiveIs ==
    ASSUME TypeOK, NEW r \in Resolutions, Receive(r)
    PROVE  \E t \in Tasks :
             /\ UNCHANGED <<entry, res, solver>> /\ res[r] = "running"
             /\ \A x \in Resolutions : x # r => chan'[x] = chan[x] /\ tasks'[x] = tasks[x]
             /\ tasks'[r] = tasks[r] \cup {t} /\ t.key = chan[r][1].key /\ t.stage = "start"
             /\ Len(chan[r]) \in Nat \ {0} /\ Len(chan'[r]) = Len(chan[r]) - 1
             /\ \A i \in 1..Len(chan'[r]) : chan'[r][i] = chan[r][i + 1]
<1>1. /\ UNCHANGED <<entry, res, solver>> /\ res[r] = "running"
      /\ chan[r] \in Seq(Requests) /\ chan[r] # <<>>
    BY DEF Receive, TypeOK
<1>2. Len(chan[r]) \in Nat \ {0}
    BY <1>1, EmptySeq
<1>3. Head(chan[r]) \in Requests /\ Head(chan[r]) = chan[r][1]
    BY <1>1, <1>2
<1>4. PICK t : t = Task(Head(chan[r]), "start")
    OBVIOUS
<1>5. t \in Tasks /\ t.key = chan[r][1].key /\ t.stage = "start"
    BY <1>3, <1>4, TaskIs
<1>6. /\ \A x \in Resolutions : x # r => chan'[x] = chan[x] /\ tasks'[x] = tasks[x]
      /\ tasks'[r] = tasks[r] \cup {t} /\ chan'[r] = Tail(chan[r])
    BY <1>4 DEF Receive, TypeOK
<1>7. /\ Len(Tail(chan[r])) = Len(chan[r]) - 1
      /\ \A i \in 1..Len(Tail(chan[r])) : Tail(chan[r])[i] = chan[r][i + 1]
    BY <1>1, HeadTailProperties
<1> QED
    BY <1>1, <1>2, <1>5, <1>6, <1>7

LEMMA ReceivePlaces ==
    ASSUME TypeOK, NEW r \in Resolutions, Receive(r), NEW k
    PROVE  \E t \in Tasks :
             /\ \A p \in Places(k)' :
                  \/ p \in Places(k) /\ p[1] \in Resolutions /\ (p[1] # r \/ p[2] # "chan")
                  \/ \E i \in Nat \ {0} : p = <<r, "chan", i>> /\ <<r, "chan", i + 1>> \in Places(k)
                  \/ p = <<r, "task", t>> /\ <<r, "chan", 1>> \in Places(k)
             /\ Places(k) # {} => Places(k)' # {}
<1>1. PICK t \in Tasks :
             /\ UNCHANGED <<entry, res, solver>>
             /\ \A x \in Resolutions : x # r => chan'[x] = chan[x] /\ tasks'[x] = tasks[x]
             /\ tasks'[r] = tasks[r] \cup {t} /\ t.key = chan[r][1].key
             /\ Len(chan[r]) \in Nat \ {0} /\ Len(chan'[r]) = Len(chan[r]) - 1
             /\ \A i \in 1..Len(chan'[r]) : chan'[r][i] = chan[r][i + 1]
    BY ReceiveIs
<1>2. ASSUME NEW x \in Resolutions
      PROVE  /\ SentAt(x, k)' = SentAt(x, k)
             /\ x # r => ServedAt(x, k)' = ServedAt(x, k) /\ QueuedAt(x, k)' = QueuedAt(x, k)
    BY <1>1, QueuedSame, ServedSame, SentSame
<1>3. ASSUME NEW p \in Places(k)'
      PROVE  \/ p \in Places(k) /\ p[1] \in Resolutions /\ (p[1] # r \/ p[2] # "chan")
             \/ \E i \in Nat \ {0} : p = <<r, "chan", i>> /\ <<r, "chan", i + 1>> \in Places(k)
             \/ p = <<r, "task", t>> /\ <<r, "chan", 1>> \in Places(k)
    <2>1. PICK x \in Resolutions : p \in SentAt(x, k)' \/ p \in QueuedAt(x, k)' \/ p \in ServedAt(x, k)'
        BY <1>3, PlacesWillBe
    <2>2. CASE p \in SentAt(x, k)'
        <3>1. p \in SentAt(x, k)
            BY <1>2, <2>2
        <3>2. p[1] = x /\ p[2] = "out"
            BY <3>1 DEF SentAt
        <3> QED
            BY <3>1, <3>2, PlacesAre
    <2>3. CASE p \in QueuedAt(x, k)' /\ x # r
        <3>1. p \in QueuedAt(x, k)
            BY <1>2, <2>3
        <3>2. p[1] = x
            BY <3>1 DEF QueuedAt
        <3> QED
            BY <2>3, <3>1, <3>2, PlacesAre
    <2>4. CASE p \in QueuedAt(x, k)' /\ x = r
        <3>1. PICK i \in 1..Len(chan'[r]) : p = <<r, "chan", i>> /\ chan'[r][i].key = k
            BY <2>4 DEF QueuedAt
        <3>2. i \in Nat \ {0} /\ i + 1 \in 1..Len(chan[r]) /\ chan[r][i + 1].key = k
            BY <1>1, <3>1
        <3>3. <<r, "chan", i + 1>> \in QueuedAt(r, k)
            BY <3>2 DEF QueuedAt
        <3>4. <<r, "chan", i + 1>> \in Places(k)
            BY <3>3, PlacesAre
        <3> QED
            BY <3>1, <3>2, <3>4
    <2>5. CASE p \in ServedAt(x, k)'
        <3>1. PICK u \in tasks'[x] : p = <<x, "task", u>> /\ u.key = k
            BY <2>5 DEF ServedAt
        <3>2. CASE u \in tasks[x]
            <4>1. p \in ServedAt(x, k) /\ p[1] = x /\ p[2] = "task"
                BY <3>1, <3>2 DEF ServedAt
            <4> QED
                BY <4>1, PlacesAre
        <3>3. CASE u \notin tasks[x]
            <4>1. x = r /\ u = t /\ chan[r][1].key = k /\ 1 \in 1..Len(chan[r])
                BY <1>1, <3>1, <3>3
            <4>2. <<r, "chan", 1>> \in QueuedAt(r, k)
                BY <4>1 DEF QueuedAt
            <4> QED
                BY <3>1, <4>1, <4>2, PlacesAre
        <3> QED
            BY <3>2, <3>3
    <2> QED
        BY <2>1, <2>2, <2>3, <2>4, <2>5
<1>4. ASSUME NEW p \in Places(k) PROVE Places(k)' # {}
    <2>1. PICK x \in Resolutions : p \in SentAt(x, k) \/ p \in QueuedAt(x, k) \/ p \in ServedAt(x, k)
        BY <1>4, PlacesAre
    <2>2. CASE p \in SentAt(x, k) \/ ((p \in QueuedAt(x, k) \/ p \in ServedAt(x, k)) /\ x # r)
        BY <1>2, <2>2, PlacesWillBe
    <2>3. CASE p \in ServedAt(x, k) /\ x = r
        <3>1. p \in ServedAt(r, k)'
            BY <1>1, <2>3 DEF ServedAt
        <3> QED
            BY <3>1, PlacesWillBe
    <2>4. CASE p \in QueuedAt(x, k) /\ x = r
        <3>1. PICK i \in 1..Len(chan[r]) : p = <<r, "chan", i>> /\ chan[r][i].key = k
            BY <2>4 DEF QueuedAt
        <3>2. CASE i = 1
            <4>1. <<r, "task", t>> \in ServedAt(r, k)'
                BY <1>1, <3>1, <3>2 DEF ServedAt
            <4> QED
                BY <4>1, PlacesWillBe
        <3>3. CASE i # 1
            <4>1. i - 1 \in 1..Len(chan'[r]) /\ (i - 1) + 1 = i
                BY <1>1, <3>1, <3>3
            <4>2. chan'[r][i - 1].key = k
                BY <1>1, <3>1, <4>1
            <4>3. <<r, "chan", i - 1>> \in QueuedAt(r, k)'
                BY <4>1, <4>2 DEF QueuedAt
            <4> QED
                BY <4>3, PlacesWillBe
        <3> QED
            BY <3>2, <3>3
    <2> QED
        BY <2>1, <2>2, <2>3, <2>4
<1> QED
    BY <1>3, <1>4

LEMMA ReceiveServes ==
    ASSUME TypeOK, NEW r \in Resolutions, Receive(r), NEW k \in Keys, ServedOnce(k)
    PROVE  ServedOnce(k)'
<1>1. PICK t \in Tasks : \A p \in Places(k)' :
        \/ p \in Places(k) /\ p[1] \in Resolutions /\ (p[1] # r \/ p[2] # "chan")
        \/ \E i \in Nat \ {0} : p = <<r, "chan", i>> /\ <<r, "chan", i + 1>> \in Places(k)
        \/ p = <<r, "task", t>> /\ <<r, "chan", 1>> \in Places(k)
    BY ReceivePlaces
<1>2. entry' = entry
    BY DEF Receive
<1>3. ASSUME NEW p \in Places(k)', NEW q \in Places(k)' PROVE p = q
    <2>0. \A a, b \in Places(k) : a = b
        BY DEF ServedOnce
    <2>1. CASE p \in Places(k) /\ (p[1] # r \/ p[2] # "chan")
        <3>1. \A i : <<r, "chan", i>> \notin Places(k)
            BY <2>0, <2>1
        <3> QED
            BY <1>1, <2>0, <2>1, <3>1
    <2>2. CASE \E i \in Nat \ {0} : p = <<r, "chan", i>> /\ <<r, "chan", i + 1>> \in Places(k)
        <3>1. PICK i \in Nat \ {0} : p = <<r, "chan", i>> /\ <<r, "chan", i + 1>> \in Places(k)
            BY <2>2
        <3>2. ASSUME NEW j \in Nat, <<r, "chan", j>> \in Places(k) PROVE j = i + 1
            <4>1. <<r, "chan", j>> = <<r, "chan", i + 1>>
                BY <2>0, <3>1, <3>2
            <4> QED
                BY <4>1
        <3>3. ~(q \in Places(k) /\ (q[1] # r \/ q[2] # "chan"))
            BY <2>0, <3>1
        <3>4. ~(q = <<r, "task", t>> /\ <<r, "chan", 1>> \in Places(k))
            BY <3>1, <3>2
        <3>5. PICK j \in Nat \ {0} : q = <<r, "chan", j>> /\ <<r, "chan", j + 1>> \in Places(k)
            BY <1>1, <3>3, <3>4
        <3>6. j + 1 = i + 1
            BY <3>2, <3>5
        <3> QED
            BY <3>1, <3>5, <3>6
    <2>3. CASE p = <<r, "task", t>> /\ <<r, "chan", 1>> \in Places(k)
        <3>1. ~(q \in Places(k) /\ (q[1] # r \/ q[2] # "chan"))
            BY <2>0, <2>3
        <3>2. ASSUME NEW i \in Nat \ {0}, <<r, "chan", i + 1>> \in Places(k) PROVE FALSE
            <4>1. <<r, "chan", i + 1>> = <<r, "chan", 1>>
                BY <2>0, <2>3, <3>2
            <4>2. i + 1 = 1
                BY <4>1
            <4> QED
                BY <4>2
        <3> QED
            BY <1>1, <2>3, <3>1, <3>2
    <2> QED
        BY <1>1, <2>1, <2>2, <2>3
<1>4. Places(k) = {} => Places(k)' = {}
    BY <1>1
<1> QED
    BY <1>2, <1>3, <1>4 DEF ServedOnce, Filled, FromList

\* A step of the solver that drops what it was about to send, or sends nothing.
LEMMA SolverPlaces ==
    ASSUME AskInv, NEW r \in Resolutions, NEW k,
           \/ SendClosed(r) \/ Propagate(r) \/ Pick(r) \/ Solve(r)
           \/ ChooseVersion(r) \/ ChooseUrl(r) \/ GetDependencies(r)
    PROVE  /\ UNCHANGED <<entry, res, chan, tasks>> /\ Places(k)' \subseteq Places(k)
           /\ solver'[r].out = <<>> /\ \A x \in Resolutions : x # r => solver'[x] = solver[x]
           /\ ~SendClosed(r) => Places(k)' = Places(k)
<1>0. TypeOK /\ solver \in [Resolutions -> Solvers]
    BY DEF AskInv, TypeOK
<1>1. /\ UNCHANGED <<entry, res, chan, tasks>> /\ solver'[r].out = <<>>
      /\ \A x \in Resolutions : x # r => solver'[x] = solver[x]
      /\ ~SendClosed(r) => solver[r].out = <<>>
    <2>1. CASE SendClosed(r)
        BY <1>0, <2>1 DEF SendClosed, Update, Solvers
    <2>2. CASE ~SendClosed(r)
        <3>1. PICK s : Decides(r, s)
            BY <2>2, SolverDecides
        <3> QED
            BY <1>0, <3>1 DEF Decides, Idle
    <2> QED
        BY <2>1, <2>2
<1>2. ASSUME NEW x \in Resolutions
      PROVE  /\ QueuedAt(x, k)' = QueuedAt(x, k) /\ ServedAt(x, k)' = ServedAt(x, k)
             /\ SentAt(x, k)' \subseteq SentAt(x, k)
             /\ ~SendClosed(r) => SentAt(x, k)' = SentAt(x, k)
    <2>1. QueuedAt(x, k)' = QueuedAt(x, k) /\ ServedAt(x, k)' = ServedAt(x, k)
        BY <1>1, QueuedSame, ServedSame
    <2>2. CASE x # r
        BY <1>1, <2>1, <2>2, SentSame
    <2>3. CASE x = r
        BY <1>1, <2>1, <2>3, SentNone, SentSame
    <2> QED
        BY <2>2, <2>3
<1>3. Places(k)' \subseteq Places(k)
    BY <1>2, PlacesAre, PlacesWillBe
<1>4. ~SendClosed(r) => Places(k) \subseteq Places(k)'
    BY <1>2, PlacesAre, PlacesWillBe
<1> QED
    BY <1>1, <1>3, <1>4

LEMMA RefusePlaces ==
    ASSUME TypeOK, NEW r \in Resolutions, Refuse(r), NEW k
    PROVE  Places(k)' = Places(k)
<1>1. PICK s \in Solvers : /\ solver' = [solver EXCEPT ![r] = s] /\ solver[r].out = <<>> /\ s.out = <<>>
                           /\ UNCHANGED <<chan, tasks>>
    BY RefuseIs
<1>2. \A x \in Resolutions : solver'[x].out = solver[x].out
    BY <1>1 DEF TypeOK
<1>3. \A x \in Resolutions : /\ SentAt(x, k)' = SentAt(x, k) /\ QueuedAt(x, k)' = QueuedAt(x, k)
                              /\ ServedAt(x, k)' = ServedAt(x, k)
    BY <1>1, <1>2, SentSame, QueuedSame, ServedSame
<1>4. Places(k)' \subseteq Places(k)
    BY <1>3, PlacesAre, PlacesWillBe
<1>5. Places(k) \subseteq Places(k)'
    BY <1>3, PlacesAre, PlacesWillBe
<1> QED
    BY <1>4, <1>5

LEMMA FailsPlaces ==
    ASSUME NEW r \in Resolutions, FetchFails(r), NEW k
    PROVE  Places(k)' \subseteq Places(k) /\ UNCHANGED <<entry, solver>>
<1>1. /\ UNCHANGED <<entry, solver>>
      /\ \A x \in Resolutions : chan'[x] = <<>> \/ chan'[x] = chan[x]
      /\ \A x \in Resolutions : tasks'[x] \subseteq tasks[x]
    BY DEF FetchFails
<1>2. ASSUME NEW x \in Resolutions
      PROVE  /\ QueuedAt(x, k)' \subseteq QueuedAt(x, k) /\ ServedAt(x, k)' \subseteq ServedAt(x, k)
             /\ SentAt(x, k)' = SentAt(x, k)
    <2>1. QueuedAt(x, k)' \subseteq QueuedAt(x, k)
        BY <1>1, QueuedSame, QueuedNone
    <2>2. ServedAt(x, k)' \subseteq ServedAt(x, k)
        BY <1>1, ServedFewer
    <2>3. SentAt(x, k)' = SentAt(x, k)
        BY <1>1, SentSame
    <2> QED
        BY <2>1, <2>2, <2>3
<1> QED
    BY <1>1, <1>2, PlacesAre, PlacesWillBe

LEMMA SamePlaces ==
    ASSUME UNCHANGED <<solver, chan, tasks>>, NEW k
    PROVE  Places(k)' = Places(k)
BY DEF Places, SentAt, QueuedAt, ServedAt

LEMMA OneServerIs == OneServer <=> \A k \in Keys : ServedOnce(k)
BY DEF OneServer, ServedOnce

\* A task that is served.
LEMMA ServingServes ==
    ASSUME ServeInv, NEW r \in Resolutions, NEW t \in tasks[r], Serving(r, t), NEW k \in Keys
    PROVE  ServedOnce(k)'
<1>0. TypeOK /\ AskInv /\ ListedIsFound /\ ServedOnce(k) /\ entry \in [Keys -> Statuses]
    BY OneServerIs DEF ServeInv, AskInv, TypeOK
<1>1. /\ UNCHANGED <<solver, chan>>
      /\ Settles(r, t) \/ GoesOn(r, t) \/ PassesOver(r, t) \/ Finds(r, t) \/ GoesFetching(r, t)
    BY <1>0, ServingIs
<1>2. CASE Settles(r, t)
    <2>1. Places(k)' \subseteq Places(k) \ {<<r, "task", t>>}
        BY <1>0, <1>1, <1>2, EndPlaces DEF Settles
    <2>2. CASE t.key = k
        <3>1. <<r, "task", t>> \in Places(k)
            BY <2>2, TaskIsAPlace
        <3>2. Places(k)' = {}
            BY <1>0, <2>1, <3>1 DEF ServedOnce
        <3> QED
            BY <3>2 DEF ServedOnce
    <2>3. CASE t.key # k
        <3>1. entry'[k] = entry[k]
            BY <1>0, <1>2, <2>3 DEF Settles, Fill
        <3> QED
            BY <1>0, <2>1, <3>1, FewerServe
    <2> QED
        BY <2>2, <2>3
<1>3. CASE GoesOn(r, t)
    <2>1. PICK u \in Tasks : Goto(r, t, u) /\ u.key = t.key /\ entry' = entry
        BY <1>3 DEF GoesOn
    <2>2. ASSUME NEW p \in Places(k)'
          PROVE  \/ p \in Places(k) /\ p # <<r, "task", t>>
                 \/ p = <<r, "task", u>> /\ <<r, "task", t>> \in Places(k)
        <3>1. \/ p \in Places(k) /\ p # <<r, "task", t>>
              \/ p = <<r, "task", u>> /\ u.key = k
            BY <1>0, <1>1, <2>1, <2>2, GotoPlaces
        <3>2. u.key = k => <<r, "task", t>> \in Places(k)
            BY <2>1, TaskIsAPlace
        <3> QED
            BY <3>1, <3>2
    <2>3. \A p \in Places(k)' : \/ p \in Places(k) /\ p # <<r, "task", t>>
                                \/ p = <<r, "task", u>> /\ <<r, "task", t>> \in Places(k)
        BY <2>2
    <2>4. \E a, b : \A p \in Places(k)' : (p \in Places(k) /\ p # a) \/ (p = b /\ a \in Places(k))
        BY <2>3
    <2>5. PICK a, b : \A p \in Places(k)' : (p \in Places(k) /\ p # a) \/ (p = b /\ a \in Places(k))
        BY <2>4
    <2>6. entry'[k] = entry[k]
        BY <2>1
    <2> QED
        BY <1>0, <2>5, <2>6, MovedServes
<1>4. CASE PassesOver(r, t)
    <2>1. Places(k)' \subseteq Places(k)
        BY <1>0, <1>1, <1>4, EndPlaces DEF PassesOver
    <2> QED
        BY <1>0, <1>4, <2>1, FewerServe DEF PassesOver
<1>5. CASE Finds(r, t)
    <2>1. Places(k)' \subseteq Places(k)
        BY <1>0, <1>1, <1>5, EndPlaces DEF Finds
    <2>2. PICK j \in DistKeys : FromList(j) /\ Fill(j, "found")
        BY <1>5 DEF Finds
    <2>3. CASE j # k
        <3>1. entry'[k] = entry[k]
            BY <1>0, <2>2, <2>3 DEF Fill
        <3> QED
            BY <1>0, <2>1, <3>1, FewerServe
    <2>4. CASE j = k
        <3>1. entry'[k] = "found" /\ FromList(k)
            BY <1>0, <2>2, <2>4 DEF Fill
        <3> QED
            BY <1>0, <2>1, <3>1 DEF ServedOnce, FromList
    <2> QED
        BY <2>3, <2>4
<1>6. CASE GoesFetching(r, t)
    <2>1. PICK j \in DistKeys, u \in Tasks :
            /\ entry[j] = "absent" /\ Fill(j, "waiting") /\ Goto(r, t, u) /\ u.key = j /\ t.key \notin Keys
        BY <1>6 DEF GoesFetching
    <2>2. ASSUME NEW p \in Places(k)'
          PROVE  p \in Places(k) \/ (p = <<r, "task", u>> /\ j = k)
        BY <1>0, <1>1, <2>1, <2>2, GotoPlaces
    <2>3. CASE j # k
        <3>1. entry'[k] = entry[k]
            BY <1>0, <2>1, <2>3 DEF Fill
        <3>2. Places(k)' \subseteq Places(k)
            BY <2>2, <2>3
        <3> QED
            BY <1>0, <3>1, <3>2, FewerServe
    <2>4. CASE j = k
        <3>1. entry'[k] = "waiting" /\ Places(k) = {}
            BY <1>0, <2>1, <2>4 DEF Fill, ServedOnce
        <3>2. Places(k)' \subseteq {<<r, "task", u>>}
            BY <2>2, <3>1
        <3> QED
            BY <3>1, <3>2 DEF ServedOnce, Filled
    <2> QED
        BY <2>3, <2>4
<1> QED
    BY <1>1, <1>2, <1>3, <1>4, <1>5, <1>6

\* What is in a list is found there.
LEMMA ListedNext ==
    ASSUME AskInv, ListedIsFound, Next
    PROVE  ListedIsFound'
<1>0. /\ TypeOK /\ entry \in [Keys -> Statuses] /\ solver \in [Resolutions -> Solvers]
      /\ tasks \in [Resolutions -> SUBSET Tasks] /\ chan \in [Resolutions -> Seq(Requests)]
    BY DEF AskInv, TypeOK
<1>1. PICK r \in Resolutions : SolverStep(r) \/ FetchStep(r) \/ FetchFails(r)
    BY DEF Next
<1>2. ASSUME entry' = entry \/ \E k \in Keys : Fill(k, "waiting"),
             \A x \in Resolutions : \A t \in tasks'[x] : t \in tasks[x] \/ t.stage = "start"
      PROVE  ListedIsFound'
    <2>1. \A k \in Keys : entry'[k] = entry[k] \/ entry'[k] = "waiting"
        BY <1>0, <1>2 DEF Fill
    <2> QED
        BY <1>2, <2>1 DEF ListedIsFound, FromList
<1>3. CASE Enqueue(r)
    <2>1. entry' = entry \/ \E k \in Keys : Fill(k, "waiting")
        BY <1>0, <1>3, EnqueueIs
    <2>2. tasks' = tasks
        BY <1>3 DEF Enqueue
    <2> QED
        BY <1>2, <2>1, <2>2
<1>8. CASE Refuse(r)
    BY <1>0, <1>2, <1>8, RefuseIs
<1>4. CASE \/ Send(r) \/ SendClosed(r) \/ Propagate(r) \/ Pick(r) \/ Solve(r)
           \/ ChooseVersion(r) \/ ChooseUrl(r) \/ GetDependencies(r) \/ Return(r)
    <2>1. entry' = entry /\ tasks' = tasks
        BY <1>4 DEF Send, SendClosed, Propagate, Pick, Solve, ChooseVersion, ChooseUrl, GetDependencies, Return
    <2> QED
        BY <1>2, <2>1
<1>5. CASE Receive(r)
    <2>1. /\ entry' = entry
          /\ \A x \in Resolutions : \A t \in tasks'[x] : t \in tasks[x] \/ t.stage = "start"
        BY <1>0, <1>5, ReceiveIs
    <2> QED
        BY <1>2, <2>1
<1>6. CASE FetchFails(r)
    <2>1. entry' = entry /\ \A x \in Resolutions : tasks'[x] \subseteq tasks[x]
        BY <1>6 DEF FetchFails
    <2> QED
        BY <1>2, <2>1
<1>7. ASSUME NEW t \in tasks[r], Serving(r, t) PROVE ListedIsFound'
    <2>1. Settles(r, t) \/ GoesOn(r, t) \/ PassesOver(r, t) \/ Finds(r, t) \/ GoesFetching(r, t)
        BY <1>7, ServingIs
    <2>2. \A k \in Keys : entry'[k] = entry[k] \/ entry'[k] = "waiting" \/ (FromList(k) => entry'[k] = "found")
        BY <1>0, <2>1 DEF Settles, GoesOn, PassesOver, Finds, GoesFetching, Fill
    <2>3. \A x \in Resolutions : \A u \in tasks'[x] : u \in tasks[x] \/ ~FromList(u.key)
        BY <1>0, <2>1 DEF Settles, GoesOn, PassesOver, Finds, GoesFetching, End, Goto
    <2> QED
        BY <2>2, <2>3 DEF ListedIsFound, FromList
<1> QED
    BY <1>1, <1>3, <1>4, <1>5, <1>6, <1>7, <1>8 DEF SolverStep, FetchStep, Serving

LEMMA ServeInit == Init => ServeInv
<1> SUFFICES ASSUME Init PROVE ServeInv
    OBVIOUS
<1>1. AskInv
    BY AskInit
<1>2. ListedIsFound
    BY DEF Init, ListedIsFound
<1>3. ASSUME NEW k \in Keys PROVE ServedOnce(k)
    <2>1. \A x \in Resolutions : solver[x].out = <<>> /\ chan[x] = <<>> /\ tasks[x] = {}
        BY DEF Init, NewSolver
    <2>2. \A x \in Resolutions : SentAt(x, k) = {} /\ QueuedAt(x, k) = {} /\ ServedAt(x, k) = {}
        BY <2>1 DEF SentAt, QueuedAt, ServedAt
    <2>3. Places(k) = {}
        BY <2>2 DEF Places
    <2> QED
        BY <2>3 DEF ServedOnce
<1> QED
    BY <1>1, <1>2, <1>3, OneServerIs DEF ServeInv

LEMMA ServeNext == ServeInv /\ [Next]_vars => ServeInv'
<1> SUFFICES ASSUME ServeInv, [Next]_vars PROVE ServeInv'
    OBVIOUS
<1>0. AskInv /\ ListedIsFound /\ TypeOK /\ \A k \in Keys : ServedOnce(k)
    BY OneServerIs DEF ServeInv, AskInv
<1>1. AskInv'
    BY <1>0, AskNext
<1>2. ListedIsFound'
    <2>1. CASE Next
        BY <1>0, <2>1, ListedNext
    <2>2. CASE UNCHANGED vars
        BY <1>0, <2>2 DEF vars, ListedIsFound
    <2> QED
        BY <2>1, <2>2
<1>3. ASSUME NEW k \in Keys PROVE ServedOnce(k)'
    <2>1. CASE UNCHANGED vars
        BY <1>0, <2>1, SamePlaces, FewerServe DEF vars
    <2>2. CASE Next
        <3>1. PICK r \in Resolutions : SolverStep(r) \/ FetchStep(r) \/ FetchFails(r)
            BY <2>2 DEF Next
        <3>2. CASE Enqueue(r)
            BY <1>0, <3>2, EnqueueServes
        <3>9. CASE Refuse(r)
            <4>1. Places(k)' = Places(k)
                BY <1>0, <3>9, RefusePlaces
            <4>2. \/ entry'[k] = entry[k]
                  \/ entry[k] = "absent" /\ entry'[k] = "waiting"
                BY <1>0, <3>9, RefuseIs DEF Fill, TypeOK
            <4> QED
                BY <1>0, <4>1, <4>2 DEF ServedOnce, Filled, FromList
        <3>3. CASE Send(r)
            <4>1. entry' = entry
                BY <3>3 DEF Send
            <4>2. \A p \in Places(k)' :
                    \/ p \in Places(k) /\ p # <<r, "out", 1>>
                    \/ p = <<r, "chan", Len(chan[r]) + 1>> /\ <<r, "out", 1>> \in Places(k)
                BY <1>0, <3>3, SendPlaces
            <4> QED
                BY <1>0, <4>1, <4>2, MovedServes
        <3>4. CASE \/ SendClosed(r) \/ Propagate(r) \/ Pick(r) \/ Solve(r)
                   \/ ChooseVersion(r) \/ ChooseUrl(r) \/ GetDependencies(r)
            BY <1>0, <3>4, SolverPlaces, FewerServe
        <3>5. CASE Receive(r)
            BY <1>0, <3>5, ReceiveServes
        <3>6. CASE Return(r)
            BY <1>0, <3>6, SamePlaces, FewerServe DEF Return
        <3>7. CASE FetchFails(r)
            BY <1>0, <3>7, FailsPlaces, FewerServe
        <3>8. ASSUME NEW t \in tasks[r], Serving(r, t) PROVE ServedOnce(k)'
            BY <3>8, ServingServes
        <3> QED
            BY <3>1, <3>2, <3>3, <3>4, <3>5, <3>6, <3>7, <3>8, <3>9 DEF SolverStep, FetchStep, Serving
    <2> QED
        BY <2>1, <2>2
<1>4. (\A k \in Keys : ServedOnce(k))'
    BY <1>3
<1>5. OneServer'
    BY <1>4, OneServerIs, PTL
<1> QED
    BY <1>1, <1>2, <1>5 DEF ServeInv

\* At most one request serves an entry, and none that is filled, except that
\* of metadata which the list has.
THEOREM ServersAreSingle == Spec => []ServeInv
BY ServeInit, ServeNext, PTL DEF Spec

\* The answer to a request does not change.
THEOREM AnswersStay == Spec => AnswersAreFinal
<1>1. ServeInv /\ [Next]_vars => [\A k \in Keys : Filled(k) => entry'[k] = entry[k]]_vars
    <2> SUFFICES ASSUME ServeInv, Next, NEW k \in Keys, Filled(k) PROVE entry'[k] = entry[k]
        BY DEF vars
    <2>0. /\ AskInv /\ ListedIsFound /\ TypeOK /\ ServedOnce(k) /\ entry \in [Keys -> Statuses]
        BY OneServerIs DEF ServeInv, AskInv, TypeOK
    <2>1. PICK r \in Resolutions : SolverStep(r) \/ FetchStep(r) \/ FetchFails(r)
        BY DEF Next
    <2>2. CASE Enqueue(r)
        BY <2>0, <2>2, EnqueueIs DEF Fill, Filled
    <2>5. CASE Refuse(r)
        BY <2>0, <2>5, RefuseIs DEF Fill, Filled
    <2>3. CASE UNCHANGED entry
        BY <2>3
    <2>4. ASSUME NEW t \in tasks[r], Serving(r, t) PROVE entry'[k] = entry[k]
        <3>1. Settles(r, t) \/ GoesOn(r, t) \/ PassesOver(r, t) \/ Finds(r, t) \/ GoesFetching(r, t)
            BY <2>0, <2>4, ServingIs
        <3>2. FromList(k) => entry[k] = "found"
            BY <2>0 DEF ListedIsFound, Filled
        <3>3. CASE Settles(r, t)
            <4>1. CASE t.key = k
                <5>1. <<r, "task", t>> \in Places(k)
                    BY <4>1, TaskIsAPlace
                <5>2. FromList(k)
                    BY <2>0, <5>1 DEF ServedOnce
                <5>3. Fill(k, "found")
                    BY <3>3, <4>1, <5>2 DEF Settles
                <5> QED
                    BY <2>0, <3>2, <5>2, <5>3 DEF Fill
            <4>2. CASE t.key # k
                BY <2>0, <3>3, <4>2 DEF Settles, Fill
            <4> QED
                BY <4>1, <4>2
        <3>4. CASE Finds(r, t)
            BY <2>0, <3>2, <3>4 DEF Finds, Fill
        <3>5. CASE GoesFetching(r, t)
            BY <2>0, <3>5 DEF GoesFetching, Fill, Filled
        <3>6. CASE GoesOn(r, t) \/ PassesOver(r, t)
            BY <3>6 DEF GoesOn, PassesOver
        <3> QED
            BY <3>1, <3>3, <3>4, <3>5, <3>6
    <2> QED
        BY <2>1, <2>2, <2>3, <2>4, <2>5 DEF SolverStep, FetchStep, Serving, Send, SendClosed, Propagate, Pick, Solve,
           ChooseVersion, ChooseUrl, GetDependencies, Receive, Return, FetchFails
<1> QED
    BY <1>1, ServersAreSingle, PTL DEF Spec, AnswersAreFinal
-----------------------------------------------------------------------------
(* Whoever waits is served.                                                *)

\* Requests for k stay where they are when another task ends or goes on.
LEMMA OthersStay ==
    ASSUME UNCHANGED <<solver, chan>>, NEW t, NEW k, t.key # k,
           \A x \in Resolutions : tasks[x] \ {t} \subseteq tasks'[x]
    PROVE  Places(k) \subseteq Places(k)'
<1>1. ASSUME NEW x \in Resolutions
      PROVE  /\ SentAt(x, k)' = SentAt(x, k) /\ QueuedAt(x, k)' = QueuedAt(x, k)
             /\ ServedAt(x, k) \subseteq ServedAt(x, k)'
    <2>1. SentAt(x, k)' = SentAt(x, k) /\ QueuedAt(x, k)' = QueuedAt(x, k)
        BY SentSame, QueuedSame
    <2>2. tasks[x] \ {t} \subseteq tasks'[x]
        OBVIOUS
    <2>3. ServedAt(x, k) \subseteq ServedAt(x, k)'
        BY <2>2 DEF ServedAt
    <2> QED
        BY <2>1, <2>3
<1> QED
    BY <1>1, PlacesAre, PlacesWillBe

\* What a task does makes no resolution stop.
LEMMA ServingRes ==
    ASSUME TypeOK, NEW r \in Resolutions, NEW t \in tasks[r], Serving(r, t)
    PROVE  \A x \in Resolutions : res'[x] = res[x] \/ res'[x] = "running"
BY DEF Serving, ServePackage, ServeDist, Fetch, StartBuild, FinishBuild, ServePrefetch, TypeOK

LEMMA ServingTasks ==
    ASSUME TypeOK, NEW r \in Resolutions, NEW t \in tasks[r], NEW u, End(r, t) \/ Goto(r, t, u)
    PROVE  \A x \in Resolutions : tasks[x] \ {t} \subseteq tasks'[x] /\ (x # r => tasks'[x] = tasks[x])
BY DEF End, Goto, TypeOK

\* Nothing that was lost is found again.
LEMMA LostStays == ASSUME Next PROVE lost \subseteq lost'
<1>1. PICK r \in Resolutions : SolverStep(r) \/ FetchStep(r) \/ FetchFails(r)
    BY DEF Next
<1>2. CASE SolverStep(r)
    BY <1>2 DEF SolverStep, Enqueue, Refuse, Send, SendClosed, Propagate, Pick, Solve, ChooseVersion, ChooseUrl,
       GetDependencies
<1>3. CASE FetchStep(r)
    BY <1>3 DEF FetchStep, Receive, Return, ServePackage, ServeDist, Fetch, StartBuild, FinishBuild, ServePrefetch
<1>4. CASE FetchFails(r)
    BY <1>4 DEF FetchFails
<1> QED
    BY <1>1, <1>2, <1>3, <1>4

\* What Quiet says of r.
AsksLost(r) == \A k \in Keys : SentAt(r, k) # {} => k \in lost
QuietAt(r) ==
    /\ res[r] = "running" \/ (chan[r] = <<>> /\ tasks[r] = {})
    /\ solver[r].pc \in {"solved", "unsolved", "closed"} => Idle(r)
    /\ res[r] = "running" \/ AsksLost(r)

LEMMA QuietIs == Quiet <=> \A r \in Resolutions : QuietAt(r)
BY DEF Quiet, QuietAt, AsksLost

LEMMA QuietWillBe == Quiet' <=> \A r \in Resolutions : QuietAt(r)'
BY DEF Quiet, QuietAt, AsksLost

\* A resolution that a step leaves alone.
LEMMA QuietSame ==
    ASSUME NEW x \in Resolutions, QuietAt(x), lost \subseteq lost', res'[x] = res[x],
           solver'[x] = solver[x], chan'[x] = chan[x], tasks'[x] = tasks[x]
    PROVE  QuietAt(x)'
<1>1. AsksLost(x) => AsksLost(x)'
    BY SentSame DEF AsksLost
<1> QED
    BY <1>1 DEF QuietAt, Idle

LEMMA NothingSent ==
    ASSUME NEW x \in Resolutions, solver'[x].out = <<>>
    PROVE  AsksLost(x)'
BY SentNone DEF AsksLost

\* The solver of r moves, and r is left as it was.
LEMMA QuietSolves ==
    ASSUME AskInv, NEW r \in Resolutions, \A x \in Resolutions : QuietAt(x), SolverStep(r), lost \subseteq lost'
    PROVE  \A x \in Resolutions : QuietAt(x)'
<1>0. /\ TypeOK /\ QuietAt(r) /\ res[r] \in {"idle", "running", "ok", "failed"}
    BY DEF AskInv, TypeOK
<1>1. ASSUME /\ UNCHANGED <<res, tasks>> /\ (chan'[r] = chan[r] \/ res[r] = "running")
             /\ \A x \in Resolutions : x # r => solver'[x] = solver[x] /\ chan'[x] = chan[x],
             solver'[r].pc \in {"solved", "unsolved", "closed"} => solver'[r].todo = {} /\ solver'[r].out = <<>>,
             res[r] = "running" \/ AsksLost(r)'
      PROVE  \A x \in Resolutions : QuietAt(x)'
    <2>1. QuietAt(r)'
        BY <1>0, <1>1 DEF QuietAt, Idle
    <2>2. ASSUME NEW x \in Resolutions, x # r PROVE QuietAt(x)'
        BY <1>1, <2>2, QuietSame
    <2> QED
        BY <2>1, <2>2
<1>3. CASE Enqueue(r)
    <2>1. PICK q \in Requests :
             /\ solver[r].out = <<>> /\ UNCHANGED <<res, chan, tasks>>
             /\ \A x \in Resolutions : x # r => solver'[x] = solver[x]
             /\ solver'[r].pc = solver[r].pc /\ q \in solver[r].todo
             /\ \/ solver'[r].out = <<>>
                \/ solver'[r].out = <<q>> /\ q.key \notin Keys
                \/ solver'[r].out = <<q>> /\ (res[r] = "running" \/ q.key \in lost')
        BY <1>0, <1>3, EnqueueIs
    <2>2. ~Idle(r)
        BY <2>1 DEF Idle
    <2>3. solver[r].pc \notin {"solved", "unsolved", "closed"}
        BY <1>0, <2>2 DEF QuietAt
    <2>4. res[r] = "running" \/ AsksLost(r)'
        <3>1. CASE solver'[r].out = <<>>
            BY <3>1, NothingSent
        <3>2. CASE solver'[r].out = <<q>>
            <4>1. ASSUME NEW k \in Keys, SentAt(r, k)' # {} PROVE q.key = k
                BY <3>2, <4>1 DEF SentAt
            <4> QED
                BY <2>1, <3>2, <4>1 DEF AsksLost
        <3> QED
            BY <2>1, <3>1, <3>2
    <2> QED
        BY <1>1, <2>1, <2>3, <2>4
<1>4. CASE Send(r)
    <2>1. PICK q \in Requests :
             /\ solver[r].out = <<q>> /\ res[r] = "running" /\ UNCHANGED <<entry, res, tasks>>
             /\ solver'[r].pc = solver[r].pc
             /\ \A x \in Resolutions : x # r => solver'[x] = solver[x] /\ chan'[x] = chan[x]
        BY <1>0, <1>4, SendIs
    <2>2. ~Idle(r)
        BY <2>1 DEF Idle
    <2>3. solver[r].pc \notin {"solved", "unsolved", "closed"}
        BY <1>0, <2>2 DEF QuietAt
    <2> QED
        BY <1>1, <2>1, <2>3
<1>5. CASE SendClosed(r) \/ Refuse(r)
    <2>1. /\ UNCHANGED <<res, chan, tasks>>
          /\ \A x \in Resolutions : x # r => solver'[x] = solver[x]
          /\ solver'[r].todo = {} /\ solver'[r].out = <<>>
        <3>1. CASE SendClosed(r)
            BY <1>0, <3>1 DEF SendClosed, Update, TypeOK, Solvers
        <3>2. CASE Refuse(r)
            BY <1>0, <3>2, RefuseIs DEF TypeOK
        <3> QED
            BY <1>5, <3>1, <3>2
    <2> QED
        BY <1>1, <2>1, NothingSent
<1>6. CASE \/ Propagate(r) \/ Pick(r) \/ Solve(r)
           \/ ChooseVersion(r) \/ ChooseUrl(r) \/ GetDependencies(r)
    <2>1. PICK s : Decides(r, s)
        BY <1>6, SolverDecides
    <2>2. /\ UNCHANGED <<res, chan, tasks>>
          /\ \A x \in Resolutions : x # r => solver'[x] = solver[x]
          /\ solver'[r] = s /\ s.out = <<>> /\ s.pc # "closed" /\ (s.pc \in {"solved", "unsolved"} => s.todo = {})
        BY <1>0, <2>1 DEF Decides, TypeOK
    <2> QED
        BY <1>1, <2>2, NothingSent
<1> QED
    BY <1>3, <1>4, <1>5, <1>6 DEF SolverStep

LEMMA QuietNext ==
    ASSUME AskInv, Quiet, Next
    PROVE  Quiet'
<1>0. /\ TypeOK /\ \A x \in Resolutions : QuietAt(x)
      /\ res \in [Resolutions -> {"idle", "running", "ok", "failed"}] /\ lost \subseteq lost'
    BY QuietIs, LostStays DEF AskInv, TypeOK
<1>1. PICK r \in Resolutions : SolverStep(r) \/ FetchStep(r) \/ FetchFails(r)
    BY DEF Next
<1>2. ASSUME \A x \in Resolutions : QuietAt(x)'
      PROVE  Quiet'
    BY <1>2, QuietWillBe
<1>3. CASE SolverStep(r)
    BY <1>0, <1>2, <1>3, QuietSolves
<1>4. CASE Receive(r)
    <2>1. /\ UNCHANGED <<res, solver>> /\ res[r] = "running"
          /\ \A x \in Resolutions : x # r => chan'[x] = chan[x] /\ tasks'[x] = tasks[x]
        BY <1>0, <1>4, ReceiveIs
    <2>2. QuietAt(r)'
        BY <1>0, <2>1 DEF QuietAt, Idle
    <2>3. ASSUME NEW x \in Resolutions, x # r PROVE QuietAt(x)'
        BY <1>0, <2>1, <2>3, QuietSame
    <2> QED
        BY <1>2, <2>2, <2>3
<1>5. CASE Return(r)
    <2>1. /\ UNCHANGED <<solver, chan, tasks>> /\ chan[r] = <<>> /\ tasks[r] = {}
          /\ solver[r].pc \in {"solved", "unsolved", "closed"}
          /\ \A x \in Resolutions : x # r => res'[x] = res[x]
        BY <1>0, <1>5 DEF Return
    <2>2. solver'[r].out = <<>>
        BY <1>0, <2>1 DEF QuietAt, Idle
    <2>3. AsksLost(r)'
        BY <2>2, NothingSent
    <2>4. QuietAt(r)'
        BY <1>0, <2>1, <2>3 DEF QuietAt, Idle
    <2>5. ASSUME NEW x \in Resolutions, x # r PROVE QuietAt(x)'
        BY <1>0, <2>1, <2>5, QuietSame
    <2> QED
        BY <1>2, <2>4, <2>5
<1>6. CASE FetchFails(r)
    <2>1. ASSUME NEW x \in Resolutions PROVE QuietAt(x)'
        <3>1. CASE x \in Inside(r)
            <4>1. solver' = solver /\ chan'[x] = <<>> /\ tasks'[x] = {}
                BY <1>6, <3>1 DEF FetchFails
            <4>2. ASSUME NEW k \in Keys, SentAt(x, k)' # {} PROVE k \in lost'
                <5>1. PICK p : p \in SentAt(x, k)
                    BY <4>1, <4>2, SentSame
                <5>2. p \in Places(k) /\ p[1] = x
                    BY <5>1, PlacesAre DEF SentAt
                <5> QED
                    BY <1>6, <3>1, <5>2 DEF FetchFails
            <4>3. AsksLost(x)'
                BY <4>2 DEF AsksLost
            <4> QED
                BY <1>0, <4>1, <4>3 DEF QuietAt, Idle
        <3>2. CASE x \notin Inside(r)
            <4>1. res'[x] = res[x] /\ solver'[x] = solver[x] /\ chan'[x] = chan[x] /\ tasks'[x] = tasks[x]
                BY <1>6, <3>2 DEF FetchFails
            <4> QED
                BY <1>0, <4>1, QuietSame
        <3> QED
            BY <3>1, <3>2
    <2> QED
        BY <1>2, <2>1
<1>7. ASSUME NEW t \in tasks[r], Serving(r, t) PROVE Quiet'
    <2>1. \A x \in Resolutions : res'[x] = res[x] \/ res'[x] = "running"
        BY <1>0, <1>7, ServingRes
    <2>2. UNCHANGED <<solver, chan>> /\ res[r] = "running"
        BY <1>0, <1>7 DEF QuietAt, Serving, ServePackage, ServeDist, Fetch, StartBuild, FinishBuild, ServePrefetch
    <2>3. \A x \in Resolutions : x # r => tasks'[x] = tasks[x]
        BY <1>0, <1>7 DEF Serving, ServePackage, ServeDist, Fetch, StartBuild, FinishBuild, ServePrefetch,
           End, Goto, TypeOK
    <2>4. ASSUME NEW x \in Resolutions PROVE QuietAt(x)'
        <3>1. CASE res'[x] = "running"
            BY <1>0, <2>2, <3>1 DEF QuietAt, Idle
        <3>2. CASE res'[x] # "running"
            <4>1. x # r /\ res'[x] = res[x]
                BY <2>1, <2>2, <3>2
            <4> QED
                BY <1>0, <2>2, <2>3, <4>1, QuietSame
        <3> QED
            BY <3>1, <3>2
    <2> QED
        BY <1>2, <2>4
<1> QED
    BY <1>1, <1>3, <1>4, <1>5, <1>6, <1>7 DEF FetchStep, Serving

\* A key is registered, and its request is on its way.
LEMMA EnqueueKeeps ==
    ASSUME TypeOK, NEW r \in Resolutions, Enqueue(r), NEW k \in Keys, entry'[k] = "waiting",
           entry[k] = "waiting" => Places(k) # {}
    PROVE  Places(k)' # {}
<1>1. PICK q \in Requests :
        /\ solver[r].out = <<>> /\ UNCHANGED <<res, chan, tasks>>
        /\ \A x \in Resolutions : x # r => solver'[x] = solver[x]
        /\ \/ q.key \in Keys /\ solver'[r].out = <<>> /\ UNCHANGED entry
           \/ q.key \notin Keys /\ solver'[r].out = <<q>> /\ UNCHANGED entry
           \/ q.key \in Keys /\ solver'[r].out = <<q>> /\ entry[q.key] = "absent" /\ Fill(q.key, "waiting")
    BY EnqueueIs
<1>2. CASE entry[k] = "waiting"
    <2>1. PICK p \in Places(k) : TRUE
        BY <1>2
    <2>2. PICK x \in Resolutions : p \in SentAt(x, k) \/ p \in QueuedAt(x, k) \/ p \in ServedAt(x, k)
        BY <2>1, PlacesAre
    <2>3. x = r => SentAt(x, k) = {}
        BY <1>1 DEF SentAt
    <2>4. p \in SentAt(x, k)' \/ p \in QueuedAt(x, k)' \/ p \in ServedAt(x, k)'
        BY <1>1, <2>2, <2>3, QueuedSame, ServedSame, SentSame
    <2> QED
        BY <2>4, PlacesWillBe
<1>3. CASE entry[k] # "waiting"
    <2>1. solver'[r].out = <<q>> /\ q.key = k
        BY <1>1, <1>3 DEF Fill, TypeOK
    <2>2. <<r, "out", 1>> \in SentAt(r, k)'
        BY <2>1 DEF SentAt
    <2> QED
        BY <2>2, PlacesWillBe
<1> QED
    BY <1>2, <1>3

LEMMA ServingKeeps ==
    ASSUME ServeInv, NEW r \in Resolutions, NEW t \in tasks[r], Serving(r, t), NEW k \in Keys,
           entry'[k] = "waiting", entry[k] = "waiting" => Places(k) # {}
    PROVE  Places(k)' # {}
<1>0. TypeOK /\ AskInv /\ ListedIsFound /\ entry \in [Keys -> Statuses]
    BY DEF ServeInv, AskInv, TypeOK
<1>1. /\ UNCHANGED <<solver, chan>>
      /\ Settles(r, t) \/ GoesOn(r, t) \/ PassesOver(r, t) \/ Finds(r, t) \/ GoesFetching(r, t)
    BY <1>0, ServingIs
<1>2. ASSUME NEW u, End(r, t) \/ Goto(r, t, u), t.key # k, entry[k] = "waiting"
      PROVE  Places(k)' # {}
    <2>1. \A x \in Resolutions : tasks[x] \ {t} \subseteq tasks'[x]
        BY <1>0, <1>2, ServingTasks
    <2>2. Places(k) \subseteq Places(k)'
        BY <1>1, <1>2, <2>1, OthersStay
    <2> QED
        BY <1>2, <2>2
<1>3. ASSUME NEW u, Goto(r, t, u), u.key = k
      PROVE  Places(k)' # {}
    <2>1. u \in tasks'[r]
        BY <1>0, <1>3 DEF Goto, TypeOK
    <2>2. <<r, "task", u>> \in ServedAt(r, k)'
        BY <1>3, <2>1 DEF ServedAt
    <2> QED
        BY <2>2, PlacesWillBe
<1>4. CASE Settles(r, t)
    <2>1. PICK value \in Statuses \ {"absent", "waiting"} : Fill(t.key, value) /\ t.key \in Keys /\ End(r, t)
        BY <1>4 DEF Settles
    <2>2. t.key # k /\ entry[k] = "waiting"
        BY <1>0, <2>1 DEF Fill
    <2> QED
        BY <1>2, <2>1, <2>2
<1>5. CASE GoesOn(r, t)
    <2>1. PICK u \in Tasks : Goto(r, t, u) /\ u.key = t.key /\ entry' = entry
        BY <1>5 DEF GoesOn
    <2> QED
        BY <1>2, <1>3, <2>1
<1>6. CASE PassesOver(r, t)
    BY <1>2, <1>6 DEF PassesOver
<1>7. CASE Finds(r, t)
    <2>1. t.key # k /\ End(r, t)
        BY <1>7 DEF Finds
    <2>2. entry[k] = "waiting"
        BY <1>0, <1>7 DEF Finds, Fill
    <2> QED
        BY <1>2, <2>1, <2>2
<1>8. CASE GoesFetching(r, t)
    <2>1. PICK j \in DistKeys, u \in Tasks :
            Fill(j, "waiting") /\ Goto(r, t, u) /\ u.key = j /\ t.key \notin Keys
        BY <1>8 DEF GoesFetching
    <2>2. CASE j = k
        BY <1>3, <2>1, <2>2
    <2>3. CASE j # k
        <3>1. entry[k] = "waiting" /\ t.key # k
            BY <1>0, <2>1, <2>3 DEF Fill
        <3> QED
            BY <1>2, <2>1, <3>1
    <2> QED
        BY <2>2, <2>3
<1> QED
    BY <1>1, <1>4, <1>5, <1>6, <1>7, <1>8

\* What a resolution that fails does not drop stays where it is.
LEMMA FailsKeeps ==
    ASSUME NEW r \in Resolutions, FetchFails(r), NEW k \in Keys, k \notin lost'
    PROVE  Places(k) \subseteq Places(k)'
<1> SUFFICES ASSUME NEW p \in Places(k) PROVE p \in Places(k)'
    OBVIOUS
<1>1. PICK x \in Resolutions : p \in SentAt(x, k) \/ p \in QueuedAt(x, k) \/ p \in ServedAt(x, k)
    BY PlacesAre
<1>2. p[1] = x
    BY <1>1 DEF SentAt, QueuedAt, ServedAt
<1>3. x \notin Inside(r)
    BY <1>2 DEF FetchFails
<1>4. solver'[x] = solver[x] /\ chan'[x] = chan[x] /\ tasks'[x] = tasks[x]
    BY <1>3 DEF FetchFails
<1> QED
    BY <1>1, <1>4, SentSame, QueuedSame, ServedSame, PlacesWillBe

\* A thread that outlived its resolution drops only what is lost.
LEMMA ClosedKeeps ==
    ASSUME AskInv, Quiet, NEW r \in Resolutions, SendClosed(r), NEW k \in Keys, k \notin lost
    PROVE  Places(k) \subseteq Places(k)'
<1> SUFFICES ASSUME NEW p \in Places(k) PROVE p \in Places(k)'
    OBVIOUS
<1>1. PICK x \in Resolutions : p \in SentAt(x, k) \/ p \in QueuedAt(x, k) \/ p \in ServedAt(x, k)
    BY PlacesAre
<1>2. UNCHANGED <<chan, tasks>> /\ \A y \in Resolutions : y # r => solver'[y] = solver[y]
    BY SolverPlaces
<1>3. SentAt(r, k) = {}
    BY DEF SendClosed, Quiet
<1> QED
    BY <1>1, <1>2, <1>3, SentSame, QueuedSame, ServedSame, PlacesWillBe

LEMMA WaitInit == Init => WaitInv
<1> SUFFICES ASSUME Init PROVE WaitInv
    OBVIOUS
<1>1. ServeInv
    BY ServeInit
<1>2. Quiet
    <2>1. \A r \in Resolutions : /\ solver[r].out = <<>> /\ chan[r] = <<>> /\ tasks[r] = {}
                                 /\ solver[r].pc = "visit"
        BY DEF Init, NewSolver
    <2>2. \A r \in Resolutions, k \in Keys : SentAt(r, k) = {}
        BY <2>1 DEF SentAt
    <2> QED
        BY <2>1, <2>2 DEF Quiet
<1>3. \A k \in Keys : entry[k] # "waiting"
    BY DEF Init
<1> QED
    BY <1>1, <1>2, <1>3 DEF WaitInv

LEMMA WaitNext == WaitInv /\ [Next]_vars => WaitInv'
<1> SUFFICES ASSUME WaitInv, [Next]_vars PROVE WaitInv'
    OBVIOUS
<1>1. ServeInv'
    BY ServeNext DEF WaitInv
<1>2. CASE UNCHANGED vars
    <2>0. UNCHANGED <<entry, res, solver, chan, tasks, lost>>
        BY <1>2 DEF vars
    <2>1. ASSUME NEW x \in Resolutions PROVE QuietAt(x)'
        BY <2>0, QuietSame, QuietIs DEF WaitInv
    <2>2. \A k \in Keys : Places(k)' = Places(k)
        BY <2>0, SamePlaces
    <2> QED
        BY <1>1, <2>0, <2>1, <2>2, QuietWillBe DEF WaitInv
<1>3. CASE Next
    <2>0. AskInv /\ TypeOK /\ Quiet /\ ServeInv /\ Next /\ lost \subseteq lost'
        BY <1>3, LostStays DEF WaitInv, ServeInv, AskInv
    <2>1. Quiet'
        BY <2>0, QuietNext
    <2>2. ASSUME NEW k \in Keys, entry'[k] = "waiting", k \notin lost'
          PROVE  Places(k)' # {}
        <3>1. k \notin lost /\ (entry[k] = "waiting" => Places(k) # {})
            BY <2>0, <2>2 DEF WaitInv
        <3>2. PICK r \in Resolutions : SolverStep(r) \/ FetchStep(r) \/ FetchFails(r)
            BY <2>0 DEF Next
        <3>3. CASE Enqueue(r)
            BY <2>0, <2>2, <3>1, <3>3, EnqueueKeeps
        <3>4. CASE Send(r)
            <4>1. Places(k) # {}
                BY <2>2, <3>1, <3>4 DEF Send
            <4>2. \A p \in Places(k) : p \in Places(k)' \/ <<r, "chan", Len(chan[r]) + 1>> \in Places(k)'
                BY <2>0, <3>4, SendPlaces
            <4> QED
                BY <4>1, <4>2
        <3>5. CASE SendClosed(r)
            <4>1. Places(k) # {}
                BY <2>2, <3>1, <3>5 DEF SendClosed
            <4> QED
                BY <2>0, <3>1, <3>5, <4>1, ClosedKeeps
        <3>6. CASE \/ Propagate(r) \/ Pick(r) \/ Solve(r)
                   \/ ChooseVersion(r) \/ ChooseUrl(r) \/ GetDependencies(r)
            <4>1. PICK s : Decides(r, s)
                BY <2>0, <3>6, SolverDecides
            <4>2. ~SendClosed(r)
                BY <4>1 DEF Decides, Idle, SendClosed
            <4> QED
                BY <2>0, <2>2, <3>1, <3>6, <4>2, SolverPlaces
        <3>7. CASE Receive(r)
            BY <2>0, <2>2, <3>1, <3>7, ReceivePlaces DEF Receive
        <3>8. CASE Return(r)
            BY <2>2, <3>1, <3>8, SamePlaces DEF Return
        <3>9. CASE FetchFails(r)
            <4>1. Places(k) # {}
                BY <2>2, <3>1, <3>9 DEF FetchFails
            <4> QED
                BY <2>2, <3>9, <4>1, FailsKeeps
        <3>10. ASSUME NEW t \in tasks[r], Serving(r, t) PROVE Places(k)' # {}
            BY <2>0, <2>2, <3>1, <3>10, ServingKeeps
        <3>11. CASE Refuse(r)
            <4>1. entry[k] = "waiting"
                BY <2>0, <2>2, <3>11, RefuseIs DEF Fill, TypeOK
            <4>2. Places(k)' = Places(k)
                BY <2>0, <3>11, RefusePlaces
            <4> QED
                BY <3>1, <4>1, <4>2
        <3> QED
            BY <3>2, <3>3, <3>4, <3>5, <3>6, <3>7, <3>8, <3>9, <3>10, <3>11 DEF SolverStep, FetchStep, Serving
    <2> QED
        BY <1>1, <2>1, <2>2 DEF WaitInv
<1> QED
    BY <1>2, <1>3

\* Whoever waits for an entry is served, by exactly one request of a
\* resolution that runs, whatever fails in whichever resolution; except for
\* what a hash policy refused and what a resolution that failed had asked for.
THEOREM WaitersAreServed == Spec => []WaitsAreServed
<1>1. WaitInv => WaitsAreServed
    <2> SUFFICES ASSUME WaitInv, NEW k \in Keys, entry[k] = "waiting", k \notin lost
                 PROVE  /\ Cardinality(Places(k)) = 1
                        /\ \A p \in Places(k) : res[p[1]] = "running"
        BY DEF WaitsAreServed
    <2>1. PICK p \in Places(k) : TRUE
        BY DEF WaitInv
    <2>2. Places(k) = {p}
        BY <2>1 DEF WaitInv, ServeInv, OneServer
    <2>3. Cardinality(Places(k)) = 1
        BY <2>2, FS_Singleton
    <2>4. PICK r \in Resolutions : p \in SentAt(r, k) \/ p \in QueuedAt(r, k) \/ p \in ServedAt(r, k)
        BY <2>1, PlacesAre
    <2>5. p[1] = r
        BY <2>4 DEF SentAt, QueuedAt, ServedAt
    <2>6. SentAt(r, k) # {} \/ chan[r] # <<>> \/ tasks[r] # {}
        BY <2>4 DEF QueuedAt, ServedAt
    <2>7. res[r] = "running"
        BY <2>6 DEF WaitInv, Quiet
    <2> QED
        BY <2>2, <2>3, <2>5, <2>7
<1> QED
    BY <1>1, WaitInit, WaitNext, PTL DEF Spec
=============================================================================
