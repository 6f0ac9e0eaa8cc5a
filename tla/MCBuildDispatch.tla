---------------------------- MODULE MCBuildDispatch ----------------------------
(***************************************************************************)
(* Instances of BuildDispatch.                                              *)
(***************************************************************************)
EXTENDS BuildDispatch, TLC

CONSTANTS a, b, c, d, w, a1, a2, b1, c1, d1, w1

MCIds == {a, b, c, d, w}
MCReqs == {a1, a2, b1, c1, d1, w1}
MCIdOf == a1 :> a @@ a2 :> a @@ b1 :> b @@ c1 :> c @@ d1 :> d @@ w1 :> w
MCSources == {a, b, c, d}
NoExtra == a :> {} @@ b :> {} @@ c :> {} @@ d :> {}

\* Two source distributions that share two build requirements, one of them a
\* source distribution that the backend of b asks for in its hook; a is
\* requested under two names.
Dag ==
    [wants |-> {a1, a2, b1, c1},
     requires |-> a :> {c1, w1} @@ b :> {w1} @@ c :> {w1} @@ d :> {},
     extra |-> a :> {} @@ b :> {c1} @@ c :> {} @@ d :> {},
     misnamed |-> {a2}, refused |-> {}, mayFail |-> {c}, keepGoing |-> FALSE]

\* Under the resolver, a and b each need one source distribution, c, that needs
\* one wheel, w; the backend of b asks in its hook for d, which needs b.
Loop ==
    [wants |-> {a1, a2, b1},
     requires |-> a :> {c1} @@ b :> {c1} @@ c :> {w1} @@ d :> {b1},
     extra |-> a :> {} @@ b :> {d1} @@ c :> {} @@ d :> {},
     misnamed |-> {}, refused |-> {a2}, mayFail |-> {b, c, w}, keepGoing |-> TRUE]

\* Under the resolver, a needs c and w at once and either may fail while the other
\* is under way; b needs c too.
Siblings ==
    [wants |-> {a1, b1},
     requires |-> a :> {c1, w1} @@ b :> {c1} @@ c :> {w1} @@ d :> {},
     extra |-> NoExtra,
     misnamed |-> {}, refused |-> {}, mayFail |-> {c, w}, keepGoing |-> TRUE]

\* a and b are built to build each other.
Cross ==
    [wants |-> {a1, b1},
     requires |-> a :> {b1} @@ b :> {a1} @@ c :> {} @@ d :> {},
     extra |-> NoExtra,
     misnamed |-> {}, refused |-> {}, mayFail |-> {}, keepGoing |-> FALSE]

MCJobs == {Dag, Loop, Siblings}
CrossJobs == {Cross}
================================================================================
