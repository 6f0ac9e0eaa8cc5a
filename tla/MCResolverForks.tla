-------------------------- MODULE MCResolverForks --------------------------
(* Small instances of ResolverForks.                                       *)
EXTENDS ResolverForks, TLC

Order == <<"a", "b">>

All == Places
Linux == Pythons \X {"linux"}
Windows == Places \ Linux
Newer == {Highest(Pythons)} \X Platforms
Markers == {All, Linux, Windows, Newer, Linux \cap Newer}

Req(n, kinds, marker, range) ==
    [name |-> n, kinds |-> kinds, marker |-> marker, range |-> range]
NoForks == <<>>
Nothing == <<>>
RootReqs(reqs) == <<RootItem, 1>> :> reqs

(* Requirements of one name that differ in marker and range, with more     *)
(* below; a's newest version may need a newer Python.                      *)
ByMarkers ==
    {[conflicts |-> <<>>, initial |-> NoForks, python |-> py, splits |-> sp,
      requires |-> RootReqs(<<Req("a", {}, m1, {1}), Req("a", {}, m2, {1, 2}),
                              Req("b", {}, m3, Versions)>>)
                   @@ <<<<"b", "project">>, 1>> :>
                        <<Req("a", {}, Linux, {1, 2}), Req("a", {}, m4, {2})>>,
      minPython |-> <<"a", 2>> :> Highest(Pythons),
      artifact |-> Nothing, base |-> Nothing] :
        m1 \in Markers, m2 \in Markers, m3 \in {All, Newer}, m4 \in {Windows, Newer, Linux},
        py \in Pythons, sp \in BOOLEAN}

(* Extras and groups in conflict, required at several places.              *)
X == [i \in 1..3 |-> <<"a", <<"x", "y", "z">>[i]>>]
ConflictSets ==
    {<<{X[1], X[2]}>>, <<{X[1], X[2]}, {X[2], X[3]}>>, <<{X[1], X[2], X[3]}>>,
     <<{X[1], <<"b", "g">>}, {X[2], X[3]}>>, <<{<<"a", "project">>, <<"b", "g">>}>>,
     <<{<<"b", "project">>, <<"b", "g">>}, {X[1], X[2]}>>}
ByConflicts ==
    {[conflicts |-> c, initial |-> NoForks, python |-> Lowest(Pythons), splits |-> TRUE,
      requires |-> RootReqs(<<Req("a", k1, m1, {1}), Req("a", {"y"}, m2, {1}),
                              Req("b", k2, All, {1})>>)
                   @@ <<<<"b", "project">>, 1>> :> <<Req("a", {"z"}, m3, {1})>>
                   @@ <<<<"b", "g">>, 1>> :> <<Req("a", {"x"}, All, {1})>>,
      minPython |-> Nothing, artifact |-> Nothing, base |-> Nothing] :
        c \in ConflictSets, k1 \in {{"x"}, {"x", "z"}}, k2 \in {{}, {"g"}},
        m1 \in {All, Linux, Newer}, m2 \in {All, Windows}, m3 \in {All, Linux}}

(* Initial forks, a local version 2 of a with files for one platform, and  *)
(* an extra of a with a requirement.                                       *)
Env(marker, include, exclude) ==
    [markers |-> marker, include |-> include, exclude |-> exclude]
Initials ==
    {NoForks, <<Env(Linux, {}, {}), Env(Windows \cap Newer, {}, {})>>,
     <<Env(Newer, {X[1]}, {X[2]}), Env(Newer, {}, {X[1]}), Env(All \ Newer, {}, {})>>}
ByVersions ==
    {[conflicts |-> <<{X[1], X[2]}>>, initial |-> i, python |-> Lowest(Pythons), splits |-> TRUE,
      requires |-> RootReqs(<<Req("a", {"x"}, m1, Versions), Req("a", {"y"}, m2, r),
                              Req("b", {}, All, Versions)>>)
                   @@ <<<<"a", "x">>, 1>> :> <<Req("b", {}, Linux, {1})>>,
      minPython |-> <<"b", 2>> :> Highest(Pythons),
      artifact |-> <<"a", 2>> :> f @@ <<"a", 1>> :> g, base |-> <<"a", 2>> :> 1] :
        i \in Initials, m1 \in {All, Newer}, m2 \in {All, Linux}, r \in {{1, 2}, {2}},
        f \in {Linux, Linux \cap Newer, Windows}, g \in {All, Newer}}

AllProblems == ByMarkers \cup ByConflicts \cup ByVersions
ASSUME AllWellPosed == \A p \in AllProblems : WellPosed(p) /\ OwnExtras(p)

(* b's extra x requires an old a, which has an extra x of its own that is  *)
(* in conflict with the extra y that the root requires.                    *)
SameName ==
    {[conflicts |-> <<{X[1], X[2]}>>, initial |-> NoForks, python |-> Lowest(Pythons),
      splits |-> TRUE,
      requires |-> RootReqs(<<Req("a", {"y"}, All, {1, 2}), Req("b", {"x"}, All, {1})>>)
                   @@ <<<<"b", "x">>, 1>> :> <<Req("a", {}, m, {1})>>,
      minPython |-> Nothing, artifact |-> Nothing, base |-> Nothing] : m \in Markers}
=============================================================================
