------------------------- MODULE ResolverForksProofs -------------------------
(***************************************************************************)
(* Universal resolution, for every project, however many packages it has,  *)
(* however often it forks and however far the solver goes back.            *)
(*                                                                         *)
(* ForkStack: each fork finds the arena as it was at its checkpoint.       *)
(* ForksDivideWorlds: each world has exactly one fork.                     *)
(* VersionsInstallable: what a fork decides on can be installed there.     *)
(* RequirementsKept: a fork has all that its packages require.             *)
(* ConflictsKeptApart: and nothing that conflicts.                         *)
(*                                                                         *)
(* First the functions.  Each is a fold over a sequence, and a fold is the *)
(* last of its intermediate results; what holds of the first and is handed *)
(* on holds of the last (Induction, TraceExists).  A fork in a set of      *)
(* environments stays in it (Narrows, ForkEnvs), a world that one fork is  *)
(* for has one after every split and filter (NoneOf, OneOf), and the forks *)
(* have the dependencies that are asked for in their worlds and exclude    *)
(* what conflicts with them (Holds, then Settled after each set of         *)
(* conflicting items).                                                     *)
(*                                                                         *)
(* Then the steps.  Each is one of four kinds: the solver works on its     *)
(* fork, splits it, resumes the next, or finishes (Works, Pushes, Resumes, *)
(* Finish).  For each kind there is one lemma for each part of the         *)
(* invariant: Shape and Stacked for the stack of checkpoints, Divided for  *)
(* the worlds, Fitting for the versions, Keeping for the dependencies.     *)
(***************************************************************************)
EXTENDS ResolverForks, FiniteSetTheorems, WellFoundedInduction, TLAPS

-----------------------------------------------------------------------------
(* Folds.  A fold over a sequence is an iteration over the sets of its     *)
(* indices; what is shown of it is the trace of its intermediate results.  *)

\* What holds of 0, and of each number that follows one it holds of, holds
\* of all: induction as a fact about sets.
LEMMA Induction ==
  ASSUME NEW n \in Nat, NEW T, 0 \in T, \A i \in 1..n : i - 1 \in T => i \in T
  PROVE  \A i \in 0..n : i \in T
<1> DEFINE U == {i \in 0..n : i \notin T}
<1> SUFFICES ASSUME U # {} PROVE FALSE
  OBVIOUS
<1>1. \E x \in U : \A y \in U : ~(<<y, x>> \in OpToRel(<, Nat))
  <2>1. U \subseteq Nat
    OBVIOUS
  <2> HIDE DEF U
  <2> QED
    BY <2>1, NatLessThanWellFounded, WFMin
<1>2. PICK x \in U : \A y \in U : ~(<<y, x>> \in OpToRel(<, Nat))
  BY <1>1
<1>3. x \in 1..n
  OBVIOUS
<1>4. x - 1 \in U
  BY <1>3
<1>5. <<x - 1, x>> \in OpToRel(<, Nat)
  BY <1>3 DEF OpToRel
<1> QED
  BY <1>2, <1>4, <1>5

\* The highest of a set that contains its bound.
LEMMA HighestIs ==
  ASSUME NEW i \in Nat, NEW s \in SUBSET (1..i), i \in s
  PROVE  Max(s) = i
<1>1. \A y \in s : i >= y
  OBVIOUS
<1>2. \A x \in s : (\A y \in s : x >= y) => x = i
  OBVIOUS
<1> QED
  BY <1>1, <1>2 DEF Max

\* The highest of a set of indices is one of them.
LEMMA MaxIn ==
  ASSUME NEW i \in Nat, NEW s \in SUBSET (1..i), s # {}
  PROVE  Max(s) \in s
<1> DEFINE T == {k \in 0..i : \A t \in SUBSET (1..k) : t # {} => Max(t) \in t}
<1>1. 0 \in T
  <2>1. \A t \in SUBSET (1..0) : t = {}
    OBVIOUS
  <2>2. \A t \in SUBSET (1..0) : t # {} => Max(t) \in t
    BY <2>1
  <2> QED
    BY <2>2
<1>2. ASSUME NEW k \in 1..i, k - 1 \in T PROVE k \in T
  <2> SUFFICES ASSUME NEW t \in SUBSET (1..k), t # {} PROVE Max(t) \in t
    OBVIOUS
  <2>1. CASE k \in t
    BY <2>1, HighestIs
  <2>2. CASE k \notin t
    <3>1. t \in SUBSET (1..(k-1))
      BY <2>2
    <3> QED
      BY <3>1, <1>2
  <2> QED
    BY <2>1, <2>2
<1>3. \A k \in 0..i : k \in T
  <2> HIDE DEF T
  <2> QED
    BY <1>1, <1>2, Induction
<1> QED
  BY <1>3

\* An iteration over the subsets of 1..n: what FoldLeft computes, for steps
\* that are functions of the accumulator.
Iterates(it, F, base, n) ==
  it = [s \in SUBSET (1..n) |-> IF s = {} THEN base ELSE F[Max(s)][it[s \ {Max(s)}]]]

\* There is such an iteration.
LEMMA IterationExists ==
  ASSUME NEW n \in Nat, NEW A, NEW base \in A, NEW F \in [1..n -> [A -> A]]
  PROVE  \E it \in [SUBSET (1..n) -> A] : Iterates(it, F, base, n)
<1> DEFINE T == {k \in 0..n : \E it \in [SUBSET (1..k) -> A] : Iterates(it, F, base, k)}
<1>1. 0 \in T
  <2> DEFINE it == [s \in SUBSET (1..0) |-> base]
  <2>1. SUBSET (1..0) = {{}}
    OBVIOUS
  <2>2. it \in [SUBSET (1..0) -> A]
    OBVIOUS
  <2>3. Iterates(it, F, base, 0)
    BY <2>1 DEF Iterates
  <2> QED
    BY <2>2, <2>3
<1>2. ASSUME NEW k \in 1..n, k - 1 \in T PROVE k \in T
  <2>1. PICK old \in [SUBSET (1..(k-1)) -> A] : Iterates(old, F, base, k - 1)
    BY <1>2
  <2> DEFINE it == [s \in SUBSET (1..k) |-> IF k \in s THEN F[k][old[s \ {k}]] ELSE old[s]]
  <2>2. \A s \in SUBSET (1..k) : s \ {k} \in SUBSET (1..(k-1)) /\ (k \notin s => s \in SUBSET (1..(k-1)))
    OBVIOUS
  <2>3. it \in [SUBSET (1..k) -> A]
    BY <2>2
  <2>4. ASSUME NEW s \in SUBSET (1..k)
        PROVE  it[s] = IF s = {} THEN base ELSE F[Max(s)][it[s \ {Max(s)}]]
    <3>1. CASE k \in s
      <4>1. Max(s) = k
        BY <3>1, HighestIs
      <4>2. it[s \ {k}] = old[s \ {k}]
        BY <2>2
      <4> QED
        BY <3>1, <4>1, <4>2
    <3>2. CASE k \notin s
      <4>1. s \in SUBSET (1..(k-1)) /\ it[s] = old[s]
        BY <3>2, <2>2
      <4>2. old[s] = IF s = {} THEN base ELSE F[Max(s)][old[s \ {Max(s)}]]
        BY <4>1, <2>1 DEF Iterates
      <4>3. it[s \ {Max(s)}] = old[s \ {Max(s)}]
        BY <4>1, <3>2
      <4> QED
        BY <4>1, <4>2, <4>3
    <3> QED
      BY <3>1, <3>2
  <2>5. Iterates(it, F, base, k)
    BY <2>3, <2>4 DEF Iterates
  <2>6. k \in 0..n
    OBVIOUS
  <2> HIDE DEF it
  <2> QED
    BY <2>3, <2>5, <2>6
<1>3. \A k \in 0..n : k \in T
  <2> HIDE DEF T
  <2> QED
    BY <1>1, <1>2, Induction
<1>4. n \in T
  <2> HIDE DEF T
  <2> QED
    BY <1>3
<1> QED
  BY <1>4

\* Its values for 1..i are the intermediate results.
Unfolds(iter, F, A, base, n) ==
  /\ iter[{}] = base
  /\ \A i \in 1..n : iter[1..(i-1)] \in A => iter[1..i] = F[i][iter[1..(i-1)]]

TraceOf(iter, g, F, base, n) ==
  g[0] = base /\ g[n] = iter[1..n] /\ \A i \in 1..n : g[i] = F[i][g[i-1]]

\* A fold has the trace of its intermediate results.
LEMMA TraceExists ==
  ASSUME NEW n \in Nat, NEW A, NEW base \in A, NEW F \in [1..n -> [A -> A]], NEW iter,
         Unfolds(iter, F, A, base, n)
  PROVE  \E g \in [0..n -> A] : TraceOf(iter, g, F, base, n)
<1> DEFINE T == {i \in 0..n : iter[1..i] \in A}
           g == [i \in 0..n |-> iter[1..i]]
<1>1. 1..0 = {}
  OBVIOUS
<1>2. 0 \in T
  BY <1>1 DEF Unfolds
<1>3. ASSUME NEW i \in 1..n, i - 1 \in T PROVE i \in T
  BY <1>3 DEF Unfolds
<1>4. \A i \in 0..n : i \in T
  <2> HIDE DEF T
  <2> QED
    BY <1>2, <1>3, Induction
<1>5. g \in [0..n -> A] /\ g[0] = base /\ g[n] = iter[1..n]
  BY <1>1, <1>4 DEF Unfolds
<1>6. \A i \in 1..n : g[i] = F[i][g[i-1]]
  BY <1>4 DEF Unfolds
<1>7. TraceOf(iter, g, F, base, n)
  BY <1>5, <1>6 DEF TraceOf
<1> HIDE DEF g
<1> QED
  BY <1>5, <1>7

\* The first i indices.
LEMMA UpTo ==
  ASSUME NEW n \in Nat, NEW i \in 1..n
  PROVE  Max(1..i) = i /\ (1..i) \ {i} = 1..(i-1) /\ 1..i # {} /\ 1..i \in SUBSET (1..n)
<1>1. 1..i \in SUBSET (1..i) /\ i \in 1..i /\ i \in Nat
  OBVIOUS
<1>2. Max(1..i) = i
  BY <1>1, HighestIs
<1>3. (1..i) \ {i} = 1..(i-1)
  OBVIOUS
<1>4. 1..i \in SUBSET (1..n)
  OBVIOUS
<1> QED
  BY <1>1, <1>2, <1>3, <1>4

\* The intermediate results of Keep.
Keeps(g, s, K) ==
  /\ g[0] = <<>> /\ g[Len(s)] = Keep(s, K)
  /\ \A i \in 1..Len(s) : g[i] = IF s[i] \in K THEN Append(g[i-1], s[i]) ELSE g[i-1]

\* Keep has them, and they are sequences of the same elements.
LEMMA KeepTrace ==
  ASSUME NEW S, NEW s \in Seq(S), NEW K
  PROVE  \E g \in [0..Len(s) -> Seq(S)] : Keeps(g, s, K)
<1> DEFINE n == Len(s)
           A == Seq(S)
           F == [i \in 1..n |-> [a \in A |-> IF s[i] \in K THEN Append(a, s[i]) ELSE a]]
           E(it) == it = [t \in SUBSET DOMAIN s |->
                             IF t = {} THEN <<>>
                             ELSE IF s[Max(t)] \in K THEN Append(it[t \ {Max(t)}], s[Max(t)])
                             ELSE it[t \ {Max(t)}]]
           iter == CHOOSE it : E(it)
<1>1. n \in Nat /\ DOMAIN s = 1..n /\ <<>> \in A /\ F \in [1..n -> [A -> A]]
  OBVIOUS
<1>2. PICK it \in [SUBSET (1..n) -> A] : Iterates(it, F, <<>>, n)
  <2> HIDE DEF F, A, n
  <2> QED
    BY <1>1, IterationExists
<1>3. E(it)
  <2>1. ASSUME NEW t \in SUBSET (1..n)
        PROVE it[t] = IF t = {} THEN <<>>
                      ELSE IF s[Max(t)] \in K THEN Append(it[t \ {Max(t)}], s[Max(t)])
                      ELSE it[t \ {Max(t)}]
    <3>1. t # {} => Max(t) \in t
      BY MaxIn, <1>1
    <3>2. it[t] = IF t = {} THEN <<>> ELSE F[Max(t)][it[t \ {Max(t)}]]
      BY <1>2 DEF Iterates
    <3> QED
      BY <3>1, <3>2
  <2> QED
    BY <2>1, <1>1, <1>2
<1>4. E(iter)
  <2> HIDE DEF E
  <2> QED
    BY <1>3
<1>5. Keep(s, K) = iter[1..n]
  BY <1>1 DEF Keep, FoldLeft, MapThenFoldSet
<1>6. \A t \in SUBSET (1..n) : iter[t] = IF t = {} THEN <<>>
                      ELSE IF s[Max(t)] \in K THEN Append(iter[t \ {Max(t)}], s[Max(t)])
                      ELSE iter[t \ {Max(t)}]
  <2> HIDE DEF iter
  <2> QED
    BY <1>1, <1>4
<1>7. iter[{}] = <<>>
  <2> HIDE DEF iter, n
  <2> QED
    BY <1>6
<1>8. ASSUME NEW i \in 1..n, iter[1..(i-1)] \in A PROVE iter[1..i] = F[i][iter[1..(i-1)]]
  <2>1. Max(1..i) = i /\ (1..i) \ {i} = 1..(i-1) /\ 1..i # {} /\ 1..i \in SUBSET (1..n)
    BY <1>1, UpTo
  <2> HIDE DEF iter, n, A
  <2> QED
    BY <1>6, <1>8, <2>1
<1>9. Unfolds(iter, F, A, <<>>, n)
  <2> HIDE DEF iter, n, A, F
  <2> QED
    BY <1>7, <1>8 DEF Unfolds
<1>10. PICK g \in [0..n -> A] : TraceOf(iter, g, F, <<>>, n)
  <2> HIDE DEF iter, n, A, F
  <2> QED
    BY <1>1, <1>9, TraceExists
<1>11. ASSUME NEW i \in 1..n
       PROVE  g[i] = IF s[i] \in K THEN Append(g[i-1], s[i]) ELSE g[i-1]
  <2>1. g[i-1] \in A
    OBVIOUS
  <2>2. g[i] = F[i][g[i-1]]
    <3> HIDE DEF F, iter
    <3> QED
      BY <1>10 DEF TraceOf
  <2> HIDE DEF A, n, iter
  <2> QED
    BY <2>1, <2>2
<1>12. g[0] = <<>> /\ g[n] = iter[1..n]
  <2> HIDE DEF F, iter
  <2> QED
    BY <1>10 DEF TraceOf
<1>13. Keeps(g, s, K)
  <2> HIDE DEF iter
  <2> QED
    BY <1>5, <1>11, <1>12 DEF Keeps
<1> QED
  BY <1>10, <1>13

-----------------------------------------------------------------------------
(* How many elements of a sequence are in a set W: none, or one.           *)

NoneOf(s, W) == \A i \in DOMAIN s : s[i] \notin W
OneOf(s, W) == \E i \in DOMAIN s : s[i] \in W /\ \A j \in DOMAIN s : j # i => s[j] \notin W

\* What the intermediate results have in common, all of them have.
LEMMA OnTrace ==
  ASSUME NEW n \in Nat, NEW g, NEW T, g[0] \in T, \A i \in 1..n : g[i-1] \in T => g[i] \in T
  PROVE  g[n] \in T
<1> DEFINE U == {i \in 0..n : g[i] \in T}
<1>1. 0 \in U
  OBVIOUS
<1>2. ASSUME NEW i \in 1..n, i - 1 \in U PROVE i \in U
  BY <1>2
<1>3. \A i \in 0..n : i \in U
  <2> HIDE DEF U
  <2> QED
    BY <1>1, <1>2, Induction
<1> QED
  BY <1>3

\* One more element.
LEMMA AppendCounts ==
  ASSUME NEW S, NEW s \in Seq(S), NEW x \in S, NEW W
  PROVE  /\ NoneOf(s, W) /\ x \notin W => NoneOf(Append(s, x), W)
         /\ NoneOf(s, W) /\ x \in W => OneOf(Append(s, x), W)
         /\ OneOf(s, W) /\ x \notin W => OneOf(Append(s, x), W)
<1> DEFINE t == Append(s, x)
           n == Len(s)
<1>1. n \in Nat /\ DOMAIN s = 1..n /\ DOMAIN t = 1..(n+1) /\ t[n+1] = x
  OBVIOUS
<1>2. \A i \in 1..n : t[i] = s[i]
  OBVIOUS
<1>3. 1..(n+1) = (1..n) \cup {n+1} /\ n+1 \notin 1..n
  BY <1>1
<1> HIDE DEF t, n
<1>4. NoneOf(s, W) /\ x \notin W => NoneOf(t, W)
  BY <1>1, <1>2, <1>3 DEF NoneOf
<1>5. NoneOf(s, W) /\ x \in W => OneOf(t, W)
  BY <1>1, <1>2, <1>3 DEF NoneOf, OneOf
<1>6. OneOf(s, W) /\ x \notin W => OneOf(t, W)
  BY <1>1, <1>2, <1>3 DEF OneOf
<1> QED
  BY <1>4, <1>5, <1>6 DEF t

\* Two sequences.
LEMMA ConcatCounts ==
  ASSUME NEW S, NEW s \in Seq(S), NEW u \in Seq(S), NEW W
  PROVE  /\ NoneOf(s, W) /\ NoneOf(u, W) => NoneOf(s \o u, W)
         /\ NoneOf(s, W) /\ OneOf(u, W) => OneOf(s \o u, W)
         /\ OneOf(s, W) /\ NoneOf(u, W) => OneOf(s \o u, W)
<1> DEFINE t == s \o u
           n == Len(s)
           m == Len(u)
<1>1. n \in Nat /\ m \in Nat /\ DOMAIN s = 1..n /\ DOMAIN u = 1..m /\ DOMAIN t = 1..(n+m)
  OBVIOUS
<1>2. \A i \in 1..n : t[i] = s[i]
  OBVIOUS
<1>3. \A i \in 1..m : t[n+i] = u[i]
  OBVIOUS
<1>4. \A i \in 1..(n+m) : i \in 1..n \/ (i - n \in 1..m /\ i = n + (i-n))
  BY <1>1
<1>5. \A i \in 1..n : i \in 1..(n+m)
  BY <1>1
<1>6. \A i \in 1..m : n+i \in 1..(n+m) /\ n+i \notin 1..n
  BY <1>1
<1> HIDE DEF t, n, m
<1>7. NoneOf(s, W) /\ NoneOf(u, W) => NoneOf(t, W)
  <2> SUFFICES ASSUME NoneOf(s, W), NoneOf(u, W), NEW j \in 1..(n+m) PROVE t[j] \notin W
    BY <1>1 DEF NoneOf
  <2>1. CASE j \in 1..n
    BY <2>1, <1>1, <1>2 DEF NoneOf
  <2>2. CASE j - n \in 1..m /\ j = n + (j-n)
    BY <2>2, <1>1, <1>3 DEF NoneOf
  <2> QED
    BY <1>4, <2>1, <2>2
<1>8. NoneOf(s, W) /\ OneOf(u, W) => OneOf(t, W)
  <2> SUFFICES ASSUME NoneOf(s, W), OneOf(u, W) PROVE OneOf(t, W)
    OBVIOUS
  <2>1. PICK i \in 1..m : u[i] \in W /\ \A j \in 1..m : j # i => u[j] \notin W
    BY <1>1 DEF OneOf
  <2>2. t[n+i] \in W /\ n+i \in 1..(n+m)
    BY <2>1, <1>3, <1>6
  <2>3. ASSUME NEW j \in 1..(n+m), j # n+i PROVE t[j] \notin W
    <3>1. CASE j \in 1..n
      BY <3>1, <1>1, <1>2 DEF NoneOf
    <3>2. CASE j - n \in 1..m /\ j = n + (j-n)
      <4>1. j - n # i
        BY <2>3, <3>2
      <4>2. t[j] = u[j-n]
        BY <1>3, <3>2
      <4> QED
        BY <2>1, <3>2, <4>1, <4>2
    <3> QED
      BY <1>4, <3>1, <3>2
  <2> QED
    BY <1>1, <2>2, <2>3 DEF OneOf
<1>9. OneOf(s, W) /\ NoneOf(u, W) => OneOf(t, W)
  <2> SUFFICES ASSUME OneOf(s, W), NoneOf(u, W) PROVE OneOf(t, W)
    OBVIOUS
  <2>1. PICK i \in 1..n : s[i] \in W /\ \A j \in 1..n : j # i => s[j] \notin W
    BY <1>1 DEF OneOf
  <2>2. t[i] \in W /\ i \in 1..(n+m)
    BY <2>1, <1>2, <1>5
  <2>3. ASSUME NEW j \in 1..(n+m), j # i PROVE t[j] \notin W
    <3>1. CASE j \in 1..n
      BY <3>1, <1>2, <2>1, <2>3
    <3>2. CASE j - n \in 1..m /\ j = n + (j-n)
      BY <3>2, <1>1, <1>3 DEF NoneOf
    <3> QED
      BY <1>4, <3>1, <3>2
  <2> QED
    BY <1>1, <2>2, <2>3 DEF OneOf
<1> QED
  BY <1>7, <1>8, <1>9 DEF t

\* What is kept.
LEMMA KeepIn ==
  ASSUME NEW S, NEW s \in Seq(S), NEW K
  PROVE  Keep(s, K) \in Seq(S \cap K)
<1> DEFINE n == Len(s)
           T == Seq(S \cap K)
<1>1. PICK g \in [0..n -> Seq(S)] : Keeps(g, s, K)
  BY KeepTrace
<1>2. n \in Nat /\ g[0] \in T
  BY <1>1 DEF Keeps
<1>3. ASSUME NEW i \in 1..n, g[i-1] \in T PROVE g[i] \in T
  <2>1. g[i] = IF s[i] \in K THEN Append(g[i-1], s[i]) ELSE g[i-1]
    BY <1>1 DEF Keeps
  <2>2. s[i] \in S
    OBVIOUS
  <2> QED
    BY <1>3, <2>1, <2>2
<1>4. g[n] \in T
  <2>1. \A i \in 1..n : g[i-1] \in T => g[i] \in T
    BY <1>3
  <2> HIDE DEF T, n
  <2> QED
    BY <1>2, <2>1, OnTrace
<1> QED
  BY <1>1, <1>4 DEF Keeps

\* Keep loses nothing of K.
LEMMA KeepSome ==
  ASSUME NEW S, NEW s \in Seq(S), NEW K, NEW k \in DOMAIN s, s[k] \in K
  PROVE  Keep(s, K) # <<>>
<1> DEFINE n == Len(s)
<1>0. n \in Nat /\ k \in 1..n
  OBVIOUS
<1>1. PICK g \in [0..n -> Seq(S)] : Keeps(g, s, K)
  BY KeepTrace
<1> DEFINE T == {i \in 0..n : i >= k => g[i] # <<>>}
<1>2. 0 \in T
  BY <1>0
<1>3. ASSUME NEW i \in 1..n, i-1 \in T PROVE i \in T
  <2>1. g[i-1] \in Seq(S) /\ s[i] \in S
    OBVIOUS
  <2>2. g[i] = IF s[i] \in K THEN Append(g[i-1], s[i]) ELSE g[i-1]
    BY <1>1 DEF Keeps
  <2>3. Append(g[i-1], s[i]) # <<>>
    BY <2>1
  <2>4. CASE s[i] \in K
    BY <2>2, <2>3, <2>4
  <2>5. CASE s[i] \notin K
    <3>1. i # k /\ g[i] = g[i-1]
      BY <2>2, <2>5
    <3> QED
      BY <1>0, <1>3, <3>1
  <2> QED
    BY <2>4, <2>5
<1>4. \A i \in 0..n : i \in T
  <2> HIDE DEF T
  <2> QED
    BY <1>0, <1>2, <1>3, Induction
<1>5. n \in T
  <2> HIDE DEF T
  <2> QED
    BY <1>0, <1>4
<1> QED
  BY <1>0, <1>1, <1>5 DEF Keeps

\* What is kept of W.
LEMMA KeepCounts ==
  ASSUME NEW S, NEW s \in Seq(S), NEW K, NEW W
  PROVE  /\ NoneOf(s, W \cap K) => NoneOf(Keep(s, K), W)
         /\ OneOf(s, W \cap K) => OneOf(Keep(s, K), W)
<1> DEFINE n == Len(s)
<1>0. n \in Nat /\ DOMAIN s = 1..n
  OBVIOUS
<1>1. PICK g \in [0..n -> Seq(S)] : Keeps(g, s, K)
  BY KeepTrace
<1>2. ASSUME NEW i \in 1..n
      PROVE  /\ g[i-1] \in Seq(S) /\ s[i] \in S
             /\ g[i] = IF s[i] \in K THEN Append(g[i-1], s[i]) ELSE g[i-1]
  <2>1. i - 1 \in 0..n
    BY <1>0
  <2>2. g[i-1] \in Seq(S) /\ s[i] \in S
    BY <2>1
  <2>3. g[i] = IF s[i] \in K THEN Append(g[i-1], s[i]) ELSE g[i-1]
    BY <1>1 DEF Keeps
  <2> QED
    BY <2>2, <2>3
<1>3. ASSUME NEW i \in 1..n
      PROVE  /\ s[i] \notin W \cap K /\ NoneOf(g[i-1], W) => NoneOf(g[i], W)
             /\ s[i] \notin W \cap K /\ OneOf(g[i-1], W) => OneOf(g[i], W)
             /\ s[i] \in W \cap K /\ NoneOf(g[i-1], W) => OneOf(g[i], W)
  <2> HIDE DEF n
  <2>1. CASE s[i] \in K
    <3>1. g[i] = Append(g[i-1], s[i])
      BY <1>2, <2>1
    <3> QED
      BY <1>2, <2>1, <3>1, AppendCounts
  <2>2. CASE s[i] \notin K
    BY <1>2, <2>2
  <2> QED
    BY <2>1, <2>2
<1>4. NoneOf(g[0], W)
  BY <1>1 DEF Keeps, NoneOf
<1>5. ASSUME NoneOf(s, W \cap K) PROVE NoneOf(g[n], W)
  <2> DEFINE T == {i \in 0..n : NoneOf(g[i], W)}
  <2>1. 0 \in T
    BY <1>0, <1>4
  <2>2. ASSUME NEW i \in 1..n, i-1 \in T PROVE i \in T
    <3>1. s[i] \notin W \cap K
      BY <1>0, <1>5 DEF NoneOf
    <3> QED
      BY <1>3, <2>2, <3>1
  <2>3. \A i \in 0..n : i \in T
    <3> HIDE DEF T
    <3> QED
      BY <1>0, <2>1, <2>2, Induction
  <2> QED
    BY <1>0, <2>3
<1>6. ASSUME OneOf(s, W \cap K) PROVE OneOf(g[n], W)
  <2>1. PICK k \in 1..n : s[k] \in W \cap K /\ \A j \in 1..n : j # k => s[j] \notin W \cap K
    BY <1>0, <1>6 DEF OneOf
  <2> DEFINE T == {i \in 0..n : (i < k => NoneOf(g[i], W)) /\ (i >= k => OneOf(g[i], W))}
  <2>2. 0 \in T
    BY <1>0, <1>4, <2>1
  <2>3. ASSUME NEW i \in 1..n, i-1 \in T PROVE i \in T
    <3>1. CASE i < k
      <4>1. NoneOf(g[i-1], W) /\ s[i] \notin W \cap K
        BY <1>0, <2>1, <2>3, <3>1
      <4> QED
        BY <1>0, <1>3, <3>1, <4>1
    <3>2. CASE i = k
      <4>1. NoneOf(g[i-1], W) /\ s[i] \in W \cap K
        BY <1>0, <2>1, <2>3, <3>2
      <4> QED
        BY <1>0, <1>3, <3>2, <4>1
    <3>3. CASE i > k
      <4>1. OneOf(g[i-1], W) /\ s[i] \notin W \cap K
        BY <1>0, <2>1, <2>3, <3>3
      <4> QED
        BY <1>0, <1>3, <3>3, <4>1
    <3> QED
      BY <1>0, <3>1, <3>2, <3>3
  <2>4. \A i \in 0..n : i \in T
    <3> HIDE DEF T
    <3> QED
      BY <1>0, <2>2, <2>3, Induction
  <2> QED
    BY <1>0, <2>1, <2>4
<1> QED
  BY <1>1, <1>5, <1>6 DEF Keeps

\* The intermediate results of FlattenSeq.
Flattens(g, ss) ==
  /\ g[0] = <<>> /\ g[Len(ss)] = FlattenSeq(ss)
  /\ \A i \in 1..Len(ss) : g[i] = g[i-1] \o ss[i]

\* FlattenSeq has them, and they are sequences of the same elements.
LEMMA FlattenTrace ==
  ASSUME NEW S, NEW ss \in Seq(Seq(S))
  PROVE  \E g \in [0..Len(ss) -> Seq(S)] : Flattens(g, ss)
<1> DEFINE n == Len(ss)
           A == Seq(S)
           F == [i \in 1..n |-> [a \in A |-> a \o ss[i]]]
           E(f) == f = [i \in 1..n |-> IF i = 1 THEN ss[i] ELSE f[i-1] \o ss[i]]
           flat == CHOOSE f : E(f)
<1>1. n \in Nat /\ DOMAIN ss = 1..n /\ <<>> \in A /\ F \in [1..n -> [A -> A]]
  OBVIOUS
<1>2. PICK it \in [SUBSET (1..n) -> A] : Iterates(it, F, <<>>, n)
  <2> HIDE DEF F, A, n
  <2> QED
    BY <1>1, IterationExists
<1>3. Unfolds(it, F, A, <<>>, n)
  <2>1. it[{}] = <<>>
    <3> HIDE DEF F, n
    <3> QED
      BY <1>2 DEF Iterates
  <2>2. ASSUME NEW i \in 1..n PROVE it[1..i] = F[i][it[1..(i-1)]]
    <3>1. Max(1..i) = i /\ (1..i) \ {i} = 1..(i-1) /\ 1..i # {} /\ 1..i \in SUBSET (1..n)
      BY <1>1, UpTo
    <3> HIDE DEF F, n
    <3> QED
      BY <1>2, <3>1 DEF Iterates
  <2> HIDE DEF F, n
  <2> QED
    BY <2>1, <2>2 DEF Unfolds
<1>4. PICK g \in [0..n -> A] : TraceOf(it, g, F, <<>>, n)
  <2> HIDE DEF n, A, F
  <2> QED
    BY <1>1, <1>3, TraceExists
<1>5. g[0] = <<>>
  BY <1>4 DEF TraceOf
<1>6. ASSUME NEW i \in 1..n PROVE g[i-1] \in A /\ ss[i] \in A /\ g[i] = g[i-1] \o ss[i]
  <2>0. i - 1 \in 0..n
    BY <1>1
  <2>1. g[i-1] \in A /\ ss[i] \in A
    <3> HIDE DEF A
    <3>1. ss \in Seq(A)
      BY DEF A
    <3>2. ss[i] \in A
      BY <3>1
    <3>3. g[i-1] \in A
      <4> HIDE DEF n
      <4> QED
        BY <2>0
    <3> QED
      BY <3>2, <3>3
  <2>2. g[i] = F[i][g[i-1]]
    <3> HIDE DEF F
    <3> QED
      BY <1>4 DEF TraceOf
  <2> HIDE DEF A
  <2> QED
    BY <2>1, <2>2
<1>7. CASE n = 0
  <2>1. FlattenSeq(ss) = <<>>
    BY <1>7 DEF FlattenSeq
  <2>2. Flattens(g, ss)
    BY <1>5, <1>7, <2>1 DEF Flattens
  <2> QED
    BY <2>2
<1>8. CASE n # 0
  <2> DEFINE h == [i \in 1..n |-> g[i]]
  <2>1. E(h)
    <3>1. ASSUME NEW i \in 1..n PROVE h[i] = IF i = 1 THEN ss[i] ELSE h[i-1] \o ss[i]
      <4>1. CASE i = 1
        <5>1. g[i] = <<>> \o ss[i] /\ ss[i] \in Seq(S)
          <6>1. i - 1 = 0
            BY <4>1
          <6> QED
            BY <1>5, <1>6, <6>1
        <5> QED
          BY <4>1, <5>1
      <4>2. CASE i # 1
        <5>1. i - 1 \in 1..n
          BY <1>1, <4>2
        <5>2. h[i-1] = g[i-1]
          BY <5>1
        <5> QED
          BY <1>6, <4>2, <5>2
      <4> QED
        BY <4>1, <4>2
    <3> QED
      BY <3>1
  <2>2. E(flat)
    <3> HIDE DEF E, h
    <3> QED
      BY <2>1
  <2>3. FlattenSeq(ss) = flat[n]
    BY <1>8 DEF FlattenSeq
  <2>4. \A i \in 1..n : flat[i] = IF i = 1 THEN ss[i] ELSE flat[i-1] \o ss[i]
    <3> HIDE DEF flat, n
    <3> QED
      BY <2>2
  <2> DEFINE T == {i \in 0..n : i # 0 => flat[i] = g[i]}
  <2> HIDE DEF flat
  <2>5. 0 \in T
    BY <1>1
  <2>6. ASSUME NEW i \in 1..n, i-1 \in T PROVE i \in T
    <3>1. CASE i = 1
      <4>1. g[i] = <<>> \o ss[i] /\ ss[i] \in Seq(S)
        <5>1. i - 1 = 0
          BY <3>1
        <5> QED
          BY <1>5, <1>6, <5>1
      <4> QED
        BY <2>4, <3>1, <4>1
    <3>2. CASE i # 1
      <4>1. flat[i-1] = g[i-1]
        BY <1>1, <2>6, <3>2
      <4>2. flat[i] = flat[i-1] \o ss[i]
        BY <2>4, <3>2
      <4>3. g[i] = g[i-1] \o ss[i]
        BY <1>6
      <4>4. flat[i] = g[i] /\ i \in 0..n
        BY <4>1, <4>2, <4>3
      <4> QED
        BY <4>4
    <3> QED
      BY <3>1, <3>2
  <2>7. \A i \in 0..n : i \in T
    <3> HIDE DEF T
    <3> QED
      BY <1>1, <2>5, <2>6, Induction
  <2>8. flat[n] = g[n]
    BY <1>1, <1>8, <2>7
  <2>9. Flattens(g, ss)
    BY <1>5, <1>6, <2>3, <2>8 DEF Flattens
  <2> QED
    BY <2>9
<1> QED
  BY <1>7, <1>8

\* The elements of a flattened sequence are those of its parts.
LEMMA FlattenIn ==
  ASSUME NEW S, NEW ss \in Seq(Seq(S))
  PROVE  FlattenSeq(ss) \in Seq(S)
<1>1. PICK g \in [0..Len(ss) -> Seq(S)] : Flattens(g, ss)
  BY FlattenTrace
<1>2. Len(ss) \in 0..Len(ss)
  OBVIOUS
<1> QED
  BY <1>1, <1>2 DEF Flattens

\* What flattens to nothing has nothing in its parts.
LEMMA FlattenSome ==
  ASSUME NEW S, NEW ss \in Seq(Seq(S)), NEW k \in DOMAIN ss, ss[k] # <<>>
  PROVE  FlattenSeq(ss) # <<>>
<1> DEFINE n == Len(ss)
<1>0. n \in Nat /\ k \in 1..n /\ DOMAIN ss = 1..n
  OBVIOUS
<1>1. PICK g \in [0..n -> Seq(S)] : Flattens(g, ss)
  BY FlattenTrace
<1> DEFINE T == {i \in 0..n : i >= k => g[i] # <<>>}
<1>2. 0 \in T
  BY <1>0
<1>3. ASSUME NEW i \in 1..n, i-1 \in T PROVE i \in T
  <2>0. i - 1 \in 0..n
    BY <1>0
  <2>1. g[i-1] \in Seq(S)
    BY <2>0
  <2>2. ss[i] \in Seq(S)
    <3> DEFINE Q == Seq(S)
    <3> HIDE DEF Q
    <3>1. ss \in Seq(Q)
      BY DEF Q
    <3>2. ss[i] \in Q
      BY <1>0, <3>1
    <3> QED
      BY <3>2 DEF Q
  <2>3. g[i] = g[i-1] \o ss[i]
    BY <1>1 DEF Flattens
  <2>4. g[i-1] # <<>> \/ ss[i] # <<>> => g[i] # <<>>
    BY <2>1, <2>2, <2>3
  <2>5. i >= k => i = k \/ i - 1 >= k
    BY <1>0
  <2> QED
    BY <1>3, <2>4, <2>5
<1>4. \A i \in 0..n : i \in T
  <2> HIDE DEF T
  <2> QED
    BY <1>0, <1>2, <1>3, Induction
<1>5. n \in T
  <2> HIDE DEF T
  <2> QED
    BY <1>0, <1>4
<1> QED
  BY <1>0, <1>1, <1>5 DEF Flattens

\* What of W is in the flattened sequence.
LEMMA FlattenCounts ==
  ASSUME NEW S, NEW ss \in Seq(Seq(S)), NEW W
  PROVE  /\ (\A i \in DOMAIN ss : NoneOf(ss[i], W)) => NoneOf(FlattenSeq(ss), W)
         /\ (\E k \in DOMAIN ss : /\ OneOf(ss[k], W)
                                  /\ \A j \in DOMAIN ss : j # k => NoneOf(ss[j], W))
                => OneOf(FlattenSeq(ss), W)
<1> DEFINE n == Len(ss)
<1>0. n \in Nat /\ DOMAIN ss = 1..n
  OBVIOUS
<1>1. PICK g \in [0..n -> Seq(S)] : Flattens(g, ss)
  BY FlattenTrace
<1>2. ASSUME NEW i \in 1..n
      PROVE  g[i-1] \in Seq(S) /\ ss[i] \in Seq(S) /\ g[i] = g[i-1] \o ss[i]
  <2>0. i - 1 \in 0..n
    BY <1>0
  <2>1. g[i-1] \in Seq(S)
    BY <2>0
  <2>2. ss[i] \in Seq(S)
    <3> DEFINE Q == Seq(S)
    <3> HIDE DEF Q
    <3>1. ss \in Seq(Q)
      BY DEF Q
    <3>2. ss[i] \in Q
      BY <1>0, <3>1
    <3> QED
      BY <3>2 DEF Q
  <2>3. g[i] = g[i-1] \o ss[i]
    BY <1>1 DEF Flattens
  <2> QED
    BY <2>1, <2>2, <2>3
<1>3. ASSUME NEW i \in 1..n
      PROVE  /\ NoneOf(ss[i], W) /\ NoneOf(g[i-1], W) => NoneOf(g[i], W)
             /\ NoneOf(ss[i], W) /\ OneOf(g[i-1], W) => OneOf(g[i], W)
             /\ OneOf(ss[i], W) /\ NoneOf(g[i-1], W) => OneOf(g[i], W)
  <2> HIDE DEF n
  <2> QED
    BY <1>2, ConcatCounts
<1>4. NoneOf(g[0], W)
  BY <1>1 DEF Flattens, NoneOf
<1>5. ASSUME \A i \in DOMAIN ss : NoneOf(ss[i], W) PROVE NoneOf(g[n], W)
  <2> DEFINE T == {i \in 0..n : NoneOf(g[i], W)}
  <2>1. 0 \in T
    BY <1>0, <1>4
  <2>2. ASSUME NEW i \in 1..n, i-1 \in T PROVE i \in T
    <3>1. NoneOf(ss[i], W)
      BY <1>0, <1>5
    <3>2. NoneOf(g[i-1], W)
      BY <2>2
    <3>3. NoneOf(g[i], W)
      BY <1>3, <3>1, <3>2
    <3> QED
      BY <1>0, <3>3
  <2>3. \A i \in 0..n : i \in T
    <3> HIDE DEF T
    <3> QED
      BY <1>0, <2>1, <2>2, Induction
  <2> QED
    BY <1>0, <2>3
<1>6. ASSUME NEW k \in 1..n, OneOf(ss[k], W), \A j \in 1..n : j # k => NoneOf(ss[j], W)
      PROVE  OneOf(g[n], W)
  <2> DEFINE T == {i \in 0..n : (i < k => NoneOf(g[i], W)) /\ (i >= k => OneOf(g[i], W))}
  <2>2. 0 \in T
    BY <1>0, <1>4
  <2>3. ASSUME NEW i \in 1..n, i-1 \in T PROVE i \in T
    <3>1. CASE i < k
      <4>1. NoneOf(g[i-1], W) /\ NoneOf(ss[i], W)
        BY <1>0, <1>6, <2>3, <3>1
      <4> QED
        BY <1>0, <1>3, <3>1, <4>1
    <3>2. CASE i = k
      <4>1. NoneOf(g[i-1], W) /\ OneOf(ss[i], W)
        BY <1>0, <1>6, <2>3, <3>2
      <4> QED
        BY <1>0, <1>3, <3>2, <4>1
    <3>3. CASE i > k
      <4>1. OneOf(g[i-1], W) /\ NoneOf(ss[i], W)
        BY <1>0, <1>6, <2>3, <3>3
      <4>2. OneOf(g[i], W)
        BY <1>3, <4>1
      <4>3. i \in 0..n /\ ~(i < k)
        BY <1>0, <3>3
      <4> QED
        BY <4>2, <4>3
    <3> QED
      BY <1>0, <3>1, <3>2, <3>3
  <2>4. \A i \in 0..n : i \in T
    <3> HIDE DEF T
    <3> QED
      BY <1>0, <2>2, <2>3, Induction
  <2> QED
    BY <1>0, <2>4
<1>7. g[n] = FlattenSeq(ss)
  BY <1>1 DEF Flattens
<1> HIDE DEF n
<1> QED
  BY <1>0, <1>5, <1>6, <1>7

-----------------------------------------------------------------------------
(* Forks of dependencies.  G is a set of environments that is closed under *)
(* what the step at hand does to an environment.                           *)

Dependencies ==
    [name : Names, kind : Kinds, marker : SUBSET Places, range : SUBSET Versions,
     parent : BOOLEAN]
Forks == [env : Envs, deps : Seq(Dependencies), index : SUBSET Items]
ForksIn(G) == {f \in Forks : f.env \in G}
Narrows(G) ==
    /\ G \subseteq Envs
    /\ \A e \in G, marker \in SUBSET Places : e.markers \cap marker # {} => Narrow(e, marker) \in G

\* The forks that are for a world.
Covering(m, A) == {f \in Forks : Covers(f.env, m, A)}

\* The environment on one side of a marker.
LEMMA NarrowIs ==
  ASSUME NEW e \in Envs, NEW marker \in SUBSET Places
  PROVE  /\ Narrow(e, marker) \in Envs
         /\ Narrow(e, marker).markers = e.markers \cap marker
         /\ Narrow(e, marker).include = e.include
         /\ Narrow(e, marker).exclude = e.exclude
BY DEF Narrow, Envs

\* A dependency leaves the environment alone.
LEMMA AddDependencyIs ==
  ASSUME NEW f \in Forks, NEW dep \in Dependencies
  PROVE  AddDependency(f, dep) \in Forks /\ AddDependency(f, dep).env = f.env
<1>1. Item(dep) \in Items
  BY DEF Item, Items, Dependencies
<1> DEFINE D == Dependencies
<1>2. dep \in D /\ f.deps \in Seq(D) /\ f.index \in SUBSET Items /\ f.env \in Envs
  BY DEF Forks
<1> DEFINE deps == Append(f.deps, dep)
           index == f.index \cup {Item(dep)}
<1>3. AddDependency(f, dep) = [f EXCEPT !.deps = deps, !.index = index]
  BY DEF AddDependency
<1>4. deps \in Seq(D) /\ index \in SUBSET Items
  <2> HIDE DEF D
  <2> QED
    BY <1>1, <1>2
<1> HIDE DEF deps, index
<1> QED
  BY <1>3, <1>4 DEF Forks

\* What is retained is for the new environment.
LEMMA RetainIs ==
  ASSUME NEW f \in Forks, NEW env \in Envs, NEW keep
  PROVE  Retain(f, env, keep) \in Forks /\ Retain(f, env, keep).env = env
<1> DEFINE D == Dependencies
<1>1. f.deps \in Seq(D) /\ f.index \in SUBSET Items
  BY DEF Forks
<1>2. Keep(f.deps, keep) \in Seq(D \cap keep)
  <2> HIDE DEF D
  <2> QED
    BY <1>1, KeepIn
<1>3. Keep(f.deps, keep) \in Seq(D)
  <2> HIDE DEF D
  <2> QED
    BY <1>2
<1> QED
  BY <1>1, <1>3 DEF Forks, Retain

\* The part of a fork where a marker holds.
LEMMA PlaceIs ==
  ASSUME NEW f \in Forks, NEW marker \in SUBSET Places, NEW dep \in Dependencies
  PROVE  Place(f, marker, dep) \in Forks /\ Place(f, marker, dep).env = Narrow(f.env, marker)
<1> DEFINE new == SetEnv(f, Narrow(f.env, marker))
<1>1. Narrow(f.env, marker) \in Envs
  BY NarrowIs DEF Forks
<1>2. new \in Forks /\ new.env = Narrow(f.env, marker)
  BY <1>1, RetainIs DEF SetEnv
<1> HIDE DEF new
<1>3. AddDependency(new, dep) \in Forks /\ AddDependency(new, dep).env = new.env
  BY <1>2, AddDependencyIs
<1> QED
  BY <1>2, <1>3 DEF Place, new

\* The two sides of a marker.
LEMMA SidesIn ==
  ASSUME NEW G, Narrows(G), NEW f \in ForksIn(G), NEW marker \in SUBSET Places,
         NEW dep \in Dependencies, NEW python
  PROVE  Sides(f, marker, dep, python) \in Seq(ForksIn(G))
<1> DEFINE R == ForksIn(G)
           new(k) == Place(f, k, dep)
           side(k) == IF IncludedByMarker(new(k).env, PythonMarker(python)) THEN <<new(k)>> ELSE <<>>
<1>1. f \in Forks /\ f.env \in G /\ f.env \in Envs
  BY DEF ForksIn, Narrows
<1>2. ASSUME NEW k \in SUBSET Places PROVE side(k) \in Seq(R)
  <2>1. new(k) \in Forks /\ new(k).env = Narrow(f.env, k)
    BY <1>1, PlaceIs
  <2>2. Narrow(f.env, k).markers = f.env.markers \cap k
    BY <1>1, NarrowIs
  <2>3. IncludedByMarker(new(k).env, PythonMarker(python)) => new(k) \in R
    BY <1>1, <2>1, <2>2 DEF IncludedByMarker, ForksIn, Narrows
  <2> HIDE DEF R, new
  <2> QED
    BY <2>3
<1>3. Places \ marker \in SUBSET Places
  OBVIOUS
<1>4. Sides(f, marker, dep, python)
        = (IF f.env.markers \subseteq marker THEN <<>> ELSE side(Places \ marker)) \o side(marker)
  BY DEF Sides
<1> HIDE DEF R, side
<1>5. side(Places \ marker) \in Seq(R) /\ side(marker) \in Seq(R)
  BY <1>2, <1>3
<1>6. CASE f.env.markers \subseteq marker
  <2>1. Sides(f, marker, dep, python) = <<>> \o side(marker)
    BY <1>4, <1>6
  <2> QED
    BY <1>5, <2>1 DEF R
<1>7. CASE ~(f.env.markers \subseteq marker)
  <2>1. Sides(f, marker, dep, python) = side(Places \ marker) \o side(marker)
    BY <1>4, <1>7
  <2> QED
    BY <1>5, <2>1 DEF R
<1> QED
  BY <1>6, <1>7

\* The two sides of a marker: which of them is for a world.
LEMMA SidesAre ==
  ASSUME NEW G, Narrows(G), NEW f \in ForksIn(G), NEW marker \in SUBSET Places,
         NEW dep \in Dependencies, NEW python \in SUBSET Pythons,
         NEW m \in Places, m[1] \in python, NEW A
  PROVE  /\ Sides(f, marker, dep, python) \in Seq(ForksIn(G))
         /\ f \notin Covering(m, A) => NoneOf(Sides(f, marker, dep, python), Covering(m, A))
         /\ f \in Covering(m, A) => OneOf(Sides(f, marker, dep, python), Covering(m, A))
<1> DEFINE W == Covering(m, A)
           R == ForksIn(G)
           new(k) == Place(f, k, dep)
           side(k) == IF IncludedByMarker(new(k).env, PythonMarker(python)) THEN <<new(k)>> ELSE <<>>
<1>1. f \in Forks /\ f.env \in G /\ f.env \in Envs
  BY DEF ForksIn, Narrows
<1>2. ASSUME NEW k \in SUBSET Places
      PROVE  /\ side(k) \in Seq(R)
             /\ f \notin W \/ m \notin k => NoneOf(side(k), W)
             /\ f \in W /\ m \in k => OneOf(side(k), W)
  <2>1. new(k) \in Forks /\ new(k).env = Narrow(f.env, k)
    BY <1>1, PlaceIs
  <2>2. Narrow(f.env, k).markers = f.env.markers \cap k
    BY <1>1, NarrowIs
  <2>3. IncludedByMarker(new(k).env, PythonMarker(python)) => new(k) \in R
    BY <1>1, <2>1, <2>2 DEF IncludedByMarker, ForksIn, Narrows
  <2>4. new(k) \in W <=> f \in W /\ m \in k
    BY <1>1, <2>1, <2>2, NarrowIs DEF Covering, Covers
  <2>5. f \in W /\ m \in k => IncludedByMarker(new(k).env, PythonMarker(python))
    <3>1. m \in PythonMarker(python)
      BY DEF PythonMarker, Places
    <3> QED
      BY <2>1, <2>2, <3>1 DEF IncludedByMarker, Covering, Covers
  <2> HIDE DEF W, R, new
  <2>6. side(k) \in Seq(R)
    BY <2>3
  <2>7. NoneOf(<<>>, W)
    BY DEF NoneOf
  <2>8. new(k) \notin W => NoneOf(<<new(k)>>, W)
    BY DEF NoneOf
  <2>9. new(k) \in W => OneOf(<<new(k)>>, W)
    BY DEF OneOf
  <2> QED
    BY <2>4, <2>5, <2>6, <2>7, <2>8, <2>9
<1>3. Places \ marker \in SUBSET Places
  OBVIOUS
<1>4. Sides(f, marker, dep, python)
        = (IF f.env.markers \subseteq marker THEN <<>> ELSE side(Places \ marker)) \o side(marker)
  BY DEF Sides
<1>5. f.env.markers \subseteq marker => (f \in W => m \in marker)
  BY DEF Covering, Covers
<1> HIDE DEF W, R, side
<1>6. CASE f.env.markers \subseteq marker
  <2>1. Sides(f, marker, dep, python) = side(marker)
    BY <1>2, <1>4, <1>6
  <2> QED
    BY <1>2, <1>5, <1>6, <2>1 DEF W, R
<1>7. CASE ~(f.env.markers \subseteq marker)
  <2>1. Sides(f, marker, dep, python) = side(Places \ marker) \o side(marker)
    BY <1>4, <1>7
  <2>2. side(Places \ marker) \in Seq(R) /\ side(marker) \in Seq(R)
    BY <1>2, <1>3
  <2>3. Sides(f, marker, dep, python) \in Seq(R)
    BY <2>1, <2>2
  <2>4. f \notin W => NoneOf(Sides(f, marker, dep, python), W)
    BY <1>2, <1>3, <2>1, <2>2, ConcatCounts
  <2>5. f \in W /\ m \in marker => OneOf(Sides(f, marker, dep, python), W)
    BY <1>2, <1>3, <2>1, <2>2, ConcatCounts
  <2>6. f \in W /\ m \notin marker => OneOf(Sides(f, marker, dep, python), W)
    BY <1>2, <1>3, <2>1, <2>2, ConcatCounts
  <2> QED
    BY <2>3, <2>4, <2>5, <2>6 DEF W, R
<1> QED
  BY <1>6, <1>7

\* The accumulator of the forks that a dependency makes.
Splits(G) == [marker : SUBSET Places, forks : Seq(ForksIn(G))]

\* One fork is split.
LEMMA SplitIs ==
  ASSUME NEW G, Narrows(G), NEW f \in ForksIn(G), NEW acc \in Splits(G),
         NEW dep \in Dependencies, NEW python
  PROVE  Split(acc, f, dep, python) \in Splits(G)
<1> DEFINE R == ForksIn(G)
           sides == Sides(f, acc.marker, dep, python)
           more == Append(acc.forks, f)
<1>1. acc.forks \in Seq(R) /\ acc.marker \in SUBSET Places /\ f \in R
  BY DEF Splits
<1>2. sides \in Seq(R)
  BY <1>1, SidesIn
<1>3. more \in Seq(R) /\ acc.forks \o sides \in Seq(R)
  <2> HIDE DEF R, sides
  <2> QED
    BY <1>1, <1>2
<1>4. [acc EXCEPT !.forks = more] \in Splits(G)
  <2> HIDE DEF more
  <2> QED
    BY <1>3 DEF Splits
<1>5. [marker |-> acc.marker \ f.env.markers, forks |-> acc.forks \o sides] \in Splits(G)
  <2> HIDE DEF sides
  <2> QED
    BY <1>1, <1>3 DEF Splits
<1> QED
  BY <1>4, <1>5 DEF Split

\* Afterwards, as many forks are for a world as before.
LEMMA SplitCounts ==
  ASSUME NEW G, Narrows(G), NEW f \in ForksIn(G), NEW acc \in Splits(G),
         NEW dep \in Dependencies, NEW python \in SUBSET Pythons,
         NEW m \in Places, m[1] \in python, NEW A
  PROVE  LET W == Covering(m, A)
             new == Split(acc, f, dep, python).forks
         IN  /\ f \notin W /\ NoneOf(acc.forks, W) => NoneOf(new, W)
             /\ f \notin W /\ OneOf(acc.forks, W) => OneOf(new, W)
             /\ f \in W /\ NoneOf(acc.forks, W) => OneOf(new, W)
<1> DEFINE R == ForksIn(G)
           W == Covering(m, A)
           sides == Sides(f, acc.marker, dep, python)
           new == Split(acc, f, dep, python).forks
<1>1. acc.forks \in Seq(R) /\ acc.marker \in SUBSET Places /\ f \in R
  BY DEF Splits
<1>2. CASE IncludedByMarker(f.env, acc.marker)
  <2>1. new = acc.forks \o sides
    BY <1>2 DEF Split
  <2>2. /\ sides \in Seq(R)
        /\ f \notin W => NoneOf(sides, W)
        /\ f \in W => OneOf(sides, W)
    BY <1>1, SidesAre
  <2> HIDE DEF R, W, sides, new
  <2>3. /\ f \notin W /\ NoneOf(acc.forks, W) => NoneOf(new, W)
        /\ f \notin W /\ OneOf(acc.forks, W) => OneOf(new, W)
        /\ f \in W /\ NoneOf(acc.forks, W) => OneOf(new, W)
    BY <1>1, <2>1, <2>2, ConcatCounts
  <2> QED
    BY <2>3 DEF new, W
<1>3. CASE ~IncludedByMarker(f.env, acc.marker)
  <2>1. new = Append(acc.forks, f)
    BY <1>3 DEF Split, Splits
  <2> HIDE DEF R, W, new
  <2>2. /\ f \notin W /\ NoneOf(acc.forks, W) => NoneOf(new, W)
        /\ f \notin W /\ OneOf(acc.forks, W) => OneOf(new, W)
        /\ f \in W /\ NoneOf(acc.forks, W) => OneOf(new, W)
    BY <1>1, <2>1, AppendCounts
  <2> QED
    BY <2>2 DEF new, W
<1> QED
  BY <1>2, <1>3

\* The intermediate results of ForkOn.
SplitsOff(g, forks, dep, python) ==
  /\ g[0] = [marker |-> dep.marker, forks |-> <<>>]
  /\ ForkOn(forks, dep, python) = g[Len(forks)].forks
  /\ \A i \in 1..Len(forks) : g[i] = Split(g[i-1], forks[i], dep, python)

\* ForkOn has them, and the forks in them are for environments of the same
\* kind.
LEMMA ForkOnTrace ==
  ASSUME NEW G, Narrows(G), NEW s \in Seq(ForksIn(G)), NEW dep \in Dependencies, NEW python
  PROVE  \E g \in [0..Len(s) -> Splits(G)] : SplitsOff(g, s, dep, python)
<1> DEFINE n == Len(s)
           A == Splits(G)
           base == [marker |-> dep.marker, forks |-> <<>>]
           F == [i \in 1..n |-> [a \in A |-> Split(a, s[i], dep, python)]]
           E(it) == it = [t \in SUBSET DOMAIN s |->
                             IF t = {} THEN base
                             ELSE Split(it[t \ {Max(t)}], s[Max(t)], dep, python)]
           iter == CHOOSE it : E(it)
<1>1. n \in Nat /\ DOMAIN s = 1..n /\ \A i \in 1..n : s[i] \in ForksIn(G)
  OBVIOUS
<1>2. base \in A
  BY DEF Splits, Dependencies
<1>3. F \in [1..n -> [A -> A]]
  <2> HIDE DEF A, n
  <2> QED
    BY <1>1, SplitIs DEF A
<1>4. PICK it \in [SUBSET (1..n) -> A] : Iterates(it, F, base, n)
  <2> HIDE DEF F, A, n, base
  <2> QED
    BY <1>1, <1>2, <1>3, IterationExists
<1>5. E(it)
  <2>1. ASSUME NEW t \in SUBSET (1..n)
        PROVE it[t] = IF t = {} THEN base ELSE Split(it[t \ {Max(t)}], s[Max(t)], dep, python)
    <3>1. t # {} => Max(t) \in t
      BY MaxIn, <1>1
    <3>2. it[t] = IF t = {} THEN base ELSE F[Max(t)][it[t \ {Max(t)}]]
      BY <1>4 DEF Iterates
    <3> HIDE DEF A, base, n
    <3> QED
      BY <3>1, <3>2
  <2> HIDE DEF base, n
  <2> QED
    BY <2>1, <1>1, <1>4
<1>6. E(iter)
  <2> HIDE DEF E
  <2> QED
    BY <1>5
<1>7. ForkOn(s, dep, python) = iter[1..n].forks
  BY <1>1 DEF ForkOn, FoldLeft, MapThenFoldSet
<1>8. \A t \in SUBSET (1..n) :
         iter[t] = IF t = {} THEN base ELSE Split(iter[t \ {Max(t)}], s[Max(t)], dep, python)
  <2> HIDE DEF iter, base
  <2> QED
    BY <1>1, <1>6
<1>9. Unfolds(iter, F, A, base, n)
  <2>1. iter[{}] = base
    <3> HIDE DEF iter, n, base
    <3> QED
      BY <1>8
  <2>2. ASSUME NEW i \in 1..n, iter[1..(i-1)] \in A PROVE iter[1..i] = F[i][iter[1..(i-1)]]
    <3>1. Max(1..i) = i /\ (1..i) \ {i} = 1..(i-1) /\ 1..i # {} /\ 1..i \in SUBSET (1..n)
      BY <1>1, UpTo
    <3> HIDE DEF iter, n, A, base
    <3> QED
      BY <1>8, <2>2, <3>1
  <2> HIDE DEF iter, n, A, F, base
  <2> QED
    BY <2>1, <2>2 DEF Unfolds
<1>10. PICK g \in [0..n -> A] : TraceOf(iter, g, F, base, n)
  <2> HIDE DEF iter, n, A, F, base
  <2> QED
    BY <1>1, <1>2, <1>3, <1>9, TraceExists
<1>11. ASSUME NEW i \in 1..n PROVE g[i] = Split(g[i-1], s[i], dep, python)
  <2>1. g[i-1] \in A
    <3> HIDE DEF A, iter
    <3> QED
      BY <1>1
  <2>2. g[i] = F[i][g[i-1]]
    <3> HIDE DEF F, iter, base
    <3> QED
      BY <1>10 DEF TraceOf
  <2> HIDE DEF A, n, iter
  <2> QED
    BY <2>1, <2>2
<1>12. g[0] = base /\ g[n] = iter[1..n]
  <2> HIDE DEF F, iter, base
  <2> QED
    BY <1>10 DEF TraceOf
<1>13. SplitsOff(g, s, dep, python)
  <2> HIDE DEF iter
  <2> QED
    BY <1>7, <1>11, <1>12 DEF SplitsOff
<1> QED
  BY <1>13

\* As many of the forks that a dependency makes are for a world as before.
LEMMA ForkOnIs ==
  ASSUME NEW G, Narrows(G), NEW s \in Seq(ForksIn(G)), NEW dep \in Dependencies, NEW python
  PROVE  ForkOn(s, dep, python) \in Seq(ForksIn(G))
<1> DEFINE n == Len(s)
<1>1. PICK g \in [0..n -> Splits(G)] : SplitsOff(g, s, dep, python)
  BY ForkOnTrace
<1>2. n \in 0..n
  OBVIOUS
<1>3. g[n] \in Splits(G)
  BY <1>2
<1> QED
  BY <1>1, <1>3 DEF Splits, SplitsOff

\* A split leaves a world with as many forks as it had: none, or one.
LEMMA ForkOnCounts ==
  ASSUME NEW G, Narrows(G), NEW s \in Seq(ForksIn(G)), NEW dep \in Dependencies,
         NEW python \in SUBSET Pythons, NEW m \in Places, m[1] \in python, NEW A
  PROVE  /\ NoneOf(s, Covering(m, A)) => NoneOf(ForkOn(s, dep, python), Covering(m, A))
         /\ OneOf(s, Covering(m, A)) => OneOf(ForkOn(s, dep, python), Covering(m, A))
<1> DEFINE n == Len(s)
           W == Covering(m, A)
<1>0. n \in Nat /\ DOMAIN s = 1..n
  OBVIOUS
<1>1. PICK g \in [0..n -> Splits(G)] : SplitsOff(g, s, dep, python)
  BY ForkOnTrace
<1>3. ASSUME NEW i \in 1..n
      PROVE  /\ s[i] \notin W /\ NoneOf(g[i-1].forks, W) => NoneOf(g[i].forks, W)
             /\ s[i] \notin W /\ OneOf(g[i-1].forks, W) => OneOf(g[i].forks, W)
             /\ s[i] \in W /\ NoneOf(g[i-1].forks, W) => OneOf(g[i].forks, W)
  <2>0. i - 1 \in 0..n
    BY <1>0
  <2>1. g[i-1] \in Splits(G)
    BY <2>0
  <2>2. s[i] \in ForksIn(G)
    OBVIOUS
  <2>3. g[i] = Split(g[i-1], s[i], dep, python)
    BY <1>1 DEF SplitsOff
  <2> QED
    BY <2>1, <2>2, <2>3, SplitCounts
<1>4. NoneOf(g[0].forks, W)
  <2>1. g[0].forks = <<>>
    BY <1>1 DEF SplitsOff
  <2> QED
    BY <2>1 DEF NoneOf
<1> HIDE DEF W
<1>5. ASSUME NoneOf(s, W) PROVE NoneOf(g[n].forks, W)
  <2> DEFINE T == {i \in 0..n : NoneOf(g[i].forks, W)}
  <2>1. 0 \in T
    BY <1>0, <1>4
  <2>2. ASSUME NEW i \in 1..n, i-1 \in T PROVE i \in T
    <3>1. s[i] \notin W
      BY <1>0, <1>5 DEF NoneOf
    <3>2. NoneOf(g[i-1].forks, W)
      BY <2>2
    <3>3. NoneOf(g[i].forks, W)
      BY <1>3, <3>1, <3>2
    <3> QED
      BY <1>0, <3>3
  <2>3. \A i \in 0..n : i \in T
    <3> HIDE DEF T
    <3> QED
      BY <1>0, <2>1, <2>2, Induction
  <2> QED
    BY <1>0, <2>3
<1>6. ASSUME OneOf(s, W) PROVE OneOf(g[n].forks, W)
  <2>1. PICK k \in 1..n : s[k] \in W /\ \A j \in 1..n : j # k => s[j] \notin W
    BY <1>0, <1>6 DEF OneOf
  <2> DEFINE T == {i \in 0..n : /\ i < k => NoneOf(g[i].forks, W)
                                /\ i >= k => OneOf(g[i].forks, W)}
  <2>2. 0 \in T
    BY <1>0, <1>4, <2>1
  <2>3. ASSUME NEW i \in 1..n, i-1 \in T PROVE i \in T
    <3>1. CASE i < k
      <4>1. NoneOf(g[i-1].forks, W) /\ s[i] \notin W
        BY <1>0, <2>1, <2>3, <3>1
      <4>2. NoneOf(g[i].forks, W)
        BY <1>3, <4>1
      <4> QED
        BY <1>0, <3>1, <4>2
    <3>2. CASE i = k
      <4>1. NoneOf(g[i-1].forks, W) /\ s[i] \in W
        BY <1>0, <2>1, <2>3, <3>2
      <4>2. OneOf(g[i].forks, W)
        BY <1>3, <4>1
      <4> QED
        BY <1>0, <3>2, <4>2
    <3>3. CASE i > k
      <4>1. OneOf(g[i-1].forks, W) /\ s[i] \notin W
        BY <1>0, <2>1, <2>3, <3>3
      <4>2. OneOf(g[i].forks, W)
        BY <1>3, <4>1
      <4> QED
        BY <1>0, <3>3, <4>2
    <3> QED
      BY <1>0, <3>1, <3>2, <3>3
  <2>4. \A i \in 0..n : i \in T
    <3> HIDE DEF T
    <3> QED
      BY <1>0, <2>2, <2>3, Induction
  <2> QED
    BY <1>0, <2>1, <2>4
<1>7. g[n].forks = ForkOn(s, dep, python)
  BY <1>1 DEF SplitsOff
<1> QED
  BY <1>5, <1>6, <1>7 DEF W

\* A map over the forks that leaves the environments alone.
LEMMA SameEnvs ==
  ASSUME NEW G, NEW s \in Seq(ForksIn(G)), NEW t \in Seq(Forks), Len(t) = Len(s),
         \A i \in 1..Len(s) : t[i].env = s[i].env
  PROVE  /\ t \in Seq(ForksIn(G))
         /\ \A m, A : NoneOf(s, Covering(m, A)) => NoneOf(t, Covering(m, A))
         /\ \A m, A : OneOf(s, Covering(m, A)) => OneOf(t, Covering(m, A))
<1> DEFINE n == Len(s)
           R == ForksIn(G)
<1>1. n \in Nat /\ DOMAIN s = 1..n /\ DOMAIN t = 1..n
  OBVIOUS
<1>2. \A i \in 1..n : t[i] \in Forks /\ s[i] \in Forks /\ t[i].env = s[i].env /\ t[i] \in R
  BY DEF ForksIn
<1>3. t \in [1..n -> R]
  <2>1. t = [i \in 1..n |-> t[i]]
    BY <1>1
  <2> HIDE DEF R, n
  <2> QED
    BY <1>2, <2>1
<1>4. t \in Seq(R)
  <2> HIDE DEF R, n
  <2> QED
    BY <1>1, <1>3
<1>5. ASSUME NEW m, NEW A, NEW i \in 1..n PROVE t[i] \in Covering(m, A) <=> s[i] \in Covering(m, A)
  BY <1>2 DEF Covering
<1> HIDE DEF n
<1>6. ASSUME NEW m, NEW A
      PROVE  /\ NoneOf(s, Covering(m, A)) => NoneOf(t, Covering(m, A))
             /\ OneOf(s, Covering(m, A)) => OneOf(t, Covering(m, A))
  BY <1>1, <1>5 DEF NoneOf, OneOf
<1> QED
  BY <1>4, <1>6

\* A dependency leaves as many forks for a world as there were.
LEMMA ForkByDependencyIs ==
  ASSUME NEW G, Narrows(G), NEW s \in Seq(ForksIn(G)), NEW dep \in Dependencies,
         NEW same, NEW env, NEW python
  PROVE  LET t == ForkByDependency(s, dep, same, env, python) IN
         /\ t \in Seq(ForksIn(G))
         /\ \A m \in Places : \A A : python \in SUBSET Pythons /\ m[1] \in python =>
              /\ NoneOf(s, Covering(m, A)) => NoneOf(t, Covering(m, A))
              /\ OneOf(s, Covering(m, A)) => OneOf(t, Covering(m, A))
<1> DEFINE n == Len(s)
           all == [i \in DOMAIN s |-> AddDependency(s[i], dep)]
           where == AddWhereIncluded(s, dep)
<1>1. n \in Nat /\ DOMAIN s = 1..n
  OBVIOUS
<1>2. ASSUME NEW i \in 1..n
      PROVE  s[i] \in Forks /\ AddDependency(s[i], dep) \in Forks
               /\ AddDependency(s[i], dep).env = s[i].env
  <2>1. s[i] \in Forks
    BY DEF ForksIn
  <2> QED
    BY <2>1, AddDependencyIs
<1>3. all \in Seq(Forks) /\ Len(all) = n /\ \A i \in 1..n : all[i].env = s[i].env
  <2>1. all \in [1..n -> Forks] /\ \A i \in 1..n : all[i].env = s[i].env
    BY <1>1, <1>2
  <2> HIDE DEF n, all
  <2> QED
    BY <1>1, <2>1
<1>4. where \in Seq(Forks) /\ Len(where) = n /\ \A i \in 1..n : where[i].env = s[i].env
  <2>1. where \in [1..n -> Forks] /\ \A i \in 1..n : where[i].env = s[i].env
    BY <1>1, <1>2 DEF AddWhereIncluded
  <2> HIDE DEF n, where
  <2> QED
    BY <1>1, <2>1
<1>5. ForkOn(s, dep, python) \in Seq(ForksIn(G))
  BY ForkOnIs
<1>6. ASSUME NEW t, \/ t = all \/ t = where \/ t = s \/ t = ForkOn(s, dep, python)
      PROVE  /\ t \in Seq(ForksIn(G))
             /\ \A m \in Places : \A A : python \in SUBSET Pythons /\ m[1] \in python =>
                  /\ NoneOf(s, Covering(m, A)) => NoneOf(t, Covering(m, A))
                  /\ OneOf(s, Covering(m, A)) => OneOf(t, Covering(m, A))
  <2> HIDE DEF all, where
  <2>1. CASE t = all
    BY <1>3, <2>1, SameEnvs
  <2>2. CASE t = where
    BY <1>4, <2>2, SameEnvs
  <2>3. CASE t = ForkOn(s, dep, python)
    BY <1>5, <2>3, ForkOnCounts
  <2>4. CASE t = s
    BY <2>4
  <2> QED
    BY <1>6, <2>1, <2>2, <2>3, <2>4
<1>7. LET t == ForkByDependency(s, dep, same, env, python)
      IN  t = all \/ t = where \/ t = s \/ t = ForkOn(s, dep, python)
  BY DEF ForkByDependency
<1> HIDE DEF all, where
<1> QED
  BY <1>6, <1>7

\* The intermediate results of ForkByName.
SameMarker(s) == \A i \in DOMAIN s : s[i].marker = s[1].marker
ByDependency(g, forks, s, env, python) ==
    /\ g[0] = forks /\ g[Len(s)] = ForkByName(forks, s, env, python)
    /\ \A i \in 1..Len(s) : g[i] = ForkByDependency(g[i-1], s[i], SameMarker(s), env, python)

\* There are such results, in any set that the dependencies do not leave.
LEMMA ForkByNameTrace ==
  ASSUME NEW A, NEW forks \in A, NEW s \in Seq(Dependencies), NEW env, NEW python,
         \A a \in A, d \in Dependencies, same \in BOOLEAN :
             ForkByDependency(a, d, same, env, python) \in A
  PROVE  \E g \in [0..Len(s) -> A] : ByDependency(g, forks, s, env, python)
<1> DEFINE n == Len(s)
           same == \A i \in DOMAIN s : s[i].marker = s[1].marker
           F == [i \in 1..n |-> [a \in A |-> ForkByDependency(a, s[i], same, env, python)]]
           E(it) == it = [t \in SUBSET DOMAIN s |->
                             IF t = {} THEN forks
                             ELSE ForkByDependency(it[t \ {Max(t)}], s[Max(t)], same, env, python)]
           iter == CHOOSE it : E(it)
<1>1. n \in Nat /\ DOMAIN s = 1..n
  OBVIOUS
<1>2. F \in [1..n -> [A -> A]]
  <2>1. \A i \in 1..n : s[i] \in Dependencies
    OBVIOUS
  <2> HIDE DEF n
  <2> QED
    BY <2>1
<1>3. PICK it \in [SUBSET (1..n) -> A] : Iterates(it, F, forks, n)
  <2> HIDE DEF F, n
  <2> QED
    BY <1>1, <1>2, IterationExists
<1>4. E(it)
  <2>1. ASSUME NEW t \in SUBSET (1..n)
        PROVE  it[t] = IF t = {} THEN forks ELSE ForkByDependency(it[t \ {Max(t)}], s[Max(t)], same, env, python)
    <3>1. t # {} => Max(t) \in t
      BY MaxIn, <1>1
    <3>2. it[t] = IF t = {} THEN forks ELSE F[Max(t)][it[t \ {Max(t)}]]
      BY <1>3 DEF Iterates
    <3> HIDE DEF n
    <3> QED
      BY <3>1, <3>2
  <2> HIDE DEF n
  <2> QED
    BY <2>1, <1>1, <1>3
<1>5. E(iter)
  <2> HIDE DEF E
  <2> QED
    BY <1>4
<1>6. ForkByName(forks, s, env, python) = iter[1..n]
  BY <1>1 DEF ForkByName, FoldLeft, MapThenFoldSet
<1>7. \A t \in SUBSET (1..n) :
         iter[t] = IF t = {} THEN forks ELSE ForkByDependency(iter[t \ {Max(t)}], s[Max(t)], same, env, python)
  <2> HIDE DEF iter
  <2> QED
    BY <1>1, <1>5
<1>8. Unfolds(iter, F, A, forks, n)
  <2>1. iter[{}] = forks
    <3> HIDE DEF iter, n
    <3> QED
      BY <1>7
  <2>2. ASSUME NEW i \in 1..n, iter[1..(i-1)] \in A PROVE iter[1..i] = F[i][iter[1..(i-1)]]
    <3>1. Max(1..i) = i /\ (1..i) \ {i} = 1..(i-1) /\ 1..i # {} /\ 1..i \in SUBSET (1..n)
      BY <1>1, UpTo
    <3> HIDE DEF iter, n
    <3> QED
      BY <1>7, <2>2, <3>1
  <2> HIDE DEF iter, n, F
  <2> QED
    BY <2>1, <2>2 DEF Unfolds
<1>9. PICK g \in [0..n -> A] : TraceOf(iter, g, F, forks, n)
  <2> HIDE DEF iter, n, F
  <2> QED
    BY <1>1, <1>2, <1>8, TraceExists
<1>10. g[0] = forks /\ g[n] = iter[1..n]
  <2> HIDE DEF F, iter
  <2> QED
    BY <1>1, <1>9 DEF TraceOf
<1>11. ASSUME NEW i \in 1..n PROVE g[i] = ForkByDependency(g[i-1], s[i], same, env, python)
  <2>1. g[i-1] \in A /\ g[i] = F[i][g[i-1]]
    <3>1. i - 1 \in 0..n
      BY <1>1
    <3> HIDE DEF F, iter
    <3> QED
      BY <1>9, <3>1 DEF TraceOf
  <2> HIDE DEF iter, n
  <2> QED
    BY <2>1
<1> HIDE DEF iter
<1>12. ByDependency(g, forks, s, env, python)
  BY <1>6, <1>10, <1>11 DEF ByDependency, SameMarker
<1> QED
  BY <1>12

\* What every dependency of a name preserves, the name does.
LEMMA ForkByNameIn ==
  ASSUME NEW A, NEW forks \in A, NEW s \in Seq(Dependencies), NEW env, NEW python,
         \A a \in A, d \in Dependencies, same \in BOOLEAN :
             ForkByDependency(a, d, same, env, python) \in A
  PROVE  ForkByName(forks, s, env, python) \in A
<1>1. PICK g \in [0..Len(s) -> A] : ByDependency(g, forks, s, env, python)
  BY ForkByNameTrace
<1>2. Len(s) \in 0..Len(s)
  OBVIOUS
<1> QED
  BY <1>1, <1>2 DEF ByDependency

\* The dependencies of a name, and the intermediate results of ForkByNames.
OfName(deps, n) == Keep(deps, {d \in ToSet(deps) : d.name = n})
ByName(g, env, python, deps) ==
    /\ g[0] = <<[env |-> env, deps |-> <<>>, index |-> {}]>>
    /\ g[Len(NameOrder)] = ForkByNames(env, python, deps)
    /\ \A i \in 1..Len(NameOrder) :
         g[i] = ForkByName(g[i-1], OfName(deps, NameOrder[i]), env, python)

\* There are such results, in any set that the names do not leave.
LEMMA ForkByNamesTrace ==
  ASSUME NEW A, NEW env, NEW python, NEW deps,
         <<[env |-> env, deps |-> <<>>, index |-> {}]>> \in A,
         \A a \in A, n \in Names :
             ForkByName(a, Keep(deps, {d \in ToSet(deps) : d.name = n}), env, python) \in A
  PROVE  \E g \in [0..Len(NameOrder) -> A] : ByName(g, env, python, deps)
<1> DEFINE s == NameOrder
           n == Len(s)
           base == <<[env |-> env, deps |-> <<>>, index |-> {}]>>
           F == [i \in 1..n |-> [a \in A |-> ForkByName(a, Keep(deps, {d \in ToSet(deps) : d.name = s[i]}), env, python)]]
           E(it) == it = [t \in SUBSET DOMAIN s |->
                             IF t = {} THEN base
                             ELSE ForkByName(it[t \ {Max(t)}], Keep(deps, {d \in ToSet(deps) : d.name = s[Max(t)]}), env, python)]
           iter == CHOOSE it : E(it)
<1>1. n \in Nat /\ DOMAIN s = 1..n
  BY ForksAssumption
<1>2. F \in [1..n -> [A -> A]]
  <2>1. \A i \in 1..n : s[i] \in Names
    BY ForksAssumption
  <2> HIDE DEF n
  <2> QED
    BY <2>1
<1>3. PICK it \in [SUBSET (1..n) -> A] : Iterates(it, F, base, n)
  <2> HIDE DEF F, n
  <2> QED
    BY <1>1, <1>2, IterationExists
<1>4. E(it)
  <2>1. ASSUME NEW t \in SUBSET (1..n)
        PROVE  it[t] = IF t = {} THEN base ELSE ForkByName(it[t \ {Max(t)}], Keep(deps, {d \in ToSet(deps) : d.name = s[Max(t)]}), env, python)
    <3>1. t # {} => Max(t) \in t
      BY MaxIn, <1>1
    <3>2. it[t] = IF t = {} THEN base ELSE F[Max(t)][it[t \ {Max(t)}]]
      BY <1>3 DEF Iterates
    <3> HIDE DEF n
    <3> QED
      BY <3>1, <3>2
  <2> HIDE DEF n
  <2> QED
    BY <2>1, <1>1, <1>3
<1>5. E(iter)
  <2> HIDE DEF E
  <2> QED
    BY <1>4
<1>6. ForkByNames(env, python, deps) = iter[1..n]
  BY <1>1 DEF ForkByNames, FoldLeft, MapThenFoldSet
<1>7. \A t \in SUBSET (1..n) :
         iter[t] = IF t = {} THEN base ELSE ForkByName(iter[t \ {Max(t)}], Keep(deps, {d \in ToSet(deps) : d.name = s[Max(t)]}), env, python)
  <2> HIDE DEF iter
  <2> QED
    BY <1>1, <1>5
<1>8. Unfolds(iter, F, A, base, n)
  <2>1. iter[{}] = base
    <3> HIDE DEF iter, n
    <3> QED
      BY <1>7
  <2>2. ASSUME NEW i \in 1..n, iter[1..(i-1)] \in A PROVE iter[1..i] = F[i][iter[1..(i-1)]]
    <3>1. Max(1..i) = i /\ (1..i) \ {i} = 1..(i-1) /\ 1..i # {} /\ 1..i \in SUBSET (1..n)
      BY <1>1, UpTo
    <3> HIDE DEF iter, n
    <3> QED
      BY <1>7, <2>2, <3>1
  <2> HIDE DEF iter, n, F
  <2> QED
    BY <2>1, <2>2 DEF Unfolds
<1>9. PICK g \in [0..n -> A] : TraceOf(iter, g, F, base, n)
  <2> HIDE DEF iter, n, F
  <2> QED
    BY <1>1, <1>2, <1>8, TraceExists
<1>10. g[0] = base /\ g[n] = iter[1..n]
  <2> HIDE DEF F, iter
  <2> QED
    BY <1>1, <1>9 DEF TraceOf
<1>11. ASSUME NEW i \in 1..n PROVE g[i] = ForkByName(g[i-1], Keep(deps, {d \in ToSet(deps) : d.name = s[i]}), env, python)
  <2>1. g[i-1] \in A /\ g[i] = F[i][g[i-1]]
    <3>1. i - 1 \in 0..n
      BY <1>1
    <3> HIDE DEF F, iter
    <3> QED
      BY <1>9, <3>1 DEF TraceOf
  <2> HIDE DEF iter, n
  <2> QED
    BY <2>1
<1> HIDE DEF iter
<1>12. ByName(g, env, python, deps)
  BY <1>6, <1>10, <1>11 DEF ByName, OfName
<1> QED
  BY <1>12

\* What every name preserves, all do.
LEMMA ForkByNamesIn ==
  ASSUME NEW A, NEW env, NEW python, NEW deps,
         <<[env |-> env, deps |-> <<>>, index |-> {}]>> \in A,
         \A a \in A, n \in Names :
             ForkByName(a, Keep(deps, {d \in ToSet(deps) : d.name = n}), env, python) \in A
  PROVE  ForkByNames(env, python, deps) \in A
<1>1. PICK g \in [0..Len(NameOrder) -> A] : ByName(g, env, python, deps)
  BY ForkByNamesTrace
<1>2. Len(NameOrder) \in 0..Len(NameOrder)
  BY ForksAssumption
<1> QED
  BY <1>1, <1>2 DEF ByName

\* The intermediate results of ForkDependencies.
ByConflict(g, env, python, deps) ==
    /\ g[0] = ForkByNames(env, python, deps)
    /\ g[Len(problem.conflicts)] = ForkDependencies(env, python, deps)
    /\ \A i \in 1..Len(problem.conflicts) : g[i] = ForkByConflict(g[i-1], problem.conflicts[i])

\* There are such results, in any set that the conflicts do not leave.
LEMMA ForkDependenciesTrace ==
  ASSUME NEW A, NEW env, NEW python, NEW deps, problem.conflicts \in Seq(SUBSET Items),
         ForkByNames(env, python, deps) \in A,
         \A a \in A, i \in DOMAIN problem.conflicts : ForkByConflict(a, problem.conflicts[i]) \in A
  PROVE  \E g \in [0..Len(problem.conflicts) -> A] : ByConflict(g, env, python, deps)
<1> DEFINE s == problem.conflicts
           n == Len(s)
           base == ForkByNames(env, python, deps)
           F == [i \in 1..n |-> [a \in A |-> ForkByConflict(a, s[i])]]
           E(it) == it = [t \in SUBSET DOMAIN s |->
                             IF t = {} THEN base
                             ELSE ForkByConflict(it[t \ {Max(t)}], s[Max(t)])]
           iter == CHOOSE it : E(it)
<1>1. n \in Nat /\ DOMAIN s = 1..n
  OBVIOUS
<1>2. F \in [1..n -> [A -> A]]
  <2>1. \A i \in 1..n : i \in DOMAIN s
    OBVIOUS
  <2> HIDE DEF n
  <2> QED
    BY <2>1
<1>3. PICK it \in [SUBSET (1..n) -> A] : Iterates(it, F, base, n)
  <2> HIDE DEF F, n
  <2> QED
    BY <1>1, <1>2, IterationExists
<1>4. E(it)
  <2>1. ASSUME NEW t \in SUBSET (1..n)
        PROVE  it[t] = IF t = {} THEN base ELSE ForkByConflict(it[t \ {Max(t)}], s[Max(t)])
    <3>1. t # {} => Max(t) \in t
      BY MaxIn, <1>1
    <3>2. it[t] = IF t = {} THEN base ELSE F[Max(t)][it[t \ {Max(t)}]]
      BY <1>3 DEF Iterates
    <3> HIDE DEF n
    <3> QED
      BY <3>1, <3>2
  <2> HIDE DEF n
  <2> QED
    BY <2>1, <1>1, <1>3
<1>5. E(iter)
  <2> HIDE DEF E
  <2> QED
    BY <1>4
<1>6. ForkDependencies(env, python, deps) = iter[1..n]
  BY <1>1 DEF ForkDependencies, FoldLeft, MapThenFoldSet
<1>7. \A t \in SUBSET (1..n) :
         iter[t] = IF t = {} THEN base ELSE ForkByConflict(iter[t \ {Max(t)}], s[Max(t)])
  <2> HIDE DEF iter
  <2> QED
    BY <1>1, <1>5
<1>8. Unfolds(iter, F, A, base, n)
  <2>1. iter[{}] = base
    <3> HIDE DEF iter, n
    <3> QED
      BY <1>7
  <2>2. ASSUME NEW i \in 1..n, iter[1..(i-1)] \in A PROVE iter[1..i] = F[i][iter[1..(i-1)]]
    <3>1. Max(1..i) = i /\ (1..i) \ {i} = 1..(i-1) /\ 1..i # {} /\ 1..i \in SUBSET (1..n)
      BY <1>1, UpTo
    <3> HIDE DEF iter, n
    <3> QED
      BY <1>7, <2>2, <3>1
  <2> HIDE DEF iter, n, F
  <2> QED
    BY <2>1, <2>2 DEF Unfolds
<1>9. PICK g \in [0..n -> A] : TraceOf(iter, g, F, base, n)
  <2> HIDE DEF iter, n, F
  <2> QED
    BY <1>1, <1>2, <1>8, TraceExists
<1>10. g[0] = base /\ g[n] = iter[1..n]
  <2> HIDE DEF F, iter
  <2> QED
    BY <1>1, <1>9 DEF TraceOf
<1>11. ASSUME NEW i \in 1..n PROVE g[i] = ForkByConflict(g[i-1], s[i])
  <2>1. g[i-1] \in A /\ g[i] = F[i][g[i-1]]
    <3>1. i - 1 \in 0..n
      BY <1>1
    <3> HIDE DEF F, iter
    <3> QED
      BY <1>9, <3>1 DEF TraceOf
  <2> HIDE DEF iter, n
  <2> QED
    BY <2>1
<1> HIDE DEF iter
<1>12. ByConflict(g, env, python, deps)
  BY <1>6, <1>10, <1>11 DEF ByConflict
<1> QED
  BY <1>12

\* What every conflict set preserves, all do.
LEMMA ForkDependenciesIn ==
  ASSUME NEW A, NEW env, NEW python, NEW deps, problem.conflicts \in Seq(SUBSET Items),
         ForkByNames(env, python, deps) \in A,
         \A a \in A, i \in DOMAIN problem.conflicts : ForkByConflict(a, problem.conflicts[i]) \in A
  PROVE  ForkDependencies(env, python, deps) \in A
<1>1. PICK g \in [0..Len(problem.conflicts) -> A] : ByConflict(g, env, python, deps)
  BY ForkDependenciesTrace
<1>2. Len(problem.conflicts) \in 0..Len(problem.conflicts)
  OBVIOUS
<1> QED
  BY <1>1, <1>2 DEF ByConflict

-----------------------------------------------------------------------------
(* Forks on conflicting items.                                             *)

\* The environments for places in M.
ForkEnvs(p, M) ==
    {e \in Envs : /\ e.markers # {} /\ e.markers \subseteq M
                  /\ WellPosed(p) => Tidy(p, e)
                  /\ OwnExtras(p) => e.exclude \subseteq Conflicting(p)}

\* The part of such an environment for a marker is one too.
LEMMA NarrowForkEnvs ==
  ASSUME NEW p, NEW M
  PROVE  Narrows(ForkEnvs(p, M))
<1>1. ForkEnvs(p, M) \subseteq Envs
  BY DEF ForkEnvs
<1>2. ASSUME NEW e \in ForkEnvs(p, M), NEW marker \in SUBSET Places, e.markers \cap marker # {}
      PROVE  Narrow(e, marker) \in ForkEnvs(p, M)
  <2> DEFINE r == Narrow(e, marker)
  <2>1. /\ r \in Envs /\ r.markers = e.markers \cap marker
        /\ r.include = e.include /\ r.exclude = e.exclude
    BY <1>1, NarrowIs
  <2>2. Tidy(p, e) => Tidy(p, r)
    <3> HIDE DEF r
    <3> QED
      BY <2>1 DEF Tidy
  <2> HIDE DEF r
  <2>3. r \in ForkEnvs(p, M)
    BY <1>2, <2>1, <2>2 DEF ForkEnvs
  <2> QED
    BY <2>3 DEF r
<1> QED
  BY <1>1, <1>2 DEF Narrows

\* A set with less than two elements.
LEMMA AtMostOne ==
  ASSUME NEW T, IsFiniteSet(T), Cardinality(T) <= 1
  PROVE  T = {} \/ \E x : T = {x}
<1>1. Cardinality(T) \in Nat
  BY FS_CardinalityType
<1>2. Cardinality(T) = 0 \/ Cardinality(T) = 1
  BY <1>1
<1> QED
  BY <1>2, FS_EmptySet, FS_Singleton

\* The elements of a finite set, one after the other.
LEMMA EachOnce ==
  ASSUME NEW S, IsFiniteSet(S)
  PROVE  /\ SetToSeq(S) \in Seq(S)
         /\ \A i, j \in DOMAIN SetToSeq(S) : SetToSeq(S)[i] = SetToSeq(S)[j] => i = j
         /\ \A x \in S : \E i \in DOMAIN SetToSeq(S) : SetToSeq(S)[i] = x
<1> DEFINE n == Cardinality(S)
           s == SetToSeq(S)
<1>1. n \in Nat /\ ExistsBijection(1..n, S)
  BY FS_CardinalityType
<1>2. \E f \in [1..n -> S] : IsInjective(f)
  BY <1>1 DEF ExistsBijection, Bijection, Injection, IsInjective
<1>3. s \in [1..n -> S] /\ IsInjective(s)
  BY <1>2 DEF SetToSeq
<1>4. s \in Injection(1..n, S)
  BY <1>3 DEF Injection, IsInjective
<1>5. IsFiniteSet(1..n) /\ Cardinality(1..n) = n
  <2>1. 1 \in Int /\ n \in Int
    BY <1>1
  <2>2. IsFiniteSet(1..n) /\ Cardinality(1..n) = IF 1 > n THEN 0 ELSE n-1+1
    BY <2>1, FS_Interval
  <2> QED
    BY <1>1, <2>2
<1>6. s \in Surjection(1..n, S)
  BY <1>4, <1>5, FS_Injection
<1> HIDE DEF s, n
<1>7. s \in Seq(S) /\ DOMAIN s = 1..n
  BY <1>1, <1>3
<1>8. \A x \in S : \E i \in 1..n : s[i] = x
  BY <1>6 DEF Surjection
<1>9. \A i, j \in 1..n : s[i] = s[j] => i = j
  BY <1>3, <1>7 DEF IsInjective
<1> QED
  BY <1>7, <1>8, <1>9 DEF s

\* What a filter makes of a fork.
Clash(env, allow, deny) ==
    allow \cap env.exclude # {} \/ deny \cap (env.include \cup allow) # {}
Filtered(r, f, allow, deny) ==
    /\ Filter(f, allow, deny) = <<r>> /\ r.env.markers = f.env.markers
    /\ r.env.include = f.env.include \cup allow
    /\ r.env.exclude = f.env.exclude \cup deny

\* A filter drops a fork that would include what it excludes, or else keeps
\* its places.
LEMMA FilterIs ==
  ASSUME NEW f \in Forks, NEW allow \in SUBSET Items, NEW deny \in SUBSET Items
  PROVE  \/ Clash(f.env, allow, deny) /\ Filter(f, allow, deny) = <<>>
         \/ ~Clash(f.env, allow, deny) /\ \E r \in Forks : Filtered(r, f, allow, deny)
<1> DEFINE env == [f.env EXCEPT !.include = @ \cup allow, !.exclude = @ \cup deny]
<1>1. f.env \in Envs
  BY DEF Forks
<1>2. /\ env \in Envs /\ env.markers = f.env.markers
      /\ env.include = f.env.include \cup allow /\ env.exclude = f.env.exclude \cup deny
  BY <1>1 DEF Envs
<1>3. CASE Clash(f.env, allow, deny)
  <2>1. FilterByGroup(f.env, allow, deny) = <<>>
    BY <1>3 DEF FilterByGroup, Clash
  <2> QED
    BY <1>3, <2>1 DEF Filter
<1>4. CASE ~Clash(f.env, allow, deny)
  <2> HIDE DEF env
  <2>1. FilterByGroup(f.env, allow, deny) = <<env>>
    BY <1>4 DEF FilterByGroup, Clash, env
  <2> DEFINE keep == {d \in ToSet(f.deps) : IncludedByGroup(env, Item(d)) \/ d.parent}
             r == Retain(f, env, keep)
  <2>2. <<env>> # <<>> /\ <<env>>[1] = env
    OBVIOUS
  <2>3. Filter(f, allow, deny) = <<r>>
    BY <2>1, <2>2 DEF Filter
  <2> HIDE DEF keep
  <2>4. r \in Forks /\ r.env = env
    BY <1>2, RetainIs
  <2> HIDE DEF r
  <2> QED
    BY <1>2, <1>4, <2>3, <2>4 DEF Filtered
<1> QED
  BY <1>3, <1>4

\* A filter by the items of a set keeps the environment tidy.
LEMMA FilterTidy ==
  ASSUME ProblemType(problem), NEW M, NEW f \in ForksIn(ForkEnvs(problem, M)),
         NEW k \in DOMAIN problem.conflicts, NEW allow, NEW deny,
         LET S == problem.conflicts[k] IN
            \/ allow = {} /\ deny = S
            \/ \E x \in S : allow = {x} /\ deny = S \ {x}
            \/ allow = {} /\ deny = S \ {x \in S : IncludedByGroup(f.env, x)}
  PROVE  Filter(f, allow, deny) \in Seq(ForksIn(ForkEnvs(problem, M)))
<1> DEFINE S == problem.conflicts[k]
           G == ForkEnvs(problem, M)
           R == ForksIn(G)
<1>1. S \in SUBSET Items
  BY DEF ProblemType
<1>2. allow \in SUBSET Items /\ deny \in SUBSET Items /\ allow \subseteq S /\ deny \subseteq S
  BY <1>1
<1>3. f \in Forks /\ f.env \in G
  BY DEF ForksIn
<1>4. CASE Filter(f, allow, deny) = <<>>
  BY <1>4
<1>5. CASE ~Clash(f.env, allow, deny) /\ \E r \in Forks : Filtered(r, f, allow, deny)
  <2>0. allow \cap f.env.exclude = {} /\ deny \cap (f.env.include \cup allow) = {}
    BY <1>5 DEF Clash
  <2>1. PICK r \in Forks :
                /\ Filter(f, allow, deny) = <<r>> /\ r.env.markers = f.env.markers
                /\ r.env.include = f.env.include \cup allow
                /\ r.env.exclude = f.env.exclude \cup deny
    BY <1>5 DEF Filtered
  <2>2. ASSUME WellPosed(problem) PROVE Tidy(problem, r.env)
    <3>1. Tidy(problem, f.env)
      BY <1>3, <2>2 DEF ForkEnvs
    <3>2. r.env.include \cap r.env.exclude = {}
      BY <2>0, <2>1, <3>1 DEF Tidy
    <3>3. ASSUME NEW x \in Conflicting(problem), x[2] \in Extras, ProjectOf(x) \in r.env.exclude
          PROVE  x \in r.env.include \cup r.env.exclude
      <4>1. CASE ProjectOf(x) \in f.env.exclude
        BY <2>1, <3>1, <3>3, <4>1 DEF Tidy
      <4>2. CASE ProjectOf(x) \notin f.env.exclude
        <5>1. ProjectOf(x) \in deny
          BY <2>1, <3>3, <4>2
        <5>2. x \in S
          BY <1>2, <2>2, <3>3, <5>1 DEF WellPosed
        <5>3. ProjectOf(x)[2] = "project" /\ "project" \notin Extras
          BY ForksAssumption DEF ProjectOf
        <5>4. IncludedByGroup(f.env, ProjectOf(x))
          BY <4>2, <5>3 DEF IncludedByGroup
        <5>5. allow \cup deny = S
          BY <1>2, <5>1, <5>4
        <5> QED
          BY <2>1, <5>2, <5>5
      <4> QED
        BY <4>1, <4>2
    <3> QED
      BY <3>2, <3>3 DEF Tidy
  <2>6. OwnExtras(problem) => r.env.exclude \subseteq Conflicting(problem)
    <3>1. S \subseteq Conflicting(problem)
      BY DEF Conflicting
    <3> QED
      BY <1>2, <1>3, <2>1, <3>1 DEF ForkEnvs
  <2>3. r.env \in G
    BY <1>3, <2>1, <2>2, <2>6 DEF ForkEnvs, Forks
  <2>4. r \in R
    BY <2>3 DEF ForksIn
  <2> HIDE DEF R
  <2>5. <<r>> \in Seq(R)
    BY <2>4
  <2> QED
    BY <2>1, <2>5 DEF R
<1> HIDE DEF S
<1> QED
  BY <1>2, <1>3, <1>4, <1>5, FilterIs

\* The forks for each item of a set.
Each(f, S) ==
    LET each == SetToSeq(S)
    IN  [i \in DOMAIN each |-> Filter(f, {each[i]}, S \ {each[i]})]

\* They are sequences of forks.
LEMMA EachIs ==
  ASSUME ProblemType(problem), NEW M, NEW f \in ForksIn(ForkEnvs(problem, M)),
         NEW k \in DOMAIN problem.conflicts
  PROVE  Each(f, problem.conflicts[k]) \in Seq(Seq(ForksIn(ForkEnvs(problem, M))))
<1> DEFINE S == problem.conflicts[k]
           s == SetToSeq(S)
           Q == Seq(ForksIn(ForkEnvs(problem, M)))
<1>1. IsFiniteSet(S)
  BY DEF ProblemType
<1>2. s \in Seq(S)
  BY <1>1, EachOnce
<1>3. \A i \in DOMAIN s : s[i] \in S
  <2> HIDE DEF S, s
  <2> QED
    BY <1>2
<1>4. ASSUME NEW i \in DOMAIN s PROVE Filter(f, {s[i]}, S \ {s[i]}) \in Q
  BY <1>3, FilterTidy
<1>5. DOMAIN s = 1..Len(s) /\ Len(s) \in Nat
  <2> HIDE DEF S, s
  <2> QED
    BY <1>2
<1>6. Each(f, S) = [i \in DOMAIN s |-> Filter(f, {s[i]}, S \ {s[i]})]
  BY DEF Each
<1> HIDE DEF S, s, Q
<1>7. Each(f, S) \in Seq(Q)
  BY <1>4, <1>5, <1>6
<1> QED
  BY <1>7 DEF S, Q

\* Every fork of a conflict is tidy.
LEMMA ForkOnConflictIs ==
  ASSUME ProblemType(problem), NEW M, NEW f \in ForksIn(ForkEnvs(problem, M)),
         NEW k \in DOMAIN problem.conflicts
  PROVE  ForkOnConflict(f, problem.conflicts[k]) \in Seq(ForksIn(ForkEnvs(problem, M)))
<1> DEFINE S == problem.conflicts[k]
           R == ForksIn(ForkEnvs(problem, M))
           free == {x \in S : IncludedByGroup(f.env, x)}
<1>1. Filter(f, {}, S) \in Seq(R)
  BY FilterTidy
<1>2. Filter(f, {}, S \ free) \in Seq(R)
  BY FilterTidy
<1>3. FlattenSeq(Each(f, S)) \in Seq(R)
  <2>1. Each(f, S) \in Seq(Seq(R))
    BY EachIs
  <2> HIDE DEF R, S
  <2> QED
    BY <2>1, FlattenIn
<1>4. <<f>> \in Seq(R)
  <2> HIDE DEF R
  <2>1. f \in R
    BY DEF R
  <2> QED
    BY <2>1
<1>5. Filter(f, {}, S) \o FlattenSeq(Each(f, S)) \in Seq(R)
  <2> HIDE DEF R, S
  <2> QED
    BY <1>1, <1>3
<1>6. \/ ForkOnConflict(f, S) = <<f>>
      \/ ForkOnConflict(f, S) = Filter(f, {}, S \ free)
      \/ ForkOnConflict(f, S) = Filter(f, {}, S) \o FlattenSeq(Each(f, S))
  <2> HIDE DEF S
  <2> QED
    BY DEF ForkOnConflict, Each
<1> HIDE DEF R, S, free
<1>7. ForkOnConflict(f, S) \in Seq(R)
  BY <1>2, <1>4, <1>5, <1>6
<1> QED
  BY <1>7 DEF R, S

\* Which filter is for a world.
LEMMA FilterCounts ==
  ASSUME NEW f \in Forks, NEW allow \in SUBSET Items, NEW deny \in SUBSET Items, NEW m, NEW A
  PROVE  LET W == Covering(m, A) IN
         /\ f \notin W \/ ~(allow \subseteq A) \/ deny \cap A # {}
                => NoneOf(Filter(f, allow, deny), W)
         /\ f \in W /\ allow \subseteq A /\ deny \cap A = {}
                => OneOf(Filter(f, allow, deny), W)
<1> DEFINE W == Covering(m, A)
<1>1. CASE Clash(f.env, allow, deny) /\ Filter(f, allow, deny) = <<>>
  <2>1. NoneOf(Filter(f, allow, deny), W)
    BY <1>1 DEF NoneOf
  <2>2. ~(f \in W /\ allow \subseteq A /\ deny \cap A = {})
    BY <1>1 DEF Clash, Covering, Covers
  <2> QED
    BY <2>1, <2>2
<1>2. CASE ~Clash(f.env, allow, deny) /\ \E r \in Forks : Filtered(r, f, allow, deny)
  <2>1. PICK r \in Forks :
                /\ Filter(f, allow, deny) = <<r>> /\ r.env.markers = f.env.markers
                /\ r.env.include = f.env.include \cup allow
                /\ r.env.exclude = f.env.exclude \cup deny
    BY <1>2 DEF Filtered
  <2>2. r \in W <=> f \in W /\ allow \subseteq A /\ deny \cap A = {}
    BY <2>1 DEF Covering, Covers
  <2> HIDE DEF W
  <2>3. r \notin W => NoneOf(<<r>>, W)
    BY DEF NoneOf
  <2>4. r \in W => OneOf(<<r>>, W)
    BY DEF OneOf
  <2>5. /\ f \notin W \/ ~(allow \subseteq A) \/ deny \cap A # {}
                => NoneOf(Filter(f, allow, deny), W)
        /\ f \in W /\ allow \subseteq A /\ deny \cap A = {}
                => OneOf(Filter(f, allow, deny), W)
    BY <2>1, <2>2, <2>3, <2>4
  <2> QED
    BY <2>5 DEF W
<1> QED
  BY <1>1, <1>2, FilterIs

\* Of the forks for each item, the one for the item of the world is for it.
LEMMA EachCounts ==
  ASSUME ProblemType(problem), NEW M, NEW f \in ForksIn(ForkEnvs(problem, M)),
         NEW k \in DOMAIN problem.conflicts, NEW m, NEW A \in Selections
  PROVE  LET W == Covering(m, A)
             S == problem.conflicts[k]
             t == FlattenSeq(Each(f, S))
         IN  /\ f \notin W \/ A \cap S = {} => NoneOf(t, W)
             /\ f \in W /\ A \cap S # {} => OneOf(t, W)
<1> DEFINE W == Covering(m, A)
           S == problem.conflicts[k]
           s == SetToSeq(S)
           R == ForksIn(ForkEnvs(problem, M))
           ss == Each(f, S)
<1>1. S \in SUBSET Items /\ IsFiniteSet(S)
  BY DEF ProblemType
<1>2. s \in Seq(S)
  BY <1>1, EachOnce
<1>3. \A i \in DOMAIN s : s[i] \in S
  <2> HIDE DEF S, s
  <2> QED
    BY <1>2
<1>4. f \in Forks
  BY DEF ForksIn
<1>5. ss \in Seq(Seq(R))
  BY EachIs
<1>6. DOMAIN ss = DOMAIN s /\ \A i \in DOMAIN s : ss[i] = Filter(f, {s[i]}, S \ {s[i]})
  BY DEF Each
<1>7. ASSUME NEW i \in DOMAIN s
      PROVE  /\ f \notin W \/ ~({s[i]} \subseteq A) \/ (S \ {s[i]}) \cap A # {} => NoneOf(ss[i], W)
             /\ f \in W /\ {s[i]} \subseteq A /\ (S \ {s[i]}) \cap A = {} => OneOf(ss[i], W)
  <2> DEFINE allow == {s[i]}
             deny == S \ {s[i]}
  <2>1. allow \in SUBSET Items /\ deny \in SUBSET Items
    BY <1>1, <1>3
  <2>2. ss[i] = Filter(f, allow, deny)
    BY <1>6
  <2> HIDE DEF S, s, W, ss, allow, deny
  <2>3. /\ f \notin W \/ ~(allow \subseteq A) \/ deny \cap A # {} => NoneOf(ss[i], W)
        /\ f \in W /\ allow \subseteq A /\ deny \cap A = {} => OneOf(ss[i], W)
    BY <1>4, <2>1, <2>2, FilterCounts DEF W
  <2> QED
    BY <2>3 DEF allow, deny
<1>8. A \cap S = {} \/ \E x : A \cap S = {x}
  <2>1. IsFiniteSet(A \cap S)
    BY <1>1, FS_Subset
  <2>2. Cardinality(A \cap S) <= 1
    BY DEF Selections, SelectionsOf
  <2> QED
    BY <2>1, <2>2, AtMostOne
<1>9. ASSUME f \notin W \/ A \cap S = {} PROVE NoneOf(FlattenSeq(ss), W)
  <2>1. \A i \in DOMAIN ss : NoneOf(ss[i], W)
    BY <1>3, <1>6, <1>7, <1>9
  <2> HIDE DEF ss, R, W
  <2> QED
    BY <1>5, <2>1, FlattenCounts
<1>10. ASSUME f \in W, A \cap S # {} PROVE OneOf(FlattenSeq(ss), W)
  <2>1. PICK x : A \cap S = {x}
    BY <1>8, <1>10
  <2>2. PICK i \in DOMAIN s : s[i] = x
    BY <1>1, <2>1, EachOnce
  <2>3. \A j \in DOMAIN s : j # i => s[j] # x
    BY <1>1, <2>2, EachOnce
  <2>4. OneOf(ss[i], W)
    BY <1>7, <1>10, <2>1, <2>2
  <2>5. \A j \in DOMAIN s : j # i => NoneOf(ss[j], W)
    BY <1>3, <1>7, <2>1, <2>3
  <2> HIDE DEF ss, R, W, s
  <2> QED
    BY <1>5, <1>6, <2>4, <2>5, FlattenCounts
<1> QED
  BY <1>9, <1>10

\* As many of the forks of a conflict are for a world as before.
LEMMA ForkOnConflictCounts ==
  ASSUME ProblemType(problem), WellPosed(problem), NEW M,
         NEW f \in ForksIn(ForkEnvs(problem, M)),
         NEW k \in DOMAIN problem.conflicts, NEW m, NEW A \in Selections
  PROVE  LET W == Covering(m, A)
             t == ForkOnConflict(f, problem.conflicts[k])
         IN  (f \notin W => NoneOf(t, W)) /\ (f \in W => OneOf(t, W))
<1> DEFINE W == Covering(m, A)
           S == problem.conflicts[k]
           R == ForksIn(ForkEnvs(problem, M))
           free == {x \in S : IncludedByGroup(f.env, x)}
           t == ForkOnConflict(f, S)
<1>1. S \in SUBSET Items /\ S \subseteq Conflicting(problem)
  BY DEF ProblemType, Conflicting
<1>2. f \in Forks /\ Tidy(problem, f.env)
  BY DEF ForksIn, ForkEnvs
<1>3. CASE t = <<f>>
  <2> HIDE DEF W
  <2>1. f \notin W => NoneOf(<<f>>, W)
    BY DEF NoneOf
  <2>2. f \in W => OneOf(<<f>>, W)
    BY DEF OneOf
  <2> QED
    BY <1>3, <2>1, <2>2 DEF W
<1>4. CASE t = Filter(f, {}, S \ free)
  <2>1. f \in W => (S \ free) \cap A = {}
    <3> SUFFICES ASSUME f \in W, NEW x \in S \ free PROVE x \notin A
      OBVIOUS
    <3>1. f.env.include \subseteq A /\ f.env.exclude \cap A = {}
      BY DEF Covering, Covers
    <3>2. ~IncludedByGroup(f.env, x)
      OBVIOUS
    <3>3. CASE x \in f.env.exclude
      BY <3>1, <3>3
    <3>4. CASE x \notin f.env.exclude
      <4>1. x[2] \in Extras /\ ProjectOf(x) \in f.env.exclude /\ x \notin f.env.include
        BY <3>2, <3>4 DEF IncludedByGroup
      <4> QED
        BY <1>1, <1>2, <3>4, <4>1 DEF Tidy
    <3> QED
      BY <3>3, <3>4
  <2>2. {} \in SUBSET Items /\ S \ free \in SUBSET Items /\ {} \subseteq A
    BY <1>1
  <2> DEFINE deny == S \ free
             none == {}
  <2>3. t = Filter(f, none, deny)
    BY <1>4
  <2> HIDE DEF S, free, deny, none, t
  <2>4. (f \notin W => NoneOf(t, W)) /\ (f \in W => OneOf(t, W))
    BY <1>2, <2>1, <2>2, <2>3, FilterCounts DEF deny, none
  <2> QED
    BY <2>4 DEF t, S
<1>5. CASE t = Filter(f, {}, S) \o FlattenSeq(Each(f, S))
  <2>1. /\ f \notin W \/ A \cap S = {} => NoneOf(FlattenSeq(Each(f, S)), W)
        /\ f \in W /\ A \cap S # {} => OneOf(FlattenSeq(Each(f, S)), W)
    BY EachCounts
  <2>2. {} \in SUBSET Items /\ {} \subseteq A /\ A \cap S = S \cap A
    OBVIOUS
  <2>3. /\ f \notin W \/ A \cap S # {} => NoneOf(Filter(f, {}, S), W)
        /\ f \in W /\ A \cap S = {} => OneOf(Filter(f, {}, S), W)
    <3> HIDE DEF S
    <3> QED
      BY <1>1, <1>2, <2>2, FilterCounts
  <2>4. Filter(f, {}, S) \in Seq(R)
    BY FilterTidy
  <2>5. FlattenSeq(Each(f, S)) \in Seq(R)
    <3>1. Each(f, S) \in Seq(Seq(R))
      BY EachIs
    <3> HIDE DEF R, S
    <3> QED
      BY <3>1, FlattenIn
  <2> HIDE DEF R, S, W
  <2>6. (f \notin W => NoneOf(t, W)) /\ (f \in W => OneOf(t, W))
    BY <1>5, <2>1, <2>3, <2>4, <2>5, ConcatCounts
  <2> QED
    BY <2>6 DEF W, S
<1>6. \/ t = <<f>> \/ t = Filter(f, {}, S \ free)
      \/ t = Filter(f, {}, S) \o FlattenSeq(Each(f, S))
  <2> HIDE DEF S
  <2> QED
    BY DEF ForkOnConflict, Each
<1> QED
  BY <1>3, <1>4, <1>5, <1>6

\* Forks on a set of conflicting items stay in the environments for M.
LEMMA ForkByConflictIs ==
  ASSUME ProblemType(problem), NEW M, NEW s \in Seq(ForksIn(ForkEnvs(problem, M))),
         NEW k \in DOMAIN problem.conflicts
  PROVE  ForkByConflict(s, problem.conflicts[k]) \in Seq(ForksIn(ForkEnvs(problem, M)))
<1> DEFINE R == ForksIn(ForkEnvs(problem, M))
           ss == [i \in DOMAIN s |-> ForkOnConflict(s[i], problem.conflicts[k])]
<1>1. \A i \in DOMAIN s : s[i] \in R /\ ss[i] \in Seq(R)
  <2>1. \A i \in DOMAIN s : s[i] \in R
    OBVIOUS
  <2> QED
    BY <2>1, ForkOnConflictIs
<1>2. ss \in Seq(Seq(R))
  <2>1. ss \in [1..Len(s) -> Seq(R)]
    BY <1>1
  <2> HIDE DEF ss, R
  <2> QED
    BY <2>1
<1> HIDE DEF ss, R
<1>3. FlattenSeq(ss) \in Seq(R)
  BY <1>2, FlattenIn
<1> QED
  BY <1>3 DEF ss, R, ForkByConflict

\* A set of conflicting items leaves as many forks for a world as there were.
LEMMA ForkByConflictCounts ==
  ASSUME ProblemType(problem), WellPosed(problem), NEW M,
         NEW s \in Seq(ForksIn(ForkEnvs(problem, M))),
         NEW k \in DOMAIN problem.conflicts, NEW m, NEW A \in Selections
  PROVE  LET W == Covering(m, A)
             t == ForkByConflict(s, problem.conflicts[k])
         IN  (NoneOf(s, W) => NoneOf(t, W)) /\ (OneOf(s, W) => OneOf(t, W))
<1> DEFINE R == ForksIn(ForkEnvs(problem, M))
           W == Covering(m, A)
           ss == [i \in DOMAIN s |-> ForkOnConflict(s[i], problem.conflicts[k])]
<1>1. \A i \in DOMAIN s : s[i] \in R /\ ss[i] \in Seq(R)
  <2>1. \A i \in DOMAIN s : s[i] \in R
    OBVIOUS
  <2> QED
    BY <2>1, ForkOnConflictIs
<1>2. ss \in Seq(Seq(R)) /\ DOMAIN ss = DOMAIN s
  <2>1. ss \in [1..Len(s) -> Seq(R)] /\ DOMAIN ss = DOMAIN s
    BY <1>1
  <2> HIDE DEF ss, R
  <2> QED
    BY <2>1
<1>3. \A i \in DOMAIN s : (s[i] \notin W => NoneOf(ss[i], W)) /\ (s[i] \in W => OneOf(ss[i], W))
  BY <1>1, ForkOnConflictCounts
<1>4. ForkByConflict(s, problem.conflicts[k]) = FlattenSeq(ss)
  BY DEF ForkByConflict
<1> HIDE DEF ss, R, W
<1>5. NoneOf(s, W) => NoneOf(FlattenSeq(ss), W)
  BY <1>2, <1>3, FlattenCounts DEF NoneOf
<1>6. ASSUME OneOf(s, W)
      PROVE  OneOf(FlattenSeq(ss), W)
  <2>1. PICK i \in DOMAIN s : s[i] \in W /\ \A j \in DOMAIN s : j # i => s[j] \notin W
    BY <1>6 DEF OneOf
  <2>2. i \in DOMAIN ss /\ OneOf(ss[i], W) /\ \A j \in DOMAIN ss : j # i => NoneOf(ss[j], W)
    BY <1>2, <1>3, <2>1
  <2> QED
    BY <1>2, <2>2, FlattenCounts
<1> QED
  BY <1>4, <1>5, <1>6 DEF W

\* All forks of a set of dependencies are for the places of the fork.
LEMMA ForkDependenciesIs ==
  ASSUME ProblemType(problem), NEW M, NEW env \in ForkEnvs(problem, M),
         NEW python, NEW deps \in Seq(Dependencies)
  PROVE  ForkDependencies(env, python, deps) \in Seq(ForksIn(ForkEnvs(problem, M)))
<1> DEFINE G == ForkEnvs(problem, M)
           T == Seq(ForksIn(G))
           of(n) == Keep(deps, {d \in ToSet(deps) : d.name = n})
<1>1. Narrows(G)
  BY NarrowForkEnvs
<1>2. <<[env |-> env, deps |-> <<>>, index |-> {}]>> \in T
  <2>1. env \in Envs
    BY DEF ForkEnvs
  <2>2. [env |-> env, deps |-> <<>>, index |-> {}] \in ForksIn(G)
    BY <2>1 DEF ForksIn, Forks
  <2> QED
    BY <2>2
<1>3. ASSUME NEW n PROVE of(n) \in Seq(Dependencies)
  <2>1. of(n) \in Seq(Dependencies \cap {d \in ToSet(deps) : d.name = n})
    BY KeepIn
  <2> HIDE DEF of
  <2> QED
    BY <2>1
<1>4. \A a \in T, d \in Dependencies, same \in BOOLEAN : ForkByDependency(a, d, same, env, python) \in T
  <2> HIDE DEF G
  <2> QED
    BY <1>1, ForkByDependencyIs
<1>5. \A a \in T, n \in Names : ForkByName(a, of(n), env, python) \in T
  <2> HIDE DEF G, T, of
  <2> QED
    BY <1>3, <1>4, ForkByNameIn
<1>6. ForkByNames(env, python, deps) \in T
  <2> HIDE DEF G, T
  <2> QED
    BY <1>2, <1>5, ForkByNamesIn
<1>7. \A a \in T, i \in DOMAIN problem.conflicts : ForkByConflict(a, problem.conflicts[i]) \in T
  BY ForkByConflictIs
<1>8. problem.conflicts \in Seq(SUBSET Items)
  BY DEF ProblemType
<1> HIDE DEF G, T
<1>9. ForkDependencies(env, python, deps) \in T
  BY <1>6, <1>7, <1>8, ForkDependenciesIn
<1> QED
  BY <1>9 DEF G, T

\* One of the forks of a set of dependencies is for a world of the fork,
\* and none is for another world.
LEMMA ForkDependenciesCounts ==
  ASSUME ProblemType(problem), WellPosed(problem), NEW M, NEW env \in ForkEnvs(problem, M),
         NEW python \in SUBSET Pythons, NEW deps \in Seq(Dependencies),
         NEW m \in Places, m[1] \in python, NEW A \in Selections
  PROVE  LET t == ForkDependencies(env, python, deps)
         IN  /\ ~Covers(env, m, A) => NoneOf(t, Covering(m, A))
             /\ Covers(env, m, A) => OneOf(t, Covering(m, A))
<1> DEFINE G == ForkEnvs(problem, M)
           W == Covering(m, A)
           T == {s \in Seq(ForksIn(G)) : /\ ~Covers(env, m, A) => NoneOf(s, W)
                                         /\ Covers(env, m, A) => OneOf(s, W)}
           of(n) == Keep(deps, {d \in ToSet(deps) : d.name = n})
           first == [env |-> env, deps |-> <<>>, index |-> {}]
<1>1. Narrows(G)
  BY NarrowForkEnvs
<1>2. <<first>> \in T
  <2>1. env \in Envs
    BY DEF ForkEnvs
  <2>2. first \in ForksIn(G) /\ first \in Forks /\ first.env = env
    BY <2>1 DEF ForksIn, Forks
  <2>3. first \in W <=> Covers(env, m, A)
    BY <2>2 DEF Covering
  <2> HIDE DEF first, G, W
  <2>4. <<first>> \in Seq(ForksIn(G)) /\ DOMAIN <<first>> = {1} /\ <<first>>[1] = first
    BY <2>2
  <2> QED
    BY <2>3, <2>4 DEF NoneOf, OneOf
<1>3. ASSUME NEW n PROVE of(n) \in Seq(Dependencies)
  <2>1. of(n) \in Seq(Dependencies \cap {d \in ToSet(deps) : d.name = n})
    BY KeepIn
  <2> HIDE DEF of
  <2> QED
    BY <2>1
<1>4. \A a \in T, d \in Dependencies, same \in BOOLEAN : ForkByDependency(a, d, same, env, python) \in T
  <2> TAKE a \in T, d \in Dependencies, same \in BOOLEAN
  <2> DEFINE t == ForkByDependency(a, d, same, env, python)
  <2>1. a \in Seq(ForksIn(G))
    OBVIOUS
  <2> HIDE DEF G
  <2>2. /\ t \in Seq(ForksIn(G))
        /\ NoneOf(a, W) => NoneOf(t, W)
        /\ OneOf(a, W) => OneOf(t, W)
    BY <1>1, <2>1, ForkByDependencyIs
  <2> HIDE DEF t, W
  <2> QED
    BY <2>2 DEF t
<1>5. \A a \in T, n \in Names : ForkByName(a, of(n), env, python) \in T
  <2> HIDE DEF G, T, of
  <2> QED
    BY <1>3, <1>4, ForkByNameIn
<1>6. ForkByNames(env, python, deps) \in T
  <2> HIDE DEF G, T
  <2> QED
    BY <1>2, <1>5, ForkByNamesIn
<1>7. \A a \in T, i \in DOMAIN problem.conflicts : ForkByConflict(a, problem.conflicts[i]) \in T
  <2> TAKE a \in T, i \in DOMAIN problem.conflicts
  <2> DEFINE t == ForkByConflict(a, problem.conflicts[i])
  <2>1. a \in Seq(ForksIn(G))
    OBVIOUS
  <2>2. t \in Seq(ForksIn(G))
    BY <2>1, ForkByConflictIs
  <2>3. (NoneOf(a, W) => NoneOf(t, W)) /\ (OneOf(a, W) => OneOf(t, W))
    BY <2>1, ForkByConflictCounts
  <2> HIDE DEF t, W, G
  <2> QED
    BY <2>2, <2>3 DEF t
<1>8. problem.conflicts \in Seq(SUBSET Items)
  BY DEF ProblemType
<1>9. ForkDependencies(env, python, deps) \in T
  <2> HIDE DEF G, T
  <2> QED
    BY <1>6, <1>7, <1>8, ForkDependenciesIn
<1> QED
  BY <1>9

-----------------------------------------------------------------------------
(* The order of forks.                                                     *)

\* A set of numbers has a lowest one.
LEMMA LowestIs ==
  ASSUME NEW S \in SUBSET Nat, S # {}
  PROVE  Lowest(S) \in S /\ \A q \in S : Lowest(S) <= q
<1>1. PICK x \in S : \A y \in S : ~(<<y, x>> \in OpToRel(<, Nat))
  BY NatLessThanWellFounded, WFMin
<1>2. ASSUME NEW y \in S PROVE x <= y
  <2>1. x \in Nat /\ y \in Nat
    OBVIOUS
  <2>2. y < x => <<y, x>> \in OpToRel(<, Nat)
    BY <2>1 DEF OpToRel
  <2>3. ~(y < x)
    BY <1>1, <2>2
  <2> QED
    BY <2>1, <2>3
<1> QED
  BY <1>2 DEF Lowest

\* A finite set of numbers has a highest one.
LEMMA GreatestIs ==
  ASSUME NEW S \in SUBSET Nat, IsFiniteSet(S), S # {}
  PROVE  Highest(S) \in S /\ \A q \in S : q <= Highest(S)
<1> DEFINE s == SetToSeq(S)
           n == Len(s)
           T == {k \in 0..n : k = 0 \/ \E j \in 1..k : \A i \in 1..k : s[i] <= s[j]}
<1>1. s \in Seq(S) /\ \A x \in S : \E i \in DOMAIN s : s[i] = x
  BY EachOnce
<1> HIDE DEF s
<1>2. n \in Nat /\ DOMAIN s = 1..n /\ \A i \in 1..n : s[i] \in S
  BY <1>1
<1>3. 0 \in T
  BY <1>2
<1>4. ASSUME NEW k \in 1..n, k - 1 \in T PROVE k \in T
  <2> HIDE DEF n
  <2>1. CASE k = 1
    <3>2. 1 \in 1..n /\ \A i \in 1..1 : i = 1
      BY <2>1
    <3>3. s[1] \in S
      BY <1>2, <3>2
    <3>0. 1 \in 1..n /\ s[1] \in Nat /\ \A i \in 1..1 : i = 1
      BY <3>2, <3>3
    <3>1. 1 \in 1..1 /\ (\A i \in 1..1 : s[i] <= s[1]) /\ 1 \in 0..n
      BY <1>2, <3>0
    <3> QED
      BY <2>1, <3>1
  <2>2. CASE k # 1
    <3>1. k - 1 # 0 /\ k \in 0..n /\ k - 1 \in 1..n
      BY <1>2, <2>2
    <3>2. PICK j \in 1..(k-1) : \A i \in 1..(k-1) : s[i] <= s[j]
      BY <1>4, <3>1
    <3>3. \A i \in 1..k : i \in 1..(k-1) \/ i = k
      BY <3>1
    <3>0. j \in 1..k /\ k \in 1..k /\ j \in 1..n /\ 1..k \subseteq 1..n
      BY <1>2, <3>1
    <3>4. j \in 1..k /\ k \in 1..k /\ s[j] \in Nat /\ s[k] \in Nat
      BY <1>2, <3>0
    <3>5. \A i \in 1..k : s[i] \in Nat
      BY <1>2, <3>0
    <3>6. CASE s[k] <= s[j]
      <4>1. \A i \in 1..k : s[i] <= s[j]
        BY <3>2, <3>3, <3>6
      <4> QED
        BY <3>1, <3>4, <4>1
    <3>7. CASE s[j] <= s[k]
      <4>1. \A i \in 1..k : s[i] <= s[k]
        BY <3>2, <3>3, <3>4, <3>5, <3>7
      <4> QED
        BY <3>1, <3>4, <4>1
    <3> QED
      BY <3>4, <3>6, <3>7
  <2> QED
    BY <2>1, <2>2
<1>5. n \in T
  <2> HIDE DEF T, n
  <2> QED
    BY <1>2, <1>3, <1>4, Induction
<1>6. n # 0
  <2>1. \E i \in 1..n : TRUE
    BY <1>1, <1>2
  <2> QED
    BY <2>1
<1>7. PICK j \in 1..n : \A i \in 1..n : s[i] <= s[j]
  BY <1>5, <1>6
<1>8. s[j] \in S /\ \A q \in S : q <= s[j]
  BY <1>1, <1>2, <1>7
<1> QED
  BY <1>8 DEF Highest

\* The Pythons of a marker are within its bounds.
LEMMA BoundsAre ==
  ASSUME NEW marker \in SUBSET Places, marker # {}
  PROVE  /\ Bounds(marker) \in SUBSET Pythons
         /\ \A m \in marker : m[1] \in Bounds(marker)
         /\ Lowest(Bounds(marker)) \in Bounds(marker)
         /\ Lowest(Bounds(marker)) \in 1..Highest(Pythons)
         /\ Highest(Pythons) \in Nat
<1> DEFINE S == {m[1] : m \in marker}
<1>1. S \in SUBSET Pythons /\ S # {}
  BY DEF Places
<1>2. Pythons \in SUBSET Nat /\ IsFiniteSet(Pythons) /\ 0 \notin Pythons
  BY ForksAssumption
<1> HIDE DEF S
<1>3. IsFiniteSet(S) /\ S \in SUBSET Nat
  BY <1>1, <1>2, FS_Subset
<1>4. Lowest(S) \in S /\ \A q \in S : Lowest(S) <= q
  BY <1>1, <1>3, LowestIs
<1>5. Highest(S) \in S /\ \A q \in S : q <= Highest(S)
  BY <1>1, <1>3, GreatestIs
<1>6. Bounds(marker) = {p \in Pythons : Lowest(S) <= p /\ p <= Highest(S)}
  BY DEF Bounds, S
<1>7. \A q \in S : q \in Bounds(marker)
  BY <1>1, <1>4, <1>5, <1>6
<1>8. \A m \in marker : m[1] \in Bounds(marker)
  BY <1>7 DEF S
<1>9. Bounds(marker) \in SUBSET Pythons /\ Bounds(marker) # {}
  BY <1>1, <1>6, <1>7
<1>10. Lowest(Bounds(marker)) \in Bounds(marker)
  BY <1>2, <1>9, LowestIs
<1>11. Highest(Pythons) \in Pythons /\ \A q \in Pythons : q <= Highest(Pythons)
  BY <1>1, <1>2, GreatestIs
<1>12. Lowest(Bounds(marker)) \in 1..Highest(Pythons)
  <2>1. Lowest(Bounds(marker)) \in Pythons
    BY <1>9, <1>10
  <2>2. \A q \in Pythons : q \in Nat /\ q # 0
    BY <1>2
  <2> QED
    BY <1>11, <2>1, <2>2
<1> QED
  BY <1>2, <1>8, <1>9, <1>10, <1>11, <1>12

\* Records of environments that are for some place.
Placed(S) == \A f \in S : f.env.markers \in SUBSET Places /\ f.env.markers # {}

\* Forks in order are the same forks: none is lost and none comes twice.
LEMMA PrioritizeIs ==
  ASSUME NEW S, Placed(S), NEW s \in Seq(S), NEW p, Pythons # {}, p.splits \in BOOLEAN
  PROVE  /\ Prioritize(s, p) \in Seq(S)
         /\ s # <<>> => Prioritize(s, p) # <<>>
         /\ \A W : NoneOf(s, W) => NoneOf(Prioritize(s, p), W)
         /\ \A W : OneOf(s, W) => OneOf(Prioritize(s, p), W)
<1> DEFINE newest == Highest(Pythons)
           low(f) == Lowest(Bounds(f.env.markers))
           K(q) == {f \in ToSet(s) : low(f) = q}
           from(q) == Keep(s, K(q))
           at(i) == IF p.splits THEN i ELSE newest + 1 - i
           ss == [i \in 1..newest |-> from(at(i))]
<1>1. newest \in Nat
  <2>1. Pythons \in SUBSET Nat /\ IsFiniteSet(Pythons)
    BY ForksAssumption
  <2>2. newest \in Pythons
    BY <2>1, GreatestIs
  <2> QED
    BY <2>1, <2>2
<1>2. \A i \in DOMAIN s : s[i] \in S /\ s[i] \in ToSet(s) /\ low(s[i]) \in 1..newest
  <2>1. \A i \in DOMAIN s : s[i] \in S /\ s[i] \in ToSet(s)
    BY DEF ToSet
  <2> QED
    BY <2>1, BoundsAre DEF Placed
<1>3. ASSUME NEW q PROVE from(q) \in Seq(S)
  <2>1. from(q) \in Seq(S \cap K(q))
    BY KeepIn
  <2> HIDE DEF from, K
  <2> QED
    BY <2>1
<1>4. ss \in Seq(Seq(S)) /\ DOMAIN ss = 1..newest /\ \A i \in 1..newest : ss[i] = from(at(i))
  <2> HIDE DEF from, at
  <2>1. ss \in [1..newest -> Seq(S)] /\ DOMAIN ss = 1..newest
           /\ \A i \in 1..newest : ss[i] = from(at(i))
    BY <1>3
  <2> HIDE DEF ss, newest
  <2> QED
    BY <1>1, <2>1
<1>5. Prioritize(s, p) = FlattenSeq(ss)
  BY DEF Prioritize
<1>6. \A q \in 1..newest : \E i \in 1..newest : at(i) = q
  <2> HIDE DEF newest
  <2> TAKE q \in 1..newest
  <2>1. CASE p.splits
    BY <2>1
  <2>2. CASE ~p.splits
    <3>1. newest + 1 - q \in 1..newest /\ newest + 1 - (newest + 1 - q) = q
      BY <1>1
    <3> QED
      BY <2>2, <3>1
  <2> QED
    BY <2>1, <2>2
<1>7. \A i, j \in 1..newest : at(i) = at(j) => i = j
  <2> HIDE DEF newest
  <2> QED
    BY <1>1
<1>8. \A i \in DOMAIN s : \A q : s[i] \in K(q) <=> low(s[i]) = q
  <2> HIDE DEF low
  <2> QED
    BY <1>2
<1> HIDE DEF newest, low, K, at, ss
<1>9. ASSUME s # <<>> PROVE FlattenSeq(ss) # <<>>
  <2>1. 1 \in DOMAIN s
    BY <1>9
  <2>2. PICK i \in 1..newest : at(i) = low(s[1])
    BY <1>2, <1>6, <2>1
  <2>3. s[1] \in K(at(i))
    BY <1>8, <2>1, <2>2
  <2>4. ss[i] # <<>>
    BY <1>4, <2>1, <2>3, KeepSome
  <2> QED
    BY <1>4, <2>4, FlattenSome
<1>10. ASSUME NEW W, NoneOf(s, W) PROVE NoneOf(FlattenSeq(ss), W)
  <2>1. \A q : NoneOf(s, W \cap K(q))
    BY <1>10 DEF NoneOf
  <2>2. \A q : NoneOf(from(q), W)
    BY <2>1, KeepCounts
  <2> HIDE DEF from
  <2>3. \A i \in DOMAIN ss : NoneOf(ss[i], W)
    BY <1>4, <2>2
  <2> QED
    BY <1>4, <2>3, FlattenCounts
<1>11. ASSUME NEW W, OneOf(s, W) PROVE OneOf(FlattenSeq(ss), W)
  <2>1. PICK k \in DOMAIN s : s[k] \in W /\ \A j \in DOMAIN s : j # k => s[j] \notin W
    BY <1>11 DEF OneOf
  <2>2. PICK i \in 1..newest : at(i) = low(s[k])
    BY <1>2, <1>6
  <2>3. OneOf(s, W \cap K(at(i)))
    BY <1>8, <2>1, <2>2 DEF OneOf
  <2>4. OneOf(from(at(i)), W)
    BY <2>3, KeepCounts
  <2>5. ASSUME NEW j \in 1..newest, j # i PROVE NoneOf(from(at(j)), W)
    <3>1. at(j) # low(s[k])
      BY <1>7, <2>2, <2>5
    <3>2. NoneOf(s, W \cap K(at(j)))
      BY <1>8, <2>1, <3>1 DEF NoneOf
    <3> QED
      BY <3>2, KeepCounts
  <2> HIDE DEF from
  <2>6. i \in DOMAIN ss /\ OneOf(ss[i], W) /\ \A j \in DOMAIN ss : j # i => NoneOf(ss[j], W)
    BY <1>4, <2>4, <2>5
  <2> QED
    BY <1>4, <2>6, FlattenCounts
<1>12. FlattenSeq(ss) \in Seq(S)
  BY <1>4, FlattenIn
<1> QED
  BY <1>5, <1>9, <1>10, <1>11, <1>12

-----------------------------------------------------------------------------
(* Dependencies of requirements.                                           *)

\* A requirement of an item is one or more dependencies.
LEMMA FromRequirementIs ==
  ASSUME NEW item \in Items, NEW req \in Requirements
  PROVE  FromRequirement(item, req) \in Seq(Dependencies)
<1> DEFINE conflicting == \E k \in req.kinds : <<req.name, k>> \in ConflictItems
           base == IF req.kinds = {} \/ conflicting THEN <<"project">> ELSE <<>>
           kinds == base \o SetToSeq(req.kinds)
           deps == [i \in DOMAIN kinds |-> Dependency(item, req, kinds[i])]
<1>1. req.kinds \in SUBSET (Extras \cup Groups) /\ req.name \in Names
        /\ req.marker \in SUBSET Places /\ req.range \in SUBSET Versions
  BY DEF Requirements
<1>2. IsFiniteSet(req.kinds)
  BY <1>1, ForksAssumption, FS_Subset
<1>3. SetToSeq(req.kinds) \in Seq(req.kinds)
  BY <1>2, EachOnce
<1>4. "project" \in Kinds /\ req.kinds \subseteq Kinds
  BY <1>1 DEF Kinds
<1>5. SetToSeq(req.kinds) \in Seq(Kinds)
  BY <1>3, <1>4
<1>6. base \in Seq(Kinds)
  BY <1>4
<1>7. kinds \in Seq(Kinds)
  <2> HIDE DEF base
  <2> QED
    BY <1>5, <1>6
<1> HIDE DEF kinds
<1>8. ASSUME NEW k \in Kinds PROVE Dependency(item, req, k) \in Dependencies
  BY <1>1 DEF Dependency, Dependencies
<1>9. deps \in [1..Len(kinds) -> Dependencies]
  BY <1>7, <1>8
<1>10. deps \in Seq(Dependencies)
  <2> HIDE DEF deps
  <2> QED
    BY <1>7, <1>9
<1> QED
  BY <1>10 DEF FromRequirement, kinds

\* The dependencies of a version are a sequence of dependencies.
LEMMA GetDependenciesIs ==
  ASSUME ProblemType(problem), NEW item \in Items, NEW v, NEW env, NEW python
  PROVE  GetDependencies(item, v, env, python) \in Seq(Dependencies)
<1> DEFINE all == Requires(item, v)
           K == {q \in ToSet(all) : Applicable(item, q, env, python)}
           reqs == Keep(all, K)
           ss == [i \in DOMAIN reqs |-> FromRequirement(item, reqs[i])]
<1>1. all \in Seq(Requirements)
  BY DEF Requires, ProblemType
<1> HIDE DEF all
<1>2. reqs \in Seq(Requirements)
  <2>1. reqs \in Seq(Requirements \cap K)
    BY <1>1, KeepIn
  <2> HIDE DEF reqs, K
  <2> QED
    BY <2>1
<1> HIDE DEF reqs
<1>3. ss \in [1..Len(reqs) -> Seq(Dependencies)]
  <2>1. DOMAIN reqs = 1..Len(reqs) /\ \A i \in DOMAIN reqs : reqs[i] \in Requirements
    BY <1>2
  <2> QED
    BY <2>1, FromRequirementIs
<1>4. ss \in Seq(Seq(Dependencies))
  <2> HIDE DEF ss
  <2> QED
    BY <1>2, <1>3
<1>5. FlattenSeq(ss) \in Seq(Dependencies)
  <2> HIDE DEF ss
  <2> QED
    BY <1>4, FlattenIn
<1> QED
  BY <1>5 DEF GetDependencies, reqs, all

-----------------------------------------------------------------------------
(* The dependencies of forks.                                              *)

\* Keep loses nothing of K.
LEMMA KeepAll ==
  ASSUME NEW S, NEW s \in Seq(S), NEW K, NEW k \in DOMAIN s, s[k] \in K
  PROVE  \E j \in DOMAIN Keep(s, K) : Keep(s, K)[j] = s[k]
<1> DEFINE n == Len(s)
<1>0. n \in Nat /\ k \in 1..n
  OBVIOUS
<1>1. PICK g \in [0..n -> Seq(S)] : Keeps(g, s, K)
  BY KeepTrace
<1> DEFINE T == {i \in 0..n : i >= k => \E j \in DOMAIN g[i] : g[i][j] = s[k]}
<1>2. 0 \in T
  BY <1>0
<1>3. ASSUME NEW i \in 1..n, i-1 \in T PROVE i \in T
  <2>1. g[i-1] \in Seq(S) /\ s[i] \in S
    OBVIOUS
  <2>2. g[i] = IF s[i] \in K THEN Append(g[i-1], s[i]) ELSE g[i-1]
    BY <1>1 DEF Keeps
  <2>3. i >= k => \E j \in DOMAIN g[i] : g[i][j] = s[k]
    <3> DEFINE p == g[i-1]
               q == Append(p, s[i])
    <3>1. p \in Seq(S)
      BY <2>1
    <3> HIDE DEF p
    <3>2. /\ DOMAIN q = 1..(Len(p) + 1) /\ q[Len(p) + 1] = s[i] /\ Len(p) \in Nat
          /\ \A j \in DOMAIN p : j \in DOMAIN q /\ q[j] = p[j]
      BY <2>1, <3>1
    <3>3. CASE i = k
      <4>1. g[i] = q /\ Len(p) + 1 \in DOMAIN q /\ q[Len(p) + 1] = s[k]
        BY <2>2, <3>2, <3>3 DEF p
      <4> QED
        BY <4>1
    <3>4. CASE i > k
      <4>1. \E j \in DOMAIN p : p[j] = s[k]
        BY <1>0, <1>3, <3>4 DEF p
      <4>2. g[i] = q \/ g[i] = p
        BY <2>2 DEF p
      <4> HIDE DEF q
      <4> QED
        BY <3>2, <4>1, <4>2
    <3> QED
      BY <1>0, <3>3, <3>4
  <2> QED
    BY <1>0, <2>3
<1>4. \A i \in 0..n : i \in T
  <2> HIDE DEF T
  <2> QED
    BY <1>0, <1>2, <1>3, Induction
<1>5. \E j \in DOMAIN g[n] : g[n][j] = s[k]
  BY <1>0, <1>4
<1> QED
  BY <1>0, <1>1, <1>5 DEF Keeps

\* A flattened sequence has the elements of its parts.
LEMMA FlattenAll ==
  ASSUME NEW S, NEW ss \in Seq(Seq(S)), NEW k \in DOMAIN ss, NEW l \in DOMAIN ss[k]
  PROVE  \E j \in DOMAIN FlattenSeq(ss) : FlattenSeq(ss)[j] = ss[k][l]
<1> DEFINE n == Len(ss)
           x == ss[k][l]
<1>0. n \in Nat /\ k \in 1..n /\ DOMAIN ss = 1..n
  OBVIOUS
<1>1. PICK g \in [0..n -> Seq(S)] : Flattens(g, ss)
  BY FlattenTrace
<1> DEFINE T == {i \in 0..n : i >= k => \E j \in DOMAIN g[i] : g[i][j] = x}
<1>2. 0 \in T
  BY <1>0
<1>3. ASSUME NEW i \in 1..n, i-1 \in T PROVE i \in T
  <2> DEFINE p == g[i-1]
             q == ss[i]
             r == p \o q
  <2>1. p \in Seq(S) /\ q \in Seq(S)
    <3>1. i - 1 \in 0..n
      BY <1>0
    <3>2. p \in Seq(S)
      BY <3>1
    <3>3. q \in Seq(S)
      <4> DEFINE Q == Seq(S)
      <4>1. ss \in Seq(Q)
        OBVIOUS
      <4> HIDE DEF Q
      <4>2. ss[i] \in Q
        BY <1>0, <4>1
      <4> QED
        BY <4>2 DEF Q
    <3> QED
      BY <3>2, <3>3
  <2>2. g[i] = r
    BY <1>1 DEF Flattens
  <2>3. i = k => l \in DOMAIN q /\ q[l] = x
    OBVIOUS
  <2>4. i > k => \E j \in DOMAIN p : p[j] = x
    BY <1>0, <1>3
  <2> HIDE DEF p, q
  <2>5. /\ \A j \in DOMAIN p : j \in DOMAIN r /\ r[j] = p[j]
        /\ \A j \in DOMAIN q : Len(p) + j \in DOMAIN r /\ r[Len(p) + j] = q[j]
    BY <2>1
  <2> HIDE DEF r, x
  <2>6. i >= k => \E j \in DOMAIN g[i] : g[i][j] = x
    BY <1>0, <2>2, <2>3, <2>4, <2>5
  <2> QED
    BY <1>0, <2>6
<1>4. \A i \in 0..n : i \in T
  <2> HIDE DEF T
  <2> QED
    BY <1>0, <1>2, <1>3, Induction
<1>5. \E j \in DOMAIN g[n] : g[n][j] = x
  <2>1. n \in 0..n /\ n >= k
    BY <1>0
  <2>2. n \in T
    BY <1>4, <2>1
  <2> HIDE DEF n, x
  <2> QED
    BY <2>1, <2>2
<1> QED
  BY <1>0, <1>1, <1>5 DEF Flattens

\* What is retained of a fork.
LEMMA RetainHas ==
  ASSUME NEW f \in Forks, NEW env \in Envs, NEW keep
  PROVE  LET r == Retain(f, env, keep) IN
         /\ r \in Forks /\ r.env = env
         /\ ToSet(r.deps) = ToSet(f.deps) \cap keep
         /\ r.index = f.index \ {Item(d) : d \in ToSet(f.deps) \ keep}
<1> DEFINE D == Dependencies
           r == Retain(f, env, keep)
           s == f.deps
           t == Keep(s, keep)
<1>1. s \in Seq(D)
  BY DEF Forks
<1>2. r \in Forks /\ r.env = env
  BY RetainIs
<1>3. r.deps = t /\ r.index = f.index \ {Item(d) : d \in ToSet(f.deps) \ keep}
  BY DEF Retain
<1> HIDE DEF s, D
<1>4. s \in Seq(ToSet(s))
  BY <1>1 DEF ToSet
<1>5. t \in Seq(ToSet(s) \cap keep)
  BY <1>4, KeepIn
<1>6. ASSUME NEW k \in DOMAIN s, s[k] \in keep PROVE \E j \in DOMAIN t : t[j] = s[k]
  BY <1>1, <1>6, KeepAll
<1> HIDE DEF t
<1>7. ToSet(t) = ToSet(s) \cap keep
  <2>1. \A j \in DOMAIN t : t[j] \in ToSet(s) \cap keep
    BY <1>5
  <2> QED
    BY <1>6, <2>1 DEF ToSet
<1> QED
  BY <1>2, <1>3, <1>7 DEF s

\* What a dependency adds to a fork.
LEMMA AddHas ==
  ASSUME NEW f \in Forks, NEW dep \in Dependencies
  PROVE  LET r == AddDependency(f, dep) IN
         /\ r \in Forks /\ r.env = f.env
         /\ ToSet(r.deps) = ToSet(f.deps) \cup {dep}
         /\ r.index = f.index \cup {Item(dep)}
<1> DEFINE D == Dependencies
           deps == Append(f.deps, dep)
           s == f.deps
           index == f.index \cup {Item(dep)}
           r == AddDependency(f, dep)
<1>1. r \in Forks /\ r.env = f.env
  BY AddDependencyIs
<1>2. s \in Seq(D) /\ dep \in D
  BY DEF Forks
<1>3. r.deps = deps /\ r.index = index
  <2> HIDE DEF deps, index
  <2>1. r = [f EXCEPT !.deps = deps, !.index = index]
    BY DEF AddDependency, deps, index
  <2> QED
    BY <2>1 DEF Forks
<1> HIDE DEF D, s
<1>4. ToSet(deps) = ToSet(s) \cup {dep}
  <2> DEFINE n == Len(s)
  <2>1. n \in Nat /\ DOMAIN s = 1..n /\ deps = Append(s, dep)
    BY <1>2 DEF s
  <2>2. DOMAIN deps = 1..(n+1) /\ deps[n+1] = dep /\ \A i \in 1..n : deps[i] = s[i]
    BY <1>2, <2>1
  <2>3. 1..(n+1) = (1..n) \cup {n+1}
    BY <2>1
  <2> HIDE DEF deps, n
  <2> QED
    BY <2>1, <2>2, <2>3 DEF ToSet
<1> QED
  BY <1>1, <1>3, <1>4 DEF s

\* The elements of two sequences, one after the other.
LEMMA ConcatIs ==
  ASSUME NEW S, NEW s \in Seq(S), NEW u \in Seq(S), NEW t, t = s \o u
  PROVE  /\ DOMAIN t = 1..(Len(s) + Len(u)) /\ Len(s) \in Nat /\ Len(u) \in Nat
         /\ DOMAIN s = 1..Len(s) /\ DOMAIN u = 1..Len(u)
         /\ \A k \in DOMAIN t : \/ k \in DOMAIN s /\ t[k] = s[k]
                                \/ k > Len(s) /\ k - Len(s) \in DOMAIN u /\ t[k] = u[k - Len(s)]
  OBVIOUS

\* No two forks are for the same place.
Pairwise(s) ==
    \A i, j \in DOMAIN s : i # j => s[i].env.markers \cap s[j].env.markers = {}

\* What becomes of a fork when a dependency is added: nothing, if it is
\* for other places; the dependency is added, where it is for all the
\* places or those of its name have the same marker; or a part is made of
\* it that is for places of the dependency only, or for others only.
Becomes(r, f, dep, same) ==
    \/ r = f /\ f.env.markers \cap dep.marker = {}
    \/ r = AddDependency(f, dep) /\ (f.env.markers \subseteq dep.marker \/ same)
    \/ \E k \in SUBSET Places :
         /\ r = Place(f, k, dep) /\ r.env.markers # {}
         /\ \/ f.env.markers \cap k \subseteq dep.marker
            \/ f.env.markers \cap k \cap dep.marker = {}

\* It is for no more places.
LEMMA BecomesLess ==
  ASSUME NEW f \in Forks, NEW dep \in Dependencies, NEW same, NEW r, Becomes(r, f, dep, same)
  PROVE  r.env.markers \subseteq f.env.markers
<1>1. f.env \in Envs
  BY DEF Forks
<1>2. ASSUME NEW k \in SUBSET Places, r = Place(f, k, dep)
      PROVE  r.env.markers \subseteq f.env.markers
  BY <1>1, <1>2, PlaceIs, NarrowIs
<1>3. AddDependency(f, dep).env = f.env
  BY AddDependencyIs
<1> QED
  BY <1>2, <1>3 DEF Becomes

\* The sides of a marker are one or two parts of the fork.
LEMMA SidesFrom ==
  ASSUME NEW f \in Forks, NEW marker \in SUBSET Places, NEW dep \in Dependencies, NEW python
  PROVE  LET t == Sides(f, marker, dep, python) IN
         /\ \A i \in DOMAIN t :
              /\ t[i] = Place(f, marker, dep) \/ t[i] = Place(f, Places \ marker, dep)
              /\ t[i].env.markers # {}
         /\ \A i, j \in DOMAIN t : i # j => t[i].env.markers \cap t[j].env.markers = {}
<1> DEFINE a == Place(f, Places \ marker, dep)
           b == Place(f, marker, dep)
           Q == PythonMarker(python)
           sa == IF IncludedByMarker(a.env, Q) THEN <<a>> ELSE <<>>
           sb == IF IncludedByMarker(b.env, Q) THEN <<b>> ELSE <<>>
           t == Sides(f, marker, dep, python)
           c == IF f.env.markers \subseteq marker THEN <<>> ELSE sa
<1>1. t = c \o sb
  BY DEF Sides
<1>2. f.env \in Envs /\ Places \ marker \in SUBSET Places
  BY DEF Forks
<1>3. a.env.markers = f.env.markers \ marker /\ b.env.markers = f.env.markers \cap marker
  <2>1. f.env.markers \cap (Places \ marker) = f.env.markers \ marker
    BY <1>2 DEF Envs
  <2> QED
    BY <1>2, <2>1, PlaceIs, NarrowIs
<1> HIDE DEF a, b, Q, t
<1>4. sa \in {<<>>, <<a>>} /\ (sa = <<a>> => a.env.markers # {})
  BY DEF IncludedByMarker
<1>5. sb \in {<<>>, <<b>>} /\ (sb = <<b>> => b.env.markers # {})
  BY DEF IncludedByMarker
<1>6. c \in {<<>>, <<a>>} /\ (c = <<a>> => a.env.markers # {})
  <2> HIDE DEF sa
  <2> QED
    BY <1>4
<1> HIDE DEF sa, sb, c
<1>10. /\ DOMAIN t = 1..(Len(c) + Len(sb)) /\ DOMAIN c = 1..Len(c)
       /\ \A i \in DOMAIN t : \/ i \in DOMAIN c /\ t[i] = c[i]
                              \/ i > Len(c) /\ t[i] = sb[i - Len(c)]
  <2> DEFINE S == {a, b}
  <2>0. a \in S /\ b \in S
    OBVIOUS
  <2> HIDE DEF S
  <2>3. <<>> \in Seq(S) /\ <<a>> \in Seq(S) /\ <<b>> \in Seq(S)
    BY <2>0
  <2>1. c \in Seq(S) /\ sb \in Seq(S)
    BY <1>5, <1>6, <2>3
  <2>2. t = c \o sb
    BY <1>1
  <2> QED
    BY <2>1, <2>2, ConcatIs
<1>7. /\ \A i \in DOMAIN t : (t[i] = b \/ t[i] = a) /\ t[i].env.markers # {}
      /\ \A i, j \in DOMAIN t : i # j => t[i].env.markers \cap t[j].env.markers = {}
  <2>1. CASE c = <<>> /\ sb = <<>>
    <3>1. DOMAIN t = {}
      BY <1>10, <2>1
    <3> QED
      BY <3>1
  <2>2. CASE c = <<a>> /\ sb = <<>>
    <3>1. DOMAIN t = {1} /\ t[1] = a
      BY <1>10, <2>2
    <3> QED
      BY <1>6, <2>2, <3>1
  <2>3. CASE c = <<>> /\ sb = <<b>>
    <3>1. DOMAIN t = {1} /\ t[1] = b
      BY <1>10, <2>3
    <3> QED
      BY <1>5, <2>3, <3>1
  <2>4. CASE c = <<a>> /\ sb = <<b>>
    <3>1. DOMAIN t = {1, 2} /\ t[1] = a /\ t[2] = b
      BY <1>10, <2>4
    <3> QED
      BY <1>3, <1>5, <1>6, <2>4, <3>1
  <2> QED
    BY <1>5, <1>6, <2>1, <2>2, <2>3, <2>4
<1> QED
  BY <1>7 DEF a, b, t

\* Forks of a dependency, made of forks that are for different places: they
\* are for different places, and each is what becomes of one.
FromForks(t, s, dep, same) ==
    /\ Pairwise(t)
    /\ \A i \in DOMAIN t : \E j \in DOMAIN s : Becomes(t[i], s[j], dep, same)

\* One more fork is split.
LEMMA SplitFrom ==
  ASSUME NEW n \in Nat, NEW s \in Seq(Forks), n = Len(s), Pairwise(s),
         NEW dep \in Dependencies, NEW same, NEW python, NEW i \in 1..n,
         NEW acc \in [marker : SUBSET Places, forks : Seq(Forks)],
         acc.marker \subseteq dep.marker,
         \A m \in dep.marker \ acc.marker : \E j \in 1..(i-1) : m \in s[j].env.markers,
         Pairwise(acc.forks),
         \A k \in DOMAIN acc.forks : \E j \in 1..(i-1) : Becomes(acc.forks[k], s[j], dep, same)
  PROVE  LET new == Split(acc, s[i], dep, python) IN
         /\ new.marker \subseteq dep.marker
         /\ \A m \in dep.marker \ new.marker : \E j \in 1..i : m \in s[j].env.markers
         /\ Pairwise(new.forks)
         /\ \A k \in DOMAIN new.forks : \E j \in 1..i : Becomes(new.forks[k], s[j], dep, same)
<1> DEFINE f == s[i]
           new == Split(acc, f, dep, python)
           old == acc.forks
<1>0. DOMAIN s = 1..n /\ i \in 1..n /\ \A j \in 1..(i-1) : j \in 1..n /\ j # i /\ j \in 1..i
  OBVIOUS
<1>1. \A j \in 1..n : s[j] \in Forks
  BY <1>0
<1>2. f \in Forks /\ f.env \in Envs
  BY <1>1 DEF Forks
<1>3. \A j \in 1..(i-1) : s[j].env.markers \cap f.env.markers = {}
  BY <1>0 DEF Pairwise
<1>4. f.env.markers \cap acc.marker = f.env.markers \cap dep.marker
  BY <1>3
<1>5. old \in Seq(Forks)
  OBVIOUS
<1>6. \A k \in DOMAIN old : old[k].env.markers \cap f.env.markers = {}
  <2> TAKE k \in DOMAIN old
  <2>1. PICK j \in 1..(i-1) : Becomes(old[k], s[j], dep, same)
    OBVIOUS
  <2>2. old[k].env.markers \subseteq s[j].env.markers
    BY <1>0, <1>1, <2>1, BecomesLess
  <2> QED
    BY <1>3, <2>2
<1>7. \A k \in DOMAIN old : \E j \in 1..i : Becomes(old[k], s[j], dep, same)
  BY <1>0
<1> DEFINE more == IF ~IncludedByMarker(f.env, acc.marker) THEN <<f>>
                   ELSE Sides(f, acc.marker, dep, python)
<1>8. new.forks = old \o more \/ (more = <<f>> /\ new.forks = Append(old, f))
  BY DEF Split
<1>9. /\ new.marker \subseteq dep.marker
      /\ \A m \in dep.marker \ new.marker : \E j \in 1..i : m \in s[j].env.markers
  <2>1. new.marker = acc.marker \/ new.marker = acc.marker \ f.env.markers
    BY DEF Split
  <2> HIDE DEF new
  <2> QED
    BY <1>0, <2>1
<1>10. /\ \A k \in DOMAIN more : Becomes(more[k], f, dep, same)
       /\ Pairwise(more)
  <2>1. CASE ~IncludedByMarker(f.env, acc.marker)
    <3>1. more = <<f>> /\ f.env.markers \cap dep.marker = {}
      BY <1>4, <2>1 DEF IncludedByMarker
    <3>2. Becomes(f, f, dep, same)
      BY <3>1 DEF Becomes
    <3> QED
      BY <3>1, <3>2 DEF Pairwise
  <2>2. CASE IncludedByMarker(f.env, acc.marker)
    <3> DEFINE t == Sides(f, acc.marker, dep, python)
    <3>0. more = t
      BY <2>2
    <3>1. acc.marker \in SUBSET Places /\ Places \ acc.marker \in SUBSET Places
      OBVIOUS
    <3>2. /\ \A k \in DOMAIN t :
               /\ t[k] = Place(f, acc.marker, dep) \/ t[k] = Place(f, Places \ acc.marker, dep)
               /\ t[k].env.markers # {}
          /\ Pairwise(t)
      BY <1>2, <3>1, SidesFrom DEF Pairwise
    <3>3. /\ f.env.markers \cap acc.marker \subseteq dep.marker
          /\ f.env.markers \cap (Places \ acc.marker) \cap dep.marker = {}
      BY <1>4
    <3> HIDE DEF t, more, f
    <3>4. \A k \in DOMAIN t : Becomes(t[k], f, dep, same)
      BY <3>1, <3>2, <3>3 DEF Becomes
    <3> QED
      BY <3>0, <3>2, <3>4
  <2> QED
    BY <2>1, <2>2
<1>11. more \in Seq(Forks)
  <2>1. CASE ~IncludedByMarker(f.env, acc.marker)
    BY <1>2, <2>1
  <2>2. CASE IncludedByMarker(f.env, acc.marker)
    <3>1. Narrows(Envs) /\ ForksIn(Envs) = Forks
      <4>1. Narrows(Envs)
        BY NarrowIs DEF Narrows
      <4> QED
        BY <4>1 DEF ForksIn, Forks
    <3>2. f \in ForksIn(Envs) /\ acc.marker \in SUBSET Places
      BY <1>2, <3>1
    <3>3. Sides(f, acc.marker, dep, python) \in Seq(ForksIn(Envs))
      BY <3>1, <3>2, SidesIn
    <3> QED
      BY <2>2, <3>1, <3>3
  <2> QED
    BY <2>1, <2>2
<1>12. \A k \in DOMAIN more : more[k].env.markers \subseteq f.env.markers
  <2> HIDE DEF more, f
  <2> QED
    BY <1>2, <1>10, BecomesLess
<1> HIDE DEF new, more, old
<1> DEFINE t == new.forks
<1>13. /\ DOMAIN t = 1..(Len(old) + Len(more)) /\ Len(old) \in Nat /\ Len(more) \in Nat
       /\ DOMAIN old = 1..Len(old) /\ DOMAIN more = 1..Len(more)
       /\ \A k \in DOMAIN t : \/ k \in DOMAIN old /\ t[k] = old[k]
                              \/ k > Len(old) /\ k - Len(old) \in DOMAIN more /\ t[k] = more[k - Len(old)]
  <2>1. CASE t = old \o more
    BY <1>5, <1>11, <2>1, ConcatIs
  <2>2. CASE more = <<f>> /\ t = Append(old, f)
    <3>1. /\ DOMAIN more = 1..1 /\ Len(more) = 1 /\ more[1] = f /\ Len(old) \in Nat
          /\ DOMAIN old = 1..Len(old) /\ DOMAIN t = 1..(Len(old) + 1)
          /\ t[Len(old) + 1] = f /\ \A k \in 1..Len(old) : t[k] = old[k]
      <4> HIDE DEF f
      <4> QED
        BY <1>2, <1>5, <2>2
    <3>2. ASSUME NEW k \in DOMAIN t, k \notin DOMAIN old
          PROVE  k = Len(old) + 1 /\ k > Len(old) /\ k - Len(old) = 1
      BY <3>1, <3>2
    <3> HIDE DEF f, t
    <3> QED
      BY <3>1, <3>2
  <2> QED
    BY <1>8, <2>1, <2>2
<1> HIDE DEF t
<1>14. \A k \in DOMAIN t : \E j \in 1..i : Becomes(t[k], s[j], dep, same)
  BY <1>0, <1>7, <1>10, <1>13
<1>15. Pairwise(t)
  <2> SUFFICES ASSUME NEW k \in DOMAIN t, NEW l \in DOMAIN t, k # l
               PROVE  t[k].env.markers \cap t[l].env.markers = {}
    BY DEF Pairwise
  <2>0. Pairwise(old) /\ Pairwise(more)
    BY <1>10 DEF old
  <2>1. CASE k \in DOMAIN old /\ l \in DOMAIN old
    BY <1>13, <2>0, <2>1 DEF Pairwise
  <2>2. CASE k \in DOMAIN old /\ l \notin DOMAIN old
    BY <1>6, <1>12, <1>13, <2>2
  <2>3. CASE k \notin DOMAIN old /\ l \in DOMAIN old
    BY <1>6, <1>12, <1>13, <2>3
  <2>4. CASE k \notin DOMAIN old /\ l \notin DOMAIN old
    <3> DEFINE a == k - Len(old)
               b == l - Len(old)
    <3>1. a \in DOMAIN more /\ b \in DOMAIN more /\ t[k] = more[a] /\ t[l] = more[b]
      BY <1>13, <2>4
    <3>2. a # b
      BY <1>13
    <3> HIDE DEF a, b
    <3> QED
      BY <2>0, <3>1, <3>2 DEF Pairwise
  <2> QED
    BY <2>1, <2>2, <2>3, <2>4
<1> QED
  BY <1>9, <1>14, <1>15 DEF t, new, f

\* Forks for different places stay so, and each comes from one of them.
LEMMA ForkOnFrom ==
  ASSUME NEW G, Narrows(G), NEW s \in Seq(ForksIn(G)), Pairwise(s),
         NEW dep \in Dependencies, NEW same, NEW python
  PROVE  FromForks(ForkOn(s, dep, python), s, dep, same)
<1> DEFINE n == Len(s)
<1>0. n \in Nat /\ DOMAIN s = 1..n /\ s \in Seq(Forks)
  BY DEF ForksIn
<1>1. PICK g \in [0..n -> Splits(G)] : SplitsOff(g, s, dep, python)
  BY ForkOnTrace
<1> DEFINE P(i) ==
             /\ g[i].marker \subseteq dep.marker
             /\ \A m \in dep.marker \ g[i].marker : \E j \in 1..i : m \in s[j].env.markers
             /\ Pairwise(g[i].forks)
             /\ \A k \in DOMAIN g[i].forks :
                  \E j \in 1..i : Becomes(g[i].forks[k], s[j], dep, same)
           T == {i \in 0..n : P(i)}
<1>2. 0 \in T
  <2>1. g[0] = [marker |-> dep.marker, forks |-> <<>>]
    BY <1>1 DEF SplitsOff
  <2>2. P(0)
    BY <2>1 DEF Pairwise
  <2> HIDE DEF P
  <2> QED
    BY <1>0, <2>2
<1>3. ASSUME NEW i \in 1..n, i-1 \in T PROVE i \in T
  <2> DEFINE acc == g[i-1]
  <2>0. i - 1 \in 0..n /\ i \in 0..n
    BY <1>0
  <2>1. acc \in [marker : SUBSET Places, forks : Seq(Forks)]
    <3>1. acc \in Splits(G)
      BY <2>0
    <3> HIDE DEF acc
    <3>2. acc.forks \in Seq(ForksIn(G)) /\ acc.marker \in SUBSET Places
          /\ acc = [marker |-> acc.marker, forks |-> acc.forks]
      BY <3>1 DEF Splits
    <3>3. acc.forks \in Seq(Forks)
      BY <3>2 DEF ForksIn
    <3> QED
      BY <3>2, <3>3
  <2>2. g[i] = Split(acc, s[i], dep, python)
    BY <1>1 DEF SplitsOff
  <2>3. P(i-1)
    BY <1>3
  <2> DEFINE new == Split(acc, s[i], dep, python)
  <2>4. /\ new.marker \subseteq dep.marker
        /\ \A m \in dep.marker \ new.marker : \E j \in 1..i : m \in s[j].env.markers
        /\ Pairwise(new.forks)
        /\ \A k \in DOMAIN new.forks : \E j \in 1..i : Becomes(new.forks[k], s[j], dep, same)
    <3>1. /\ acc.marker \subseteq dep.marker
          /\ \A m \in dep.marker \ acc.marker : \E j \in 1..(i-1) : m \in s[j].env.markers
          /\ Pairwise(acc.forks)
          /\ \A k \in DOMAIN acc.forks :
               \E j \in 1..(i-1) : Becomes(acc.forks[k], s[j], dep, same)
      BY <2>3
    <3> HIDE DEF acc, n, P
    <3> QED
      BY <1>0, <2>1, <3>1, SplitFrom DEF n
  <2>5. P(i)
    BY <2>2, <2>4
  <2> HIDE DEF P
  <2> QED
    BY <2>0, <2>5
<1>4. \A i \in 0..n : i \in T
  <2> HIDE DEF T
  <2> QED
    BY <1>0, <1>2, <1>3, Induction
<1>5. P(n)
  BY <1>0, <1>4
<1>6. ForkOn(s, dep, python) = g[n].forks
  BY <1>1 DEF SplitsOff
<1> QED
  BY <1>0, <1>5, <1>6 DEF FromForks

\* The forks that a dependency makes, of forks for different places of M.
LEMMA ForkByDependencyFrom ==
  ASSUME NEW G, Narrows(G), NEW s \in Seq(ForksIn(G)), Pairwise(s),
         NEW env \in Envs, \A e \in G : e.markers \subseteq env.markers,
         NEW dep \in Dependencies, NEW same \in BOOLEAN, NEW python
  PROVE  FromForks(ForkByDependency(s, dep, same, env, python), s, dep, same)
<1> DEFINE n == Len(s)
           t == ForkByDependency(s, dep, same, env, python)
<1> SUFFICES FromForks(t, s, dep, same)
  OBVIOUS
<1> HIDE DEF t
<1>0. n \in Nat /\ DOMAIN s = 1..n /\ \A i \in 1..n : s[i] \in ForksIn(G)
  OBVIOUS
<1>1. \A i \in 1..n : s[i] \in Forks /\ s[i].env \in Envs /\ s[i].env.markers \subseteq env.markers
  <2> TAKE i \in 1..n
  <2>1. s[i] \in ForksIn(G)
    BY <1>0
  <2> QED
    BY <2>1 DEF ForksIn, Forks
<1>2. \A i \in 1..n : AddDependency(s[i], dep).env = s[i].env
  BY <1>1, AddDependencyIs
<1>3. CASE same /\ ~Raises(python, dep.marker)
  <2> DEFINE u == AddWhereIncluded(s, dep)
  <2>0. t = u
    BY <1>3 DEF ForkByDependency, t
  <2>1. DOMAIN u = 1..n /\ \A i \in 1..n : u[i] = IF IncludedByMarker(s[i].env, dep.marker)
                                                 THEN AddDependency(s[i], dep) ELSE s[i]
    BY <1>0 DEF AddWhereIncluded
  <2> HIDE DEF u
  <2>2. \A i \in 1..n : u[i].env = s[i].env /\ Becomes(u[i], s[i], dep, same)
    BY <1>2, <1>3, <2>1 DEF Becomes, IncludedByMarker
  <2>3. Pairwise(u)
    BY <1>0, <2>1, <2>2 DEF Pairwise
  <2>4. FromForks(u, s, dep, same)
    BY <1>0, <2>1, <2>2, <2>3 DEF FromForks
  <2> QED
    BY <2>0, <2>4
<1>4. CASE ~(same /\ ~Raises(python, dep.marker)) /\ ~IncludedByMarker(env, dep.marker)
  <2>0. t = s
    BY <1>4 DEF ForkByDependency, t
  <2>1. \A i \in 1..n : Becomes(s[i], s[i], dep, same)
    BY <1>1, <1>4 DEF Becomes, IncludedByMarker
  <2> QED
    BY <1>0, <2>0, <2>1 DEF FromForks
<1>5. CASE ~(same /\ ~Raises(python, dep.marker)) /\ IncludedByMarker(env, dep.marker)
           /\ dep.marker = Places
  <2> DEFINE u == [i \in DOMAIN s |-> AddDependency(s[i], dep)]
  <2>0. t = u
    BY <1>5 DEF ForkByDependency, t
  <2>1. DOMAIN u = 1..n /\ \A i \in 1..n : u[i] = AddDependency(s[i], dep)
    BY <1>0
  <2> HIDE DEF u
  <2>2. \A i \in 1..n : u[i].env = s[i].env /\ Becomes(u[i], s[i], dep, same)
    <3>1. \A i \in 1..n : s[i].env.markers \subseteq dep.marker
      BY <1>1, <1>5 DEF Envs
    <3> QED
      BY <1>2, <2>1, <3>1 DEF Becomes
  <2>3. Pairwise(u)
    BY <1>0, <2>1, <2>2 DEF Pairwise
  <2>4. FromForks(u, s, dep, same)
    BY <1>0, <2>1, <2>2, <2>3 DEF FromForks
  <2> QED
    BY <2>0, <2>4
<1>6. CASE ~(same /\ ~Raises(python, dep.marker)) /\ IncludedByMarker(env, dep.marker)
           /\ dep.marker # Places
  <2>1. t = ForkOn(s, dep, python)
    BY <1>6 DEF ForkByDependency, t
  <2> QED
    BY <2>1, ForkOnFrom
<1> QED
  BY <1>3, <1>4, <1>5, <1>6

\* What forks hold while the dependencies of D are added: only those; all
\* that were added, those of P, where they apply; and the items of those in
\* the index.  One that is in a fork is for all places of the fork, or has
\* the marker of all others of its name.
Alike(d, D) == \A e \in D : e.name = d.name => e.marker = d.marker
Holds(f, P, D) ==
    /\ ToSet(f.deps) \subseteq D
    /\ \A d \in ToSet(f.deps) : Item(d) \in f.index
    /\ \A d \in ToSet(f.deps) : f.env.markers \subseteq d.marker \/ Alike(d, D)
    /\ \A d \in P : f.env.markers \cap d.marker # {} => d \in ToSet(f.deps)

\* A part of a fork holds what is for its places.
LEMMA SetEnvHolds ==
  ASSUME NEW f \in Forks, NEW P, NEW D \in SUBSET Dependencies, Holds(f, P, D),
         NEW k \in SUBSET Places, f.env.markers \cap k # {}
  PROVE  LET r == SetEnv(f, Narrow(f.env, k)) IN
         r \in Forks /\ r.env = Narrow(f.env, k) /\ Holds(r, P, D)
<1> DEFINE env == Narrow(f.env, k)
           keep == {d \in ToSet(f.deps) : IncludedByMarker(env, d.marker)}
           r == Retain(f, env, keep)
<1>0. SetEnv(f, env) = r
  BY DEF SetEnv
<1>1. env \in Envs /\ env.markers = f.env.markers \cap k
  <2>1. f.env \in Envs
    BY DEF Forks
  <2> QED
    BY <2>1, NarrowIs
<1> HIDE DEF env
<1>2. /\ r \in Forks /\ r.env = env
      /\ ToSet(r.deps) = ToSet(f.deps) \cap keep
      /\ r.index = f.index \ {Item(d) : d \in ToSet(f.deps) \ keep}
  <2> HIDE DEF keep
  <2> QED
    BY <1>1, RetainHas
<1>3. ToSet(r.deps) = keep
  BY <1>2
<1>4. \A d \in keep : d \in ToSet(f.deps) /\ env.markers \cap d.marker # {}
  BY DEF IncludedByMarker
<1>5. ASSUME NEW d \in keep PROVE Item(d) \in r.index
  <2>1. Item(d) \in f.index
    BY <1>4 DEF Holds
  <2>2. ASSUME NEW x \in ToSet(f.deps) \ keep, Item(x) = Item(d) PROVE FALSE
    <3>1. env.markers \cap x.marker = {}
      BY <2>2 DEF IncludedByMarker
    <3>2. x.name = d.name
      BY <2>2 DEF Item
    <3>3. f.env.markers \subseteq x.marker \/ x.marker = d.marker
      BY <1>4, <3>2 DEF Holds, Alike
    <3> QED
      BY <1>1, <1>4, <3>1, <3>3
  <2> QED
    BY <1>2, <2>1, <2>2
<1> HIDE DEF r
<1>6. Holds(r, P, D)
  <2>1. ToSet(r.deps) \subseteq D
    BY <1>3, <1>4 DEF Holds
  <2>2. \A d \in ToSet(r.deps) : r.env.markers \subseteq d.marker \/ Alike(d, D)
    BY <1>1, <1>2, <1>3, <1>4 DEF Holds
  <2>3. \A d \in P : r.env.markers \cap d.marker # {} => d \in ToSet(r.deps)
    <3> SUFFICES ASSUME NEW d \in P, env.markers \cap d.marker # {} PROVE d \in keep
      BY <1>2, <1>3
    <3>1. d \in ToSet(f.deps)
      BY <1>1 DEF Holds
    <3> QED
      BY <3>1 DEF IncludedByMarker
  <2> HIDE DEF keep
  <2> QED
    BY <1>3, <1>5, <2>1, <2>2, <2>3 DEF Holds
<1> QED
  BY <1>0, <1>2, <1>6 DEF env, r

\* What becomes of a fork holds the dependency as well.
LEMMA BecomesHolds ==
  ASSUME NEW f \in Forks, NEW P, NEW D \in SUBSET Dependencies, Holds(f, P, D),
         NEW dep \in D, NEW same \in BOOLEAN, same => Alike(dep, D),
         NEW r, Becomes(r, f, dep, same)
  PROVE  Holds(r, P \cup {dep}, D)
<1>0. dep \in Dependencies
  OBVIOUS
<1>1. CASE r = f /\ f.env.markers \cap dep.marker = {}
  BY <1>1 DEF Holds
<1>a. ASSUME NEW h \in Forks, Holds(h, P, D), h.env.markers \subseteq dep.marker \/ same
      PROVE  Holds(AddDependency(h, dep), P \cup {dep}, D)
  <2> DEFINE q == AddDependency(h, dep)
  <2>1. /\ q.env = h.env /\ ToSet(q.deps) = ToSet(h.deps) \cup {dep}
        /\ q.index = h.index \cup {Item(dep)}
    BY <1>0, AddHas
  <2> HIDE DEF q
  <2>2. Holds(q, P \cup {dep}, D)
    BY <1>a, <2>1 DEF Holds
  <2> QED
    BY <2>2 DEF q
<1>2. CASE r = AddDependency(f, dep) /\ (f.env.markers \subseteq dep.marker \/ same)
  BY <1>2, <1>a
<1>3. ASSUME NEW k \in SUBSET Places, r = Place(f, k, dep), r.env.markers # {},
             \/ f.env.markers \cap k \subseteq dep.marker
             \/ f.env.markers \cap k \cap dep.marker = {}
      PROVE  Holds(r, P \cup {dep}, D)
  <2> DEFINE new == SetEnv(f, Narrow(f.env, k))
  <2>1. r.env = Narrow(f.env, k) /\ Narrow(f.env, k).markers = f.env.markers \cap k
    <3>1. f.env \in Envs
      BY DEF Forks
    <3> QED
      BY <1>0, <1>3, <3>1, PlaceIs, NarrowIs
  <2>2. new \in Forks /\ new.env = Narrow(f.env, k) /\ Holds(new, P, D)
    BY <1>3, <2>1, SetEnvHolds
  <2>3. r = IF IncludedByMarker(new.env, dep.marker) THEN AddDependency(new, dep) ELSE new
    BY <1>3 DEF Place
  <2> HIDE DEF new
  <2>4. CASE IncludedByMarker(new.env, dep.marker)
    <3>1. new.env.markers \subseteq dep.marker
      BY <1>3, <2>1, <2>2, <2>4 DEF IncludedByMarker
    <3> QED
      BY <1>a, <2>2, <2>3, <2>4, <3>1
  <2>5. CASE ~IncludedByMarker(new.env, dep.marker)
    BY <2>2, <2>3, <2>5 DEF IncludedByMarker, Holds
  <2> QED
    BY <2>4, <2>5
<1> QED
  BY <1>1, <1>2, <1>3 DEF Becomes

\* The environments for places of env that are like it.
Within(env) ==
    {e \in ForkEnvs(problem, env.markers) : e.include = env.include /\ e.exclude = env.exclude}

\* They have their parts.
LEMMA WithinNarrows ==
  ASSUME NEW env
  PROVE  Narrows(Within(env))
<1> SUFFICES ASSUME NEW e \in Within(env), NEW marker \in SUBSET Places, e.markers \cap marker # {}
             PROVE  Narrow(e, marker) \in Within(env)
  BY DEF Narrows, Within, ForkEnvs
<1>1. e \in Envs /\ e \in ForkEnvs(problem, env.markers)
  BY DEF Within, ForkEnvs
<1>2. Narrow(e, marker) \in ForkEnvs(problem, env.markers)
  BY <1>1, NarrowForkEnvs DEF Narrows
<1> QED
  BY <1>1, <1>2, NarrowIs DEF Within

\* Forks that hold what was added.
AllHold(t, env, P, D) ==
    /\ t \in Seq(ForksIn(Within(env))) /\ Pairwise(t)
    /\ \A i \in DOMAIN t : Holds(t[i], P, D)

\* One more dependency.
LEMMA ForkByDependencyHolds ==
  ASSUME NEW env \in Envs, NEW P, NEW D \in SUBSET Dependencies, NEW s, AllHold(s, env, P, D),
         NEW dep \in D, NEW same \in BOOLEAN, same => Alike(dep, D), NEW python
  PROVE  AllHold(ForkByDependency(s, dep, same, env, python), env, P \cup {dep}, D)
<1> DEFINE t == ForkByDependency(s, dep, same, env, python)
           G == Within(env)
<1>0. dep \in Dependencies /\ Narrows(G) /\ \A e \in G : e.markers \subseteq env.markers
  BY WithinNarrows DEF Within, ForkEnvs
<1>1. s \in Seq(ForksIn(G)) /\ Pairwise(s) /\ \A i \in DOMAIN s : Holds(s[i], P, D)
  BY DEF AllHold
<1> HIDE DEF G
<1>2. t \in Seq(ForksIn(G))
  BY <1>0, <1>1, ForkByDependencyIs
<1>3. FromForks(t, s, dep, same)
  BY <1>0, <1>1, ForkByDependencyFrom
<1>4. \A i \in DOMAIN s : s[i] \in Forks
  BY <1>1 DEF ForksIn
<1> HIDE DEF t
<1>5. \A i \in DOMAIN t : Holds(t[i], P \cup {dep}, D)
  BY <1>1, <1>3, <1>4, BecomesHolds DEF FromForks
<1> QED
  BY <1>2, <1>3, <1>5 DEF AllHold, FromForks, t, G

\* The dependencies of a name.
LEMMA ForkByNameHolds ==
  ASSUME NEW env \in Envs, NEW P, NEW D \in SUBSET Dependencies, NEW s, AllHold(s, env, P, D),
         NEW u \in Seq(D), SameMarker(u) => \A i \in DOMAIN u : Alike(u[i], D), NEW python
  PROVE  AllHold(ForkByName(s, u, env, python), env, P \cup ToSet(u), D)
<1> DEFINE A == Seq(ForksIn(Within(env)))
           n == Len(u)
           same == SameMarker(u)
<1>0. n \in Nat /\ DOMAIN u = 1..n /\ u \in Seq(Dependencies) /\ \A i \in 1..n : u[i] \in D
  OBVIOUS
<1>1. s \in A
  BY DEF AllHold
<1>2. ASSUME NEW a \in A, NEW d \in Dependencies, NEW b \in BOOLEAN
      PROVE  ForkByDependency(a, d, b, env, python) \in A
  BY WithinNarrows, ForkByDependencyIs
<1> HIDE DEF A
<1>3. PICK g \in [0..n -> A] : ByDependency(g, s, u, env, python)
  BY <1>0, <1>1, <1>2, ForkByNameTrace
<1> DEFINE Q(i) == P \cup {u[j] : j \in 1..i}
           T == {i \in 0..n : AllHold(g[i], env, Q(i), D)}
<1>4. same \in BOOLEAN
  BY DEF SameMarker
<1>5. 0 \in T
  <2>1. g[0] = s /\ Q(0) = P
    BY <1>3 DEF ByDependency
  <2> HIDE DEF Q
  <2> QED
    BY <1>0, <2>1
<1>6. ASSUME NEW i \in 1..n, i-1 \in T PROVE i \in T
  <2> DEFINE before == g[i-1]
             dep == u[i]
             R == Q(i-1)
  <2>1. AllHold(before, env, R, D) /\ dep \in D /\ (same => Alike(dep, D))
    BY <1>0, <1>6
  <2>2. g[i] = ForkByDependency(before, dep, same, env, python)
    BY <1>3 DEF ByDependency
  <2>3. Q(i) = R \cup {dep}
    BY <1>0
  <2> HIDE DEF before, dep, R, Q, same
  <2>4. AllHold(g[i], env, R \cup {dep}, D)
    BY <1>4, <2>1, <2>2, ForkByDependencyHolds
  <2> QED
    BY <1>0, <2>3, <2>4
<1>7. \A i \in 0..n : i \in T
  <2> HIDE DEF T
  <2> QED
    BY <1>0, <1>5, <1>6, Induction
<1>8. AllHold(g[n], env, Q(n), D)
  BY <1>0, <1>7
<1>9. Q(n) = P \cup ToSet(u) /\ g[n] = ForkByName(s, u, env, python)
  BY <1>0, <1>3 DEF ToSet, ByDependency
<1> HIDE DEF Q
<1> QED
  BY <1>8, <1>9

\* The dependencies of a name are all of them.
LEMMA OfNameIs ==
  ASSUME NEW deps \in Seq(Dependencies), NEW n
  PROVE  LET u == OfName(deps, n) IN
         /\ u \in Seq(ToSet(deps)) /\ ToSet(u) = {d \in ToSet(deps) : d.name = n}
         /\ SameMarker(u) => \A i \in DOMAIN u : Alike(u[i], ToSet(deps))
<1> DEFINE D == ToSet(deps)
           K == {d \in D : d.name = n}
           u == Keep(deps, K)
<1>1. deps \in Seq(D)
  BY DEF ToSet
<1>2. u \in Seq(D \cap K)
  <2> HIDE DEF D, K
  <2> QED
    BY <1>1, KeepIn
<1>3. \A k \in DOMAIN deps : deps[k] \in K => \E j \in DOMAIN u : u[j] = deps[k]
  <2> HIDE DEF D, K
  <2> QED
    BY <1>1, KeepAll
<1>4. \A d \in K : \E k \in DOMAIN deps : deps[k] = d
  BY DEF ToSet
<1>5. OfName(deps, n) = u
  BY DEF OfName
<1>6. D \cap K = K
  OBVIOUS
<1> HIDE DEF u
<1>7. ToSet(u) = K
  <2>1. \A j \in DOMAIN u : u[j] \in K
    BY <1>2, <1>6
  <2> HIDE DEF K
  <2> QED
    BY <1>3, <1>4, <2>1 DEF ToSet
<1>8. u \in Seq(D)
  BY <1>2, <1>6
<1>9. ASSUME SameMarker(u), NEW i \in DOMAIN u PROVE Alike(u[i], D)
  <2>1. u[i].marker = u[1].marker /\ u[i] \in K
    BY <1>7, <1>9 DEF SameMarker, ToSet
  <2>2. ASSUME NEW e \in D, e.name = u[i].name PROVE e.marker = u[i].marker
    <3>1. e \in ToSet(u)
      BY <1>7, <2>1, <2>2
    <3>2. PICK j \in DOMAIN u : u[j] = e
      BY <3>1 DEF ToSet
    <3> QED
      BY <1>9, <2>1, <3>2 DEF SameMarker
  <2> QED
    BY <2>2 DEF Alike
<1> HIDE DEF D
<1>10. /\ u \in Seq(D) /\ ToSet(u) = K
       /\ SameMarker(u) => \A i \in DOMAIN u : Alike(u[i], D)
  BY <1>7, <1>8, <1>9
<1> QED
  BY <1>5, <1>10 DEF D

\* All dependencies.
LEMMA ForkByNamesHolds ==
  ASSUME NEW env \in ForkEnvs(problem, Places), NEW deps \in Seq(Dependencies), NEW python
  PROVE  AllHold(ForkByNames(env, python, deps), env, ToSet(deps), ToSet(deps))
<1> DEFINE D == ToSet(deps)
           G == Within(env)
           A == Seq(ForksIn(G))
           n == Len(NameOrder)
           first == [env |-> env, deps |-> <<>>, index |-> {}]
<1>0. n \in Nat /\ DOMAIN NameOrder = 1..n /\ env \in Envs
  BY ForksAssumption DEF ForkEnvs
<1>1. D \in SUBSET Dependencies
  BY DEF ToSet
<1>2. AllHold(<<first>>, env, {}, D)
  <2>1. env \in G
    BY DEF Within, ForkEnvs
  <2>2. first \in ForksIn(G)
    BY <1>0, <2>1 DEF ForksIn, Forks
  <2>3. Holds(first, {}, D)
    BY DEF Holds, ToSet
  <2> HIDE DEF first, D
  <2>4. <<first>> \in Seq(ForksIn(G)) /\ DOMAIN <<first>> = {1} /\ <<first>>[1] = first
    BY <2>2
  <2> QED
    BY <2>3, <2>4 DEF AllHold, Pairwise
<1>3. <<first>> \in A
  BY <1>2 DEF AllHold
<1>4. ASSUME NEW a \in A, NEW x \in Names
      PROVE  ForkByName(a, Keep(deps, {d \in ToSet(deps) : d.name = x}), env, python) \in A
  <2>1. OfName(deps, x) \in Seq(Dependencies)
    BY <1>1, OfNameIs
  <2>2. ASSUME NEW b \in A, NEW d \in Dependencies, NEW same \in BOOLEAN
        PROVE  ForkByDependency(b, d, same, env, python) \in A
    BY WithinNarrows, ForkByDependencyIs
  <2> HIDE DEF A
  <2> QED
    BY <2>1, <2>2, ForkByNameIn DEF OfName
<1> HIDE DEF A
<1>5. PICK g \in [0..n -> A] : ByName(g, env, python, deps)
  BY <1>3, <1>4, ForkByNamesTrace
<1> DEFINE Q(i) == {d \in D : \E j \in 1..i : d.name = NameOrder[j]}
           T == {i \in 0..n : AllHold(g[i], env, Q(i), D)}
<1> HIDE DEF first, D
<1>6. 0 \in T
  <2>1. g[0] = <<first>>
    BY <1>5 DEF ByName, first
  <2>2. Q(0) = {}
    OBVIOUS
  <2> HIDE DEF Q
  <2>3. AllHold(g[0], env, Q(0), D)
    BY <1>2, <2>1, <2>2
  <2> QED
    BY <1>0, <2>3
<1>7. ASSUME NEW i \in 1..n, i-1 \in T PROVE i \in T
  <2> DEFINE before == g[i-1]
             u == OfName(deps, NameOrder[i])
             R == Q(i-1)
  <2>1. AllHold(before, env, R, D)
    <3> HIDE DEF Q
    <3> QED
      BY <1>0, <1>7
  <2>2. g[i] = ForkByName(before, u, env, python)
    BY <1>5 DEF ByName
  <2>3. /\ u \in Seq(D) /\ ToSet(u) = {d \in D : d.name = NameOrder[i]}
        /\ SameMarker(u) => \A j \in DOMAIN u : Alike(u[j], D)
    <3> DEFINE x == NameOrder[i]
    <3> HIDE DEF x
    <3>1. LET w == OfName(deps, x) IN
          /\ w \in Seq(ToSet(deps)) /\ ToSet(w) = {d \in ToSet(deps) : d.name = x}
          /\ SameMarker(w) => \A j \in DOMAIN w : Alike(w[j], ToSet(deps))
      BY OfNameIs
    <3> QED
      BY <3>1 DEF D, x
  <2>4. Q(i) = R \cup ToSet(u)
    BY <1>0, <2>3
  <2> HIDE DEF before, u, R, Q
  <2>5. AllHold(g[i], env, R \cup ToSet(u), D)
    BY <1>0, <1>1, <2>1, <2>2, <2>3, ForkByNameHolds
  <2> QED
    BY <1>0, <2>4, <2>5
<1>8. \A i \in 0..n : i \in T
  <2> HIDE DEF T
  <2> QED
    BY <1>0, <1>6, <1>7, Induction
<1>9. AllHold(g[n], env, Q(n), D)
  BY <1>0, <1>8
<1>10. Q(n) = D
  <2>1. \A d \in D : d.name \in Names
    BY <1>1 DEF Dependencies
  <2> QED
    BY <1>0, <2>1 DEF Names
<1>11. g[n] = ForkByNames(env, python, deps)
  BY <1>5 DEF ByName
<1> HIDE DEF Q
<1> QED
  BY <1>9, <1>10, <1>11 DEF D

\* A fork has every dependency of D that is asked for in one of its worlds.
Serves(f, D) ==
    f.env.exclude \subseteq ConflictItems =>
        \A d \in D : \A A : \A m \in d.marker :
            Covers(f.env, m, A) /\ Active(Item(d), A) => d \in ToSet(f.deps)

\* For a dependency of a fork, what conflicts with it in one of the first j
\* sets is excluded.
Secured(f, j) ==
    \A d \in ToSet(f.deps) : ~d.parent =>
        \A i \in 1..j : Item(d) \in problem.conflicts[i] =>
            /\ Item(d) \notin f.env.exclude
            /\ problem.conflicts[i] \ {Item(d)} \subseteq f.env.exclude

\* The forks of env after the first j sets of conflicting items.
Settled(env, D, j) ==
    {f \in Forks :
        /\ ToSet(f.deps) \subseteq D /\ \A d \in ToSet(f.deps) : Item(d) \in f.index
        /\ env.include \subseteq f.env.include /\ env.exclude \subseteq f.env.exclude
        /\ Serves(f, D) /\ Secured(f, j)}

\* Dependencies of one version: those on an item are all of its package or
\* none is.
Uniform(D) == \A d, e \in D : Item(d) = Item(e) => d.parent = e.parent

\* What a filter leaves.
LEMMA FilterHas ==
  ASSUME NEW f \in Forks, NEW allow \in SUBSET Items, NEW deny \in SUBSET Items,
         ~Clash(f.env, allow, deny)
  PROVE  \E r \in Forks :
           /\ Filtered(r, f, allow, deny)
           /\ ToSet(r.deps) = {d \in ToSet(f.deps) : IncludedByGroup(r.env, Item(d)) \/ d.parent}
           /\ r.index = f.index \ {Item(d) : d \in ToSet(f.deps) \ ToSet(r.deps)}
<1> DEFINE env == [f.env EXCEPT !.include = @ \cup allow, !.exclude = @ \cup deny]
           keep == {d \in ToSet(f.deps) : IncludedByGroup(env, Item(d)) \/ d.parent}
           r == Retain(f, env, keep)
<1>1. f.env \in Envs
  BY DEF Forks
<1>2. /\ env \in Envs /\ env.markers = f.env.markers
      /\ env.include = f.env.include \cup allow /\ env.exclude = f.env.exclude \cup deny
  BY <1>1 DEF Envs
<1> HIDE DEF env
<1>3. FilterByGroup(f.env, allow, deny) = <<env>>
  BY DEF FilterByGroup, Clash, env
<1>4. Filter(f, allow, deny) = <<r>>
  <2>1. <<env>> # <<>> /\ <<env>>[1] = env
    OBVIOUS
  <2> QED
    BY <1>3, <2>1 DEF Filter
<1>5. keep \subseteq ToSet(f.deps)
  OBVIOUS
<1>6. /\ r \in Forks /\ r.env = env /\ ToSet(r.deps) = keep
      /\ r.index = f.index \ {Item(d) : d \in ToSet(f.deps) \ keep}
  <2> HIDE DEF keep
  <2>1. ToSet(f.deps) \cap keep = keep
    BY <1>5
  <2>2. /\ r \in Forks /\ r.env = env
        /\ ToSet(r.deps) = ToSet(f.deps) \cap keep
        /\ r.index = f.index \ {Item(d) : d \in ToSet(f.deps) \ keep}
    BY <1>2, RetainHas
  <2> HIDE DEF r
  <2> QED
    BY <2>1, <2>2
<1> HIDE DEF r
<1> QED
  BY <1>2, <1>4, <1>6 DEF Filtered

\* What is asked for in a world is included by the environments for it.
LEMMA ActiveIncluded ==
  ASSUME NEW env, NEW m, NEW A, Covers(env, m, A), env.exclude \subseteq ConflictItems,
         NEW item, Active(item, A)
  PROVE  IncludedByGroup(env, item)
BY DEF Covers, Active, IncludedByGroup

\* The filters of a set of conflicting items settle it.
LEMMA FilterSettles ==
  ASSUME ProblemType(problem), NEW env, NEW D, Uniform(D),
         NEW j \in 1..Len(problem.conflicts),
         NEW f \in Settled(env, D, j - 1), NEW allow \in SUBSET Items, NEW deny \in SUBSET Items,
         LET S == problem.conflicts[j]
             free == {x \in S : IncludedByGroup(f.env, x)}
         IN  \/ allow = {} /\ deny = S
             \/ \E x \in S : allow = {x} /\ deny = S \ {x}
             \/ allow = {} /\ deny = S \ free /\ \A x, y \in free : x = y
  PROVE  Filter(f, allow, deny) \in Seq(Settled(env, D, j))
<1> DEFINE S == problem.conflicts[j]
           free == {x \in S : IncludedByGroup(f.env, x)}
<1>0. f \in Forks
  BY DEF Settled
<1>1. CASE Clash(f.env, allow, deny)
  <2>1. Filter(f, allow, deny) = <<>>
    BY <1>0, <1>1, FilterIs
  <2> QED
    BY <2>1
<1>2. CASE ~Clash(f.env, allow, deny)
  <2>1. PICK r \in Forks :
           /\ Filtered(r, f, allow, deny)
           /\ ToSet(r.deps) = {d \in ToSet(f.deps) : IncludedByGroup(r.env, Item(d)) \/ d.parent}
           /\ r.index = f.index \ {Item(d) : d \in ToSet(f.deps) \ ToSet(r.deps)}
    BY <1>0, <1>2, FilterHas
  <2>2. /\ Filter(f, allow, deny) = <<r>> /\ r.env.markers = f.env.markers
        /\ r.env.include = f.env.include \cup allow
        /\ r.env.exclude = f.env.exclude \cup deny
    BY <2>1 DEF Filtered
  <2>3. /\ ToSet(f.deps) \subseteq D /\ \A d \in ToSet(f.deps) : Item(d) \in f.index
        /\ env.include \subseteq f.env.include /\ env.exclude \subseteq f.env.exclude
        /\ Serves(f, D) /\ Secured(f, j - 1)
    BY DEF Settled
  <2>4. \A d \in ToSet(r.deps) : Item(d) \in r.index
    <3> SUFFICES ASSUME NEW d \in ToSet(r.deps), NEW e \in ToSet(f.deps) \ ToSet(r.deps),
                        Item(d) = Item(e)
                 PROVE  FALSE
      BY <2>1, <2>3
    <3>1. d.parent = e.parent
      BY <2>1, <2>3 DEF Uniform
    <3> QED
      BY <2>1, <3>1
  <2>5. Serves(r, D)
    <3> SUFFICES ASSUME r.env.exclude \subseteq ConflictItems,
                        NEW d \in D, NEW A, NEW m \in d.marker,
                        Covers(r.env, m, A), Active(Item(d), A)
                 PROVE  d \in ToSet(r.deps)
      BY DEF Serves
    <3>1. f.env.exclude \subseteq ConflictItems /\ Covers(f.env, m, A)
      BY <2>2 DEF Covers
    <3>2. d \in ToSet(f.deps)
      BY <2>3, <3>1 DEF Serves
    <3>3. IncludedByGroup(r.env, Item(d))
      BY ActiveIncluded
    <3> QED
      BY <2>1, <3>2, <3>3
  <2>6. Secured(r, j)
    <3> SUFFICES ASSUME NEW d \in ToSet(r.deps), ~d.parent, NEW i \in 1..j,
                        Item(d) \in problem.conflicts[i]
                 PROVE  /\ Item(d) \notin r.env.exclude
                        /\ problem.conflicts[i] \ {Item(d)} \subseteq r.env.exclude
      BY DEF Secured
    <3>1. d \in ToSet(f.deps) /\ Item(d) \notin r.env.exclude
      BY <2>1 DEF IncludedByGroup
    <3>2. CASE i # j
      <4>1. i \in 1..(j-1)
        BY <3>2
      <4>2. problem.conflicts[i] \ {Item(d)} \subseteq f.env.exclude
        BY <2>3, <3>1, <4>1 DEF Secured
      <4> QED
        BY <2>2, <3>1, <4>2
    <3>3. CASE i = j
      <4>1. Item(d) \in S /\ Item(d) \notin deny
        BY <2>2, <3>1, <3>3
      <4>2. S \ {Item(d)} \subseteq deny
        <5>1. CASE deny = S
          BY <4>1, <5>1
        <5>2. CASE \E x \in S : allow = {x} /\ deny = S \ {x}
          BY <4>1, <5>2
        <5>3. CASE allow = {} /\ deny = S \ free /\ \A x, y \in free : x = y
          <6>1. Item(d) \in free /\ free \subseteq S
            BY <4>1, <5>3
          <6> HIDE DEF free
          <6> QED
            BY <5>3, <6>1
        <5> QED
          BY <5>1, <5>2, <5>3
      <4> QED
        BY <2>2, <3>1, <3>3, <4>2
    <3> QED
      BY <3>2, <3>3
  <2>7. r \in Settled(env, D, j)
    <3>1. ToSet(r.deps) \subseteq D
      BY <2>1, <2>3
    <3> QED
      BY <2>2, <2>3, <2>4, <2>5, <2>6, <3>1 DEF Settled
  <2> QED
    BY <2>2, <2>7
<1> QED
  BY <1>1, <1>2

\* The forks on a set of conflicting items settle it.
LEMMA ForkOnConflictSettles ==
  ASSUME ProblemType(problem), NEW env, NEW D, Uniform(D),
         NEW j \in 1..Len(problem.conflicts), NEW f \in Settled(env, D, j - 1)
  PROVE  ForkOnConflict(f, problem.conflicts[j]) \in Seq(Settled(env, D, j))
<1> DEFINE S == problem.conflicts[j]
           R == Settled(env, D, j)
           free == {x \in S : IncludedByGroup(f.env, x)}
           none == Filter(f, {}, S)
           each == FlattenSeq(Each(f, S))
<1>0. S \in SUBSET Items /\ IsFiniteSet(S)
  BY DEF ProblemType
<1>1. none \in Seq(R)
  BY <1>0, FilterSettles
<1>2. each \in Seq(R)
  <2> DEFINE u == SetToSeq(S)
             ss == Each(f, S)
  <2>1. u \in Seq(S)
    BY <1>0, EachOnce
  <2>2. DOMAIN ss = 1..Len(u) /\ Len(u) \in Nat
        /\ \A i \in 1..Len(u) : u[i] \in S /\ ss[i] = Filter(f, {u[i]}, S \ {u[i]})
    BY <2>1 DEF Each
  <2>3. \A x \in S : Filter(f, {x}, S \ {x}) \in Seq(R)
    <3> TAKE x \in S
    <3>1. {x} \in SUBSET Items /\ S \ {x} \in SUBSET Items
      BY <1>0
    <3> QED
      BY <3>1, FilterSettles
  <2>4. ss \in Seq(Seq(R))
    <3> HIDE DEF R, u
    <3>1. \A i \in 1..Len(u) : ss[i] \in Seq(R)
      <4> HIDE DEF ss, S
      <4> QED
        BY <2>2, <2>3
    <3>2. ss = [i \in 1..Len(u) |-> ss[i]]
      BY <2>2 DEF Each
    <3> HIDE DEF ss
    <3>3. ss \in [1..Len(u) -> Seq(R)]
      BY <3>1, <3>2
    <3> QED
      BY <2>2, <3>3
  <2> HIDE DEF R, ss
  <2>5. FlattenSeq(ss) \in Seq(R)
    BY <2>4, FlattenIn
  <2> QED
    BY <2>5 DEF ss
<1>3. CASE f.index \cap S = {}
  <2>1. ForkOnConflict(f, S) = <<f>>
    BY <1>3 DEF ForkOnConflict
  <2>2. Secured(f, j)
    <3> SUFFICES ASSUME NEW d \in ToSet(f.deps), ~d.parent, NEW i \in 1..j,
                        Item(d) \in problem.conflicts[i]
                 PROVE  /\ Item(d) \notin f.env.exclude
                        /\ problem.conflicts[i] \ {Item(d)} \subseteq f.env.exclude
      BY DEF Secured
    <3>1. i # j
      BY <1>3 DEF Settled
    <3>2. i \in 1..(j-1)
      BY <3>1
    <3> QED
      BY <3>2 DEF Settled, Secured
  <2>3. f \in R
    BY <2>2 DEF Settled
  <2> HIDE DEF R, S
  <2> QED
    BY <2>1, <2>3 DEF R, S
<1>4. CASE f.index \cap S # {} /\ Cardinality(free) < 2
           /\ \A item \in free : Dominated(item, S, f.env)
  <2>1. ForkOnConflict(f, S) = Filter(f, {}, S \ free)
    BY <1>4 DEF ForkOnConflict
  <2>2. \A x, y \in free : x = y
    <3>1. IsFiniteSet(free) /\ Cardinality(free) \in Nat
      <4>1. free \subseteq S
        OBVIOUS
      <4> HIDE DEF free, S
      <4> QED
        BY <1>0, <4>1, FS_Subset, FS_CardinalityType
    <3>2. Cardinality(free) <= 1
      BY <1>4, <3>1
    <3> HIDE DEF free
    <3> QED
      BY <3>1, <3>2, AtMostOne
  <2>3. S \ free \in SUBSET Items /\ {} \in SUBSET Items
    BY <1>0
  <2>4. Filter(f, {}, S \ free) \in Seq(R)
    BY <2>2, <2>3, FilterSettles
  <2> HIDE DEF R, S, free
  <2> QED
    BY <2>1, <2>4 DEF R, S
<1>5. CASE f.index \cap S # {} /\ ~(Cardinality(free) < 2
           /\ \A item \in free : Dominated(item, S, f.env))
  <2>1. ForkOnConflict(f, S) = none \o each
    BY <1>5 DEF ForkOnConflict, Each
  <2> HIDE DEF R, none, each
  <2>2. none \o each \in Seq(R)
    BY <1>1, <1>2
  <2> QED
    BY <2>1, <2>2 DEF R
<1> QED
  BY <1>3, <1>4, <1>5

\* All of them.
LEMMA ForkByConflictSettles ==
  ASSUME ProblemType(problem), NEW env, NEW D, Uniform(D),
         NEW j \in 1..Len(problem.conflicts), NEW s \in Seq(Settled(env, D, j - 1))
  PROVE  ForkByConflict(s, problem.conflicts[j]) \in Seq(Settled(env, D, j))
<1> DEFINE B == Settled(env, D, j - 1)
           R == Settled(env, D, j)
           ss == [i \in DOMAIN s |-> ForkOnConflict(s[i], problem.conflicts[j])]
<1>1. \A f \in B : ForkOnConflict(f, problem.conflicts[j]) \in Seq(R)
  BY ForkOnConflictSettles
<1> HIDE DEF B, R
<1>2. s \in Seq(B) /\ DOMAIN s = 1..Len(s) /\ Len(s) \in Nat
  BY DEF B
<1>3. \A i \in 1..Len(s) : ss[i] \in Seq(R)
  BY <1>1, <1>2
<1>4. ss \in [1..Len(s) -> Seq(R)]
  BY <1>2, <1>3
<1> HIDE DEF ss
<1>5. ss \in Seq(Seq(R))
  BY <1>2, <1>4
<1>6. FlattenSeq(ss) \in Seq(R)
  BY <1>5, FlattenIn
<1> QED
  BY <1>6 DEF ss, R, ForkByConflict

\* The forks of the dependencies of a version: each has the dependencies
\* that are asked for in its worlds, and excludes what conflicts with them.
LEMMA ForkDependenciesSettle ==
  ASSUME ProblemType(problem), NEW env \in ForkEnvs(problem, Places), NEW python,
         NEW deps \in Seq(Dependencies), Uniform(ToSet(deps))
  PROVE  ForkDependencies(env, python, deps)
           \in Seq(Settled(env, ToSet(deps), Len(problem.conflicts)))
<1> DEFINE D == ToSet(deps)
           n == Len(problem.conflicts)
           A == Seq(ForksIn(ForkEnvs(problem, Places)))
           first == ForkByNames(env, python, deps)
<1>0. n \in Nat /\ problem.conflicts \in Seq(SUBSET Items) /\ DOMAIN problem.conflicts = 1..n
  BY DEF ProblemType
<1>1. AllHold(first, env, D, D)
  BY ForkByNamesHolds
<1>2. first \in Seq(ForksIn(Within(env)))
  BY <1>1 DEF AllHold
<1>3. \A f \in ForksIn(Within(env)) :
         /\ f \in Forks /\ f \in ForksIn(ForkEnvs(problem, Places))
         /\ f.env.include = env.include /\ f.env.exclude = env.exclude
  BY DEF ForksIn, Within, ForkEnvs
<1>4. first \in A
  <2> DEFINE U == ForksIn(Within(env))
             V == ForksIn(ForkEnvs(problem, Places))
  <2>1. U \subseteq V /\ first \in Seq(U)
    BY <1>2, <1>3
  <2> HIDE DEF U, V, first
  <2> QED
    BY <2>1 DEF V
<1>5. first \in Seq(Settled(env, D, 0))
  <2> HIDE DEF first, D
  <2>1. ASSUME NEW i \in DOMAIN first PROVE first[i] \in Settled(env, D, 0)
    <3> DEFINE f == first[i]
    <3>1. f \in ForksIn(Within(env)) /\ Holds(f, D, D)
      BY <1>1, <1>2, <2>1 DEF AllHold
    <3> HIDE DEF f
    <3>2. f \in Forks /\ f.env.include = env.include /\ f.env.exclude = env.exclude
      BY <1>3, <3>1
    <3>3. Serves(f, D)
      BY <3>1 DEF Serves, Holds, Covers
    <3>4. Secured(f, 0)
      BY DEF Secured
    <3> QED
      BY <3>1, <3>2, <3>3, <3>4 DEF Settled, Holds, f
  <2>2. DOMAIN first = 1..Len(first) /\ Len(first) \in Nat /\ first = [i \in DOMAIN first |-> first[i]]
    BY <1>2
  <2> DEFINE R == Settled(env, D, 0)
  <2> HIDE DEF R
  <2>3. \A i \in 1..Len(first) : first[i] \in R
    BY <2>1, <2>2 DEF R
  <2> QED
    BY <2>2, <2>3 DEF R
<1>6. ASSUME NEW a \in A, NEW i \in DOMAIN problem.conflicts
      PROVE  ForkByConflict(a, problem.conflicts[i]) \in A
  BY ForkByConflictIs
<1> HIDE DEF A, first
<1>7. PICK g \in [0..n -> A] : ByConflict(g, env, python, deps)
  BY <1>0, <1>4, <1>6, ForkDependenciesTrace DEF first
<1> HIDE DEF D
<1> DEFINE T == {i \in 0..n : g[i] \in Seq(Settled(env, D, i))}
<1>8. 0 \in T
  <2>1. g[0] = first
    BY <1>7 DEF ByConflict, first
  <2> QED
    BY <1>0, <1>5, <2>1
<1>9. ASSUME NEW i \in 1..n, i-1 \in T PROVE i \in T
  <2>1. g[i] = ForkByConflict(g[i-1], problem.conflicts[i])
    BY <1>7 DEF ByConflict
  <2>2. g[i-1] \in Seq(Settled(env, D, i-1)) /\ Uniform(D)
    BY <1>9 DEF D
  <2>3. g[i] \in Seq(Settled(env, D, i))
    BY <2>1, <2>2, ForkByConflictSettles
  <2> QED
    BY <1>0, <2>3
<1>10. \A i \in 0..n : i \in T
  <2> HIDE DEF T
  <2> QED
    BY <1>0, <1>8, <1>9, Induction
<1>11. g[n] = ForkDependencies(env, python, deps)
  BY <1>7 DEF ByConflict
<1>12. g[n] \in Seq(Settled(env, D, n))
  BY <1>0, <1>10
<1> QED
  BY <1>11, <1>12 DEF D

-----------------------------------------------------------------------------
(* The dependencies of a version.                                          *)

\* A dependency that a requirement of item is turned into.
Stems(d, item, req) ==
    /\ d.name = req.name /\ d.marker = req.marker /\ d.range = req.range
    /\ d.kind = "project" \/ d.kind \in req.kinds
    /\ d.parent <=> d.kind = "project" /\ item # RootItem /\ item[2] = "project"

\* A requirement is turned into dependencies on all that it asks for.
LEMMA FromRequirementHas ==
  ASSUME NEW item \in Items, NEW req \in Requirements
  PROVE  LET deps == FromRequirement(item, req) IN
         /\ \A i \in DOMAIN deps : deps[i] \in Dependencies /\ Stems(deps[i], item, req)
         /\ \A A : \A x \in Asks(req, A) : \E i \in DOMAIN deps :
              x \in Nodes(deps[i]) /\ Active(Item(deps[i]), A)
<1> DEFINE conflicting == \E k \in req.kinds : <<req.name, k>> \in ConflictItems
           base == IF req.kinds = {} \/ conflicting THEN <<"project">> ELSE <<>>
           u == SetToSeq(req.kinds)
           kinds == base \o u
           deps == FromRequirement(item, req)
<1>1. req.kinds \in SUBSET (Extras \cup Groups) /\ req.name \in Names
  BY DEF Requirements
<1>2. IsFiniteSet(req.kinds)
  BY <1>1, ForksAssumption, FS_Subset
<1>3. u \in Seq(req.kinds) /\ \A k \in req.kinds : \E i \in DOMAIN u : u[i] = k
  BY <1>2, EachOnce
<1>4. deps = [i \in DOMAIN kinds |-> Dependency(item, req, kinds[i])]
  BY DEF FromRequirement
<1>5. /\ base = <<"project">> \/ base = <<>>
      /\ req.kinds = {} \/ conflicting => base = <<"project">>
  OBVIOUS
<1> HIDE DEF base, u, deps, conflicting
<1> DEFINE K == {"project"} \cup req.kinds
<1>6. base \in Seq(K) /\ u \in Seq(K)
  <2>1. "project" \in K /\ req.kinds \subseteq K
    OBVIOUS
  <2> HIDE DEF K
  <2>2. <<"project">> \in Seq(K) /\ <<>> \in Seq(K)
    BY <2>1
  <2>3. u \in Seq(K)
    BY <1>3, <2>1
  <2> QED
    BY <1>5, <2>2, <2>3
<1>7. /\ DOMAIN kinds = 1..(Len(base) + Len(u)) /\ Len(base) \in Nat /\ Len(u) \in Nat
      /\ \A i \in DOMAIN base : i \in DOMAIN kinds /\ kinds[i] = base[i]
      /\ \A i \in DOMAIN u : Len(base) + i \in DOMAIN kinds /\ kinds[Len(base) + i] = u[i]
      /\ kinds \in Seq(K)
  <2> HIDE DEF K
  <2> QED
    BY <1>6
<1>8. \A i \in DOMAIN kinds : kinds[i] \in K
  <2> HIDE DEF K, kinds
  <2> QED
    BY <1>7
<1>9. \A k \in req.kinds : \E i \in DOMAIN kinds : kinds[i] = k
  BY <1>3, <1>7
<1>10. req.kinds = {} \/ conflicting => \E i \in DOMAIN kinds : kinds[i] = "project"
  <2> SUFFICES ASSUME req.kinds = {} \/ conflicting PROVE \E i \in DOMAIN kinds : kinds[i] = "project"
    OBVIOUS
  <2>1. base = <<"project">> /\ 1 \in DOMAIN base /\ base[1] = "project"
    BY <1>5
  <2> QED
    BY <1>7, <2>1
<1> HIDE DEF kinds
<1>11. DOMAIN deps = DOMAIN kinds /\ \A i \in DOMAIN deps : deps[i] = Dependency(item, req, kinds[i])
  BY <1>4
<1>12. \A i \in DOMAIN deps : deps[i] \in Dependencies
  <2>1. deps \in Seq(Dependencies)
    BY FromRequirementIs DEF deps
  <2> QED
    BY <2>1
<1>13. \A i \in DOMAIN deps : Stems(deps[i], item, req)
  <2> TAKE i \in DOMAIN deps
  <2> DEFINE k == kinds[i]
             d == Dependency(item, req, k)
  <2>1. k = "project" \/ k \in req.kinds
    BY <1>8, <1>11
  <2> HIDE DEF k
  <2>2. d.name = req.name /\ d.marker = req.marker /\ d.range = req.range /\ d.kind = k
    BY DEF Dependency
  <2>3. d.parent = (k = "project" /\ item # RootItem /\ item[2] = "project")
    BY DEF Dependency
  <2> HIDE DEF d
  <2>4. Stems(d, item, req)
    BY <2>1, <2>2, <2>3 DEF Stems
  <2> QED
    BY <1>11, <2>4 DEF d, k
<1>14. ASSUME NEW A, NEW x \in Asks(req, A)
       PROVE  \E i \in DOMAIN deps : x \in Nodes(deps[i]) /\ Active(Item(deps[i]), A)
  <2>0. ASSUME NEW k PROVE Item(Dependency(item, req, k)) = <<req.name, k>>
    BY DEF Item, Dependency
  <2>1. CASE \E k \in req.kinds : x = <<req.name, k>> /\ Active(x, A)
    <3>1. PICK k \in req.kinds : x = <<req.name, k>> /\ Active(x, A)
      BY <2>1
    <3>2. PICK i \in DOMAIN kinds : kinds[i] = k
      BY <1>9
    <3>3. Item(deps[i]) = x
      BY <1>11, <2>0, <3>1, <3>2
    <3>4. x \in Nodes(deps[i])
      BY <3>3 DEF Nodes
    <3> QED
      BY <1>11, <3>1, <3>2, <3>3, <3>4
  <2>2. CASE /\ req.kinds \cap Groups = {} /\ x = <<req.name, "project">> /\ Active(x, A)
             /\ req.kinds = {} \/ conflicting
    <3>1. PICK i \in DOMAIN kinds : kinds[i] = "project"
      BY <1>10, <2>2
    <3>2. Item(deps[i]) = x
      BY <1>11, <2>0, <2>2, <3>1
    <3>3. x \in Nodes(deps[i])
      BY <3>2 DEF Nodes
    <3> QED
      BY <1>11, <2>2, <3>2, <3>3
  <2>3. CASE /\ req.kinds \cap Groups = {} /\ x = <<req.name, "project">> /\ Active(x, A)
             /\ req.kinds # {} /\ ~conflicting
    <3>1. PICK k \in req.kinds : TRUE
      BY <2>3
    <3>2. k \in Extras /\ <<req.name, k>> \notin ConflictItems
      BY <1>1, <2>3 DEF conflicting
    <3>3. PICK i \in DOMAIN kinds : kinds[i] = k
      BY <1>9
    <3>4. Item(deps[i]) = <<req.name, k>> /\ deps[i].kind = k
      BY <1>11, <2>0, <3>3 DEF Dependency
    <3>5. ProjectOf(<<req.name, k>>) = x
      BY <2>3 DEF ProjectOf
    <3>6. x \in Nodes(deps[i])
      BY <3>2, <3>4, <3>5 DEF Nodes
    <3>7. Active(<<req.name, k>>, A)
      BY <2>3, <3>2, <3>5 DEF Active
    <3> QED
      BY <1>11, <3>3, <3>4, <3>6, <3>7
  <2> QED
    BY <2>1, <2>2, <2>3 DEF Asks
<1> QED
  BY <1>12, <1>13, <1>14 DEF deps

\* The dependencies of a version stem from its requirements, and those that
\* apply are turned into dependencies on all they ask for.
LEMMA GetDependenciesHas ==
  ASSUME ProblemType(problem), NEW item \in Items, NEW v, NEW env, NEW python
  PROVE  LET deps == GetDependencies(item, v, env, python)
             all == Requires(item, v)
         IN  /\ all \in Seq(Requirements) /\ deps \in Seq(Dependencies)
             /\ \A d \in ToSet(deps) : \E k \in DOMAIN all : Stems(d, item, all[k])
             /\ Uniform(ToSet(deps))
             /\ \A k \in DOMAIN all : Applicable(item, all[k], env, python) =>
                  \A A : \A x \in Asks(all[k], A) : \E d \in ToSet(deps) :
                    x \in Nodes(d) /\ Active(Item(d), A) /\ Stems(d, item, all[k])
<1> DEFINE all == Requires(item, v)
           K == {q \in ToSet(all) : Applicable(item, q, env, python)}
           reqs == Keep(all, K)
           ss == [i \in DOMAIN reqs |-> FromRequirement(item, reqs[i])]
           deps == GetDependencies(item, v, env, python)
           Z == {d \in Dependencies : \E k \in DOMAIN all : Stems(d, item, all[k])}
<1>0. deps = FlattenSeq(ss)
  BY DEF GetDependencies
<1>1. all \in Seq(Requirements)
  BY DEF Requires, ProblemType
<1> HIDE DEF all, deps
<1>2. reqs \in Seq(Requirements) /\ reqs \in Seq(ToSet(all))
  <2>1. reqs \in Seq(Requirements \cap K)
    BY <1>1, KeepIn
  <2>2. all \in Seq(ToSet(all))
    BY <1>1 DEF ToSet
  <2>3. reqs \in Seq(ToSet(all) \cap K)
    BY <2>2, KeepIn
  <2> HIDE DEF reqs, K
  <2> QED
    BY <2>1, <2>3
<1>3. \A k \in DOMAIN all : all[k] \in K => \E j \in DOMAIN reqs : reqs[j] = all[k]
  <2> HIDE DEF K
  <2> QED
    BY <1>1, KeepAll
<1> HIDE DEF reqs
<1>4. ASSUME NEW i \in DOMAIN reqs
      PROVE  /\ reqs[i] \in Requirements /\ \E k \in DOMAIN all : reqs[i] = all[k]
             /\ ss[i] = FromRequirement(item, reqs[i]) /\ ss[i] \in Seq(Z)
  <2>1. reqs[i] \in Requirements /\ reqs[i] \in ToSet(all)
    BY <1>2
  <2>2. PICK k \in DOMAIN all : reqs[i] = all[k]
    BY <2>1 DEF ToSet
  <2> DEFINE u == FromRequirement(item, reqs[i])
  <2>3. u \in Seq(Dependencies)
    BY <2>1, FromRequirementIs
  <2>4. \A j \in DOMAIN u : u[j] \in Dependencies /\ Stems(u[j], item, reqs[i])
    BY <2>1, FromRequirementHas
  <2> HIDE DEF u
  <2>5. \A j \in DOMAIN u : u[j] \in Z
    BY <2>2, <2>4
  <2>6. u \in Seq(Z)
    <3> HIDE DEF Z
    <3>1. DOMAIN u = 1..Len(u) /\ Len(u) \in Nat /\ u = [j \in DOMAIN u |-> u[j]]
      BY <2>3
    <3> QED
      BY <2>5, <3>1
  <2> QED
    BY <2>1, <2>2, <2>6 DEF u
<1>5. ss \in Seq(Seq(Z))
  <2> HIDE DEF Z
  <2>1. DOMAIN reqs = 1..Len(reqs) /\ Len(reqs) \in Nat
    BY <1>2
  <2>2. ss \in [1..Len(reqs) -> Seq(Z)]
    BY <1>4, <2>1
  <2> HIDE DEF ss
  <2> QED
    BY <2>1, <2>2
<1>6. deps \in Seq(Z)
  <2> HIDE DEF Z, ss
  <2> QED
    BY <1>0, <1>5, FlattenIn
<1>7. deps \in Seq(Dependencies)
  <2>1. Z \subseteq Dependencies
    OBVIOUS
  <2> HIDE DEF Z
  <2> QED
    BY <1>6, <2>1
<1>8. \A d \in ToSet(deps) : d \in Z
  <2> HIDE DEF Z
  <2> QED
    BY <1>6 DEF ToSet
<1>9. Uniform(ToSet(deps))
  <2> SUFFICES ASSUME NEW d \in ToSet(deps), NEW e \in ToSet(deps), Item(d) = Item(e)
               PROVE  d.parent = e.parent
    BY DEF Uniform
  <2>1. d.parent \in BOOLEAN /\ e.parent \in BOOLEAN
    BY <1>8 DEF Dependencies
  <2>2. d.kind = e.kind
    BY DEF Item
  <2>3. d.parent <=> d.kind = "project" /\ item # RootItem /\ item[2] = "project"
    BY <1>8 DEF Stems
  <2>4. e.parent <=> e.kind = "project" /\ item # RootItem /\ item[2] = "project"
    BY <1>8 DEF Stems
  <2> QED
    BY <2>1, <2>2, <2>3, <2>4
<1>10. ASSUME NEW k \in DOMAIN all, Applicable(item, all[k], env, python),
              NEW A, NEW x \in Asks(all[k], A)
       PROVE  \E d \in ToSet(deps) : x \in Nodes(d) /\ Active(Item(d), A) /\ Stems(d, item, all[k])
  <2>1. all[k] \in K
    BY <1>10 DEF ToSet
  <2>2. PICK j \in DOMAIN reqs : reqs[j] = all[k]
    BY <1>3, <2>1
  <2> DEFINE u == FromRequirement(item, reqs[j])
  <2>3. /\ \A i \in DOMAIN u : u[i] \in Dependencies /\ Stems(u[i], item, reqs[j])
        /\ \E i \in DOMAIN u : x \in Nodes(u[i]) /\ Active(Item(u[i]), A)
    BY <1>4, <1>10, <2>2, FromRequirementHas
  <2>4. ss[j] = u /\ j \in DOMAIN ss
    BY <1>4
  <2> HIDE DEF u, ss, Z
  <2>5. PICK i \in DOMAIN u : x \in Nodes(u[i]) /\ Active(Item(u[i]), A)
    BY <2>3
  <2>6. PICK l \in DOMAIN deps : deps[l] = u[i]
    <3>1. i \in DOMAIN ss[j]
      BY <2>4
    <3>2. \E l \in DOMAIN FlattenSeq(ss) : FlattenSeq(ss)[l] = ss[j][i]
      BY <1>5, <2>4, <3>1, FlattenAll
    <3> QED
      BY <1>0, <2>4, <3>2
  <2>7. u[i] \in ToSet(deps)
    BY <2>6 DEF ToSet
  <2> QED
    BY <2>2, <2>3, <2>5, <2>7
<1> QED
  BY <1>1, <1>7, <1>8, <1>9, <1>10 DEF all, deps

-----------------------------------------------------------------------------
(* The states of the solver.                                               *)

Decisions == Items \X Versions
Conts == {<<>>} \cup {<<x>> : x \in Items} \cup (Items \X Versions)
States ==
    [env : Envs, python : SUBSET Pythons, len : Nat, trail : Seq(Decisions),
     added : SUBSET Decisions, cont : Conts]
PendingForks(p) ==
    [state : States, env : ForkEnvs(p, Places), cont : Conts, deps : Seq(Dependencies)]
ArenaEntries == [item : Items, v : Versions, dep : {<<>>} \cup {<<d>> : d \in Dependencies}]

\* What a fork that waits has: for the places of its environment, the
\* Pythons that are asked for; and a decision, if there are dependencies of
\* it to add.
Ready(p, f) ==
    /\ \A m \in SupportedBy(p) : m \in f.env.markers => m[1] \in f.state.python
    /\ f.deps # <<>> => f.state.trail # <<>>

\* The types of the variables.
Shape ==
    /\ ProblemType(problem)
    /\ arena \in Seq(ArenaEntries)
    /\ pending \in Seq(PendingForks(problem))
    /\ \A i \in DOMAIN pending : Ready(problem, pending[i])
    /\ active # <<>> =>
         /\ active = <<Fork>> /\ Fork \in States /\ Fork.env \in ForkEnvs(problem, Places)
         /\ \A m \in SupportedBy(problem) : m \in Fork.env.markers => m[1] \in Fork.python
    /\ done \in Seq(Envs)
    /\ status \in {"solving", "resolved", "failed"}

\* The checkpoints of the forks that wait are in the arena, the later the
\* higher up in the stack, and the arena is at that of the fork at hand.
Stacked ==
    status = "solving" =>
        /\ active = <<>> => pending # <<>> /\ Len(arena) = Last(pending).state.len
        /\ active # <<>> => Len(arena) = Fork.len
        /\ \A i \in DOMAIN pending : pending[i].state.len <= Len(arena)
        /\ \A i, j \in DOMAIN pending :
             i <= j => pending[i].state.len <= pending[j].state.len

\* There are places.
LEMMA SomePlaces ==
  ASSUME ProblemType(problem)
  PROVE  Places # {} /\ Pythons # {} /\ problem.splits \in BOOLEAN
<1>1. problem.python \in Pythons /\ problem.splits \in BOOLEAN
  BY DEF ProblemType
<1>2. PICK x \in Platforms : TRUE
  BY ForksAssumption
<1>3. <<problem.python, x>> \in Places
  BY <1>1, <1>2 DEF Places
<1> QED
  BY <1>1, <1>3

\* A pending fork.
LEMMA PendingIs ==
  ASSUME NEW p, NEW s \in States, NEW env \in ForkEnvs(p, Places), NEW cont \in Conts,
         NEW deps \in Seq(Dependencies)
  PROVE  /\ Pending(s, env, cont, deps) \in PendingForks(p)
         /\ Pending(s, env, cont, deps).state = s
         /\ Pending(s, env, cont, deps).env = env
         /\ Pending(s, env, cont, deps).cont = cont
         /\ Pending(s, env, cont, deps).deps = deps
BY DEF Pending, PendingForks

\* The environments to begin with.
LEMMA InitialEnvs ==
  ASSUME ProblemType(problem)
  PROVE  LET envs == IF problem.initial = <<>> THEN <<AllEnv>> ELSE Reverse(problem.initial)
         IN  /\ envs \in Seq(ForkEnvs(problem, Places)) /\ envs # <<>>
<1> DEFINE init == problem.initial
<1>1. init \in Seq(Envs) /\ \A i \in DOMAIN init : init[i].markers # {}
  BY DEF ProblemType
<1>2. \A i \in DOMAIN init : init[i] \in ForkEnvs(problem, Places)
  <2> TAKE i \in DOMAIN init
  <2>2. WellPosed(problem) => Tidy(problem, init[i])
    BY DEF WellPosed
  <2>4. OwnExtras(problem) => init[i].exclude \subseteq Conflicting(problem)
    BY DEF OwnExtras
  <2> HIDE DEF init
  <2>3. init[i] \in Envs /\ init[i].markers # {}
    BY <1>1
  <2>1. init[i] \in Envs /\ init[i].markers # {} /\ init[i].markers \subseteq Places
    BY <2>3 DEF Envs
  <2> QED
    BY <2>1, <2>2, <2>4 DEF ForkEnvs
<1>3. AllEnv \in ForkEnvs(problem, Places)
  <2>1. AllEnv \in Envs /\ AllEnv.markers = Places /\ AllEnv.include = {} /\ AllEnv.exclude = {}
    BY DEF AllEnv, Envs
  <2>2. Tidy(problem, AllEnv)
    BY <2>1 DEF Tidy
  <2> QED
    BY <2>1, <2>2, SomePlaces DEF ForkEnvs
<1>4. <<AllEnv>> \in Seq(ForkEnvs(problem, Places)) /\ <<AllEnv>> # <<>>
  BY <1>3
<1> HIDE DEF init
<1>5. ASSUME init # <<>>
      PROVE  Reverse(init) \in Seq(ForkEnvs(problem, Places)) /\ Reverse(init) # <<>>
  <2> DEFINE n == Len(init)
             r == [i \in 1..n |-> init[(n - i) + 1]]
  <2>1. n \in Nat /\ DOMAIN init = 1..n /\ n # 0
    BY <1>1, <1>5
  <2>2. Reverse(init) = r
    BY DEF Reverse
  <2> HIDE DEF n
  <2>3. \A i \in 1..n : (n - i) + 1 \in 1..n
    BY <2>1
  <2>4. r \in [1..n -> ForkEnvs(problem, Places)]
    BY <1>2, <2>1, <2>3
  <2> HIDE DEF r
  <2>5. r \in Seq(ForkEnvs(problem, Places)) /\ Len(r) = n
    BY <2>1, <2>4
  <2> QED
    BY <2>1, <2>2, <2>5
<1> QED
  BY <1>4, <1>5 DEF init

\* The stack to begin with.
LEMMA InitialForksAre ==
  ASSUME ProblemType(problem)
  PROVE  /\ InitialForks(problem) \in Seq(PendingForks(problem))
         /\ InitialForks(problem) # <<>>
         /\ \A i \in DOMAIN InitialForks(problem) :
              LET f == InitialForks(problem)[i] IN
              f.state = FreshState(problem) /\ f.cont = <<>> /\ f.deps = <<>>
<1> DEFINE envs == IF problem.initial = <<>> THEN <<AllEnv>> ELSE Reverse(problem.initial)
           fresh == FreshState(problem)
           S == {f \in PendingForks(problem) : f.state = fresh /\ f.cont = <<>> /\ f.deps = <<>>}
           forks == [i \in DOMAIN envs |-> Pending(fresh, envs[i], <<>>, <<>>)]
<1>1. envs \in Seq(ForkEnvs(problem, Places)) /\ envs # <<>>
  BY InitialEnvs
<1>2. fresh \in States
  <2>1. AllEnv \in Envs
    BY DEF AllEnv, Envs
  <2>2. <<>> \in Conts /\ <<>> \in Seq(Decisions)
    BY DEF Conts
  <2> QED
    BY <2>1, <2>2 DEF FreshState, States
<1>3. <<>> \in Conts /\ <<>> \in Seq(Dependencies)
  BY DEF Conts
<1> HIDE DEF fresh, envs
<1>4. forks \in [1..Len(envs) -> S]
  <2>1. DOMAIN envs = 1..Len(envs) /\ \A i \in DOMAIN envs : envs[i] \in ForkEnvs(problem, Places)
    BY <1>1
  <2>2. \A i \in DOMAIN envs : Pending(fresh, envs[i], <<>>, <<>>) \in S
    <3> TAKE i \in DOMAIN envs
    <3> DEFINE none == <<>>
               env == envs[i]
               f == Pending(fresh, env, none, none)
    <3>2. env \in ForkEnvs(problem, Places) /\ none \in Conts /\ none \in Seq(Dependencies)
      BY <1>3, <2>1
    <3>1. f \in PendingForks(problem) /\ f.state = fresh /\ f.cont = none /\ f.deps = none
      <4> HIDE DEF none, env
      <4> QED
        BY <1>2, <3>2, PendingIs
    <3> HIDE DEF f
    <3> QED
      BY <3>1 DEF f
  <2> HIDE DEF S
  <2> QED
    BY <2>1, <2>2
<1>5. forks \in Seq(S) /\ forks # <<>>
  <2> HIDE DEF forks, S
  <2>1. Len(envs) \in Nat /\ Len(envs) # 0
    BY <1>1
  <2>2. forks \in Seq(S) /\ Len(forks) = Len(envs)
    BY <1>4, <2>1
  <2> QED
    BY <2>1, <2>2
<1>6. Placed(S)
  BY DEF Placed, PendingForks, ForkEnvs
<1>7. Prioritize(forks, problem) \in Seq(S) /\ Prioritize(forks, problem) # <<>>
  <2> HIDE DEF forks, S
  <2> QED
    BY <1>5, <1>6, SomePlaces, PrioritizeIs
<1>8. InitialForks(problem) = Prioritize(forks, problem)
  BY DEF InitialForks, envs, fresh
<1>9. InitialForks(problem) \in Seq(S) /\ InitialForks(problem) # <<>>
  BY <1>7, <1>8
<1> HIDE DEF forks
<1>10. \A i \in DOMAIN InitialForks(problem) : InitialForks(problem)[i] \in S
  <2> HIDE DEF S
  <2> QED
    BY <1>9
<1>11. InitialForks(problem) \in Seq(PendingForks(problem))
  BY <1>9
<1> QED
  BY <1>9, <1>10, <1>11 DEF fresh

\* The solver starts with a stack, and an arena that is empty.
LEMMA InitShape ==
  ASSUME Init
  PROVE  Shape /\ Stacked
<1>1. ProblemType(problem)
  BY ForksAssumption DEF Init
<1>2. pending \in Seq(PendingForks(problem)) /\ pending # <<>>
        /\ \A i \in DOMAIN pending :
             pending[i].state = FreshState(problem) /\ pending[i].deps = <<>>
  BY <1>1, InitialForksAre DEF Init
<1>3. FreshState(problem).len = 0 /\ FreshState(problem).python = {q \in Pythons : q >= problem.python}
  BY DEF FreshState
<1>4. \A i \in DOMAIN pending : Ready(problem, pending[i])
  BY <1>2, <1>3 DEF Ready, SupportedBy, Places
<1>5. arena = <<>> /\ active = <<>> /\ done = <<>> /\ status = "solving"
  BY DEF Init
<1>6. Shape
  BY <1>1, <1>2, <1>4, <1>5 DEF Shape
<1>7. Last(pending) = pending[Len(pending)] /\ Len(pending) \in DOMAIN pending
  BY <1>2 DEF Last
<1>8. Stacked
  BY <1>2, <1>3, <1>5, <1>7 DEF Stacked
<1> QED
  BY <1>6, <1>8

-----------------------------------------------------------------------------
(* What a version is given: dependencies for what it requires.             *)

\* The forks of the dependencies of a version.
VersionForks(item, v) ==
    ForkDependencies(Fork.env, Fork.python, GetDependencies(item, v, Fork.env, Fork.python))

\* The requirements of a version, and what they ask for, for a project.
RequiresOf(p, item, v) ==
    IF <<item, v>> \in DOMAIN p.requires THEN p.requires[<<item, v>>] ELSE <<>>
ActiveOf(p, item, A) ==
    /\ item \in Conflicting(p) => item \in A
    /\ item[2] \in Extras /\ ProjectOf(item) \in Conflicting(p) => ProjectOf(item) \in A
AsksOf(p, req, A) ==
    {x \in {<<req.name, k>> : k \in req.kinds} : ActiveOf(p, x, A)}
        \cup IF req.kinds \cap Groups = {} /\ ActiveOf(p, <<req.name, "project">>, A)
             THEN {<<req.name, "project">>} ELSE {}

\* They are those of the project at hand.
LEMMA OfProblem ==
  /\ \A item, v : Requires(item, v) = RequiresOf(problem, item, v)
  /\ \A req, A : Asks(req, A) = AsksOf(problem, req, A)
<1>1. \A item, A : Active(item, A) <=> ActiveOf(problem, item, A)
  BY DEF Active, ActiveOf, ConflictItems
<1> QED
  BY <1>1 DEF Requires, RequiresOf, Asks, AsksOf

\* A dependency on what a requirement asks for.
Fulfils(d, req, x) ==
    d \in Dependencies /\ x \in Nodes(d) /\ d.name = req.name /\ d.range = req.range

\* In the worlds of env, all that a version requires is in D.
Answers(p, item, v, env, D) ==
    \A m \in SupportedBy(p), A \in SelectionsOf(p) : Covers(env, m, A) =>
        \A k \in DOMAIN RequiresOf(p, item, v) :
            LET req == RequiresOf(p, item, v)[k] IN
            m \in req.marker =>
                \A x \in AsksOf(p, req, A) : \E d \in D : Fulfils(d, req, x)

\* A dependency of a version stems from one of its requirements.
Sourced(p, item, v, d) ==
    \E k \in DOMAIN RequiresOf(p, item, v) : Stems(d, item, RequiresOf(p, item, v)[k])

ForWorld(p, env) == \E m \in SupportedBy(p), A \in SelectionsOf(p) : Covers(env, m, A)

\* What is in no world of env: what it excludes, and what conflicts with
\* something that it includes.
Barred(p, env) ==
    {y \in Items : \/ y \in env.exclude
                   \/ \E i \in DOMAIN p.conflicts :
                        y \in p.conflicts[i] /\ (p.conflicts[i] \ {y}) \cap env.include # {}}

\* What conflicts with a dependency is in no world of env.
Secure(p, d, env) ==
    \A i \in DOMAIN p.conflicts :
        Item(d) \in p.conflicts[i] => p.conflicts[i] \ {Item(d)} \subseteq Barred(p, env)

\* Two dependencies that stand in conflict.
Opposed(p, d, e) ==
    ~d.parent /\ ~e.parent /\ Item(d) # Item(e)
        /\ \E i \in DOMAIN p.conflicts : Item(d) \in p.conflicts[i] /\ Item(e) \in p.conflicts[i]

\* The dependencies that a version is given in the environment env, by a
\* fork of one for `from`.
Gives(p, item, v, from, env, deps) ==
    /\ \A d \in ToSet(deps) : Sourced(p, item, v, d)
    /\ WellPosed(p) /\ OwnExtras(p) => Answers(p, item, v, env, ToSet(deps))
    /\ \A d, e \in ToSet(deps) : ~Opposed(p, d, e)
    /\ WellPosed(p) => \A d \in ToSet(deps) : ~d.parent /\ Item(d) \in Conflicting(p) =>
         Item(d) \notin Barred(p, from) /\ (ForWorld(p, env) => Secure(p, d, env))

\* An environment for fewer worlds.
Tighter(x, env) ==
    /\ x.markers \subseteq env.markers
    /\ env.include \subseteq x.include /\ env.exclude \subseteq x.exclude

\* What a step adds to the arena: the dependencies of a decision, or
\* versions that are ruled out.
Adds(d, deps) ==
    /\ \A i \in 1..Len(arena') : i > Len(arena) =>
         \E e \in ToSet(deps) : arena'[i] = Entry(d[1], d[2], <<e>>)
    /\ \A e \in ToSet(deps) : \E i \in 1..Len(arena') : arena'[i] = Entry(d[1], d[2], <<e>>)
RulesOut == \A i \in 1..Len(arena') : i > Len(arena) => arena'[i].dep = <<>>

\* A state with the decision d more than the fork at hand, whose
\* dependencies in the environment env are deps.
Gains(d, s, env, deps) ==
    /\ d[1] \in NextItems
    /\ s.trail = Append(Fork.trail, d) /\ s.added = Fork.added \cup {d}
    /\ \/ d \in Fork.added /\ deps = <<>>
       \/ Gives(problem, d[1], d[2], Fork.env, env, deps)

-----------------------------------------------------------------------------
(* The kinds of steps.                                                     *)

\* The pending forks that are for a world.
PendingFor(m, A) == {f \in PendingForks(problem) : Covers(f.env, m, A)}

\* Whether the forks are for the worlds of the environment, one for each.
Divides(fs, env) ==
    WellPosed(problem) => \A m \in SupportedBy(problem), A \in SelectionsOf(problem) :
        /\ ~Covers(env, m, A) => NoneOf(fs, PendingFor(m, A))
        /\ Covers(env, m, A) => OneOf(fs, PendingFor(m, A))

\* An arena that is another with entries added to it.
Grows(a, b) ==
    b \in Seq(ArenaEntries) /\ Len(a) <= Len(b) /\ \A i \in 1..Len(a) : b[i] = a[i]

\* Where the version without the local segment has files and the local one
\* has none, for a given project.
ArtifactOf(p, n, v) ==
    IF <<n, v>> \in DOMAIN p.artifact THEN p.artifact[<<n, v>>] ELSE Places
RemainderOf(p, n, v) == ArtifactOf(p, n, p.base[<<n, v>>]) \ ArtifactOf(p, n, v)

\* Whether no place of the environment is one of those.
Clear(p, d, env) ==
    <<d[1][1], d[2]>> \in DOMAIN p.base => env.markers \cap RemainderOf(p, d[1][1], d[2]) = {}

\* A state that has one more decision than the fork at hand, or fewer.
Decides(s) ==
    \E item \in NextItems, v \in Versions :
        /\ Selects(item, v)
        /\ s.trail = Append(Fork.trail, <<item, v>>) /\ s.added = Fork.added \cup {<<item, v>>}
GoesBack(s) ==
    /\ s.added = Fork.added
    /\ \E k \in 0..Len(Fork.trail) : s.trail = SubSeq(Fork.trail, 1, k)

\* The solver goes on with its fork.
Works(s) ==
    /\ status = "solving" /\ active # <<>> /\ active' = <<s>>
    /\ s \in States /\ s.env = Fork.env /\ s.python = Fork.python
    /\ Grows(arena, arena') /\ s.len = Len(arena')
    /\ Decides(s) \/ GoesBack(s)
    /\ \/ GoesBack(s) /\ RulesOut
       \/ \E d \in Decisions, deps \in Seq(Dependencies) : Gains(d, s, s.env, deps) /\ Adds(d, deps)
    /\ s.cont = <<>>
    /\ UNCHANGED <<problem, pending, done, status>>

\* The solver forks.
Pushes(fs) ==
    /\ status = "solving" /\ active # <<>> /\ active' = <<>>
    /\ fs \in Seq(PendingForks(problem)) /\ fs # <<>> /\ pending' = pending \o fs
    /\ \A i \in DOMAIN fs :
         /\ fs[i].state.len = Fork.len /\ fs[i].state.python = Fork.python
         /\ fs[i].env.markers \subseteq Fork.env.markers
         /\ fs[i].deps # <<>> => fs[i].state.trail # <<>>
         /\ \/ fs[i].state.trail = Fork.trail /\ fs[i].state.added = Fork.added
            \/ Decides(fs[i].state)
         /\ Tighter(fs[i].env, Fork.env)
         /\ \/ fs[i].state.trail = Fork.trail /\ fs[i].state.added = Fork.added /\ fs[i].deps = <<>>
            \/ \E d \in Decisions : Gains(d, fs[i].state, fs[i].env, fs[i].deps)
         /\ Len(fs[i].cont) = 2 => Clear(problem, fs[i].cont, fs[i].env)
    /\ Divides(fs, Fork.env)
    /\ UNCHANGED <<problem, arena, done, status>>

\* The state of a fork that is resumed.
LEMMA WithEnvIs ==
  ASSUME NEW s \in States, NEW env \in Envs, NEW cont \in Conts
  PROVE  LET r == [WithEnv(s, env) EXCEPT !.cont = cont] IN
         /\ r \in States /\ r.env = env /\ r.python = NarrowPython(s.python, env)
         /\ r.len = s.len /\ r.trail = s.trail /\ r.cont = cont /\ r.added = s.added
<1> DEFINE python == NarrowPython(s.python, env)
           w == [s EXCEPT !.env = env, !.python = python]
<1>1. python \in SUBSET Pythons
  BY DEF NarrowPython, States
<1>2. WithEnv(s, env) = w
  BY DEF WithEnv, States
<1> HIDE DEF python
<1>3. w \in States /\ w.env = env /\ w.python = python /\ w.trail = s.trail /\ w.added = s.added
        /\ w.len = s.len
  BY <1>1 DEF States
<1> HIDE DEF w
<1> QED
  BY <1>2, <1>3 DEF States, python

\* The same, with the length of the arena.
LEMMA WithLenIs ==
  ASSUME NEW r \in States, NEW len \in Nat
  PROVE  LET t == [r EXCEPT !.len = len] IN
         /\ t \in States /\ t.env = r.env /\ t.python = r.python
         /\ t.len = len /\ t.trail = r.trail /\ t.cont = r.cont /\ t.added = r.added
BY DEF States

\* Entries to add to the arena.
LEMMA AddedEntries ==
  ASSUME arena \in Seq(ArenaEntries), NEW item \in Items, NEW v \in Versions
  PROVE  /\ \A deps \in Seq(Dependencies) : Grows(arena, AddDependencies(item, v, deps))
         /\ Grows(arena, Append(arena, Entry(item, v, <<>>)))
<1>1. ASSUME NEW deps \in Seq(Dependencies)
      PROVE  Grows(arena, AddDependencies(item, v, deps))
  <2> DEFINE new == [i \in DOMAIN deps |-> Entry(item, v, <<deps[i]>>)]
  <2>1. new \in [1..Len(deps) -> ArenaEntries]
    <3>1. DOMAIN deps = 1..Len(deps) /\ \A i \in DOMAIN deps : deps[i] \in Dependencies
      OBVIOUS
    <3>2. \A d \in Dependencies : Entry(item, v, <<d>>) \in ArenaEntries
      BY DEF Entry, ArenaEntries
    <3> QED
      BY <3>1, <3>2
  <2>2. new \in Seq(ArenaEntries)
    <3>1. Len(deps) \in Nat
      OBVIOUS
    <3> HIDE DEF new
    <3> QED
      BY <2>1, <3>1
  <2> HIDE DEF new
  <2>3. Grows(arena, arena \o new)
    BY <2>2 DEF Grows
  <2> QED
    BY <2>3 DEF AddDependencies, new
<1>2. Entry(item, v, <<>>) \in ArenaEntries
  BY DEF Entry, ArenaEntries
<1>3. Grows(arena, Append(arena, Entry(item, v, <<>>)))
  BY <1>2 DEF Grows
<1> QED
  BY <1>1, <1>3

\* They are what is added.
LEMMA AddsAre ==
  ASSUME arena \in Seq(ArenaEntries), NEW item \in Items, NEW v \in Versions
  PROVE  /\ \A deps \in Seq(Dependencies) :
              arena' = AddDependencies(item, v, deps) => Adds(<<item, v>>, deps)
         /\ arena' = Append(arena, Entry(item, v, <<>>)) => RulesOut
<1>1. ASSUME NEW deps \in Seq(Dependencies), arena' = AddDependencies(item, v, deps)
      PROVE  Adds(<<item, v>>, deps)
  <2> DEFINE new == [i \in DOMAIN deps |-> Entry(item, v, <<deps[i]>>)]
             n == Len(arena)
             k == Len(deps)
  <2>1. new \in [1..Len(deps) -> ArenaEntries]
    <3>1. DOMAIN deps = 1..Len(deps) /\ \A i \in DOMAIN deps : deps[i] \in Dependencies
      OBVIOUS
    <3>2. \A d \in Dependencies : Entry(item, v, <<d>>) \in ArenaEntries
      BY DEF Entry, ArenaEntries
    <3> QED
      BY <3>1, <3>2
  <2>2. n \in Nat /\ k \in Nat /\ DOMAIN deps = 1..k
    OBVIOUS
  <2>3. \A i \in 1..k : new[i] = Entry(item, v, <<deps[i]>>)
    BY <2>2
  <2>4. arena' = arena \o new
    BY <1>1 DEF AddDependencies
  <2> HIDE DEF new
  <2>5. new \in Seq(ArenaEntries) /\ Len(new) = k
    BY <2>1, <2>2
  <2>6. Len(arena') = n + k /\ \A i \in 1..k : arena'[n + i] = new[i]
    <3> DEFINE S == ArenaEntries
               a == arena
    <3>1. a \in Seq(S) /\ new \in Seq(S)
      BY <2>5
    <3> HIDE DEF a, S
    <3>2. Len(a \o new) = Len(a) + Len(new) /\ \A i \in 1..Len(new) : (a \o new)[Len(a) + i] = new[i]
      BY <3>1
    <3> QED
      BY <2>4, <2>5, <3>2 DEF a
  <2> HIDE DEF n, k
  <2>7. ASSUME NEW i \in 1..Len(arena'), i > n
        PROVE  \E e \in ToSet(deps) : arena'[i] = Entry(item, v, <<e>>)
    <3>1. i - n \in 1..k /\ i = n + (i - n)
      BY <2>2, <2>6, <2>7
    <3>2. arena'[i] = Entry(item, v, <<deps[i - n]>>)
      BY <2>3, <2>6, <3>1
    <3> QED
      BY <2>2, <3>1, <3>2 DEF ToSet
  <2>8. ASSUME NEW e \in ToSet(deps)
        PROVE  \E i \in 1..Len(arena') : arena'[i] = Entry(item, v, <<e>>)
    <3>1. PICK j \in 1..k : deps[j] = e
      BY <2>2 DEF ToSet
    <3>2. n + j \in 1..Len(arena') /\ arena'[n + j] = Entry(item, v, <<e>>)
      BY <2>2, <2>3, <2>6, <3>1
    <3> QED
      BY <3>2
  <2> QED
    BY <2>7, <2>8 DEF Adds, n
<1>2. ASSUME arena' = Append(arena, Entry(item, v, <<>>))
      PROVE  RulesOut
  <2> DEFINE x == Entry(item, v, <<>>)
  <2>1. x \in ArenaEntries /\ x.dep = <<>>
    BY DEF Entry, ArenaEntries
  <2> HIDE DEF x
  <2>2. Len(arena') = Len(arena) + 1 /\ arena'[Len(arena) + 1] = x /\ Len(arena) \in Nat
    BY <1>2, <2>1 DEF x
  <2>3. \A i \in 1..Len(arena') : i > Len(arena) => i = Len(arena) + 1
    BY <2>2
  <2> QED
    BY <2>1, <2>2, <2>3 DEF RulesOut
<1> QED
  BY <1>1, <1>2

\* What the fork at hand is about.
LEMMA AtHand ==
  ASSUME Shape, active # <<>>
  PROVE  /\ Fork \in States /\ Fork.env \in ForkEnvs(problem, Places) /\ Fork.env \in Envs
         /\ Fork.python \in SUBSET Pythons /\ Fork.len \in Nat
         /\ Fork.trail \in Seq(Decisions) /\ Fork.added \in SUBSET Decisions
         /\ Fork.cont \in Conts
         /\ Decided \subseteq Decisions /\ Entries \subseteq ArenaEntries
         /\ InForce \subseteq Dependencies /\ Undecided \subseteq Items
         /\ NextItems \subseteq Items
<1>1. Fork \in States /\ Fork.env \in ForkEnvs(problem, Places) /\ arena \in Seq(ArenaEntries)
  BY DEF Shape
<1>2. /\ Fork.env \in Envs /\ Fork.python \in SUBSET Pythons /\ Fork.len \in Nat
      /\ Fork.trail \in Seq(Decisions) /\ Fork.added \in SUBSET Decisions
      /\ Fork.cont \in Conts
  BY <1>1 DEF States
<1>3. Decided \subseteq Decisions
  BY <1>2 DEF Decided
<1>4. Entries \subseteq ArenaEntries
  BY <1>1 DEF Entries
<1>5. InForce \subseteq Dependencies
  <2>1. \A x \in ArenaEntries : x.dep # <<>> => x.dep[1] \in Dependencies
    BY DEF ArenaEntries
  <2> QED
    BY <1>4, <2>1 DEF InForce
<1>6. ASSUME NEW d \in Dependencies PROVE Nodes(d) \subseteq Items
  <2>1. d.name \in Names /\ d.kind \in Kinds /\ "project" \in Kinds
    BY DEF Dependencies, Kinds
  <2>2. Item(d) \in Items /\ ProjectOf(Item(d)) \in Items
    BY <2>1 DEF Item, ProjectOf, Items
  <2> QED
    BY <2>2 DEF Nodes
<1>7. RootItem \in Items
  BY DEF RootItem, Items, Kinds
<1>8. Undecided \subseteq Items
  BY <1>5, <1>6, <1>7 DEF Undecided
<1>9. NextItems \subseteq Undecided
  BY DEF NextItems
<1> QED
  BY <1>1, <1>2, <1>3, <1>4, <1>5, <1>8, <1>9

\* Work on a fork leaves the stack alone.
LEMMA WorksShape ==
  ASSUME Shape, Stacked, NEW s, Works(s)
  PROVE  Shape' /\ Stacked'
<1>1. /\ status = "solving" /\ active # <<>> /\ active' = <<s>> /\ s \in States
      /\ s.env = Fork.env /\ s.python = Fork.python /\ Grows(arena, arena')
      /\ s.len = Len(arena') /\ problem' = problem /\ pending' = pending /\ done' = done
      /\ status' = status
  BY DEF Works
<1>2. Fork' = s /\ active' # <<>>
  BY <1>1 DEF Fork
<1>3. arena \in Seq(ArenaEntries) /\ arena' \in Seq(ArenaEntries) /\ Len(arena) <= Len(arena')
  BY <1>1 DEF Grows, Shape
<1>4. pending \in Seq(PendingForks(problem)) /\ \A i \in DOMAIN pending : pending[i].state.len \in Nat
  <2>1. pending \in Seq(PendingForks(problem))
    BY DEF Shape
  <2>2. \A i \in DOMAIN pending : pending[i] \in PendingForks(problem)
    BY <2>1
  <2> QED
    BY <2>1, <2>2 DEF PendingForks, States
<1>5. Shape'
  BY <1>1, <1>2, <1>3 DEF Shape
<1>6. \A i \in DOMAIN pending : pending[i].state.len <= Len(arena')
  <2>1. Len(arena) \in Nat /\ Len(arena') \in Nat
    BY <1>3
  <2> QED
    BY <1>1, <1>3, <1>4, <2>1 DEF Stacked
<1>7. Stacked'
  BY <1>1, <1>2, <1>6 DEF Stacked
<1> QED
  BY <1>5, <1>7

\* A fork that is split leaves its checkpoint on top of the stack.
LEMMA PushesShape ==
  ASSUME Shape, Stacked, NEW fs, Pushes(fs)
  PROVE  Shape' /\ Stacked'
<1> DEFINE n == Len(pending)
           k == Len(fs)
           P == PendingForks(problem)
<1>1. /\ status = "solving" /\ active # <<>> /\ active' = <<>>
      /\ fs \in Seq(P) /\ fs # <<>> /\ pending' = pending \o fs
      /\ problem' = problem /\ arena' = arena /\ done' = done /\ status' = status
  BY DEF Pushes
<1>2. \A i \in DOMAIN fs :
         /\ fs[i].state.len = Fork.len /\ fs[i].state.python = Fork.python
         /\ fs[i].env.markers \subseteq Fork.env.markers
         /\ fs[i].deps # <<>> => fs[i].state.trail # <<>>
  BY DEF Pushes
<1>3. pending \in Seq(P)
  BY DEF Shape
<1>4. Len(arena) = Fork.len /\ Fork.len \in Nat
  BY <1>1, AtHand DEF Stacked
<1> HIDE DEF P
<1>5. /\ n \in Nat /\ k \in Nat /\ k # 0 /\ DOMAIN pending = 1..n /\ DOMAIN fs = 1..k
      /\ pending' \in Seq(P) /\ Len(pending') = n + k /\ DOMAIN pending' = 1..(n + k)
      /\ \A i \in 1..n : pending'[i] = pending[i]
      /\ \A i \in 1..k : pending'[n + i] = fs[i]
  BY <1>1, <1>3
<1> HIDE DEF n, k
<1>6. \A i \in 1..(n+k) : i \in 1..n \/ \E j \in 1..k : i = n + j
  <2> TAKE i \in 1..(n+k)
  <2>1. CASE i <= n
    BY <1>5, <2>1
  <2>2. CASE i > n
    <3>1. i - n \in 1..k /\ i = n + (i - n)
      BY <1>5, <2>2
    <3> QED
      BY <3>1
  <2> QED
    BY <1>5, <2>1, <2>2
<1>7. \A i \in DOMAIN pending' : \/ i \in 1..n /\ pending'[i] = pending[i]
                                 \/ \E j \in 1..k : i = n + j /\ pending'[i] = fs[j]
  BY <1>5, <1>6
<1>8. \A i \in DOMAIN pending' : Ready(problem, pending'[i])
  <2> TAKE i \in DOMAIN pending'
  <2>1. CASE i \in 1..n /\ pending'[i] = pending[i]
    BY <1>5, <2>1 DEF Shape
  <2>2. ASSUME NEW j \in 1..k, pending'[i] = fs[j] PROVE Ready(problem, pending'[i])
    <3>1. \A m \in SupportedBy(problem) : m \in Fork.env.markers => m[1] \in Fork.python
      BY <1>1 DEF Shape
    <3> QED
      BY <1>2, <1>5, <2>2, <3>1 DEF Ready
  <2> QED
    BY <1>7, <2>1, <2>2
<1>9. Shape'
  <2>1. pending' \in Seq(PendingForks(problem'))
    BY <1>1, <1>5 DEF P
  <2> QED
    BY <1>1, <1>8, <2>1 DEF Shape
<1>10. \A i \in 1..n : pending[i].state.len \in Nat /\ pending[i].state.len <= Fork.len
  <2>1. \A i \in 1..n : pending[i] \in P
    BY <1>3, <1>5
  <2>2. \A i \in 1..n : pending[i].state.len \in Nat
    BY <2>1 DEF P, PendingForks, States
  <2> QED
    BY <1>1, <1>4, <1>5, <2>2 DEF Stacked
<1>11. \A i \in DOMAIN pending' : pending'[i].state.len \in Nat /\ pending'[i].state.len <= Fork.len
  <2> TAKE i \in DOMAIN pending'
  <2>1. CASE i \in 1..n /\ pending'[i] = pending[i]
    BY <1>10, <2>1
  <2>2. ASSUME NEW j \in 1..k, pending'[i] = fs[j]
        PROVE  pending'[i].state.len \in Nat /\ pending'[i].state.len <= Fork.len
    <3>1. fs[j].state.len = Fork.len
      BY <1>2, <1>5
    <3> QED
      BY <1>4, <2>2, <3>1
  <2> QED
    BY <1>7, <2>1, <2>2
<1>12. ASSUME NEW i \in DOMAIN pending', NEW j \in DOMAIN pending', i <= j
       PROVE  pending'[i].state.len <= pending'[j].state.len
  <2>1. CASE j \in 1..n /\ pending'[j] = pending[j]
    <3>1. i \in 1..n /\ pending'[i] = pending[i]
      BY <1>5, <1>12, <2>1
    <3> QED
      BY <1>1, <1>5, <1>12, <2>1, <3>1 DEF Stacked
  <2>2. CASE \E l \in 1..k : pending'[j] = fs[l]
    BY <1>2, <1>5, <1>11, <2>2
  <2> QED
    BY <1>7, <2>1, <2>2
<1>13. pending' # <<>> /\ Last(pending').state.len = Fork.len
  <2>1. Last(pending') = fs[k]
    BY <1>5 DEF Last
  <2>2. k \in DOMAIN fs
    BY <1>5
  <2> QED
    BY <1>2, <1>5, <2>1, <2>2
<1>14. Stacked'
  BY <1>1, <1>4, <1>11, <1>12, <1>13 DEF Stacked
<1> QED
  BY <1>9, <1>14

\* What comes off the stack.
LEMMA FrontIs ==
  ASSUME NEW P, NEW s \in Seq(P), s # <<>>
  PROVE  /\ Last(s) \in P /\ Last(s) = s[Len(s)] /\ Len(s) \in DOMAIN s
         /\ Front(s) \in Seq(P)
         /\ \A i \in DOMAIN Front(s) : i \in DOMAIN s /\ i # Len(s) /\ Front(s)[i] = s[i]
         /\ \A i \in DOMAIN s : i # Len(s) => i \in DOMAIN Front(s)
BY DEF Last, Front

\* What is resumed: a fork with the environment and the state that wait on
\* top of the stack.
Resumes(p, s) ==
    /\ active' = <<s>> /\ s \in States /\ s.env = p.env
    /\ s.python = NarrowPython(p.state.python, p.env)
    /\ s.trail = p.state.trail /\ s.added = p.state.added /\ s.cont = p.cont
    /\ s.len = Len(arena') /\ Grows(arena, arena') /\ Adds(Last(s.trail), p.deps)

\* The fork on top of the stack is resumed.
LEMMA MaterializeStep ==
  ASSUME Shape, Materialize
  PROVE  /\ status = "solving" /\ active = <<>> /\ pending # <<>> /\ pending' = Front(pending)
         /\ UNCHANGED <<problem, done, status>>
         /\ Last(pending) \in PendingForks(problem) /\ Ready(problem, Last(pending))
         /\ \E s : Resumes(Last(pending), s)
<1> DEFINE p == Last(pending)
           s == [WithEnv(p.state, p.env) EXCEPT !.cont = p.cont]
           grown == IF p.deps = <<>> THEN arena
                    ELSE AddDependencies(Last(s.trail)[1], Last(s.trail)[2], p.deps)
           r == [s EXCEPT !.len = Len(grown)]
           P == PendingForks(problem)
<1>1. /\ status = "solving" /\ active = <<>> /\ pending # <<>> /\ arena' = grown
      /\ active' = <<r>> /\ pending' = Front(pending)
      /\ problem' = problem /\ done' = done /\ status' = status
  BY DEF Materialize
<1>2. pending \in Seq(P) /\ arena \in Seq(ArenaEntries)
  BY DEF Shape
<1>3. p \in P /\ p = pending[Len(pending)] /\ Len(pending) \in DOMAIN pending
  <2> HIDE DEF P
  <2> QED
    BY <1>1, <1>2, FrontIs
<1>4. Ready(problem, p)
  BY <1>3 DEF Shape
<1> HIDE DEF p
<1>5. /\ p.state \in States /\ p.env \in Envs /\ p.cont \in Conts
      /\ p.deps \in Seq(Dependencies) /\ p.state.trail \in Seq(Decisions)
  BY <1>3 DEF PendingForks, ForkEnvs, States
<1>6. /\ s \in States /\ s.env = p.env /\ s.python = NarrowPython(p.state.python, p.env)
      /\ s.trail = p.state.trail /\ s.cont = p.cont /\ s.added = p.state.added
  BY <1>5, WithEnvIs
<1> HIDE DEF s
<1>7. Grows(arena, grown)
  <2>1. CASE p.deps = <<>>
    BY <1>2, <2>1 DEF Grows
  <2>2. CASE p.deps # <<>>
    <3>1. s.trail \in Seq(Decisions) /\ s.trail # <<>>
      BY <1>4, <1>5, <1>6, <2>2 DEF Ready
    <3>2. Last(s.trail) \in Decisions
      BY <3>1, FrontIs
    <3>3. Last(s.trail)[1] \in Items /\ Last(s.trail)[2] \in Versions
      BY <3>2 DEF Decisions
    <3>4. Grows(arena, AddDependencies(Last(s.trail)[1], Last(s.trail)[2], p.deps))
      BY <1>2, <1>5, <3>3, AddedEntries
    <3> QED
      BY <2>2, <3>4
  <2> QED
    BY <2>1, <2>2
<1>11. Adds(Last(s.trail), p.deps)
  <2>1. CASE p.deps = <<>>
    <3>1. arena' = arena /\ Len(arena) \in Nat
      BY <1>1, <1>2, <2>1
    <3>2. ToSet(p.deps) = {}
      BY <2>1 DEF ToSet
    <3> QED
      BY <3>1, <3>2 DEF Adds
  <2>2. CASE p.deps # <<>>
    <3> DEFINE d == Last(s.trail)
    <3>1. s.trail \in Seq(Decisions) /\ s.trail # <<>>
      BY <1>4, <1>5, <1>6, <2>2 DEF Ready
    <3>2. d \in Decisions
      BY <3>1, FrontIs
    <3>3. arena' = AddDependencies(d[1], d[2], p.deps)
      BY <1>1, <2>2
    <3> HIDE DEF d
    <3>4. d[1] \in Items /\ d[2] \in Versions /\ d = <<d[1], d[2]>>
      BY <3>2 DEF Decisions
    <3>5. Adds(<<d[1], d[2]>>, p.deps)
      BY <1>2, <1>5, <3>3, <3>4, AddsAre
    <3> QED
      BY <3>4, <3>5 DEF d
  <2> QED
    BY <2>1, <2>2
<1> HIDE DEF grown
<1>8. Len(grown) \in Nat
  BY <1>7 DEF Grows
<1>9. /\ r \in States /\ r.env = s.env /\ r.python = s.python /\ r.len = Len(grown)
      /\ r.trail = s.trail /\ r.cont = s.cont /\ r.added = s.added
  BY <1>6, <1>8, WithLenIs
<1> HIDE DEF r
<1>10. Resumes(p, r)
  BY <1>1, <1>6, <1>7, <1>9, <1>11 DEF Resumes
<1> QED
  BY <1>1, <1>3, <1>4, <1>10 DEF p

\* A fork that is resumed finds the arena at its checkpoint.
LEMMA MaterializeShape ==
  ASSUME Shape, Stacked, Materialize
  PROVE  Shape' /\ Stacked'
<1> DEFINE p == Last(pending)
           P == PendingForks(problem)
<1>1. /\ status = "solving" /\ active = <<>> /\ pending # <<>> /\ pending' = Front(pending)
      /\ problem' = problem /\ done' = done /\ status' = status
      /\ p \in P /\ Ready(problem, p)
  BY MaterializeStep
<1>2. PICK r : Resumes(p, r)
  BY MaterializeStep
<1>3. pending \in Seq(P) /\ arena \in Seq(ArenaEntries)
  BY DEF Shape
<1>4. /\ Front(pending) \in Seq(P)
      /\ \A i \in DOMAIN Front(pending) : i \in DOMAIN pending /\ Front(pending)[i] = pending[i]
  <2> HIDE DEF P
  <2> QED
    BY <1>1, <1>3, FrontIs
<1> HIDE DEF p
<1>5. p.env \in ForkEnvs(problem, Places) /\ p.env.markers \in SUBSET Places /\ p.env.markers # {}
  BY <1>1 DEF PendingForks, ForkEnvs, Envs
<1>6. /\ active' = <<r>> /\ r \in States /\ r.env = p.env
      /\ r.python = NarrowPython(p.state.python, p.env) /\ r.len = Len(arena')
      /\ arena' \in Seq(ArenaEntries) /\ Len(arena) <= Len(arena')
  BY <1>2 DEF Resumes, Grows
<1>7. Fork' = r /\ active' # <<>> /\ active' = <<Fork'>>
  BY <1>6 DEF Fork
<1>8. \A m \in SupportedBy(problem) : m \in r.env.markers => m[1] \in r.python
  <2>1. \A m \in p.env.markers : m[1] \in Bounds(p.env.markers)
    BY <1>5, BoundsAre
  <2> QED
    BY <1>1, <1>6, <2>1 DEF Ready, NarrowPython
<1>9. Shape'
  <2>1. \A i \in DOMAIN pending' : Ready(problem', pending'[i])
    BY <1>1, <1>4 DEF Shape
  <2>2. pending' \in Seq(PendingForks(problem'))
    BY <1>1, <1>4
  <2>3. Fork' \in States /\ Fork'.env \in ForkEnvs(problem', Places)
    BY <1>1, <1>5, <1>6, <1>7
  <2>4. \A m \in SupportedBy(problem') : m \in Fork'.env.markers => m[1] \in Fork'.python
    BY <1>1, <1>7, <1>8
  <2> QED
    BY <1>1, <1>6, <1>7, <2>1, <2>2, <2>3, <2>4 DEF Shape
<1>10. \A i \in DOMAIN pending : pending[i].state.len <= Len(arena')
  <2>1. \A i \in DOMAIN pending : pending[i] \in P
    BY <1>3
  <2>2. \A i \in DOMAIN pending : pending[i].state.len \in Nat
    BY <2>1 DEF PendingForks, States
  <2>3. Len(arena) \in Nat /\ Len(arena') \in Nat
    BY <1>3, <1>6
  <2> QED
    BY <1>1, <1>6, <2>2, <2>3 DEF Stacked
<1>11. Stacked'
  <2>1. \A i, j \in DOMAIN pending' : i <= j => pending'[i].state.len <= pending'[j].state.len
    BY <1>1, <1>4 DEF Stacked
  <2>2. \A i \in DOMAIN pending' : pending'[i].state.len <= Len(arena')
    BY <1>1, <1>4, <1>10
  <2> QED
    BY <1>1, <1>6, <1>7, <2>1, <2>2 DEF Stacked
<1> QED
  BY <1>9, <1>11

\* The fork that is next finds the arena at its checkpoint.
LEMMA FinishShape ==
  ASSUME Shape, Stacked, Finish
  PROVE  Shape' /\ Stacked'
<1> DEFINE P == PendingForks(problem)
<1>1. /\ status = "solving" /\ active # <<>> /\ done' = Append(done, Fork.env)
      /\ arena' = Rewind /\ active' = <<>>
      /\ status' = IF pending = <<>> THEN "resolved" ELSE "solving"
      /\ problem' = problem /\ pending' = pending
  BY DEF Finish, Solved, Solving
<1>2. pending \in Seq(P) /\ arena \in Seq(ArenaEntries) /\ done \in Seq(Envs) /\ Fork.env \in Envs
  BY <1>1, AtHand DEF Shape
<1>3. done' \in Seq(Envs)
  BY <1>1, <1>2
<1>4. CASE pending = <<>>
  <2>1. arena' = <<>> /\ status' = "resolved"
    BY <1>1, <1>4 DEF Rewind
  <2>2. arena' \in Seq(ArenaEntries)
    BY <2>1
  <2>3. Shape'
    BY <1>1, <1>3, <2>1, <2>2 DEF Shape
  <2>4. Stacked'
    BY <2>1 DEF Stacked
  <2> QED
    BY <2>3, <2>4
<1>5. CASE pending # <<>>
  <2> DEFINE len == Last(pending).state.len
  <2>1. Last(pending) \in P /\ Last(pending) = pending[Len(pending)] /\ Len(pending) \in DOMAIN pending
    <3> HIDE DEF P
    <3> QED
      BY <1>2, <1>5, FrontIs
  <2>2. len \in Nat /\ len <= Len(arena)
    BY <1>1, <2>1 DEF Stacked, PendingForks, States
  <2>3. arena' = SubSeq(arena, 1, len) /\ status' = "solving"
    BY <1>1, <1>5 DEF Rewind
  <2>4. arena' \in Seq(ArenaEntries) /\ Len(arena') = len
    <3> HIDE DEF len
    <3> QED
      BY <1>2, <2>2, <2>3
  <2>5. Shape'
    BY <1>1, <1>3, <2>3, <2>4 DEF Shape
  <2>6. \A i \in DOMAIN pending : pending[i].state.len <= len
    <3>1. \A i \in DOMAIN pending : i <= Len(pending)
      BY <1>2
    <3> QED
      BY <1>1, <2>1, <3>1 DEF Stacked
  <2>7. Stacked'
    BY <1>1, <1>5, <2>3, <2>4, <2>6 DEF Stacked
  <2> QED
    BY <2>5, <2>7
<1> QED
  BY <1>4, <1>5

\* The environments that are for a world.
EnvsFor(m, A) == {e \in Envs : Covers(e, m, A)}

\* The places of a part of an environment.
LEMMA NarrowPart ==
  ASSUME NEW e \in ForkEnvs(problem, Places), NEW marker \in SUBSET Places
  PROVE  LET r == Narrow(e, marker) IN
         /\ r \in Envs /\ r.markers = e.markers \cap marker
         /\ r.markers # {} => r \in Within(e) /\ r \in ForkEnvs(problem, Places)
         /\ Tighter(r, e)
         /\ \A m \in Places : \A A : r \in EnvsFor(m, A) <=> Covers(e, m, A) /\ m \in marker
<1> DEFINE r == Narrow(e, marker)
<1>1. e \in Envs /\ e.markers \subseteq Places
  BY DEF ForkEnvs
<1>2. /\ r \in Envs /\ r.markers = e.markers \cap marker
      /\ r.include = e.include /\ r.exclude = e.exclude
  BY <1>1, NarrowIs
<1> HIDE DEF r
<1>3. Tidy(problem, e) => Tidy(problem, r)
  BY <1>2 DEF Tidy
<1>4. r.markers # {} => r \in Within(e) /\ r \in ForkEnvs(problem, Places)
  BY <1>1, <1>2, <1>3 DEF ForkEnvs, Within
<1>6. Tighter(r, e)
  BY <1>2 DEF Tighter
<1>5. \A m \in Places : \A A : r \in EnvsFor(m, A) <=> Covers(e, m, A) /\ m \in marker
  BY <1>2 DEF EnvsFor, Covers
<1> QED
  BY <1>2, <1>4, <1>5, <1>6 DEF r

\* The two sides of a Python version are for the worlds of the fork.
LEMMA PythonSidesAre ==
  ASSUME Shape, active # <<>>, NEW item, NEW v
  PROVE  LET sides == PythonSides(item, v) IN
         /\ sides \in Seq(Within(Fork.env))
         /\ sides # <<>> => \A m \in SupportedBy(problem) : \A A :
              /\ ~Covers(Fork.env, m, A) => NoneOf(sides, EnvsFor(m, A))
              /\ Covers(Fork.env, m, A) => OneOf(sides, EnvsFor(m, A))
<1> DEFINE e == Fork.env
           below == {p \in Fork.python : p < MinPython(item[1], v)}
           above == Fork.python \ below
           part(python) == Narrow(e, PythonMarker(python))
           side(python) == IF part(python).markers = {} THEN <<>> ELSE <<part(python)>>
           sides == PythonSides(item, v)
           Q == Within(e)
<1>1. e \in ForkEnvs(problem, Places) /\ Fork.python \in SUBSET Pythons
  BY AtHand
<1>2. sides = IF below = {} \/ above = {} THEN <<>> ELSE side(below) \o side(above)
  BY DEF PythonSides
<1>3. below \in SUBSET Pythons /\ above \in SUBSET Pythons
        /\ \A q \in Fork.python : (q \in below) # (q \in above)
  BY <1>1
<1>4. \A m \in SupportedBy(problem) : m \in Places /\ (m \in e.markers => m[1] \in Fork.python)
  BY DEF Shape, SupportedBy
<1>5. ASSUME NEW python \in SUBSET Pythons
      PROVE  /\ side(python) \in Seq(Q)
             /\ \A m \in Places : \A A :
                  /\ Covers(e, m, A) /\ m[1] \in python => OneOf(side(python), EnvsFor(m, A))
                  /\ ~(Covers(e, m, A) /\ m[1] \in python) => NoneOf(side(python), EnvsFor(m, A))
  <2> DEFINE marker == PythonMarker(python)
             r == part(python)
  <2>1. marker \in SUBSET Places /\ \A m \in Places : m \in marker <=> m[1] \in python
    BY DEF PythonMarker, Places
  <2> HIDE DEF marker, e
  <2>2. /\ r \in Envs /\ r.markers = e.markers \cap marker
        /\ r.markers # {} => r \in Q
        /\ \A m \in Places : \A A : r \in EnvsFor(m, A) <=> Covers(e, m, A) /\ m \in marker
    BY <1>1, <2>1, NarrowPart DEF marker
  <2> HIDE DEF part
  <2>3. CASE r.markers = {}
    <3>1. side(python) = <<>>
      BY <2>3
    <3>2. \A m, A : ~(Covers(e, m, A) /\ m \in marker)
      BY <2>2, <2>3 DEF Covers
    <3>3. \A W : NoneOf(side(python), W)
      BY <3>1 DEF NoneOf
    <3>4. <<>> \in Seq(Q)
      OBVIOUS
    <3>5. side(python) \in Seq(Q)
      BY <3>1, <3>4
    <3> HIDE DEF side
    <3> QED
      BY <2>1, <3>2, <3>3, <3>5
  <2>4. CASE r.markers # {}
    <3>1. side(python) = <<r>> /\ r \in Q
      BY <2>2, <2>4
    <3>2. \A W : (r \in W => OneOf(side(python), W)) /\ (r \notin W => NoneOf(side(python), W))
      BY <3>1 DEF NoneOf, OneOf
    <3>3. side(python) \in Seq(Q)
      <4> HIDE DEF side, r, Q
      <4> QED
        BY <3>1
    <3> HIDE DEF side, r
    <3> QED
      BY <2>1, <2>2, <3>2, <3>3
  <2> QED
    BY <2>3, <2>4
<1> HIDE DEF below, above, side, Q, e
<1>6. side(below) \in Seq(Q) /\ side(above) \in Seq(Q)
  BY <1>3, <1>5
<1>7. sides \in Seq(Q)
  BY <1>2, <1>6
<1>8. ASSUME sides # <<>>, NEW m \in SupportedBy(problem), NEW A
      PROVE  /\ ~Covers(e, m, A) => NoneOf(sides, EnvsFor(m, A))
             /\ Covers(e, m, A) => OneOf(sides, EnvsFor(m, A))
  <2> DEFINE W == EnvsFor(m, A)
  <2>1. sides = side(below) \o side(above) /\ m \in Places
    BY <1>2, <1>4, <1>8
  <2>2. ASSUME ~Covers(e, m, A) PROVE NoneOf(sides, W)
    <3>1. NoneOf(side(below), W) /\ NoneOf(side(above), W)
      BY <1>3, <1>5, <2>1, <2>2
    <3> HIDE DEF W
    <3> QED
      BY <1>6, <2>1, <3>1, ConcatCounts
  <2>3. ASSUME Covers(e, m, A) PROVE OneOf(sides, W)
    <3>1. (m[1] \in below) # (m[1] \in above)
      BY <1>3, <1>4, <2>3 DEF Covers
    <3>2. CASE m[1] \in below
      <4>1. OneOf(side(below), W) /\ NoneOf(side(above), W)
        BY <1>3, <1>5, <2>1, <2>3, <3>1, <3>2
      <4> HIDE DEF W
      <4> QED
        BY <1>6, <2>1, <4>1, ConcatCounts
    <3>3. CASE m[1] \in above
      <4>1. NoneOf(side(below), W) /\ OneOf(side(above), W)
        BY <1>3, <1>5, <2>1, <2>3, <3>1, <3>3
      <4> HIDE DEF W
      <4> QED
        BY <1>6, <2>1, <4>1, ConcatCounts
    <3> QED
      BY <3>1, <3>2, <3>3
  <2> QED
    BY <2>2, <2>3
<1> QED
  BY <1>7, <1>8 DEF e, Q

\* Forks of the fork at hand, one for each of some environments.
LEMMA PendingEach ==
  ASSUME Shape, active # <<>>, NEW cont \in Conts, NEW envs \in Seq(Within(Fork.env))
  PROVE  LET fs == [i \in DOMAIN envs |-> Pending(Fork, envs[i], cont, <<>>)] IN
         /\ fs \in Seq(PendingForks(problem)) /\ DOMAIN fs = DOMAIN envs
         /\ envs # <<>> => fs # <<>>
         /\ \A i \in DOMAIN fs :
              /\ fs[i].state = Fork /\ fs[i].env = envs[i] /\ fs[i].cont = cont
              /\ fs[i].deps = <<>> /\ fs[i].env.markers \subseteq Fork.env.markers
              /\ Tighter(fs[i].env, Fork.env)
         /\ \A m, A :
              /\ NoneOf(envs, EnvsFor(m, A)) => NoneOf(fs, PendingFor(m, A))
              /\ OneOf(envs, EnvsFor(m, A)) => OneOf(fs, PendingFor(m, A))
<1> DEFINE none == <<>>
           fs == [i \in DOMAIN envs |-> Pending(Fork, envs[i], cont, none)]
           n == Len(envs)
           M == Fork.env.markers
<1>1. Fork \in States /\ M \in SUBSET Places /\ none \in Seq(Dependencies)
  BY AtHand DEF Envs
<1>2. \A i \in DOMAIN envs : envs[i] \in ForkEnvs(problem, Places) /\ envs[i].markers \subseteq M
                               /\ envs[i] \in Envs /\ Tighter(envs[i], Fork.env)
  <2>1. \A i \in DOMAIN envs : envs[i] \in Within(Fork.env)
    OBVIOUS
  <2>2. \A x \in Within(Fork.env) : x \in ForkEnvs(problem, Places) /\ x.markers \subseteq M
                                    /\ x \in Envs /\ Tighter(x, Fork.env)
    BY <1>1 DEF ForkEnvs, Within, Tighter
  <2> QED
    BY <2>1, <2>2
<1>3. ASSUME NEW i \in DOMAIN envs
      PROVE  LET f == Pending(Fork, envs[i], cont, none) IN
             /\ f \in PendingForks(problem) /\ f.state = Fork /\ f.env = envs[i]
             /\ f.cont = cont /\ f.deps = none
  <2> DEFINE x == envs[i]
             s == Fork
  <2>1. x \in ForkEnvs(problem, Places) /\ s \in States
    BY <1>1, <1>2
  <2> HIDE DEF x, none, s
  <2>2. LET f == Pending(s, x, cont, none) IN
             /\ f \in PendingForks(problem) /\ f.state = s /\ f.env = x
             /\ f.cont = cont /\ f.deps = none
    <3>1. none \in Seq(Dependencies)
      BY <1>1
    <3> QED
      BY <2>1, <3>1 DEF Pending, PendingForks
  <2> QED
    BY <2>2 DEF x, s
<1>4. n \in Nat /\ DOMAIN envs = 1..n /\ (envs # <<>> => n # 0)
  OBVIOUS
<1>5. fs \in [1..n -> PendingForks(problem)] /\ DOMAIN fs = 1..n
  BY <1>3, <1>4
<1>6. \A i \in DOMAIN envs : /\ fs[i] \in PendingForks(problem) /\ fs[i].state = Fork
                             /\ fs[i].env = envs[i] /\ fs[i].cont = cont /\ fs[i].deps = none
  BY <1>3
<1> HIDE DEF fs, n
<1>7. fs \in Seq(PendingForks(problem)) /\ Len(fs) = n
  BY <1>4, <1>5
<1>8. envs # <<>> => fs # <<>>
  BY <1>4, <1>7
<1>9. \A i \in DOMAIN envs : \A m, A : fs[i] \in PendingFor(m, A) <=> envs[i] \in EnvsFor(m, A)
  BY <1>2, <1>6 DEF PendingFor, EnvsFor
<1>10. \A m, A : /\ NoneOf(envs, EnvsFor(m, A)) => NoneOf(fs, PendingFor(m, A))
                 /\ OneOf(envs, EnvsFor(m, A)) => OneOf(fs, PendingFor(m, A))
  BY <1>4, <1>5, <1>9 DEF NoneOf, OneOf
<1>11. \A i \in DOMAIN fs :
              /\ fs[i].state = Fork /\ fs[i].env = envs[i] /\ fs[i].cont = cont
              /\ fs[i].deps = none /\ fs[i].env.markers \subseteq Fork.env.markers
              /\ Tighter(fs[i].env, Fork.env)
  BY <1>2, <1>4, <1>5, <1>6
<1>12. DOMAIN fs = DOMAIN envs
  BY <1>4, <1>5
<1> QED
  BY <1>7, <1>8, <1>10, <1>11, <1>12 DEF fs

\* A conflict that is learnt, and decisions that are undone.
LEMMA NoVersionsStep ==
  ASSUME Shape, NoVersions
  PROVE  (\E s : Works(s)) \/ (status' = "failed" /\ UNCHANGED <<problem, arena, pending, active, done>>)
<1>1. status = "solving" /\ active # <<>> /\ UNCHANGED <<problem, pending, done>>
  BY DEF NoVersions
<1>2. CASE status' = "failed" /\ UNCHANGED <<arena, active>>
  BY <1>1, <1>2
<1>3. ASSUME NEW i \in DOMAIN Fork.trail,
             arena' = Append(arena, Entry(Fork.trail[i][1], Fork.trail[i][2], <<>>)),
             active' = <<[Fork EXCEPT !.trail = SubSeq(@, 1, i - 1), !.cont = <<>>,
                                      !.len = Len(arena')]>>,
             status' = status
      PROVE  \E s : Works(s)
  <2> DEFINE trail == SubSeq(Fork.trail, 1, i - 1)
             none == <<>>
             len == Len(arena')
             f == Fork
             s == [f EXCEPT !.trail = trail, !.cont = none, !.len = len]
  <2>1. f \in States /\ f.trail \in Seq(Decisions) /\ arena \in Seq(ArenaEntries)
    BY <1>1, AtHand DEF Shape
  <2>2. f.trail[i] \in Decisions
    BY <2>1
  <2>3. f.trail[i][1] \in Items /\ f.trail[i][2] \in Versions
    BY <2>2 DEF Decisions
  <2>4. Grows(arena, arena')
    BY <1>3, <2>1, <2>3, AddedEntries
  <2>5. len \in Nat
    BY <2>4 DEF Grows
  <2>6. i - 1 \in 0..Len(f.trail)
    BY <2>1
  <2>7. trail \in Seq(Decisions)
    <3> DEFINE t == f.trail
    <3>1. t \in Seq(Decisions) /\ i \in 1..Len(t)
      BY <2>1
    <3> HIDE DEF t, f
    <3>2. SubSeq(t, 1, i - 1) \in Seq(Decisions)
      BY <3>1
    <3> QED
      BY <3>2 DEF t, f
  <2>8. none \in Conts
    BY DEF Conts
  <2>9. active' = <<s>>
    BY <1>3
  <2>10. Len(none) # 2
    OBVIOUS
  <2> HIDE DEF trail, none, len, f
  <2>11. /\ s \in States /\ s.env = f.env /\ s.python = f.python /\ s.len = len
         /\ s.trail = trail /\ s.cont = none /\ s.added = f.added
    BY <2>1, <2>5, <2>7, <2>8 DEF States
  <2> HIDE DEF s
  <2>12. GoesBack(s)
    BY <2>6, <2>11 DEF GoesBack, trail, f
  <2>14. RulesOut
    BY <1>3, <2>1, <2>3, AddsAre DEF f
  <2>13. Works(s)
    BY <1>1, <1>3, <2>4, <2>9, <2>11, <2>12, <2>14 DEF Works, len, f, none
  <2> QED
    BY <2>13
<1> QED
  BY <1>2, <1>3 DEF NoVersions

\* A version that requires a newer Python: a fork, or a version less.
LEMMA RequiresPythonStep ==
  ASSUME Shape, RequiresPython
  PROVE  (\E s : Works(s)) \/ (\E fs : Pushes(fs))
<1>1. status = "solving" /\ active # <<>> /\ UNCHANGED <<problem, done, status>>
  BY DEF RequiresPython, Solving
<1>2. PICK item \in NextItems, v \in Versions :
         LET sides == IF problem.splits THEN PythonSides(item, v) ELSE <<>> IN
         /\ IF sides # <<>>
            THEN /\ Push([i \in DOMAIN sides |-> Pending(Fork, sides[i], <<item>>, <<>>)])
                 /\ UNCHANGED arena
            ELSE /\ arena' = Append(arena, Entry(item, v, <<>>))
                 /\ active' = <<[Fork EXCEPT !.cont = <<>>, !.len = Len(arena')]>>
                 /\ UNCHANGED pending
  BY DEF RequiresPython
<1>3. item \in Items /\ v \in Versions /\ Fork \in States
  BY <1>1, AtHand
<1> DEFINE sides == PythonSides(item, v)
<1>4. CASE /\ arena' = Append(arena, Entry(item, v, <<>>))
           /\ active' = <<[Fork EXCEPT !.cont = <<>>, !.len = Len(arena')]>>
           /\ UNCHANGED pending
  <2> DEFINE none == <<>>
             len == Len(arena')
             f == Fork
             s == [f EXCEPT !.cont = none, !.len = len]
  <2>1. f \in States /\ f.trail \in Seq(Decisions) /\ arena \in Seq(ArenaEntries)
    BY <1>1, AtHand DEF Shape
  <2>2. Grows(arena, arena')
    BY <1>3, <1>4, <2>1, AddedEntries
  <2>3. len \in Nat
    BY <2>2 DEF Grows
  <2>4. none \in Conts
    BY DEF Conts
  <2>5. active' = <<s>>
    BY <1>4
  <2> HIDE DEF none, len, f
  <2>6. /\ s \in States /\ s.env = f.env /\ s.python = f.python /\ s.len = len
        /\ s.trail = f.trail /\ s.cont = none /\ s.added = f.added
    BY <2>1, <2>3, <2>4 DEF States
  <2> HIDE DEF s
  <2>7. Len(f.trail) \in 0..Len(f.trail) /\ f.trail = SubSeq(f.trail, 1, Len(f.trail))
    <3> DEFINE t == f.trail
    <3>1. t \in Seq(Decisions)
      BY <2>1
    <3> HIDE DEF t
    <3>2. Len(t) \in 0..Len(t) /\ t = SubSeq(t, 1, Len(t))
      BY <3>1
    <3> QED
      BY <3>2 DEF t
  <2>8. GoesBack(s)
    BY <2>6, <2>7 DEF GoesBack, f
  <2>10. RulesOut
    BY <1>3, <1>4, <2>1, AddsAre
  <2>9. Works(s)
    BY <1>1, <1>4, <2>2, <2>5, <2>6, <2>8, <2>10 DEF Works, len, f, none
  <2> QED
    BY <2>9
<1>5. CASE /\ sides # <<>>
           /\ Push([i \in DOMAIN sides |-> Pending(Fork, sides[i], <<item>>, <<>>)])
           /\ UNCHANGED arena
  <2> DEFINE cont == <<item>>
             fs == [i \in DOMAIN sides |-> Pending(Fork, sides[i], cont, <<>>)]
  <2>1. /\ sides \in Seq(Within(Fork.env))
        /\ \A m \in SupportedBy(problem) : \A A :
              /\ ~Covers(Fork.env, m, A) => NoneOf(sides, EnvsFor(m, A))
              /\ Covers(Fork.env, m, A) => OneOf(sides, EnvsFor(m, A))
    BY <1>1, <1>5, PythonSidesAre
  <2>2. cont \in Conts /\ Len(cont) # 2
    BY <1>3 DEF Conts
  <2> HIDE DEF sides, cont
  <2>3. /\ fs \in Seq(PendingForks(problem)) /\ fs # <<>>
        /\ \A i \in DOMAIN fs :
              /\ fs[i].state = Fork /\ fs[i].env = sides[i] /\ fs[i].cont = cont
              /\ fs[i].deps = <<>> /\ fs[i].env.markers \subseteq Fork.env.markers
              /\ Tighter(fs[i].env, Fork.env)
        /\ \A m, A :
              /\ NoneOf(sides, EnvsFor(m, A)) => NoneOf(fs, PendingFor(m, A))
              /\ OneOf(sides, EnvsFor(m, A)) => OneOf(fs, PendingFor(m, A))
    BY <1>1, <1>5, <2>1, <2>2, PendingEach
  <2>4. pending' = pending \o fs /\ active' = <<>>
    BY <1>5 DEF Push, cont
  <2> HIDE DEF fs
  <2>5. Divides(fs, Fork.env)
    BY <2>1, <2>3 DEF Divides
  <2>6. Pushes(fs)
    BY <1>1, <1>5, <2>2, <2>3, <2>4, <2>5 DEF Pushes
  <2> QED
    BY <2>6
<1> QED
  BY <1>2, <1>4, <1>5

\* Where only the version without the local segment has files, and elsewhere.
LEMMA ExtendedIs ==
  ASSUME ProblemType(problem), NEW n, NEW v, <<n, v>> \in DOMAIN problem.base
  PROVE  /\ Extended(n, v) \in SUBSET Places /\ Remainder(n, v) \subseteq Extended(n, v)
         /\ Artifact(n, v) \cap Extended(n, v) = {}
         /\ Remainder(n, v) = RemainderOf(problem, n, v)
         /\ problem.base[<<n, v>>] \in Versions
         /\ <<n, problem.base[<<n, v>>]>> \notin DOMAIN problem.base
<1>1. \A b : Artifact(n, b) \subseteq Places
  BY DEF Artifact, ProblemType
<1>2. Remainder(n, v) \subseteq Places /\ Artifact(n, v) \cap Remainder(n, v) = {}
  BY <1>1 DEF Remainder
<1>3. \A m \in Places : m \in Pythons \X {m[2]}
  BY DEF Places
<1>4. Remainder(n, v) = RemainderOf(problem, n, v)
  BY DEF Remainder, RemainderOf, Artifact, ArtifactOf
<1>5. \A k \in DOMAIN problem.base :
        problem.base[k] \in Versions /\ <<k[1], problem.base[k]>> \notin DOMAIN problem.base
  BY DEF ProblemType
<1>6. problem.base[<<n, v>>] \in Versions /\ <<n, problem.base[<<n, v>>]>> \notin DOMAIN problem.base
  BY <1>5
<1> QED
  BY <1>2, <1>3, <1>4, <1>6 DEF Extended

\* A local version that is for a part of the places only.
LEMMA ForkOnPlatformStep ==
  ASSUME Shape, ForkOnPlatform
  PROVE  \E fs : Pushes(fs)
<1>1. status = "solving" /\ active # <<>> /\ UNCHANGED <<problem, arena, done, status>>
  BY DEF ForkOnPlatform, Solving
<1>0. PICK item \in NextItems, v \in Versions :
         /\ IncludedByMarker(Fork.env, Artifact(item[1], v))
         /\ \E b \in BaseOf(item, v) :
              Push(<<Pending(Fork, Narrow(Fork.env, Extended(item[1], v)), <<item, b>>, <<>>),
                     Pending(Fork, Narrow(Fork.env, Places \ Extended(item[1], v)),
                             <<item, v>>, <<>>)>>)
  BY DEF ForkOnPlatform
<1>2. PICK b \in BaseOf(item, v) :
         /\ IncludedByMarker(Fork.env, Artifact(item[1], v))
         /\ Push(<<Pending(Fork, Narrow(Fork.env, Extended(item[1], v)), <<item, b>>, <<>>),
                   Pending(Fork, Narrow(Fork.env, Places \ Extended(item[1], v)),
                           <<item, v>>, <<>>)>>)
  BY <1>0
<1> DEFINE n == item[1]
           e == Fork.env
           f == Fork
           X == Extended(n, v)
           e1 == Narrow(e, X)
           e2 == Narrow(e, Places \ X)
           c1 == <<item, b>>
           c2 == <<item, v>>
           none == <<>>
           f1 == Pending(f, e1, c1, none)
           f2 == Pending(f, e2, c2, none)
           fs == <<f1, f2>>
           P == PendingForks(problem)
<1>3. item \in Items /\ f \in States /\ e \in ForkEnvs(problem, Places) /\ ProblemType(problem)
  BY <1>1, AtHand DEF Shape
<1>4. <<n, v>> \in DOMAIN problem.base /\ b = problem.base[<<n, v>>]
        /\ IncludedByMarker(e, Remainder(n, v))
  BY <1>2 DEF BaseOf
<1>5. /\ X \in SUBSET Places /\ Remainder(n, v) \subseteq X /\ Artifact(n, v) \cap X = {}
      /\ Remainder(n, v) = RemainderOf(problem, n, v) /\ b \in Versions
      /\ <<n, b>> \notin DOMAIN problem.base
  BY <1>3, <1>4, ExtendedIs
<1>6. pending' = pending \o fs /\ active' = <<>>
  BY <1>2 DEF Push
<1>7. e.markers \cap Artifact(n, v) # {} /\ e.markers \cap Remainder(n, v) # {}
  BY <1>2, <1>4 DEF IncludedByMarker
<1>8. c1 \in Conts /\ c2 \in Conts /\ c1[1][1] = n /\ c1[2] = b /\ c2[1][1] = n /\ c2[2] = v
        /\ none \in Conts /\ none \in Seq(Dependencies)
  BY <1>3, <1>5 DEF Conts
<1> HIDE DEF X, f, c1, c2, none, e, n
<1>9. e.markers \subseteq Places
  BY <1>3 DEF ForkEnvs, Envs
<1>10. e.markers \cap X # {} /\ e.markers \cap (Places \ X) # {}
  BY <1>5, <1>7, <1>9
<1>11. /\ e1 \in ForkEnvs(problem, Places) /\ e1.markers = e.markers \cap X /\ Tighter(e1, e)
       /\ \A m \in Places : \A A : e1 \in EnvsFor(m, A) <=> Covers(e, m, A) /\ m \in X
  BY <1>3, <1>5, <1>10, NarrowPart
<1>12. /\ e2 \in ForkEnvs(problem, Places) /\ e2.markers = e.markers \cap (Places \ X) /\ Tighter(e2, e)
       /\ \A m \in Places : \A A : e2 \in EnvsFor(m, A) <=> Covers(e, m, A) /\ m \in Places \ X
  <2>1. Places \ X \in SUBSET Places
    OBVIOUS
  <2> QED
    BY <1>3, <1>10, <2>1, NarrowPart
<1> HIDE DEF e1, e2
<1>13. f1 \in P /\ f1.state = f /\ f1.env = e1 /\ f1.cont = c1 /\ f1.deps = none
  BY <1>3, <1>8, <1>11, PendingIs
<1>14. f2 \in P /\ f2.state = f /\ f2.env = e2 /\ f2.cont = c2 /\ f2.deps = none
  BY <1>3, <1>8, <1>12, PendingIs
<1> HIDE DEF f1, f2
<1>15. /\ fs \in Seq(P) /\ fs # <<>> /\ DOMAIN fs = {1, 2} /\ fs[1] = f1 /\ fs[2] = f2
  <2> HIDE DEF P
  <2> QED
    BY <1>13, <1>14
<1> HIDE DEF fs
<1>16. Divides(fs, e)
  <2> SUFFICES ASSUME NEW m \in SupportedBy(problem), NEW A
               PROVE  /\ ~Covers(e, m, A) => NoneOf(fs, PendingFor(m, A))
                      /\ Covers(e, m, A) => OneOf(fs, PendingFor(m, A))
    BY DEF Divides
  <2>1. m \in Places
    BY DEF SupportedBy
  <2>2. f1 \in PendingFor(m, A) <=> Covers(e, m, A) /\ m \in X
    BY <1>11, <1>13, <2>1 DEF PendingFor, EnvsFor, ForkEnvs
  <2>3. f2 \in PendingFor(m, A) <=> Covers(e, m, A) /\ m \notin X
    BY <1>12, <1>14, <2>1 DEF PendingFor, EnvsFor, ForkEnvs
  <2> QED
    BY <1>15, <2>2, <2>3 DEF NoneOf, OneOf
<1>17. Clear(problem, c1, e1)
  BY <1>5, <1>8 DEF Clear
<1>18. Clear(problem, c2, e2)
  BY <1>5, <1>8, <1>12 DEF Clear
<1>19. ASSUME NEW i \in DOMAIN fs
       PROVE  /\ fs[i].state = f /\ fs[i].deps = none /\ fs[i].env.markers \subseteq e.markers
              /\ Tighter(fs[i].env, e)
              /\ Clear(problem, fs[i].cont, fs[i].env)
  BY <1>11, <1>12, <1>13, <1>14, <1>15, <1>17, <1>18
<1>20. Pushes(fs)
  BY <1>1, <1>6, <1>15, <1>16, <1>19 DEF Pushes, f, e, none
<1> QED
  BY <1>20

\* The forks of the dependencies of a version.
LEMMA VersionForksAre ==
  ASSUME Shape, active # <<>>, NEW item \in Items, NEW v \in Versions
  PROVE  LET forks == ForkDependencies(Fork.env, Fork.python,
                          GetDependencies(item, v, Fork.env, Fork.python))
             sorted == Prioritize(forks, problem)
             R == ForksIn(ForkEnvs(problem, Fork.env.markers))
         IN  /\ forks \in Seq(R) /\ sorted \in Seq(R)
             /\ forks # <<>> => sorted # <<>>
             /\ WellPosed(problem) => \A m \in SupportedBy(problem), A \in SelectionsOf(problem) :
                  /\ ~Covers(Fork.env, m, A) => NoneOf(sorted, Covering(m, A))
                  /\ Covers(Fork.env, m, A) => OneOf(sorted, Covering(m, A))
<1> DEFINE e == Fork.env
           deps == GetDependencies(item, v, e, Fork.python)
           forks == ForkDependencies(e, Fork.python, deps)
           sorted == Prioritize(forks, problem)
           M == e.markers
           R == ForksIn(ForkEnvs(problem, M))
<1>1. ProblemType(problem) /\ e \in ForkEnvs(problem, Places) /\ Fork.python \in SUBSET Pythons
  BY AtHand DEF Shape
<1>2. deps \in Seq(Dependencies)
  BY <1>1, GetDependenciesIs
<1>3. e \in ForkEnvs(problem, M) /\ M \in SUBSET Places
  BY <1>1 DEF ForkEnvs, Envs
<1> HIDE DEF deps
<1>4. forks \in Seq(R)
  BY <1>1, <1>2, <1>3, ForkDependenciesIs
<1>5. Placed(R)
  BY <1>3 DEF Placed, ForksIn, ForkEnvs
<1>6. /\ sorted \in Seq(R) /\ (forks # <<>> => sorted # <<>>)
      /\ \A W : NoneOf(forks, W) => NoneOf(sorted, W)
      /\ \A W : OneOf(forks, W) => OneOf(sorted, W)
  <2> HIDE DEF forks, R
  <2> QED
    BY <1>1, <1>4, <1>5, SomePlaces, PrioritizeIs
<1> HIDE DEF sorted
<1>7. ASSUME WellPosed(problem), NEW m \in SupportedBy(problem), NEW A \in SelectionsOf(problem)
      PROVE  /\ ~Covers(e, m, A) => NoneOf(sorted, Covering(m, A))
             /\ Covers(e, m, A) => OneOf(sorted, Covering(m, A))
  <2>1. m \in Places /\ A \in Selections
    BY <1>7 DEF SupportedBy, Selections
  <2>2. m \in M => m[1] \in Fork.python
    BY DEF Shape
  <2>3. CASE m[1] \in Fork.python
    <3>1. /\ ~Covers(e, m, A) => NoneOf(forks, Covering(m, A))
          /\ Covers(e, m, A) => OneOf(forks, Covering(m, A))
      BY <1>1, <1>2, <1>3, <1>7, <2>1, <2>3, ForkDependenciesCounts
    <3> QED
      BY <1>6, <3>1
  <2>4. CASE m \notin M
    <3>1. ~Covers(e, m, A)
      BY <2>4 DEF Covers
    <3>2. \A i \in DOMAIN sorted : sorted[i] \in R
      <4> HIDE DEF R
      <4> QED
        BY <1>6
    <3>3. \A x \in R : x \notin Covering(m, A)
      BY <2>4 DEF ForksIn, ForkEnvs, Covering, Covers
    <3>4. NoneOf(sorted, Covering(m, A))
      BY <3>2, <3>3 DEF NoneOf
    <3> QED
      BY <3>1, <3>4
  <2> QED
    BY <2>2, <2>3, <2>4
<1> QED
  BY <1>4, <1>6, <1>7 DEF sorted, deps

\* A requirement applies where one of its places is for the fork at hand.
LEMMA AppliesAtHand ==
  ASSUME Shape, active # <<>>, OwnExtras(problem), NEW item \in Items, NEW v,
         NEW k \in DOMAIN Requires(item, v), NEW m \in SupportedBy(problem),
         m \in Fork.env.markers, m \in Requires(item, v)[k].marker
  PROVE  Applicable(item, Requires(item, v)[k], Fork.env, Fork.python)
<1> DEFINE req == Requires(item, v)[k]
           e == Fork.env
<1>1. item[2] \in Extras => IncludedByGroup(e, <<req.name, item[2]>>)
  <2> SUFFICES ASSUME item[2] \in Extras PROVE IncludedByGroup(e, <<req.name, item[2]>>)
    OBVIOUS
  <2>1. e.exclude \subseteq Conflicting(problem)
    BY AtHand DEF ForkEnvs
  <2>2. <<item, v>> \in DOMAIN problem.requires /\ Requires(item, v) = problem.requires[<<item, v>>]
    BY DEF Requires
  <2>3. /\ <<req.name, item[2]>> \notin Conflicting(problem)
        /\ <<req.name, "project">> \notin Conflicting(problem)
    <3>1. <<item, v>>[1][2] = item[2]
      OBVIOUS
    <3> QED
      BY <2>2, <3>1 DEF OwnExtras
  <2>4. ProjectOf(<<req.name, item[2]>>) = <<req.name, "project">>
    BY DEF ProjectOf
  <2> HIDE DEF req, e
  <2> QED
    BY <2>1, <2>3, <2>4 DEF IncludedByGroup
<1>2. m[1] \in Fork.python /\ m \in Places
  BY DEF Shape, SupportedBy
<1>3. m \in PythonMarker(Fork.python)
  BY <1>2 DEF PythonMarker, Places
<1> QED
  BY <1>1, <1>3 DEF Applicable, IncludedByMarker

\* A fork of the dependencies of a version gives it what it requires.
LEMMA VersionForkGives ==
  ASSUME Shape, active # <<>>, NEW item \in Items, NEW v \in Versions,
         NEW r \in ToSet(VersionForks(item, v))
  PROVE  /\ Gives(problem, item, v, Fork.env, r.env, r.deps)
         /\ r \in Forks /\ r.env \in ForkEnvs(problem, Places)
         /\ Fork.env.include \subseteq r.env.include /\ Fork.env.exclude \subseteq r.env.exclude
         /\ \A d \in ToSet(r.deps) : ~d.parent /\ Item(d) \in Conflicting(problem) =>
              \A i \in DOMAIN problem.conflicts : Item(d) \in problem.conflicts[i] =>
                problem.conflicts[i] \ {Item(d)} \subseteq r.env.exclude
<1> DEFINE e == Fork.env
           n == Len(problem.conflicts)
           deps == GetDependencies(item, v, e, Fork.python)
           D == ToSet(deps)
           all == Requires(item, v)
           forks == VersionForks(item, v)
           R == ForksIn(ForkEnvs(problem, e.markers))
           G == Settled(e, D, n)
<1>1. ProblemType(problem) /\ e \in ForkEnvs(problem, Places) /\ Fork.python \in SUBSET Pythons
  BY AtHand DEF Shape
<1>2. /\ all \in Seq(Requirements) /\ deps \in Seq(Dependencies) /\ Uniform(D)
      /\ \A d \in D : \E k \in DOMAIN all : Stems(d, item, all[k])
      /\ \A k \in DOMAIN all : Applicable(item, all[k], e, Fork.python) =>
                  \A A : \A x \in Asks(all[k], A) : \E d \in D :
                    x \in Nodes(d) /\ Active(Item(d), A) /\ Stems(d, item, all[k])
  BY <1>1, GetDependenciesHas
<1>3. forks \in Seq(G)
  <2> HIDE DEF deps
  <2>1. ForkDependencies(e, Fork.python, deps) \in Seq(Settled(e, ToSet(deps), Len(problem.conflicts)))
    BY <1>1, <1>2, ForkDependenciesSettle
  <2> QED
    BY <2>1 DEF VersionForks, deps
<1>4. forks \in Seq(R)
  BY VersionForksAre DEF VersionForks
<1>5. r \in G /\ r \in R
  <2> HIDE DEF forks, G, R
  <2>1. PICK i \in DOMAIN forks : r = forks[i]
    BY DEF ToSet, forks
  <2> QED
    BY <1>3, <1>4, <2>1
<1> HIDE DEF forks
<1>6. /\ r \in Forks /\ ToSet(r.deps) \subseteq D /\ Serves(r, D) /\ Secured(r, n)
      /\ e.include \subseteq r.env.include /\ e.exclude \subseteq r.env.exclude
  BY <1>5 DEF Settled
<1>7. r.env \in ForkEnvs(problem, e.markers) /\ r.env \in Envs
  BY <1>5 DEF ForksIn, ForkEnvs
<1>8. /\ r.env \in ForkEnvs(problem, Places) /\ r.env.markers \subseteq e.markers
      /\ WellPosed(problem) => Tidy(problem, r.env)
      /\ OwnExtras(problem) => r.env.exclude \subseteq Conflicting(problem)
  BY <1>1, <1>7 DEF ForkEnvs, Envs
<1>9. \A d \in ToSet(r.deps) : Sourced(problem, item, v, d)
  BY <1>2, <1>6, OfProblem DEF Sourced
<1> HIDE DEF deps, D, G, R
<1>10. ASSUME OwnExtras(problem) PROVE Answers(problem, item, v, r.env, ToSet(r.deps))
  <2> SUFFICES ASSUME NEW m \in SupportedBy(problem), NEW A \in SelectionsOf(problem),
                      Covers(r.env, m, A), NEW k \in DOMAIN all, m \in all[k].marker,
                      NEW x \in Asks(all[k], A)
               PROVE  \E d \in ToSet(r.deps) : Fulfils(d, all[k], x)
    BY OfProblem DEF Answers
  <2>1. m \in r.env.markers /\ m \in e.markers
    BY <1>8 DEF Covers
  <2>2. Applicable(item, all[k], e, Fork.python)
    BY <1>10, <2>1, AppliesAtHand
  <2>3. PICK d \in D : x \in Nodes(d) /\ Active(Item(d), A) /\ Stems(d, item, all[k])
    BY <1>2, <2>2
  <2>4. d.name = all[k].name /\ d.marker = all[k].marker /\ d.range = all[k].range
    BY <2>3 DEF Stems
  <2>5. d \in ToSet(r.deps)
    BY <1>6, <1>8, <1>10, <2>3, <2>4 DEF Serves, ConflictItems
  <2>6. d \in Dependencies
    BY <1>2, <2>3 DEF D, ToSet
  <2> QED
    BY <2>3, <2>4, <2>5, <2>6 DEF Fulfils
<1>11. ASSUME NEW d \in ToSet(r.deps), ~d.parent, NEW i \in DOMAIN problem.conflicts,
              Item(d) \in problem.conflicts[i]
       PROVE  Item(d) \notin r.env.exclude /\ problem.conflicts[i] \ {Item(d)} \subseteq r.env.exclude
  <2>1. i \in 1..n
    BY <1>1 DEF ProblemType
  <2> QED
    BY <1>6, <1>11, <2>1 DEF Secured
<1>12. \A d, f \in ToSet(r.deps) : ~Opposed(problem, d, f)
  BY <1>11 DEF Opposed
<1>13. ASSUME WellPosed(problem), NEW d \in ToSet(r.deps), ~d.parent, Item(d) \in Conflicting(problem)
       PROVE  Item(d) \notin Barred(problem, e) /\ Secure(problem, d, r.env)
  <2>1. Tidy(problem, r.env)
    BY <1>8, <1>13
  <2>2. r.env.include \cap r.env.exclude = {}
    BY <2>1 DEF Tidy
  <2>3. PICK i \in DOMAIN problem.conflicts : Item(d) \in problem.conflicts[i]
    BY <1>13 DEF Conflicting
  <2>4. Item(d) \notin e.exclude
    BY <1>6, <1>11, <1>13, <2>3
  <2>5. Item(d) \notin Barred(problem, e)
    BY <1>6, <1>11, <1>13, <2>2, <2>4 DEF Barred
  <2>6. \A j \in DOMAIN problem.conflicts : problem.conflicts[j] \subseteq Items
    BY <1>1 DEF ProblemType
  <2>7. Secure(problem, d, r.env)
    BY <1>11, <1>13, <2>6 DEF Secure, Barred
  <2> QED
    BY <2>5, <2>7
<1>14. Gives(problem, item, v, e, r.env, r.deps)
  BY <1>9, <1>10, <1>12, <1>13 DEF Gives
<1> QED
  BY <1>6, <1>8, <1>11, <1>14

\* What no other item that is included conflicts with may be selected too.
LEMMA SelectMore ==
  ASSUME NEW p, ProblemType(p), NEW e, NEW m, NEW A \in SelectionsOf(p), Covers(e, m, A),
         NEW z \in Conflicting(p), z \in Items, z \notin Barred(p, e)
  PROVE  \E B \in SelectionsOf(p) : Covers(e, m, B) /\ z \in B
<1> DEFINE B == e.include \cup {z}
<1>1. /\ m \in e.markers /\ e.include \subseteq A /\ e.exclude \cap A = {}
      /\ A \subseteq Conflicting(p)
      /\ \A i \in DOMAIN p.conflicts : Cardinality(A \cap p.conflicts[i]) <= 1
  BY DEF Covers, SelectionsOf
<1>2. /\ z \notin e.exclude
      /\ \A i \in DOMAIN p.conflicts :
           z \in p.conflicts[i] => (p.conflicts[i] \ {z}) \cap e.include = {}
  BY DEF Barred
<1>3. Covers(e, m, B)
  BY <1>1, <1>2 DEF Covers
<1>4. ASSUME NEW i \in DOMAIN p.conflicts PROVE Cardinality(B \cap p.conflicts[i]) <= 1
  <2> DEFINE C == p.conflicts[i]
  <2>1. IsFiniteSet(C)
    BY DEF ProblemType
  <2>2. CASE z \in C
    <3>1. B \cap C = {z}
      BY <1>2, <2>2
    <3>2. Cardinality({z}) = 1
      BY FS_Singleton
    <3> QED
      BY <3>1, <3>2
  <2>3. CASE z \notin C
    <3>1. B \cap C \subseteq A \cap C
      BY <1>1, <2>3
    <3>2. IsFiniteSet(A \cap C)
      BY <2>1, FS_Subset
    <3> HIDE DEF B, C
    <3>3. Cardinality(B \cap C) <= Cardinality(A \cap C) /\ IsFiniteSet(B \cap C)
      BY <3>1, <3>2, FS_Subset
    <3>4. Cardinality(A \cap C) \in Nat /\ Cardinality(B \cap C) \in Nat /\ Cardinality(A \cap C) <= 1
      BY <1>1, <3>2, <3>3, FS_CardinalityType DEF C
    <3>5. Cardinality(B \cap C) <= 1
      BY <3>3, <3>4
    <3> QED
      BY <3>5 DEF C
  <2> QED
    BY <2>2, <2>3
<1>5. B \in SelectionsOf(p)
  BY <1>1, <1>4 DEF SelectionsOf
<1> QED
  BY <1>3, <1>5

\* So does the only one, for the environment that it was made from.
LEMMA OnlyForkGives ==
  ASSUME Shape, active # <<>>, NEW item \in Items, NEW v \in Versions,
         Len(VersionForks(item, v)) < 2
  PROVE  LET forks == VersionForks(item, v) IN
         Gives(problem, item, v, Fork.env, Fork.env,
               IF forks = <<>> THEN <<>> ELSE forks[1].deps)
<1> DEFINE e == Fork.env
           forks == VersionForks(item, v)
           R == ForksIn(ForkEnvs(problem, e.markers))
           deps == GetDependencies(item, v, e, Fork.python)
<1>1. ProblemType(problem) /\ e \in ForkEnvs(problem, Places) /\ Fork.python \in SUBSET Pythons
  BY AtHand DEF Shape
<1>2. deps \in Seq(Dependencies)
  BY <1>1, GetDependenciesIs
<1>3. forks \in Seq(R)
  BY VersionForksAre DEF VersionForks
<1>4. ASSUME WellPosed(problem), NEW m \in SupportedBy(problem), NEW A \in SelectionsOf(problem),
             Covers(e, m, A)
      PROVE  forks # <<>> /\ Covers(forks[1].env, m, A)
  <2>1. m \in Places /\ m[1] \in Fork.python /\ A \in Selections
    BY <1>4 DEF SupportedBy, Selections, Covers, Shape
  <2>2. OneOf(forks, Covering(m, A))
    <3> HIDE DEF deps
    <3>1. OneOf(ForkDependencies(e, Fork.python, deps), Covering(m, A))
      BY <1>1, <1>2, <1>4, <2>1, ForkDependenciesCounts
    <3> QED
      BY <3>1 DEF VersionForks, deps
  <2> HIDE DEF forks, R
  <2>3. PICK i \in DOMAIN forks : forks[i] \in Covering(m, A)
    BY <2>2 DEF OneOf
  <2>4. i = 1 /\ forks # <<>>
    BY <1>3 DEF forks
  <2> QED
    BY <2>3, <2>4 DEF Covering
<1>5. CASE forks = <<>>
  <2> DEFINE none == <<>>
  <2>1. ToSet(none) = {}
    BY DEF ToSet
  <2>2. WellPosed(problem) => Answers(problem, item, v, e, ToSet(none))
    BY <1>4, <1>5 DEF Answers
  <2> HIDE DEF none
  <2>3. Gives(problem, item, v, e, e, none)
    BY <2>1, <2>2 DEF Gives
  <2> QED
    BY <1>5, <2>3 DEF none
<1>6. CASE forks # <<>>
  <2> DEFINE r == forks[1]
  <2>1. r \in ToSet(forks)
    <3> HIDE DEF forks, R
    <3> QED
      BY <1>3, <1>6 DEF ToSet
  <2>2. /\ Gives(problem, item, v, e, r.env, r.deps)
        /\ r \in Forks /\ r.env \in ForkEnvs(problem, Places)
        /\ e.include \subseteq r.env.include /\ e.exclude \subseteq r.env.exclude
        /\ \A d \in ToSet(r.deps) : ~d.parent /\ Item(d) \in Conflicting(problem) =>
              \A i \in DOMAIN problem.conflicts : Item(d) \in problem.conflicts[i] =>
                problem.conflicts[i] \ {Item(d)} \subseteq r.env.exclude
    BY <2>1, VersionForkGives
  <2> HIDE DEF forks
  <2>3. /\ \A d \in ToSet(r.deps) : Sourced(problem, item, v, d)
        /\ WellPosed(problem) /\ OwnExtras(problem) => Answers(problem, item, v, r.env, ToSet(r.deps))
        /\ \A d, f \in ToSet(r.deps) : ~Opposed(problem, d, f)
        /\ WellPosed(problem) => \A d \in ToSet(r.deps) : ~d.parent /\ Item(d) \in Conflicting(problem) =>
             Item(d) \notin Barred(problem, e)
    BY <2>2 DEF Gives
  <2>4. ASSUME WellPosed(problem), OwnExtras(problem) PROVE Answers(problem, item, v, e, ToSet(r.deps))
    BY <1>4, <2>3, <2>4 DEF Answers
  <2>5. ASSUME WellPosed(problem), NEW d \in ToSet(r.deps), ~d.parent,
               Item(d) \in Conflicting(problem), ForWorld(problem, e)
        PROVE  Secure(problem, d, e)
    <3> SUFFICES ASSUME NEW i \in DOMAIN problem.conflicts, Item(d) \in problem.conflicts[i],
                        NEW z \in problem.conflicts[i] \ {Item(d)}, z \notin Barred(problem, e)
                 PROVE  FALSE
      BY DEF Secure
    <3>1. z \in Conflicting(problem) /\ z \in Items
      BY <1>1 DEF ProblemType, Conflicting
    <3>2. PICK m \in SupportedBy(problem), A \in SelectionsOf(problem) : Covers(e, m, A)
      BY <2>5 DEF ForWorld
    <3>3. PICK B \in SelectionsOf(problem) : Covers(e, m, B) /\ z \in B
      BY <1>1, <3>1, <3>2, SelectMore
    <3>4. Covers(r.env, m, B)
      BY <1>4, <2>5, <3>3
    <3>5. z \in r.env.exclude
      BY <2>2, <2>5
    <3> QED
      BY <3>3, <3>4, <3>5 DEF Covers
  <2>6. Gives(problem, item, v, e, e, r.deps)
    BY <2>3, <2>4, <2>5 DEF Gives
  <2> QED
    BY <1>6, <2>6 DEF forks
<1> QED
  BY <1>5, <1>6

\* A decision without a fork.
LEMMA DecideWorks ==
  ASSUME Shape, status = "solving", active # <<>>, UNCHANGED <<problem, done, status>>,
         NEW item \in NextItems, NEW v \in Versions, Selects(item, v),
         NEW deps \in Seq(Dependencies),
         \/ <<item, v>> \in Fork.added /\ deps = <<>>
         \/ Gives(problem, item, v, Fork.env, Fork.env, deps),
         Decide(item, v, deps, Fork.added \cup {<<item, v>>})
  PROVE  \E s : Works(s)
<1> DEFINE none == <<>>
           grown == AddDependencies(item, v, deps)
           len == Len(grown)
           f == Fork
           d == <<item, v>>
           added == f.added \cup {d}
           trail == Append(f.trail, d)
           s == [f EXCEPT !.trail = trail, !.cont = none, !.added = added, !.len = len]
<1>1. /\ f \in States /\ f.trail \in Seq(Decisions) /\ arena \in Seq(ArenaEntries)
      /\ item \in Items /\ f.added \in SUBSET Decisions
  BY AtHand DEF Shape
<1>2. d \in Decisions
  BY <1>1 DEF Decisions
<1>3. Grows(arena, grown)
  BY <1>1, AddedEntries
<1>4. len \in Nat
  <2> HIDE DEF grown
  <2> QED
    BY <1>3 DEF Grows
<1>5. added \in SUBSET Decisions
  BY <1>1, <1>2
<1>6. trail \in Seq(Decisions)
  <2> HIDE DEF d
  <2> QED
    BY <1>1, <1>2
<1>7. none \in Conts
  BY DEF Conts
<1>8. active' = <<s>> /\ arena' = grown /\ pending' = pending
  BY DEF Decide
<1> HIDE DEF none, len, f, added, trail, grown
<1>9. /\ s \in States /\ s.env = f.env /\ s.python = f.python /\ s.len = len
      /\ s.trail = trail /\ s.cont = none /\ s.added = added
  BY <1>1, <1>4, <1>5, <1>6, <1>7 DEF States
<1> HIDE DEF s
<1>10. Decides(s)
  BY <1>9 DEF Decides, trail, added, f
<1>12. Adds(d, deps)
  BY <1>1, <1>8, AddsAre DEF grown
<1>13. d[1] = item /\ d[2] = v
  OBVIOUS
<1> HIDE DEF d
<1>14. Gains(d, s, s.env, deps)
  BY <1>9, <1>13 DEF Gains, f, trail, added, d
<1>11. Works(s)
  BY <1>2, <1>3, <1>8, <1>9, <1>10, <1>12, <1>14 DEF Works, len, f, none
<1> QED
  BY <1>11

\* A decision with a fork.
LEMMA DecidePushes ==
  ASSUME Shape, status = "solving", active # <<>>, UNCHANGED <<problem, arena, done, status>>,
         NEW item \in NextItems, NEW v \in Versions, Selects(item, v),
         NEW sorted \in Seq(ForksIn(ForkEnvs(problem, Fork.env.markers))), sorted # <<>>,
         WellPosed(problem) => \A m \in SupportedBy(problem), A \in SelectionsOf(problem) :
            /\ ~Covers(Fork.env, m, A) => NoneOf(sorted, Covering(m, A))
            /\ Covers(Fork.env, m, A) => OneOf(sorted, Covering(m, A)),
         \A i \in DOMAIN sorted :
            /\ Gives(problem, item, v, Fork.env, sorted[i].env, sorted[i].deps)
            /\ Tighter(sorted[i].env, Fork.env),
         NEW s, s = [Fork EXCEPT !.added = Fork.added \cup {<<item, v>>},
                                 !.trail = Append(@, <<item, v>>)],
         Push([i \in DOMAIN sorted |-> Pending(s, sorted[i].env, <<>>, sorted[i].deps)])
  PROVE  \E fs : Pushes(fs)
<1> DEFINE none == <<>>
           f == Fork
           d == <<item, v>>
           added == f.added \cup {d}
           trail == Append(f.trail, d)
           n == Len(sorted)
           P == PendingForks(problem)
           M == f.env.markers
           fs == [i \in DOMAIN sorted |-> Pending(s, sorted[i].env, none, sorted[i].deps)]
<1>1. /\ f \in States /\ f.trail \in Seq(Decisions) /\ item \in Items
      /\ f.added \in SUBSET Decisions /\ M \in SUBSET Places
  BY AtHand DEF Shape, Envs
<1>2. d \in Decisions
  BY <1>1 DEF Decisions
<1>3. added \in SUBSET Decisions
  BY <1>1, <1>2
<1>4. trail \in Seq(Decisions) /\ trail # <<>>
  <2> HIDE DEF d
  <2> QED
    BY <1>1, <1>2
<1>5. none \in Conts /\ Len(none) # 2
  BY DEF Conts
<1>6. s = [f EXCEPT !.added = added, !.trail = trail]
  OBVIOUS
<1>7. pending' = pending \o fs /\ active' = <<>>
  BY DEF Push
<1>8. n \in Nat /\ n # 0 /\ DOMAIN sorted = 1..n
        /\ \A i \in DOMAIN sorted : sorted[i] \in ForksIn(ForkEnvs(problem, M))
  OBVIOUS
<1> HIDE DEF none, added, trail
<1>9. /\ s \in States /\ s.env = f.env /\ s.python = f.python /\ s.len = f.len
      /\ s.trail = trail /\ s.added = added
  <2> HIDE DEF f
  <2> QED
    BY <1>1, <1>3, <1>4, <1>6 DEF States
<1>10. Decides(s)
  BY <1>9 DEF Decides, trail, added, f
<1> HIDE DEF f, M, n
<1>11. \A r \in ForksIn(ForkEnvs(problem, M)) :
         /\ r \in Forks /\ r.env \in ForkEnvs(problem, Places) /\ r.env.markers \subseteq M
         /\ r.deps \in Seq(Dependencies)
  BY <1>1 DEF ForksIn, ForkEnvs, Forks
<1>12. ASSUME NEW i \in DOMAIN sorted
       PROVE  LET x == Pending(s, sorted[i].env, none, sorted[i].deps) IN
              /\ x \in P /\ x.state = s /\ x.env = sorted[i].env
              /\ x.cont = none /\ x.deps = sorted[i].deps
  <2> DEFINE en == sorted[i].env
             de == sorted[i].deps
  <2>1. en \in ForkEnvs(problem, Places) /\ de \in Seq(Dependencies)
    BY <1>8, <1>11
  <2> HIDE DEF en, de
  <2>2. LET x == Pending(s, en, none, de) IN
              /\ x \in P /\ x.state = s /\ x.env = en /\ x.cont = none /\ x.deps = de
    <3>1. s \in States /\ none \in Conts
      BY <1>5, <1>9
    <3> QED
      BY <2>1, <3>1 DEF Pending, PendingForks
  <2> QED
    BY <2>2 DEF en, de
<1>13. fs \in [1..n -> P] /\ DOMAIN fs = 1..n
  BY <1>8, <1>12
<1>14. \A i \in DOMAIN sorted : /\ fs[i] \in P /\ fs[i].state = s /\ fs[i].env = sorted[i].env
                                /\ fs[i].cont = none /\ fs[i].deps = sorted[i].deps
  BY <1>12
<1> HIDE DEF fs, P
<1>15. fs \in Seq(P) /\ fs # <<>>
  BY <1>8, <1>13
<1>16. \A i \in DOMAIN sorted : \A m, A : fs[i] \in PendingFor(m, A) <=> sorted[i] \in Covering(m, A)
  BY <1>8, <1>11, <1>14 DEF PendingFor, Covering, P
<1>17. \A m, A : /\ NoneOf(sorted, Covering(m, A)) => NoneOf(fs, PendingFor(m, A))
                 /\ OneOf(sorted, Covering(m, A)) => OneOf(fs, PendingFor(m, A))
  BY <1>8, <1>13, <1>16 DEF NoneOf, OneOf
<1>18. Divides(fs, f.env)
  BY <1>17 DEF Divides, f
<1>19. \A i \in DOMAIN fs :
         /\ fs[i].state = s /\ fs[i].env.markers \subseteq M /\ fs[i].cont = none
         /\ Gives(problem, item, v, f.env, fs[i].env, fs[i].deps) /\ Tighter(fs[i].env, f.env)
  BY <1>8, <1>11, <1>13, <1>14 DEF f
<1>21. d[1] = item /\ d[2] = v
  OBVIOUS
<1> HIDE DEF d
<1>22. \A i \in DOMAIN fs : Gains(d, fs[i].state, fs[i].env, fs[i].deps)
  BY <1>9, <1>19, <1>21 DEF Gains, trail, added, f
<1>20. Pushes(fs)
  BY <1>2, <1>4, <1>5, <1>7, <1>9, <1>10, <1>15, <1>18, <1>19, <1>22 DEF Pushes, f, M, P
<1> QED
  BY <1>20

\* The forks of a version are those that were made, in another order.
LEMMA SortedFrom ==
  ASSUME Shape, active # <<>>, NEW item \in Items, NEW v \in Versions
  PROVE  LET forks == ForkDependencies(Fork.env, Fork.python,
                          GetDependencies(item, v, Fork.env, Fork.python))
             sorted == Prioritize(forks, problem)
         IN  \A i \in DOMAIN sorted : sorted[i] \in ToSet(forks)
<1> DEFINE forks == ForkDependencies(Fork.env, Fork.python,
                        GetDependencies(item, v, Fork.env, Fork.python))
           sorted == Prioritize(forks, problem)
           R == ForksIn(ForkEnvs(problem, Fork.env.markers))
           S == ToSet(forks)
<1>1. forks \in Seq(R)
  BY VersionForksAre
<1>2. S \subseteq R /\ forks \in Seq(S)
  <2> HIDE DEF forks, R
  <2>1. \A i \in DOMAIN forks : forks[i] \in S /\ forks[i] \in R
    BY <1>1 DEF ToSet
  <2>2. S \subseteq R
    BY <2>1 DEF ToSet
  <2> HIDE DEF S
  <2>3. forks \in Seq(S)
    <3>1. DOMAIN forks = 1..Len(forks) /\ Len(forks) \in Nat /\ forks = [i \in DOMAIN forks |-> forks[i]]
      BY <1>1
    <3> QED
      BY <2>1, <3>1
  <2> QED
    BY <2>2, <2>3
<1>3. Placed(S)
  <2>1. Fork.env.markers \subseteq Places
    BY AtHand DEF Envs
  <2>2. Placed(R)
    BY <2>1 DEF Placed, ForksIn, ForkEnvs
  <2> HIDE DEF S, R, forks
  <2> QED
    BY <1>2, <2>2 DEF Placed
<1>4. ProblemType(problem)
  BY DEF Shape
<1> HIDE DEF forks, S
<1>5. sorted \in Seq(S)
  BY <1>2, <1>3, <1>4, SomePlaces, PrioritizeIs
<1> HIDE DEF sorted
<1>6. \A i \in DOMAIN sorted : sorted[i] \in S
  BY <1>5
<1> QED
  BY <1>6 DEF S, sorted, forks

\* A decision, with the dependencies of the version or forks for them.
LEMMA DecideVersionStep ==
  ASSUME Shape, DecideVersion
  PROVE  (\E s : Works(s)) \/ (\E fs : Pushes(fs))
<1>1. status = "solving" /\ active # <<>> /\ UNCHANGED <<problem, done, status>>
  BY DEF DecideVersion, Solving
<1>2. PICK item \in NextItems, v \in Versions :
         /\ Selects(item, v)
         /\ LET forks == ForkDependencies(Fork.env, Fork.python,
                             GetDependencies(item, v, Fork.env, Fork.python))
                added == Fork.added \cup {<<item, v>>}
                s == [Fork EXCEPT !.added = added, !.trail = Append(@, <<item, v>>)]
                sorted == Prioritize(forks, problem)
            IN  IF Known(item, v) THEN Decide(item, v, <<>>, added)
                ELSE IF Len(forks) < 2
                THEN Decide(item, v, IF forks = <<>> THEN <<>> ELSE forks[1].deps, added)
                ELSE /\ Push([i \in DOMAIN sorted |->
                                Pending(s, sorted[i].env, <<>>, sorted[i].deps)])
                     /\ UNCHANGED arena
  BY DEF DecideVersion
<1> DEFINE forks == ForkDependencies(Fork.env, Fork.python,
                        GetDependencies(item, v, Fork.env, Fork.python))
           added == Fork.added \cup {<<item, v>>}
           s == [Fork EXCEPT !.added = added, !.trail = Append(@, <<item, v>>)]
           sorted == Prioritize(forks, problem)
           R == ForksIn(ForkEnvs(problem, Fork.env.markers))
<1>3. item \in Items
  BY <1>1, AtHand
<1>4. /\ forks \in Seq(R) /\ sorted \in Seq(R)
      /\ forks # <<>> => sorted # <<>>
      /\ WellPosed(problem) => \A m \in SupportedBy(problem), A \in SelectionsOf(problem) :
           /\ ~Covers(Fork.env, m, A) => NoneOf(sorted, Covering(m, A))
           /\ Covers(Fork.env, m, A) => OneOf(sorted, Covering(m, A))
  BY <1>1, <1>3, VersionForksAre
<1>5. CASE Known(item, v) /\ Decide(item, v, <<>>, added)
  <2> DEFINE none == <<>>
  <2>1. none \in Seq(Dependencies) /\ none = <<>> /\ Decide(item, v, none, added)
    BY <1>5
  <2>2. <<item, v>> \in Fork.added
    BY <1>5 DEF Known
  <2> HIDE DEF none
  <2> QED
    BY <1>1, <1>2, <2>1, <2>2, DecideWorks
<1>6. CASE Len(forks) < 2 /\ Decide(item, v, IF forks = <<>> THEN <<>> ELSE forks[1].deps, added)
  <2> DEFINE deps == IF forks = <<>> THEN <<>> ELSE forks[1].deps
  <2>1. deps \in Seq(Dependencies)
    <3>1. CASE forks = <<>>
      BY <3>1
    <3>2. CASE forks # <<>>
      <4>1. forks[1] \in R
        <5> HIDE DEF forks, R
        <5> QED
          BY <1>4, <3>2
      <4> QED
        BY <3>2, <4>1 DEF ForksIn, Forks
    <3> QED
      BY <3>1, <3>2
  <2>2. Decide(item, v, deps, added)
    BY <1>6
  <2>3. Gives(problem, item, v, Fork.env, Fork.env, deps)
    BY <1>1, <1>3, <1>6, OnlyForkGives DEF VersionForks
  <2> HIDE DEF deps
  <2> QED
    BY <1>1, <1>2, <2>1, <2>2, <2>3, DecideWorks
<1>7. CASE /\ ~(Len(forks) < 2)
           /\ Push([i \in DOMAIN sorted |-> Pending(s, sorted[i].env, <<>>, sorted[i].deps)])
           /\ UNCHANGED arena
  <2>1. forks # <<>>
    <3> HIDE DEF forks
    <3> QED
      BY <1>7
  <2>2. sorted # <<>> /\ sorted \in Seq(R)
    BY <1>4, <2>1
  <2>3. UNCHANGED <<problem, arena, done, status>>
    BY <1>1, <1>7
  <2>5. ASSUME NEW i \in DOMAIN sorted
        PROVE  /\ Gives(problem, item, v, Fork.env, sorted[i].env, sorted[i].deps)
               /\ Tighter(sorted[i].env, Fork.env)
    <3> DEFINE r == sorted[i]
    <3>1. r \in ToSet(forks)
      BY <1>1, <1>3, <2>5, SortedFrom
    <3>2. r \in ToSet(VersionForks(item, v))
      BY <3>1 DEF VersionForks
    <3>3. r \in R
      <4> HIDE DEF sorted, R
      <4> QED
        BY <1>4, <2>5
    <3> HIDE DEF r
    <3>4. /\ Gives(problem, item, v, Fork.env, r.env, r.deps)
          /\ Fork.env.include \subseteq r.env.include /\ Fork.env.exclude \subseteq r.env.exclude
      BY <1>1, <1>3, <3>2, VersionForkGives
    <3>5. Tighter(r.env, Fork.env)
      BY <3>3, <3>4 DEF Tighter, ForksIn, ForkEnvs
    <3> QED
      BY <3>4, <3>5 DEF r
  <2> HIDE DEF forks, sorted, s
  <2>4. s = [Fork EXCEPT !.added = Fork.added \cup {<<item, v>>}, !.trail = Append(@, <<item, v>>)]
    BY DEF s
  <2> QED
    BY <1>1, <1>2, <1>4, <1>7, <2>2, <2>3, <2>4, <2>5, DecidePushes
<1> HIDE DEF forks, sorted, s, added
<1> QED
  BY <1>2, <1>5, <1>6, <1>7 DEF forks, sorted, s, added

-----------------------------------------------------------------------------
(* The arena.                                                              *)

\* Every step keeps the types and the stack.
LEMMA NextShape ==
  ASSUME Shape, Stacked, [Next]_vars
  PROVE  Shape' /\ Stacked'
<1>1. CASE Materialize
  BY <1>1, MaterializeShape
<1>2. CASE NoVersions
  <2>1. CASE \E s : Works(s)
    BY <2>1, WorksShape
  <2>2. CASE status' = "failed" /\ UNCHANGED <<problem, arena, pending, active, done>>
    <3>1. Shape'
      BY <2>2 DEF Shape, Fork
    <3>2. Stacked'
      BY <2>2 DEF Stacked
    <3> QED
      BY <3>1, <3>2
  <2> QED
    BY <1>2, <2>1, <2>2, NoVersionsStep
<1>3. CASE RequiresPython
  BY <1>3, RequiresPythonStep, WorksShape, PushesShape
<1>4. CASE ForkOnPlatform
  BY <1>4, ForkOnPlatformStep, PushesShape
<1>5. CASE DecideVersion
  BY <1>5, DecideVersionStep, WorksShape, PushesShape
<1>6. CASE Finish
  BY <1>6, FinishShape
<1>7. CASE UNCHANGED vars
  <2>1. Shape'
    BY <1>7 DEF vars, Shape, Fork
  <2>2. Stacked'
    BY <1>7 DEF vars, Stacked, Fork
  <2> QED
    BY <2>1, <2>2
<1> QED
  BY <1>1, <1>2, <1>3, <1>4, <1>5, <1>6, <1>7 DEF Next, Stop

\* The states of the solver, for any project, are of their types, and the
\* checkpoints of the stack of forks are in the arena in their order.
THEOREM ForkStack == Spec => [](Shape /\ Stacked)
<1>1. Init => Shape /\ Stacked
  BY InitShape
<1>2. (Shape /\ Stacked) /\ [Next]_vars => (Shape /\ Stacked)'
  BY NextShape
<1> QED
  BY <1>1, <1>2, PTL DEF Spec

\* A fork that is resumed finds the arena as it was when it was put on the
\* stack, whatever was solved in between (into_resolution and
\* materialize_fork).
THEOREM ArenaRestored == Spec => []ArenaAtCheckpoint
<1>1. Shape /\ Stacked => ArenaAtCheckpoint
  BY DEF Stacked, ArenaAtCheckpoint
<1> QED
  BY <1>1, ForkStack, PTL

-----------------------------------------------------------------------------
(* The worlds.                                                             *)

\* The states that are for a world.
StatesFor(m, A) == {s \in States : Covers(s.env, m, A)}

\* One fork, to solve or solved, is for a world.
OneFor(m, A) ==
    \/ /\ OneOf(pending, PendingFor(m, A)) /\ NoneOf(active, StatesFor(m, A))
       /\ NoneOf(done, EnvsFor(m, A))
    \/ /\ NoneOf(pending, PendingFor(m, A)) /\ OneOf(active, StatesFor(m, A))
       /\ NoneOf(done, EnvsFor(m, A))
    \/ /\ NoneOf(pending, PendingFor(m, A)) /\ NoneOf(active, StatesFor(m, A))
       /\ OneOf(done, EnvsFor(m, A))

Divided ==
    WellPosed(problem) =>
        \A m \in SupportedBy(problem), A \in SelectionsOf(problem) : OneFor(m, A)

\* The forks to begin with are one for each world.
LEMMA InitialDivided ==
  ASSUME ProblemType(problem), WellPosed(problem),
         NEW m \in SupportedBy(problem), NEW A \in SelectionsOf(problem)
  PROVE  OneOf(InitialForks(problem), PendingFor(m, A))
<1> DEFINE init == problem.initial
           envs == IF init = <<>> THEN <<AllEnv>> ELSE Reverse(init)
           fresh == FreshState(problem)
           P == PendingForks(problem)
           W == EnvsFor(m, A)
           none == <<>>
           forks == [i \in DOMAIN envs |-> Pending(fresh, envs[i], none, none)]
<1>1. envs \in Seq(ForkEnvs(problem, Places)) /\ envs # <<>>
  BY InitialEnvs
<1>2. OneOf(envs, W)
  <2>1. CASE init = <<>>
    <3>1. m \in Places
      BY DEF SupportedBy
    <3>2. AllEnv \in W
      BY <3>1 DEF EnvsFor, AllEnv, Envs, Covers
    <3>3. envs = <<AllEnv>>
      BY <2>1
    <3> HIDE DEF W, envs
    <3> QED
      BY <3>2, <3>3 DEF OneOf
  <2>2. CASE init # <<>>
    <3> DEFINE n == Len(init)
               r == [i \in 1..n |-> init[(n - i) + 1]]
    <3>1. init \in Seq(Envs)
      BY DEF ProblemType
    <3>2. PICK i \in DOMAIN init :
             /\ Covers(init[i], m, A)
             /\ \A j \in DOMAIN init : j # i => ~Covers(init[j], m, A)
      BY <2>2 DEF WellPosed
    <3>3. envs = r
      BY <2>2 DEF Reverse
    <3> HIDE DEF init, envs
    <3>4. n \in Nat /\ DOMAIN init = 1..n /\ \A k \in 1..n : init[k] \in Envs
      BY <3>1
    <3> HIDE DEF n
    <3>5. DOMAIN r = 1..n /\ \A k \in 1..n : (n - k) + 1 \in 1..n /\ r[k] = init[(n - k) + 1]
      BY <3>4
    <3> HIDE DEF r
    <3>6. \A k \in 1..n : init[k] \in W <=> Covers(init[k], m, A)
      BY <3>4 DEF EnvsFor
    <3>7. (n - i) + 1 \in 1..n /\ (n - ((n - i) + 1)) + 1 = i
      BY <3>4
    <3>8. r[(n - i) + 1] \in W
      BY <3>2, <3>4, <3>5, <3>6, <3>7
    <3>9. ASSUME NEW j \in 1..n, j # (n - i) + 1 PROVE r[j] \notin W
      <4>1. (n - j) + 1 \in 1..n /\ (n - j) + 1 # i
        BY <3>4, <3>9
      <4> QED
        BY <3>2, <3>4, <3>5, <3>6, <4>1
    <3>10. OneOf(r, W)
      BY <3>5, <3>7, <3>8, <3>9 DEF OneOf
    <3> QED
      BY <3>3, <3>10
  <2> QED
    BY <2>1, <2>2
<1>3. InitialForks(problem) = Prioritize(forks, problem)
  BY DEF InitialForks
<1>4. fresh \in States
  <2>1. AllEnv \in Envs
    BY DEF AllEnv, Envs
  <2>2. <<>> \in Conts /\ <<>> \in Seq(Decisions)
    BY DEF Conts
  <2> QED
    BY <2>1, <2>2 DEF FreshState, States
<1>5. none \in Conts /\ none \in Seq(Dependencies)
  BY DEF Conts
<1> HIDE DEF fresh, envs, none
<1>6. DOMAIN envs = 1..Len(envs) /\ Len(envs) \in Nat
        /\ \A i \in DOMAIN envs : envs[i] \in ForkEnvs(problem, Places) /\ envs[i] \in Envs
  <2>1. DOMAIN envs = 1..Len(envs) /\ Len(envs) \in Nat
        /\ \A i \in DOMAIN envs : envs[i] \in ForkEnvs(problem, Places)
    BY <1>1
  <2> QED
    BY <2>1 DEF ForkEnvs
<1>7. \A i \in DOMAIN envs : forks[i] \in P /\ forks[i].env = envs[i]
  <2> TAKE i \in DOMAIN envs
  <2> DEFINE e == envs[i]
             f == Pending(fresh, e, none, none)
  <2>1. e \in ForkEnvs(problem, Places)
    BY <1>6
  <2> HIDE DEF e
  <2>2. f \in P /\ f.env = e
    BY <1>4, <1>5, <2>1, PendingIs
  <2> QED
    BY <2>2 DEF e
<1>8. forks \in [1..Len(envs) -> P] /\ DOMAIN forks = DOMAIN envs
  <2> HIDE DEF P
  <2> QED
    BY <1>6, <1>7
<1> HIDE DEF forks
<1>9. forks \in Seq(P)
  <2> HIDE DEF P
  <2> QED
    BY <1>6, <1>8
<1>10. \A i \in DOMAIN envs : forks[i] \in PendingFor(m, A) <=> envs[i] \in W
  BY <1>6, <1>7 DEF PendingFor, EnvsFor
<1>11. OneOf(forks, PendingFor(m, A))
  BY <1>2, <1>8, <1>10 DEF OneOf
<1>12. Placed(P)
  BY DEF Placed, PendingForks, ForkEnvs
<1>13. OneOf(Prioritize(forks, problem), PendingFor(m, A))
  <2> HIDE DEF P
  <2> QED
    BY <1>9, <1>11, <1>12, SomePlaces, PrioritizeIs
<1> QED
  BY <1>3, <1>13

\* There is one fork for each world to begin with.
LEMMA InitDivided ==
  ASSUME Init
  PROVE  Divided
<1>1. ProblemType(problem) /\ pending = InitialForks(problem) /\ active = <<>> /\ done = <<>>
  BY ForksAssumption DEF Init
<1>2. ASSUME WellPosed(problem), NEW m \in SupportedBy(problem), NEW A \in SelectionsOf(problem)
      PROVE  OneFor(m, A)
  <2>1. OneOf(pending, PendingFor(m, A))
    BY <1>1, <1>2, InitialDivided
  <2>2. NoneOf(active, StatesFor(m, A)) /\ NoneOf(done, EnvsFor(m, A))
    BY <1>1 DEF NoneOf
  <2> QED
    BY <2>1, <2>2 DEF OneFor
<1> QED
  BY <1>2 DEF Divided

\* A sequence of one.
LEMMA SingleCounts ==
  ASSUME NEW x, NEW W
  PROVE  (x \in W => OneOf(<<x>>, W)) /\ (x \notin W => NoneOf(<<x>>, W)) /\ NoneOf(<<>>, W)
BY DEF OneOf, NoneOf

\* Work on a fork does not change what it is for.
LEMMA WorksDivided ==
  ASSUME Shape, Divided, NEW s, Works(s)
  PROVE  Divided'
<1>1. /\ active # <<>> /\ active' = <<s>> /\ s \in States /\ s.env = Fork.env
      /\ problem' = problem /\ pending' = pending /\ done' = done
  BY DEF Works
<1>2. active = <<Fork>> /\ Fork \in States
  BY <1>1 DEF Shape
<1>3. ASSUME NEW m, NEW A, OneFor(m, A)
      PROVE  OneFor(m, A)'
  <2>1. PendingFor(m, A)' = PendingFor(m, A)
    BY <1>1 DEF PendingFor
  <2>2. s \in StatesFor(m, A) <=> Fork \in StatesFor(m, A)
    BY <1>1, <1>2 DEF StatesFor
  <2>3. (NoneOf(active, StatesFor(m, A)) => NoneOf(active', StatesFor(m, A)))
          /\ (OneOf(active, StatesFor(m, A)) => OneOf(active', StatesFor(m, A)))
    BY <1>1, <1>2, <2>2 DEF NoneOf, OneOf
  <2> QED
    BY <1>1, <1>3, <2>1, <2>3 DEF OneFor
<1> QED
  BY <1>1, <1>3 DEF Divided

\* The forks of a fork are for its worlds.
LEMMA PushesDivided ==
  ASSUME Shape, Divided, NEW fs, Pushes(fs)
  PROVE  Divided'
<1> DEFINE P == PendingForks(problem)
<1>1. /\ active # <<>> /\ active' = <<>> /\ fs \in Seq(P) /\ pending' = pending \o fs
      /\ problem' = problem /\ done' = done /\ Divides(fs, Fork.env)
  BY DEF Pushes
<1>2. active = <<Fork>> /\ Fork \in States /\ pending \in Seq(P)
  BY <1>1 DEF Shape
<1>3. ASSUME WellPosed(problem), NEW m \in SupportedBy(problem), NEW A \in SelectionsOf(problem),
             OneFor(m, A)
      PROVE  OneFor(m, A)'
  <2> DEFINE W == PendingFor(m, A)
             D == StatesFor(m, A)
  <2>1. PendingFor(m, A)' = W
    BY <1>1 DEF PendingFor
  <2>2. /\ ~Covers(Fork.env, m, A) => NoneOf(fs, W)
        /\ Covers(Fork.env, m, A) => OneOf(fs, W)
    BY <1>1, <1>3 DEF Divides
  <2>3. Fork \in D <=> Covers(Fork.env, m, A)
    BY <1>2 DEF StatesFor
  <2>4. NoneOf(active', StatesFor(m, A))
    BY <1>1 DEF NoneOf
  <2> HIDE DEF W, D, P
  <2>5. /\ NoneOf(active, D) => Fork \notin D
        /\ OneOf(active, D) => Fork \in D
    BY <1>2 DEF NoneOf, OneOf
  <2>6. /\ NoneOf(pending, W) /\ NoneOf(fs, W) => NoneOf(pending', W)
        /\ NoneOf(pending, W) /\ OneOf(fs, W) => OneOf(pending', W)
        /\ OneOf(pending, W) /\ NoneOf(fs, W) => OneOf(pending', W)
    BY <1>1, <1>2, ConcatCounts
  <2> QED
    BY <1>1, <1>3, <2>1, <2>2, <2>3, <2>4, <2>5, <2>6 DEF OneFor, W, D
<1> QED
  BY <1>1, <1>3 DEF Divided

\* The fork that is resumed is for the worlds it was for on the stack.
LEMMA MaterializeDivided ==
  ASSUME Shape, Stacked, Divided, Materialize
  PROVE  Divided'
<1> DEFINE p == Last(pending)
           P == PendingForks(problem)
<1>1. /\ active = <<>> /\ pending # <<>> /\ pending' = Front(pending)
      /\ problem' = problem /\ done' = done /\ p \in P
  BY MaterializeStep
<1>2. PICK r : Resumes(p, r)
  BY MaterializeStep
<1>4. active' = <<r>> /\ r \in States /\ r.env = p.env
  BY <1>2 DEF Resumes
<1>5. pending \in Seq(P)
  BY DEF Shape
<1>8. ASSUME NEW m, NEW A, OneFor(m, A)
      PROVE  OneFor(m, A)'
  <2> DEFINE W == PendingFor(m, A)
             D == StatesFor(m, A)
  <2>1. PendingFor(m, A)' = W
    BY <1>1 DEF PendingFor
  <2>2. r \in D <=> p \in W
    BY <1>1, <1>4 DEF StatesFor, PendingFor
  <2>3. NoneOf(active, D) /\ ~OneOf(active, D)
    BY <1>1 DEF NoneOf, OneOf
  <2> HIDE DEF W, D, P
  <2>4. /\ p = pending[Len(pending)] /\ Len(pending) \in DOMAIN pending
        /\ \A i \in DOMAIN Front(pending) :
             i \in DOMAIN pending /\ i # Len(pending) /\ Front(pending)[i] = pending[i]
        /\ \A i \in DOMAIN pending : i # Len(pending) => i \in DOMAIN Front(pending)
    BY <1>1, <1>5, FrontIs
  <2> HIDE DEF p
  <2>5. /\ NoneOf(pending, W) => NoneOf(pending', W) /\ p \notin W
        /\ OneOf(pending, W) /\ p \in W => NoneOf(pending', W)
        /\ OneOf(pending, W) /\ p \notin W => OneOf(pending', W)
    BY <1>1, <2>4 DEF NoneOf, OneOf
  <2>6. (r \in D => OneOf(active', D)) /\ (r \notin D => NoneOf(active', D))
    BY <1>4, SingleCounts
  <2> QED
    BY <1>1, <1>8, <2>1, <2>2, <2>3, <2>5, <2>6 DEF OneFor, W, D
<1> QED
  BY <1>1, <1>8 DEF Divided

\* The resolution of a fork is for the worlds that the fork was for.
LEMMA FinishDivided ==
  ASSUME Shape, Divided, Finish
  PROVE  Divided'
<1>1. /\ active # <<>> /\ done' = Append(done, Fork.env) /\ active' = <<>>
      /\ problem' = problem /\ pending' = pending
  BY DEF Finish, Solved, Solving
<1>2. active = <<Fork>> /\ Fork \in States /\ Fork.env \in Envs /\ done \in Seq(Envs)
  BY <1>1, AtHand DEF Shape
<1>3. ASSUME NEW m, NEW A, OneFor(m, A)
      PROVE  OneFor(m, A)'
  <2> DEFINE W == EnvsFor(m, A)
             D == StatesFor(m, A)
  <2>1. PendingFor(m, A)' = PendingFor(m, A)
    BY <1>1 DEF PendingFor
  <2>2. Fork \in D <=> Fork.env \in W
    BY <1>2 DEF StatesFor, EnvsFor
  <2> HIDE DEF W, D
  <2>3. /\ NoneOf(active, D) => Fork \notin D
        /\ OneOf(active, D) => Fork \in D
    BY <1>2 DEF NoneOf, OneOf
  <2>4. /\ NoneOf(done, W) /\ Fork.env \notin W => NoneOf(done', W)
        /\ NoneOf(done, W) /\ Fork.env \in W => OneOf(done', W)
        /\ OneOf(done, W) /\ Fork.env \notin W => OneOf(done', W)
    BY <1>1, <1>2, AppendCounts
  <2>5. NoneOf(active', D)
    BY <1>1 DEF NoneOf
  <2> QED
    BY <1>1, <1>3, <2>1, <2>2, <2>3, <2>4, <2>5 DEF OneFor, W, D
<1> QED
  BY <1>1, <1>3 DEF Divided

\* Every step leaves one fork for each world.
LEMMA NextDivided ==
  ASSUME Shape, Stacked, Divided, [Next]_vars
  PROVE  Divided'
<1>1. CASE Materialize
  BY <1>1, MaterializeDivided
<1>2. ASSUME UNCHANGED <<problem, pending, active, done>>
      PROVE  Divided'
  BY <1>2 DEF Divided, OneFor, PendingFor
<1>3. CASE NoVersions
  BY <1>2, <1>3, NoVersionsStep, WorksDivided
<1>4. CASE RequiresPython
  BY <1>4, RequiresPythonStep, WorksDivided, PushesDivided
<1>5. CASE ForkOnPlatform
  BY <1>5, ForkOnPlatformStep, PushesDivided
<1>6. CASE DecideVersion
  BY <1>6, DecideVersionStep, WorksDivided, PushesDivided
<1>7. CASE Finish
  BY <1>7, FinishDivided
<1>8. CASE UNCHANGED vars
  BY <1>2, <1>8 DEF vars
<1> QED
  BY <1>1, <1>3, <1>4, <1>5, <1>6, <1>7, <1>8 DEF Next, Stop

\* As many indices as there are elements.
LEMMA CountIndices ==
  ASSUME NEW s, NEW W
  PROVE  /\ NoneOf(s, W) => Cardinality({i \in DOMAIN s : s[i] \in W}) = 0
         /\ OneOf(s, W) => Cardinality({i \in DOMAIN s : s[i] \in W}) = 1
<1> DEFINE I == {i \in DOMAIN s : s[i] \in W}
<1>1. NoneOf(s, W) => I = {}
  BY DEF NoneOf
<1>2. OneOf(s, W) => \E i : I = {i}
  BY DEF OneOf
<1> HIDE DEF I
<1>3. NoneOf(s, W) => Cardinality(I) = 0
  BY <1>1, FS_EmptySet
<1>4. OneOf(s, W) => Cardinality(I) = 1
  BY <1>2, FS_Singleton
<1> QED
  BY <1>3, <1>4 DEF I

\* For a project whose initial forks are one for each world, and whose sets
\* of conflicting items have a project with its conflicting extras, every
\* world has one fork, to solve or solved, at any time: the forks of
\* ForkedDependencies::fork, of the Python requirement and of the platforms
\* neither overlap nor leave a world out.
THEOREM ForksDivideWorlds == Spec => [](WellPosed(problem) => ForksPartition)
<1>1. Init => Shape /\ Stacked /\ Divided
  BY InitShape, InitDivided
<1>2. (Shape /\ Stacked /\ Divided) /\ [Next]_vars => (Shape /\ Stacked /\ Divided)'
  BY NextShape, NextDivided
<1>3. ASSUME Shape, Divided, WellPosed(problem)
      PROVE  ForksPartition
  <2> SUFFICES ASSUME NEW m \in Supported, NEW A \in Selections
               PROVE  Cardinality({i \in DOMAIN pending : Covers(pending[i].env, m, A)})
                        + Cardinality({i \in DOMAIN active : Covers(active[i].env, m, A)})
                        + Cardinality({i \in DOMAIN done : Covers(done[i], m, A)}) = 1
    BY DEF ForksPartition
  <2>1. OneFor(m, A)
    BY <1>3 DEF Divided, Supported, Selections
  <2>2. {i \in DOMAIN pending : Covers(pending[i].env, m, A)}
          = {i \in DOMAIN pending : pending[i] \in PendingFor(m, A)}
    <3>1. pending \in Seq(PendingForks(problem))
      BY <1>3 DEF Shape
    <3>2. \A i \in DOMAIN pending : pending[i] \in PendingForks(problem)
      BY <3>1
    <3> QED
      BY <3>2 DEF PendingFor
  <2>3. {i \in DOMAIN active : Covers(active[i].env, m, A)}
          = {i \in DOMAIN active : active[i] \in StatesFor(m, A)}
    <3>1. active = <<>> \/ (active = <<Fork>> /\ Fork \in States)
      BY <1>3 DEF Shape
    <3>2. \A i \in DOMAIN active : active[i] \in States
      BY <3>1
    <3> QED
      BY <3>2 DEF StatesFor
  <2>4. {i \in DOMAIN done : Covers(done[i], m, A)} = {i \in DOMAIN done : done[i] \in EnvsFor(m, A)}
    <3>1. done \in Seq(Envs)
      BY <1>3 DEF Shape
    <3>2. \A i \in DOMAIN done : done[i] \in Envs
      BY <3>1
    <3> QED
      BY <3>2 DEF EnvsFor
  <2> QED
    BY <2>1, <2>2, <2>3, <2>4, CountIndices DEF OneFor
<1>4. Shape /\ Stacked /\ Divided => (WellPosed(problem) => ForksPartition)
  BY <1>3
<1> QED
  BY <1>1, <1>2, <1>4, PTL DEF Spec

-----------------------------------------------------------------------------
(* The versions.                                                           *)

MinPythonOf(p, n, v) ==
    IF <<n, v>> \in DOMAIN p.minPython THEN p.minPython[<<n, v>>] ELSE Lowest(Pythons)

\* Whether version b of n is not ruled out by the first len entries of an
\* arena, and within what the first j decisions require there.
Free(a, len, trail, j, n, b) ==
    \A i \in 1..len :
        /\ a[i].dep = <<>> => <<a[i].item[1], a[i].v>> # <<n, b>>
        /\ a[i].dep # <<>> /\ a[i].dep[1].name = n
             /\ (\E k \in 1..j : trail[k] = <<a[i].item, a[i].v>>) => b \in a[i].dep[1].range

\* The Pythons of a version, and the places of a local version as long as
\* the version without the local segment was free when it was decided.
Supports(p, d, python) == \A q \in python : MinPythonOf(p, d[1][1], d[2]) <= q
Freed(p, a, len, trail, j, d, env) ==
    Free(a, len, trail, j, d[1][1], p.base[<<d[1][1], d[2]>>]) => Clear(p, d, env)

\* The versions of a state fit: they support its Pythons, and each that is
\* local was decided where it has files, or the other version was not free.
Fits(p, a, s, env) ==
    /\ \A d \in s.added : Supports(p, d, s.python)
    /\ \A j \in DOMAIN s.trail :
         /\ Supports(p, s.trail[j], s.python)
         /\ Freed(p, a, s.len, s.trail, j - 1, s.trail[j], env)

Fitting ==
    /\ \A i \in DOMAIN pending :
         /\ Fits(problem, arena, pending[i].state, pending[i].env)
         /\ Len(pending[i].cont) = 2 => Clear(problem, pending[i].cont, pending[i].env)
    /\ active # <<>> =>
         /\ Fits(problem, arena, Fork, Fork.env)
         /\ Len(Fork.cont) = 2 => Clear(problem, Fork.cont, Fork.env)

\* Whether two sequences have the same first n elements.
Agree(a, b, n) == \A i \in 1..n : b[i] = a[i]

\* A version is free of fewer entries and decisions, if it is of more.
LEMMA FreeOfLess ==
  ASSUME NEW a, NEW b, NEW len \in Nat, NEW more \in Nat, len <= more,
         Agree(a, b, len),
         NEW trail, NEW longer, NEW j \in Nat, NEW k \in Nat, j <= k,
         Agree(trail, longer, j),
         NEW n, NEW v, Free(b, more, longer, k, n, v)
  PROVE  Free(a, len, trail, j, n, v)
<1>1. \A i \in 1..len : i \in 1..more
  OBVIOUS
<1>2. \A i \in 1..j : i \in 1..k
  OBVIOUS
<1> QED
  BY <1>1, <1>2 DEF Free, Agree

\* A local version is as free of more entries and decisions, in fewer
\* places.
LEMMA FreedOfLess ==
  ASSUME NEW p, NEW a, NEW b, NEW len \in Nat, NEW more \in Nat, len <= more,
         Agree(a, b, len),
         NEW trail, NEW longer, NEW j \in Nat, NEW k \in Nat, j <= k,
         Agree(trail, longer, j),
         NEW d, NEW env, NEW part, part.markers \subseteq env.markers,
         Freed(p, a, len, trail, j, d, env)
  PROVE  Freed(p, b, more, longer, k, d, part)
<1> DEFINE n == d[1][1]
           v == p.base[<<d[1][1], d[2]>>]
<1>1. Free(b, more, longer, k, n, v) => Free(a, len, trail, j, n, v)
  <2> HIDE DEF n, v
  <2> QED
    BY FreeOfLess
<1>2. Clear(p, d, env) => Clear(p, d, part)
  BY DEF Clear
<1> QED
  BY <1>1, <1>2 DEF Freed

\* A state whose versions fit goes on to fit for fewer places, fewer Pythons
\* and a longer arena, and after decisions are undone.
LEMMA FitsOn ==
  ASSUME NEW p, NEW a, NEW b, NEW s \in States, NEW t \in States, NEW env, NEW part,
         Fits(p, a, s, env), part.markers \subseteq env.markers, s.len <= t.len,
         Agree(a, b, s.len), t.python \subseteq s.python, t.added = s.added,
         Len(t.trail) <= Len(s.trail), Agree(s.trail, t.trail, Len(t.trail))
  PROVE  Fits(p, b, t, part)
<1>1. s.len \in Nat /\ t.len \in Nat /\ s.trail \in Seq(Decisions) /\ t.trail \in Seq(Decisions)
  BY DEF States
<1>2. \A d : Supports(p, d, s.python) => Supports(p, d, t.python)
  BY DEF Supports
<1>3. ASSUME NEW j \in DOMAIN t.trail
      PROVE  /\ Supports(p, t.trail[j], t.python)
             /\ Freed(p, b, t.len, t.trail, j - 1, t.trail[j], part)
  <2> DEFINE u == s.trail
             w == t.trail
  <2>1. j \in 1..Len(w) /\ j \in DOMAIN u /\ w[j] = u[j] /\ j - 1 \in Nat
    BY <1>1 DEF Agree
  <2>2. Agree(u, w, j - 1)
    BY <1>1, <2>1 DEF Agree
  <2>3. Supports(p, u[j], s.python) /\ Freed(p, a, s.len, u, j - 1, u[j], env)
    BY <2>1 DEF Fits
  <2>4. j - 1 <= j - 1
    BY <2>1
  <2> HIDE DEF u, w
  <2>5. Freed(p, b, t.len, w, j - 1, u[j], part)
    BY <1>1, <2>1, <2>2, <2>3, <2>4, FreedOfLess
  <2> QED
    BY <1>2, <2>1, <2>3, <2>5 DEF u, w
<1> QED
  BY <1>2, <1>3 DEF Fits

\* A state whose versions fit goes on to fit with one more version that does.
LEMMA FitsMore ==
  ASSUME NEW p, NEW a, NEW b, NEW s \in States, NEW t \in States, NEW env, NEW part,
         Fits(p, a, s, env), part.markers \subseteq env.markers, s.len <= t.len,
         Agree(a, b, s.len), t.python = s.python, NEW d \in Decisions,
         t.added = s.added \cup {d}, t.trail = Append(s.trail, d),
         Supports(p, d, s.python), Freed(p, a, s.len, s.trail, Len(s.trail), d, env)
  PROVE  Fits(p, b, t, part)
<1> DEFINE u == s.trail
           w == t.trail
           n == Len(u)
<1>1. s.len \in Nat /\ t.len \in Nat /\ u \in Seq(Decisions)
  BY DEF States
<1>2. w = Append(u, d)
  OBVIOUS
<1> HIDE DEF u, w
<1>3. /\ n \in Nat /\ DOMAIN u = 1..n /\ DOMAIN w = 1..(n+1) /\ w[n+1] = d
      /\ \A i \in 1..n : w[i] = u[i]
  BY <1>1, <1>2
<1> HIDE DEF n
<1>4. ASSUME NEW j \in DOMAIN w
      PROVE  Supports(p, w[j], t.python) /\ Freed(p, b, t.len, w, j - 1, w[j], part)
  <2>1. CASE j \in 1..n
    <3>1. w[j] = u[j] /\ j - 1 \in Nat /\ j - 1 <= j - 1 /\ Agree(u, w, j - 1)
      BY <1>3, <2>1 DEF Agree
    <3>2. Supports(p, u[j], s.python) /\ Freed(p, a, s.len, u, j - 1, u[j], env)
      BY <1>3, <2>1 DEF Fits, u
    <3>3. Freed(p, b, t.len, w, j - 1, u[j], part)
      BY <1>1, <3>1, <3>2, FreedOfLess
    <3> QED
      BY <3>1, <3>2, <3>3
  <2>2. CASE j = n + 1
    <3>1. w[j] = d /\ j - 1 = n /\ n <= n /\ Agree(u, w, n)
      BY <1>3, <2>2 DEF Agree
    <3>2. Freed(p, a, s.len, u, n, d, env)
      BY DEF u, n
    <3>3. Freed(p, b, t.len, w, n, d, part)
      BY <1>1, <1>3, <3>1, <3>2, FreedOfLess
    <3> QED
      BY <3>1, <3>3
  <2> QED
    BY <1>3, <1>4, <2>1, <2>2
<1>5. \A x \in t.added : Supports(p, x, t.python)
  BY DEF Fits
<1> QED
  BY <1>4, <1>5 DEF Fits, w

\* A version is free of the arena and the decisions at hand if it is not
\* ruled out and within the ranges that are in force.
LEMMA FreeAtHand ==
  ASSUME Shape, active # <<>>, NEW n, NEW b
  PROVE  Free(arena, Len(arena), Fork.trail, Len(Fork.trail), n, b)
           <=> <<n, b>> \notin RuledOut /\ \A e \in InForce : e.name = n => b \in e.range
<1>1. Fork.trail \in Seq(Decisions) /\ arena \in Seq(ArenaEntries)
  BY AtHand DEF Shape
<1>2. DOMAIN Fork.trail = 1..Len(Fork.trail)
  BY <1>1
<1>3. \A x : x \in Decided <=> \E k \in 1..Len(Fork.trail) : Fork.trail[k] = x
  BY <1>2 DEF Decided
<1>4. <<n, b>> \notin RuledOut
        <=> \A i \in 1..Len(arena) : arena[i].dep = <<>> => <<arena[i].item[1], arena[i].v>> # <<n, b>>
  BY DEF RuledOut, Entries
<1>5. (\A e \in InForce : e.name = n => b \in e.range)
        <=> \A i \in 1..Len(arena) :
              arena[i].dep # <<>> /\ arena[i].dep[1].name = n
                /\ <<arena[i].item, arena[i].v>> \in Decided => b \in arena[i].dep[1].range
  BY DEF InForce, Entries
<1> QED
  BY <1>3, <1>4, <1>5 DEF Free

\* The lowest Python of a version is a Python.
LEMMA MinPythonIs ==
  ASSUME ProblemType(problem), NEW n, NEW v
  PROVE  MinPython(n, v) \in Nat /\ MinPython(n, v) = MinPythonOf(problem, n, v)
<1>1. Pythons \in SUBSET Nat /\ Pythons # {}
  BY ForksAssumption, SomePlaces
<1>2. Lowest(Pythons) \in Nat
  BY <1>1, LowestIs
<1>3. <<n, v>> \in DOMAIN problem.minPython => problem.minPython[<<n, v>>] \in Pythons
  BY DEF ProblemType
<1> QED
  BY <1>1, <1>2, <1>3 DEF MinPython, MinPythonOf

\* A version that is decided supports the Pythons of its fork.
LEMMA SelectsSupported ==
  ASSUME Shape, active # <<>>, Fitting, NEW item, NEW v, ~TooNew(item, v)
  PROVE  Supports(problem, <<item, v>>, Fork.python)
<1>1. Fork.python \in SUBSET Nat /\ ProblemType(problem)
  BY AtHand, ForksAssumption DEF Shape
<1>2. MinPython(item[1], v) \in Nat /\ MinPython(item[1], v) = MinPythonOf(problem, item[1], v)
  BY <1>1, MinPythonIs
<1>3. CASE UseVersion /\ Known(item, v)
  BY <1>3 DEF Known, Fitting, Fits
<1>4. CASE ~(Lowest(Fork.python) < MinPython(item[1], v))
  <2> SUFFICES ASSUME NEW q \in Fork.python
               PROVE  MinPythonOf(problem, item[1], v) <= q
    BY DEF Supports
  <2> DEFINE low == Lowest(Fork.python)
  <2>1. low \in Fork.python /\ low <= q
    BY <1>1, LowestIs
  <2>2. low \in Nat /\ q \in Nat
    BY <1>1, <2>1
  <2> HIDE DEF low
  <2> QED
    BY <1>2, <1>4, <2>1, <2>2 DEF low
<1> QED
  BY <1>3, <1>4 DEF TooNew

\* A local version that is decided is clear of the places that only the
\* version without the local segment has files for, if that one is free.
LEMMA SelectsFreed ==
  ASSUME Shape, active # <<>>, Fitting, Len(arena) = Fork.len,
         NEW item \in NextItems, NEW v \in Versions, Selects(item, v)
  PROVE  Freed(problem, arena, Fork.len, Fork.trail, Len(Fork.trail), <<item, v>>, Fork.env)
<1> DEFINE n == item[1]
           b == problem.base[<<n, v>>]
           d == <<item, v>>
           t == Fork.trail
<1> SUFFICES ASSUME Free(arena, Len(arena), t, Len(t), n, b), <<n, v>> \in DOMAIN problem.base
             PROVE  Clear(problem, d, Fork.env)
  BY DEF Freed, Clear
<1>1. ProblemType(problem) /\ t \in Seq(Decisions)
  BY AtHand DEF Shape
<1>2. /\ Remainder(n, v) = RemainderOf(problem, n, v) /\ b \in Versions
  BY <1>1, ExtendedIs
<1>3. CASE \E w \in Versions : v \in BaseOf(item, w)
  <2>1. PICK w \in Versions : v \in BaseOf(item, w)
    BY <1>3
  <2>2. <<n, w>> \in DOMAIN problem.base /\ v = problem.base[<<n, w>>]
    BY <2>1 DEF BaseOf
  <2>3. <<n, v>> \notin DOMAIN problem.base
    BY <1>1, <2>2, ExtendedIs
  <2> QED
    BY <2>3
<1>4. CASE Chosen(item, v) /\ ~TooNew(item, v) /\ BaseOf(item, v) = {}
  <2>1. \/ b \notin RangeOf(item) \/ UseVersion \/ ~IncludedByMarker(Fork.env, Remainder(n, v))
    BY <1>4 DEF BaseOf
  <2>2. CASE UseVersion
    <3>1. Len(Fork.cont) = 2 /\ v = Fork.cont[2]
      BY <1>4, <2>2 DEF UseVersion, Chosen
    <3>2. Fork.cont # <<>>
      BY <3>1
    <3>3. item = Fork.cont[1]
      BY <3>2 DEF NextItems
    <3>4. Clear(problem, Fork.cont, Fork.env)
      BY <3>1 DEF Fitting
    <3> QED
      BY <3>1, <3>3, <3>4 DEF Clear
  <2>3. CASE ~IncludedByMarker(Fork.env, Remainder(n, v))
    BY <1>2, <2>3 DEF IncludedByMarker, Clear
  <2>4. CASE b \notin RangeOf(item)
    <3>1. n \in Names
      BY <1>1 DEF ProblemType
    <3>2. item # RootItem
      BY <3>1, ForksAssumption DEF RootItem
    <3>3. <<n, b>> \notin RuledOut /\ \A e \in InForce : e.name = n => b \in e.range
      <4> HIDE DEF n, b
      <4> QED
        BY FreeAtHand
    <3>4. PICK x \in Decided : x[1][1] = n /\ x[2] # b
      BY <1>2, <2>4, <3>2, <3>3 DEF RangeOf
    <3>5. v \in RangeOf(item)
      BY <1>4 DEF Chosen
    <3>6. x[2] = v
      BY <3>2, <3>4, <3>5 DEF RangeOf
    <3>7. PICK j \in DOMAIN t : t[j] = x
      BY DEF Decided
    <3>8. Freed(problem, arena, Fork.len, t, j - 1, x, Fork.env)
      BY <3>7 DEF Fitting, Fits
    <3>9. Free(arena, Fork.len, t, j - 1, n, b)
      <4>1. j - 1 \in Nat /\ Len(t) \in Nat /\ j - 1 <= Len(t) /\ Fork.len \in Nat /\ Fork.len <= Fork.len
        BY <1>1, <3>7, AtHand
      <4>2. Agree(arena, arena, Fork.len) /\ Agree(t, t, j - 1)
        BY DEF Agree
      <4>3. Free(arena, Fork.len, t, Len(t), n, b)
        OBVIOUS
      <4> HIDE DEF t, n, b
      <4> QED
        BY <4>1, <4>2, <4>3, FreeOfLess
    <3>10. Clear(problem, x, Fork.env)
      BY <3>4, <3>6, <3>8, <3>9 DEF Freed
    <3> QED
      BY <3>4, <3>6, <3>10 DEF Clear
  <2> QED
    BY <2>1, <2>2, <2>3, <2>4
<1> QED
  BY <1>3, <1>4 DEF Selects

\* The states of a decision fit.
LEMMA DecidesFits ==
  ASSUME Shape, active # <<>>, Fitting, Len(arena) = Fork.len, NEW s \in States, Decides(s),
         s.python = Fork.python, Fork.len <= s.len, NEW b, Agree(arena, b, Fork.len),
         NEW part, part.markers \subseteq Fork.env.markers
  PROVE  Fits(problem, b, s, part)
<1>1. PICK item \in NextItems, v \in Versions :
         /\ Selects(item, v)
         /\ s.trail = Append(Fork.trail, <<item, v>>) /\ s.added = Fork.added \cup {<<item, v>>}
  BY DEF Decides
<1> DEFINE f == Fork
           d == <<item, v>>
<1>2. f \in States /\ item \in Items
  BY AtHand
<1>3. d \in Decisions
  BY <1>2 DEF Decisions
<1>4. ~TooNew(item, v)
  BY <1>1 DEF Selects
<1>5. Supports(problem, d, f.python)
  BY <1>4, SelectsSupported
<1>6. Freed(problem, arena, f.len, f.trail, Len(f.trail), d, f.env)
  BY <1>1, SelectsFreed
<1>7. Fits(problem, arena, f, f.env)
  BY DEF Fitting
<1>8. s.trail = Append(f.trail, d) /\ s.added = f.added \cup {d} /\ s.python = f.python /\ f.len <= s.len
        /\ Agree(arena, b, f.len) /\ part.markers \subseteq f.env.markers
  BY <1>1
<1> HIDE DEF f, d
<1> QED
  BY <1>2, <1>3, <1>5, <1>6, <1>7, <1>8, FitsMore

\* The forks on the stack fit with an arena that agrees up to their checkpoints.
LEMMA PendingFits ==
  ASSUME Shape, Fitting, NEW b, NEW i \in DOMAIN pending, Agree(arena, b, pending[i].state.len)
  PROVE  Fits(problem, b, pending[i].state, pending[i].env)
<1> DEFINE s == pending[i].state
           e == pending[i].env
<1>1. pending \in Seq(PendingForks(problem))
  BY DEF Shape
<1>2. pending[i] \in PendingForks(problem)
  BY <1>1
<1>3. s \in States /\ s.len \in Nat /\ s.trail \in Seq(Decisions)
  BY <1>2 DEF PendingForks, States
<1>4. Fits(problem, arena, s, e)
  BY DEF Fitting
<1>5. Agree(arena, b, s.len)
  OBVIOUS
<1> HIDE DEF s, e
<1>6. s.len <= s.len /\ Len(s.trail) <= Len(s.trail) /\ Agree(s.trail, s.trail, Len(s.trail))
  BY <1>3 DEF Agree
<1> QED
  BY <1>3, <1>4, <1>5, <1>6, FitsOn DEF s, e

\* The forks to begin with have no versions.
LEMMA InitFitting ==
  ASSUME Init
  PROVE  Fitting
<1>1. ProblemType(problem) /\ pending = InitialForks(problem) /\ active = <<>>
  BY ForksAssumption DEF Init
<1>2. ASSUME NEW i \in DOMAIN pending
      PROVE  pending[i].state.added = {} /\ pending[i].state.trail = <<>> /\ pending[i].cont = <<>>
  <2>1. pending[i].state = FreshState(problem) /\ pending[i].cont = <<>>
    BY <1>1, InitialForksAre
  <2>2. FreshState(problem).added = {} /\ FreshState(problem).trail = <<>>
    BY DEF FreshState
  <2> QED
    BY <2>1, <2>2
<1>3. \A i \in DOMAIN pending : DOMAIN pending[i].state.trail = {} /\ Len(pending[i].cont) # 2
  BY <1>2
<1>4. \A i \in DOMAIN pending : Fits(problem, arena, pending[i].state, pending[i].env)
  BY <1>2, <1>3 DEF Fits
<1> QED
  BY <1>1, <1>3, <1>4 DEF Fitting

\* Work on a fork: versions that fit, or fewer of them.
LEMMA WorksFitting ==
  ASSUME Shape, Stacked, Fitting, NEW s, Works(s)
  PROVE  Fitting'
<1>1. /\ status = "solving" /\ active # <<>> /\ active' = <<s>> /\ s \in States
      /\ s.env = Fork.env /\ s.python = Fork.python /\ Grows(arena, arena')
      /\ s.len = Len(arena') /\ (Decides(s) \/ GoesBack(s)) /\ s.cont = <<>>
      /\ problem' = problem /\ pending' = pending
  BY DEF Works
<1>2. Fork' = s /\ active' # <<>>
  BY <1>1 DEF Fork
<1>3. Len(arena) = Fork.len /\ \A i \in DOMAIN pending : pending[i].state.len <= Len(arena)
  BY <1>1 DEF Stacked
<1>4. Fork \in States /\ Fork.len \in Nat /\ Fork.trail \in Seq(Decisions) /\ arena \in Seq(ArenaEntries)
  BY <1>1, AtHand DEF Shape
<1>5. Agree(arena, arena', Len(arena)) /\ Fork.len <= s.len
  BY <1>1, <1>3 DEF Grows, Agree
<1>6. Fits(problem, arena', s, s.env)
  <2>1. CASE Decides(s)
    <3>1. s.env.markers \subseteq Fork.env.markers
      BY <1>1
    <3> QED
      BY <1>1, <1>3, <1>5, <2>1, <3>1, DecidesFits
  <2>2. CASE GoesBack(s)
    <3> DEFINE f == Fork
    <3>1. PICK k \in 0..Len(f.trail) : s.trail = SubSeq(f.trail, 1, k)
      BY <2>2 DEF GoesBack
    <3>2. Len(s.trail) <= Len(f.trail) /\ Agree(f.trail, s.trail, Len(s.trail))
      <4> DEFINE t == f.trail
      <4>1. t \in Seq(Decisions) /\ k \in 0..Len(t)
        BY <1>4
      <4> HIDE DEF t
      <4>2. /\ Len(SubSeq(t, 1, k)) = k /\ k <= Len(t)
            /\ \A i \in 1..k : SubSeq(t, 1, k)[i] = t[i]
        BY <4>1
      <4> QED
        BY <3>1, <4>2 DEF t, Agree
    <3>3. f \in States /\ Fits(problem, arena, f, f.env) /\ s.added = f.added
            /\ s.env.markers \subseteq f.env.markers /\ s.python \subseteq f.python
            /\ f.len <= s.len /\ Agree(arena, arena', f.len)
      BY <1>1, <1>3, <1>4, <1>5, <2>2 DEF Fitting, GoesBack
    <3> HIDE DEF f
    <3> QED
      BY <1>1, <3>2, <3>3, FitsOn
  <2> QED
    BY <1>1, <2>1, <2>2
<1>7. \A i \in DOMAIN pending : Fits(problem, arena', pending[i].state, pending[i].env)
  <2> TAKE i \in DOMAIN pending
  <2>1. pending \in Seq(PendingForks(problem))
    BY DEF Shape
  <2>2. pending[i] \in PendingForks(problem)
    BY <2>1
  <2>3. pending[i].state.len \in Nat
    BY <2>2 DEF PendingForks, States
  <2>4. Agree(arena, arena', pending[i].state.len)
    BY <1>3, <1>4, <1>5, <2>3 DEF Agree
  <2> QED
    BY <2>4, PendingFits
<1>8. Len(s.cont) # 2
  BY <1>1
<1> QED
  BY <1>1, <1>2, <1>6, <1>7, <1>8 DEF Fitting

\* The forks of a fork have its versions, and those of one decision more.
LEMMA PushesFitting ==
  ASSUME Shape, Stacked, Fitting, NEW fs, Pushes(fs)
  PROVE  Fitting'
<1> DEFINE P == PendingForks(problem)
           n == Len(pending)
           k == Len(fs)
<1>1. /\ status = "solving" /\ active # <<>> /\ active' = <<>> /\ fs \in Seq(P)
      /\ pending' = pending \o fs /\ problem' = problem /\ arena' = arena
  BY DEF Pushes
<1>2. \A i \in DOMAIN fs :
         /\ fs[i].state.len = Fork.len /\ fs[i].state.python = Fork.python
         /\ fs[i].env.markers \subseteq Fork.env.markers
         /\ \/ fs[i].state.trail = Fork.trail /\ fs[i].state.added = Fork.added
            \/ Decides(fs[i].state)
         /\ Len(fs[i].cont) = 2 => Clear(problem, fs[i].cont, fs[i].env)
  BY DEF Pushes
<1>3. Len(arena) = Fork.len /\ Fork \in States /\ Fork.len \in Nat /\ Fork.trail \in Seq(Decisions)
  BY <1>1, AtHand DEF Stacked
<1>4. \A i \in DOMAIN fs : fs[i] \in P /\ fs[i].state \in States
  <2>1. \A i \in DOMAIN fs : fs[i] \in P
    <3> HIDE DEF P
    <3> QED
      BY <1>1
  <2> QED
    BY <2>1 DEF PendingForks
<1>5. ASSUME NEW i \in DOMAIN fs
      PROVE  Fits(problem, arena, fs[i].state, fs[i].env)
  <2> DEFINE s == fs[i].state
             e == fs[i].env
             f == Fork
  <2>1. s \in States /\ s.python = f.python /\ f.len <= s.len /\ Agree(arena, arena, f.len)
          /\ e.markers \subseteq f.env.markers
    BY <1>2, <1>3, <1>4 DEF Agree
  <2>2. CASE Decides(s)
    <3> HIDE DEF s, e
    <3> QED
      BY <1>1, <1>3, <2>1, <2>2, DecidesFits DEF s, e
  <2>3. CASE s.trail = f.trail /\ s.added = f.added
    <3>1. Fits(problem, arena, f, f.env) /\ f \in States
      BY <1>1, <1>3 DEF Fitting
    <3>2. Len(s.trail) <= Len(f.trail) /\ Agree(f.trail, s.trail, Len(s.trail))
      BY <1>3, <2>3 DEF Agree
    <3>3. s.python \subseteq f.python /\ s.added = f.added
      BY <2>1, <2>3
    <3> HIDE DEF s, e, f
    <3>4. Fits(problem, arena, s, e)
      BY <2>1, <3>1, <3>2, <3>3, FitsOn
    <3> QED
      BY <3>4 DEF s, e
  <2> QED
    BY <1>2, <2>2, <2>3
<1>6. pending \in Seq(P)
  BY DEF Shape
<1> HIDE DEF P
<1>7. /\ n \in Nat /\ k \in Nat /\ DOMAIN pending = 1..n /\ DOMAIN fs = 1..k
      /\ DOMAIN pending' = 1..(n + k)
      /\ \A i \in 1..n : pending'[i] = pending[i]
      /\ \A i \in 1..k : pending'[n + i] = fs[i]
  BY <1>1, <1>6
<1> HIDE DEF n, k
<1>8. ASSUME NEW i \in DOMAIN pending'
      PROVE  /\ Fits(problem, arena, pending'[i].state, pending'[i].env)
             /\ Len(pending'[i].cont) = 2 => Clear(problem, pending'[i].cont, pending'[i].env)
  <2>1. CASE i \in 1..n
    BY <1>7, <2>1 DEF Fitting
  <2>2. CASE i \notin 1..n
    <3>1. i - n \in 1..k /\ i = n + (i - n)
      BY <1>7, <2>2
    <3>2. pending'[i] = fs[i - n] /\ i - n \in DOMAIN fs
      BY <1>7, <3>1
    <3> QED
      BY <1>2, <1>5, <3>2
  <2> QED
    BY <2>1, <2>2
<1> QED
  BY <1>1, <1>8 DEF Fitting

\* A fork that is resumed has the versions it had on the stack.
LEMMA MaterializeFitting ==
  ASSUME Shape, Stacked, Fitting, Materialize
  PROVE  Fitting'
<1> DEFINE p == Last(pending)
           P == PendingForks(problem)
<1>1. /\ status = "solving" /\ active = <<>> /\ pending # <<>> /\ pending' = Front(pending)
      /\ problem' = problem /\ p \in P
  BY MaterializeStep
<1>2. PICK r : Resumes(p, r)
  BY MaterializeStep
<1>3. pending \in Seq(P) /\ arena \in Seq(ArenaEntries)
  BY DEF Shape
<1>4. /\ p = pending[Len(pending)] /\ Len(pending) \in DOMAIN pending
      /\ \A i \in DOMAIN Front(pending) : i \in DOMAIN pending /\ Front(pending)[i] = pending[i]
  <2> HIDE DEF P
  <2> QED
    BY <1>1, <1>3, FrontIs
<1>5. Len(arena) = p.state.len /\ \A i \in DOMAIN pending : pending[i].state.len <= Len(arena)
  BY <1>1 DEF Stacked
<1>6. /\ Fits(problem, arena, p.state, p.env)
      /\ Len(p.cont) = 2 => Clear(problem, p.cont, p.env)
  BY <1>4 DEF Fitting
<1> HIDE DEF p
<1>7. /\ active' = <<r>> /\ r \in States /\ r.env = p.env
      /\ r.python = NarrowPython(p.state.python, p.env) /\ r.len = Len(arena')
      /\ r.trail = p.state.trail /\ r.added = p.state.added /\ r.cont = p.cont
      /\ arena' \in Seq(ArenaEntries) /\ Len(arena) <= Len(arena')
      /\ Agree(arena, arena', Len(arena))
  BY <1>2 DEF Resumes, Grows, Agree
<1>8. Fork' = r /\ active' # <<>>
  BY <1>7 DEF Fork
<1>9. Fits(problem, arena', r, r.env)
  <2> DEFINE s == p.state
             e == p.env
  <2>1. s \in States /\ s.trail \in Seq(Decisions)
    BY <1>1 DEF PendingForks, States
  <2>2. r.python \subseteq s.python /\ r.added = s.added /\ s.len <= r.len
          /\ Agree(arena, arena', s.len) /\ r.env.markers \subseteq e.markers
          /\ Fits(problem, arena, s, e)
    BY <1>5, <1>6, <1>7 DEF NarrowPython
  <2>3. Len(r.trail) <= Len(s.trail) /\ Agree(s.trail, r.trail, Len(r.trail))
    BY <1>7, <2>1 DEF Agree
  <2> HIDE DEF s, e
  <2> QED
    BY <1>7, <2>1, <2>2, <2>3, FitsOn
<1>10. \A i \in DOMAIN pending : Fits(problem, arena', pending[i].state, pending[i].env)
  <2> TAKE i \in DOMAIN pending
  <2>1. pending[i] \in P
    BY <1>3
  <2>2. pending[i].state.len \in Nat
    BY <2>1 DEF PendingForks, States
  <2>3. Agree(arena, arena', pending[i].state.len)
    BY <1>3, <1>5, <1>7, <2>2 DEF Agree
  <2> QED
    BY <2>3, PendingFits
<1>11. \A i \in DOMAIN pending' :
         /\ Fits(problem, arena', pending'[i].state, pending'[i].env)
         /\ Len(pending'[i].cont) = 2 => Clear(problem, pending'[i].cont, pending'[i].env)
  BY <1>1, <1>4, <1>10 DEF Fitting
<1> QED
  BY <1>1, <1>6, <1>7, <1>8, <1>9, <1>11 DEF Fitting

\* The forks on the stack keep the part of the arena that they had.
LEMMA FinishFitting ==
  ASSUME Shape, Stacked, Fitting, Finish
  PROVE  Fitting'
<1> DEFINE P == PendingForks(problem)
<1>1. /\ status = "solving" /\ active # <<>> /\ arena' = Rewind /\ active' = <<>>
      /\ problem' = problem /\ pending' = pending
  BY DEF Finish, Solved, Solving
<1>2. pending \in Seq(P) /\ arena \in Seq(ArenaEntries)
  BY DEF Shape
<1>3. ASSUME NEW i \in DOMAIN pending
      PROVE  Fits(problem, arena', pending[i].state, pending[i].env)
  <2> DEFINE len == Last(pending).state.len
  <2>1. pending # <<>>
    BY <1>3
  <2>2. Last(pending) = pending[Len(pending)] /\ Len(pending) \in DOMAIN pending /\ i <= Len(pending)
    <3> HIDE DEF P
    <3>1. i <= Len(pending)
      BY <1>2
    <3> QED
      BY <1>2, <2>1, <3>1, FrontIs
  <2>3. \A j \in DOMAIN pending : pending[j].state.len \in Nat
    <3>1. \A j \in DOMAIN pending : pending[j] \in P
      BY <1>2
    <3> QED
      BY <3>1 DEF PendingForks, States
  <2>4. len \in Nat /\ len <= Len(arena) /\ pending[i].state.len <= len
    BY <1>1, <2>2, <2>3 DEF Stacked
  <2>5. arena' = SubSeq(arena, 1, len)
    BY <1>1, <2>1 DEF Rewind
  <2> HIDE DEF len
  <2>6. \A j \in 1..len : arena'[j] = arena[j]
    BY <1>2, <2>4, <2>5
  <2>7. Agree(arena, arena', pending[i].state.len)
    BY <2>3, <2>4, <2>6 DEF Agree
  <2> QED
    BY <2>7, PendingFits
<1> QED
  BY <1>1, <1>3 DEF Fitting

\* Every step keeps the versions of the forks fit.
LEMMA NextFitting ==
  ASSUME Shape, Stacked, Fitting, [Next]_vars
  PROVE  Fitting'
<1>1. ASSUME UNCHANGED <<problem, arena, pending, active>>
      PROVE  Fitting'
  BY <1>1 DEF Fitting, Fork
<1>2. CASE Materialize
  BY <1>2, MaterializeFitting
<1>3. CASE NoVersions
  BY <1>1, <1>3, NoVersionsStep, WorksFitting
<1>4. CASE RequiresPython
  BY <1>4, RequiresPythonStep, WorksFitting, PushesFitting
<1>5. CASE ForkOnPlatform
  BY <1>5, ForkOnPlatformStep, PushesFitting
<1>6. CASE DecideVersion
  BY <1>6, DecideVersionStep, WorksFitting, PushesFitting
<1>7. CASE Finish
  BY <1>7, FinishFitting
<1>8. CASE UNCHANGED vars
  BY <1>1, <1>8 DEF vars
<1> QED
  BY <1>2, <1>3, <1>4, <1>5, <1>6, <1>7, <1>8 DEF Next, Stop

\* In every resolution of any project, a version supports the Pythons of
\* the places that its fork is for, and a local version is not there for a
\* place that only the version without the local segment has files for,
\* unless that one was ruled out (check_requires_python,
\* fork_version_registry).
THEOREM VersionsInstallable == Spec => []VersionsFit
<1>1. Init => Shape /\ Stacked /\ Fitting
  BY InitShape, InitFitting
<1>2. (Shape /\ Stacked /\ Fitting) /\ [Next]_vars => (Shape /\ Stacked /\ Fitting)'
  BY NextShape, NextFitting
<1>3. ASSUME Shape, Stacked, Fitting
      PROVE  VersionsFit
  <2> SUFFICES ASSUME Solved, NEW d \in Decided, NEW m \in Fork.env.markers \cap Supported
               PROVE  LET n == d[1][1] v == d[2]
                          inRange(b) == /\ <<n, b>> \notin RuledOut
                                        /\ \A e \in InForce : e.name = n => b \in e.range
                      IN  /\ MinPython(n, v) <= m[1]
                          /\ <<n, v>> \in DOMAIN problem.base /\ inRange(problem.base[<<n, v>>]) =>
                               m \notin Artifact(n, problem.base[<<n, v>>]) \ Artifact(n, v)
    BY DEF VersionsFit
  <2> DEFINE n == d[1][1]
             v == d[2]
             b == problem.base[<<n, v>>]
             t == Fork.trail
  <2>1. status = "solving" /\ active # <<>> /\ Len(arena) = Fork.len
    BY <1>3 DEF Solved, Solving, Stacked
  <2>2. ProblemType(problem) /\ t \in Seq(Decisions) /\ Fork.len \in Nat
    BY <1>3, <2>1, AtHand DEF Shape
  <2>3. PICK j \in DOMAIN t : t[j] = d
    BY DEF Decided
  <2>4. /\ Supports(problem, d, Fork.python)
        /\ Freed(problem, arena, Fork.len, t, j - 1, d, Fork.env)
    BY <1>3, <2>1, <2>3 DEF Fitting, Fits
  <2>5. m[1] \in Fork.python
    BY <1>3, <2>1 DEF Shape, Supported
  <2>6. MinPython(n, v) <= m[1]
    BY <2>2, <2>4, <2>5, MinPythonIs DEF Supports
  <2>7. ASSUME <<n, v>> \in DOMAIN problem.base, <<n, b>> \notin RuledOut,
               \A e \in InForce : e.name = n => b \in e.range
        PROVE  m \notin Artifact(n, b) \ Artifact(n, v)
    <3>1. Free(arena, Fork.len, t, Len(t), n, b)
      <4>1. Free(arena, Len(arena), Fork.trail, Len(Fork.trail), n, b)
        <5> HIDE DEF n, b
        <5> QED
          BY <1>3, <2>1, <2>7, FreeAtHand
      <4> QED
        BY <2>1, <4>1
    <3>2. Free(arena, Fork.len, t, j - 1, n, b)
      <4>1. j - 1 \in Nat /\ Len(t) \in Nat /\ j - 1 <= Len(t) /\ Fork.len <= Fork.len
        BY <2>2, <2>3
      <4>2. Agree(arena, arena, Fork.len) /\ Agree(t, t, j - 1)
        BY DEF Agree
      <4> HIDE DEF t, n, b
      <4> QED
        BY <2>2, <3>1, <4>1, <4>2, FreeOfLess
    <3>3. Clear(problem, d, Fork.env)
      BY <2>4, <3>2 DEF Freed
    <3>4. Fork.env.markers \cap Remainder(n, v) = {}
      BY <2>2, <2>7, <3>3, ExtendedIs DEF Clear
    <3> QED
      BY <3>4 DEF Remainder
  <2> QED
    BY <2>6, <2>7
<1>4. Shape /\ Stacked /\ Fitting => VersionsFit
  BY <1>3
<1> QED
  BY <1>1, <1>2, <1>4, PTL DEF Spec

-----------------------------------------------------------------------------
(* The dependencies.                                                       *)

\* The dependencies that the first n entries of an arena note, with the
\* decisions they are of, and those of a state with some to add.
NotedIn(a, n) ==
    {<<<<a[i].item, a[i].v>>, a[i].dep[1]>> : i \in {k \in 1..n : a[k].dep # <<>>}}
Noted(a, s, deps) == NotedIn(a, s.len) \cup {<<Last(s.trail), e>> : e \in ToSet(deps)}

\* A decision is about something that an earlier one depends on.
Grounded(N, trail, item, j) ==
    item = RootItem \/ \E x \in N : item \in Nodes(x[2]) /\ \E k \in 1..j : trail[k] = x[1]

\* The dependencies N of a fork: all that its versions require in its
\* worlds, and, if it has a world, nothing that conflicts.
Kept(p, N, trail, added, env) ==
    /\ \A j \in DOMAIN trail : trail[j] \in added /\ Grounded(N, trail, trail[j][1], j - 1)
    /\ WellPosed(p) /\ OwnExtras(p) => \A d \in added :
         Answers(p, d[1], d[2], env, {e \in Dependencies : <<d, e>> \in N})
    /\ \A x \in N : Sourced(p, x[1][1], x[1][2], x[2])
    /\ WellPosed(p) /\ ForWorld(p, env) => \A x \in N :
         /\ ~x[2].parent /\ Item(x[2]) \in Conflicting(p) => Secure(p, x[2], env)
         /\ \A y \in N : ~Opposed(p, x[2], y[2])

Keeping ==
    /\ \A i \in DOMAIN pending :
         LET f == pending[i] IN
         Kept(problem, Noted(arena, f.state, f.deps), f.state.trail, f.state.added, f.env)
    /\ active # <<>> =>
         Kept(problem, Noted(arena, Fork, <<>>), Fork.trail, Fork.added, Fork.env)

\* A tighter environment is for fewer worlds, and bars more.
LEMMA TighterIs ==
  ASSUME NEW p, NEW x, NEW env, Tighter(x, env)
  PROVE  /\ \A m, A : Covers(x, m, A) => Covers(env, m, A)
         /\ ForWorld(p, x) => ForWorld(p, env)
         /\ Barred(p, env) \subseteq Barred(p, x)
         /\ \A d : Secure(p, d, env) => Secure(p, d, x)
         /\ \A item, v, D : Answers(p, item, v, env, D) => Answers(p, item, v, x, D)
<1>1. \A m, A : Covers(x, m, A) => Covers(env, m, A)
  BY DEF Tighter, Covers
<1>2. ForWorld(p, x) => ForWorld(p, env)
  BY <1>1 DEF ForWorld
<1>3. Barred(p, env) \subseteq Barred(p, x)
  BY DEF Tighter, Barred
<1>4. \A d : Secure(p, d, env) => Secure(p, d, x)
  BY <1>3 DEF Secure
<1>5. \A item, v, D : Answers(p, item, v, env, D) => Answers(p, item, v, x, D)
  BY <1>1 DEF Answers
<1> QED
  BY <1>1, <1>2, <1>3, <1>4, <1>5

\* What a fork has serves one for fewer worlds and with fewer decisions.
LEMMA KeptOn ==
  ASSUME NEW p, NEW N, NEW t \in Seq(Decisions), NEW added, NEW env, Kept(p, N, t, added, env),
         NEW u \in Seq(Decisions), Len(u) <= Len(t), Agree(t, u, Len(u)),
         NEW x, Tighter(x, env)
  PROVE  Kept(p, N, u, added, x)
<1>1. ASSUME NEW j \in DOMAIN u
      PROVE  u[j] \in added /\ Grounded(N, u, u[j][1], j - 1)
  <2>1. j \in DOMAIN t /\ j \in 1..Len(u) /\ \A k \in 1..(j - 1) : k \in 1..Len(u)
    OBVIOUS
  <2>2. u[j] = t[j] /\ \A k \in 1..(j - 1) : u[k] = t[k]
    BY <2>1 DEF Agree
  <2>3. t[j] \in added /\ Grounded(N, t, t[j][1], j - 1)
    BY <2>1 DEF Kept
  <2> QED
    BY <2>2, <2>3 DEF Grounded
<1>2. WellPosed(p) /\ OwnExtras(p) => \A d \in added :
         Answers(p, d[1], d[2], x, {e \in Dependencies : <<d, e>> \in N})
  BY TighterIs DEF Kept
<1>3. \A y \in N : Sourced(p, y[1][1], y[1][2], y[2])
  BY DEF Kept
<1>4. WellPosed(p) /\ ForWorld(p, x) => \A y \in N :
         /\ ~y[2].parent /\ Item(y[2]) \in Conflicting(p) => Secure(p, y[2], x)
         /\ \A z \in N : ~Opposed(p, y[2], z[2])
  BY TighterIs DEF Kept
<1> QED
  BY <1>1, <1>2, <1>3, <1>4 DEF Kept

\* A decision with what it is given.
LEMMA KeptMore ==
  ASSUME NEW p, NEW N \in SUBSET (Decisions \X Dependencies), NEW t \in Seq(Decisions),
         NEW added, NEW env, Kept(p, N, t, added, env),
         NEW d \in Decisions, NEW deps \in Seq(Dependencies), NEW x, Tighter(x, env),
         (d \in added /\ deps = <<>>) \/ Gives(p, d[1], d[2], env, x, deps),
         Grounded(N, t, d[1], Len(t))
  PROVE  Kept(p, N \cup {<<d, e>> : e \in ToSet(deps)}, Append(t, d), added \cup {d}, x)
<1> DEFINE new == {<<d, e>> : e \in ToSet(deps)}
           M == N \cup new
           u == Append(t, d)
           n == Len(t)
<1>1. /\ n \in Nat /\ DOMAIN t = 1..n /\ DOMAIN u = 1..(n + 1) /\ u[n + 1] = d
      /\ \A j \in 1..n : u[j] = t[j]
  OBVIOUS
<1>2. ToSet(deps) \subseteq Dependencies
  BY DEF ToSet
<1> HIDE DEF u, n
<1>3. \A item, j : j \in 0..n /\ Grounded(N, t, item, j) => Grounded(M, u, item, j)
  BY <1>1 DEF Grounded
<1>4. ASSUME NEW j \in DOMAIN u
      PROVE  u[j] \in added \cup {d} /\ Grounded(M, u, u[j][1], j - 1)
  <2>1. CASE j \in 1..n
    <3>1. t[j] \in added /\ Grounded(N, t, t[j][1], j - 1) /\ u[j] = t[j]
      BY <1>1, <2>1 DEF Kept
    <3>2. j - 1 \in 0..n
      BY <1>1, <2>1
    <3> QED
      BY <1>3, <3>1, <3>2
  <2>2. CASE j = n + 1
    <3>1. u[j] = d /\ j - 1 = n /\ n \in 0..n
      BY <1>1, <2>2
    <3>2. Grounded(N, t, d[1], n)
      BY DEF n
    <3> QED
      BY <1>3, <3>1, <3>2
  <2> QED
    BY <1>1, <2>1, <2>2
<1>5. CASE d \in added /\ deps = <<>>
  <2>1. new = {}
    BY <1>5 DEF ToSet
  <2>2. M = N /\ added \cup {d} = added
    BY <1>5, <2>1
  <2> HIDE DEF M
  <2>3. /\ WellPosed(p) /\ OwnExtras(p) => \A c \in added :
             Answers(p, c[1], c[2], x, {e \in Dependencies : <<c, e>> \in N})
        /\ \A y \in N : Sourced(p, y[1][1], y[1][2], y[2])
        /\ WellPosed(p) /\ ForWorld(p, x) => \A y \in N :
             /\ ~y[2].parent /\ Item(y[2]) \in Conflicting(p) => Secure(p, y[2], x)
             /\ \A z \in N : ~Opposed(p, y[2], z[2])
    BY TighterIs DEF Kept
  <2>4. Kept(p, M, u, added \cup {d}, x)
    BY <1>4, <2>2, <2>3 DEF Kept
  <2> QED
    BY <2>4 DEF M, u
<1>6. CASE Gives(p, d[1], d[2], env, x, deps)
  <2>1. /\ \A e \in ToSet(deps) : Sourced(p, d[1], d[2], e)
        /\ WellPosed(p) /\ OwnExtras(p) => Answers(p, d[1], d[2], x, ToSet(deps))
        /\ \A e, f \in ToSet(deps) : ~Opposed(p, e, f)
        /\ WellPosed(p) => \A e \in ToSet(deps) : ~e.parent /\ Item(e) \in Conflicting(p) =>
             Item(e) \notin Barred(p, env) /\ (ForWorld(p, x) => Secure(p, e, x))
    BY <1>6 DEF Gives
  <2>2. \A y \in M : y \in N \/ \E e \in ToSet(deps) : y = <<d, e>> /\ y[1] = d /\ y[2] = e
    OBVIOUS
  <2>3. ASSUME WellPosed(p), OwnExtras(p), NEW c \in added \cup {d}
        PROVE  Answers(p, c[1], c[2], x, {e \in Dependencies : <<c, e>> \in M})
    <3>1. \A D, E, a, b : D \subseteq E /\ Answers(p, a, b, x, D) => Answers(p, a, b, x, E)
      BY DEF Answers
    <3>2. CASE c \in added
      <4>1. Answers(p, c[1], c[2], x, {e \in Dependencies : <<c, e>> \in N})
        BY <2>3, <3>2, TighterIs DEF Kept
      <4>2. {e \in Dependencies : <<c, e>> \in N} \subseteq {e \in Dependencies : <<c, e>> \in M}
        OBVIOUS
      <4> QED
        BY <3>1, <4>1, <4>2
    <3>3. CASE c = d
      <4>1. ToSet(deps) \subseteq {e \in Dependencies : <<c, e>> \in M}
        BY <1>2, <3>3
      <4> QED
        BY <2>1, <2>3, <3>1, <3>3, <4>1
    <3> QED
      BY <3>2, <3>3
  <2> HIDE DEF M
  <2>4. \A y \in M : Sourced(p, y[1][1], y[1][2], y[2])
    BY <2>1, <2>2 DEF Kept
  <2>5. ASSUME WellPosed(p), ForWorld(p, x)
        PROVE  \A y \in M :
                 /\ ~y[2].parent /\ Item(y[2]) \in Conflicting(p) => Secure(p, y[2], x)
                 /\ \A z \in M : ~Opposed(p, y[2], z[2])
    <3>1. \A y \in N :
            /\ ~y[2].parent /\ Item(y[2]) \in Conflicting(p) => Secure(p, y[2], env)
            /\ \A z \in N : ~Opposed(p, y[2], z[2])
      BY <2>5, TighterIs DEF Kept
    <3>2. ASSUME NEW y \in M, ~y[2].parent, Item(y[2]) \in Conflicting(p)
          PROVE  Secure(p, y[2], x)
      BY <2>1, <2>2, <2>5, <3>1, <3>2, TighterIs
    <3>3. ASSUME NEW y \in N, NEW e \in ToSet(deps)
          PROVE  ~Opposed(p, y[2], e) /\ ~Opposed(p, e, y[2])
      <4> SUFFICES ASSUME ~y[2].parent, ~e.parent, Item(y[2]) # Item(e),
                          NEW i \in DOMAIN p.conflicts,
                          Item(y[2]) \in p.conflicts[i], Item(e) \in p.conflicts[i]
                   PROVE  FALSE
        BY DEF Opposed
      <4>1. Item(y[2]) \in Conflicting(p) /\ Item(e) \in Conflicting(p)
        BY DEF Conflicting
      <4>2. Secure(p, y[2], env) /\ Item(e) \notin Barred(p, env)
        BY <2>1, <2>5, <3>1, <4>1
      <4> QED
        BY <4>2 DEF Secure
    <3> QED
      BY <2>1, <2>2, <3>1, <3>2, <3>3
  <2>6. Kept(p, M, u, added \cup {d}, x)
    BY <1>4, <2>3, <2>4, <2>5 DEF Kept
  <2> QED
    BY <2>6 DEF M, u
<1> QED
  BY <1>5, <1>6

\* The entries that two arenas share note the same.
LEMMA NotedAgree ==
  ASSUME NEW a, NEW b, NEW n, Agree(a, b, n)
  PROVE  NotedIn(b, n) = NotedIn(a, n)
BY DEF NotedIn, Agree

\* What is noted are dependencies of decisions.
LEMMA NotedType ==
  ASSUME arena \in Seq(ArenaEntries), NEW n \in Nat, n <= Len(arena)
  PROVE  NotedIn(arena, n) \in SUBSET (Decisions \X Dependencies)
<1> SUFFICES ASSUME NEW i \in 1..n, arena[i].dep # <<>>
             PROVE  <<<<arena[i].item, arena[i].v>>, arena[i].dep[1]>> \in Decisions \X Dependencies
  BY DEF NotedIn
<1>1. arena[i] \in ArenaEntries
  OBVIOUS
<1>2. arena[i].item \in Items /\ arena[i].v \in Versions /\ arena[i].dep[1] \in Dependencies
  BY <1>1 DEF ArenaEntries
<1> QED
  BY <1>2 DEF Decisions

\* What an arena notes with the dependencies of a decision added to it, or
\* with versions that are ruled out.
LEMMA NotedMore ==
  ASSUME arena \in Seq(ArenaEntries), Grows(arena, arena')
  PROVE  /\ \A d, deps : Adds(d, deps) /\ (ToSet(deps) # {} => d \in Decisions) =>
              NotedIn(arena', Len(arena')) = NotedIn(arena, Len(arena)) \cup {<<d, e>> : e \in ToSet(deps)}
         /\ RulesOut => NotedIn(arena', Len(arena')) = NotedIn(arena, Len(arena))
<1> DEFINE n == Len(arena)
           k == Len(arena')
           At(a, i) == <<<<a[i].item, a[i].v>>, a[i].dep[1]>>
<1>1. n \in Nat /\ k \in Nat /\ n <= k /\ \A i \in 1..n : i \in 1..k /\ arena'[i] = arena[i]
  BY DEF Grows
<1>2. \A x : x \in NotedIn(arena', k) <=> \E i \in 1..k : arena'[i].dep # <<>> /\ x = At(arena', i)
  BY DEF NotedIn
<1>3. \A x : x \in NotedIn(arena, n) <=> \E i \in 1..n : arena'[i].dep # <<>> /\ x = At(arena', i)
  BY <1>1 DEF NotedIn
<1>4. NotedIn(arena, n) \subseteq NotedIn(arena', k)
  BY <1>1, <1>2, <1>3
<1>5. \A i \in 1..k : i \in 1..n \/ i > n
  BY <1>1
<1> HIDE DEF n, k, At
<1>6. ASSUME RulesOut PROVE NotedIn(arena', k) \subseteq NotedIn(arena, n)
  BY <1>2, <1>3, <1>5, <1>6 DEF RulesOut, n, k
<1>7. ASSUME NEW d, NEW deps, Adds(d, deps), ToSet(deps) # {} => d \in Decisions
      PROVE  NotedIn(arena', k) = NotedIn(arena, n) \cup {<<d, e>> : e \in ToSet(deps)}
  <2>1. ASSUME NEW e \in ToSet(deps), NEW i \in 1..k, arena'[i] = Entry(d[1], d[2], <<e>>)
        PROVE  arena'[i].dep # <<>> /\ At(arena', i) = <<d, e>>
    <3>1. d \in Decisions
      BY <1>7
    <3>2. d = <<d[1], d[2]>>
      BY <3>1 DEF Decisions
    <3>3. arena'[i].item = d[1] /\ arena'[i].v = d[2] /\ arena'[i].dep = <<e>>
      BY <2>1 DEF Entry
    <3>4. <<e>> # <<>> /\ <<e>>[1] = e
      OBVIOUS
    <3> QED
      BY <3>2, <3>3, <3>4 DEF At
  <2>2. \A e \in ToSet(deps) : <<d, e>> \in NotedIn(arena', k)
    BY <1>2, <1>7, <2>1 DEF Adds, k
  <2>3. ASSUME NEW x \in NotedIn(arena', k), x \notin NotedIn(arena, n)
        PROVE  \E e \in ToSet(deps) : x = <<d, e>>
    <3>1. PICK i \in 1..k : arena'[i].dep # <<>> /\ x = At(arena', i)
      BY <1>2
    <3>2. i > n
      BY <1>3, <1>5, <2>3, <3>1
    <3>3. PICK e \in ToSet(deps) : arena'[i] = Entry(d[1], d[2], <<e>>)
      BY <1>7, <3>2 DEF Adds, n, k
    <3> QED
      BY <2>1, <3>1, <3>3
  <2> QED
    BY <1>4, <2>2, <2>3
<1> QED
  BY <1>4, <1>6, <1>7 DEF n, k

\* What is decided next is what a decision depends on.
LEMMA NextGrounded ==
  ASSUME Shape, active # <<>>, NEW item \in NextItems
  PROVE  Grounded(NotedIn(arena, Len(arena)), Fork.trail, item, Len(Fork.trail))
<1>1. item \in Undecided
  BY DEF NextItems
<1> SUFFICES ASSUME item # RootItem
             PROVE  \E x \in NotedIn(arena, Len(arena)) :
                      item \in Nodes(x[2]) /\ \E k \in 1..Len(Fork.trail) : Fork.trail[k] = x[1]
  BY DEF Grounded
<1>2. PICK d \in InForce : item \in Nodes(d)
  BY <1>1 DEF Undecided
<1>3. PICK i \in 1..Len(arena) :
        /\ arena[i].dep # <<>> /\ <<arena[i].item, arena[i].v>> \in Decided /\ d = arena[i].dep[1]
  BY DEF InForce, Entries
<1>4. Fork.trail \in Seq(Decisions)
  BY AtHand
<1>5. PICK k \in 1..Len(Fork.trail) : Fork.trail[k] = <<arena[i].item, arena[i].v>>
  BY <1>3, <1>4 DEF Decided
<1> DEFINE x == <<<<arena[i].item, arena[i].v>>, arena[i].dep[1]>>
<1>6. x \in NotedIn(arena, Len(arena))
  BY <1>3 DEF NotedIn
<1>7. x[1] = <<arena[i].item, arena[i].v>> /\ x[2] = d
  BY <1>3
<1> HIDE DEF x
<1> QED
  BY <1>2, <1>5, <1>6, <1>7

\* A decision at hand keeps what the fork has.
LEMMA GainsKept ==
  ASSUME Shape, Stacked, Keeping, status = "solving", active # <<>>,
         NEW d \in Decisions, NEW s \in States, NEW env, NEW deps \in Seq(Dependencies),
         Gains(d, s, env, deps), Tighter(env, Fork.env)
  PROVE  Kept(problem, NotedIn(arena, Len(arena)) \cup {<<d, e>> : e \in ToSet(deps)},
              s.trail, s.added, env)
<1> DEFINE N == NotedIn(arena, Len(arena))
           f == Fork
<1>1. /\ f.trail \in Seq(Decisions) /\ arena \in Seq(ArenaEntries) /\ Len(arena) \in Nat
      /\ f.len = Len(arena)
  BY AtHand DEF Shape, Stacked
<1>2. N \in SUBSET (Decisions \X Dependencies)
  BY <1>1, NotedType
<1>3. Kept(problem, N, f.trail, f.added, f.env)
  <2> DEFINE none == <<>>
  <2>1. ToSet(none) = {}
    BY DEF ToSet
  <2>2. Noted(arena, Fork, none) = N
    BY <1>1, <2>1 DEF Noted
  <2> QED
    BY <2>2 DEF Keeping
<1>4. /\ d[1] \in NextItems /\ s.trail = Append(f.trail, d) /\ s.added = f.added \cup {d}
      /\ (d \in f.added /\ deps = <<>>) \/ Gives(problem, d[1], d[2], f.env, env, deps)
  BY DEF Gains
<1>5. Grounded(N, f.trail, d[1], Len(f.trail))
  BY <1>4, NextGrounded
<1>6. Tighter(env, f.env)
  OBVIOUS
<1> DEFINE t == f.trail
           added == f.added
           e == f.env
           p == problem
<1>7. /\ t \in Seq(Decisions) /\ Kept(p, N, t, added, e) /\ Tighter(env, e) /\ Grounded(N, t, d[1], Len(t))
      /\ (d \in added /\ deps = <<>>) \/ Gives(p, d[1], d[2], e, env, deps)
      /\ s.trail = Append(t, d) /\ s.added = added \cup {d}
  BY <1>1, <1>3, <1>4, <1>5, <1>6
<1> HIDE DEF t, added, e, p, N, f
<1>8. Kept(p, N \cup {<<d, x>> : x \in ToSet(deps)}, Append(t, d), added \cup {d}, env)
  BY <1>2, <1>7, KeptMore
<1> QED
  BY <1>7, <1>8 DEF N, p

\* The forks on the stack keep what they have in an arena that agrees up to
\* their checkpoints.
LEMMA PendingKept ==
  ASSUME Keeping, NEW b, NEW i \in DOMAIN pending, Agree(arena, b, pending[i].state.len)
  PROVE  LET f == pending[i] IN
         Kept(problem, Noted(b, f.state, f.deps), f.state.trail, f.state.added, f.env)
<1>1. NotedIn(b, pending[i].state.len) = NotedIn(arena, pending[i].state.len)
  BY NotedAgree
<1>2. Noted(b, pending[i].state, pending[i].deps) = Noted(arena, pending[i].state, pending[i].deps)
  BY <1>1 DEF Noted
<1> QED
  BY <1>2 DEF Keeping

\* The forks to begin with have nothing.
LEMMA InitKeeping ==
  ASSUME Init
  PROVE  Keeping
<1>1. ProblemType(problem) /\ pending = InitialForks(problem) /\ active = <<>>
  BY ForksAssumption DEF Init
<1>2. ASSUME NEW i \in DOMAIN pending
      PROVE  LET f == pending[i] IN
             Kept(problem, Noted(arena, f.state, f.deps), f.state.trail, f.state.added, f.env)
  <2> DEFINE f == pending[i]
  <2>1. f.state = FreshState(problem) /\ f.deps = <<>>
    BY <1>1, InitialForksAre
  <2>2. f.state.added = {} /\ f.state.trail = <<>> /\ f.state.len = 0
    BY <2>1 DEF FreshState
  <2>3. Noted(arena, f.state, f.deps) = {}
    BY <2>1, <2>2 DEF Noted, NotedIn, ToSet
  <2>4. DOMAIN f.state.trail = {}
    BY <2>2
  <2> HIDE DEF f
  <2>5. Kept(problem, {}, f.state.trail, f.state.added, f.env)
    BY <2>2, <2>4 DEF Kept
  <2> QED
    BY <2>3, <2>5 DEF f
<1> QED
  BY <1>1, <1>2 DEF Keeping

\* Work on a fork: a decision with its dependencies, or fewer decisions.
LEMMA WorksKeeping ==
  ASSUME Shape, Stacked, Keeping, NEW s, Works(s)
  PROVE  Keeping'
<1> DEFINE none == <<>>
<1>1. /\ status = "solving" /\ active # <<>> /\ active' = <<s>> /\ s \in States
      /\ s.env = Fork.env /\ Grows(arena, arena') /\ s.len = Len(arena')
      /\ problem' = problem /\ pending' = pending
  BY DEF Works
<1>2. \/ GoesBack(s) /\ RulesOut
      \/ \E d \in Decisions, deps \in Seq(Dependencies) : Gains(d, s, s.env, deps) /\ Adds(d, deps)
  BY DEF Works
<1>3. Fork' = s /\ active' # <<>>
  BY <1>1 DEF Fork
<1>4. Len(arena) = Fork.len /\ \A i \in DOMAIN pending : pending[i].state.len <= Len(arena)
  BY <1>1 DEF Stacked
<1>5. /\ Fork \in States /\ Fork.trail \in Seq(Decisions) /\ arena \in Seq(ArenaEntries)
      /\ Len(arena) \in Nat
  BY <1>1, AtHand DEF Shape
<1>6. Agree(arena, arena', Len(arena))
  BY <1>1 DEF Grows, Agree
<1>7. ToSet(none) = {}
  BY DEF ToSet
<1>8. Noted(arena', s, none) = NotedIn(arena', Len(arena')) /\ Noted(arena, Fork, none) = NotedIn(arena, Len(arena))
  BY <1>1, <1>4, <1>7 DEF Noted
<1>9. Tighter(s.env, Fork.env)
  BY <1>1 DEF Tighter
<1>10. Kept(problem, Noted(arena', s, none), s.trail, s.added, s.env)
  <2>1. CASE GoesBack(s) /\ RulesOut
    <3> DEFINE t == Fork.trail
               u == s.trail
               N == NotedIn(arena, Len(arena))
    <3>1. PICK k \in 0..Len(t) : u = SubSeq(t, 1, k)
      BY <2>1 DEF GoesBack
    <3>2. s.added = Fork.added
      BY <2>1 DEF GoesBack
    <3>3. t \in Seq(Decisions)
      BY <1>5
    <3>4. Kept(problem, N, t, Fork.added, Fork.env)
      BY <1>1, <1>8 DEF Keeping
    <3>5. NotedIn(arena', Len(arena')) = N
      BY <1>1, <1>5, <2>1, NotedMore
    <3> HIDE DEF t, u, N
    <3>6. u \in Seq(Decisions) /\ Len(u) = k /\ k <= Len(t) /\ \A i \in 1..k : u[i] = t[i]
      BY <3>1, <3>3
    <3>7. Len(u) <= Len(t) /\ Agree(t, u, Len(u))
      BY <3>6 DEF Agree
    <3>8. Kept(problem, N, u, Fork.added, s.env)
      BY <1>9, <3>3, <3>4, <3>6, <3>7, KeptOn
    <3> QED
      BY <1>8, <3>2, <3>5, <3>8 DEF u
  <2>2. CASE \E d \in Decisions, deps \in Seq(Dependencies) : Gains(d, s, s.env, deps) /\ Adds(d, deps)
    <3>1. PICK d \in Decisions, deps \in Seq(Dependencies) : Gains(d, s, s.env, deps) /\ Adds(d, deps)
      BY <2>2
    <3>2. Kept(problem, NotedIn(arena, Len(arena)) \cup {<<d, e>> : e \in ToSet(deps)},
               s.trail, s.added, s.env)
      BY <1>1, <1>9, <3>1, GainsKept
    <3>3. NotedIn(arena', Len(arena')) = NotedIn(arena, Len(arena)) \cup {<<d, e>> : e \in ToSet(deps)}
      BY <1>1, <1>5, <3>1, NotedMore
    <3> QED
      BY <1>8, <3>2, <3>3
  <2> QED
    BY <1>2, <2>1, <2>2
<1>11. ASSUME NEW i \in DOMAIN pending
       PROVE  LET f == pending[i] IN
              Kept(problem, Noted(arena', f.state, f.deps), f.state.trail, f.state.added, f.env)
  <2>1. pending \in Seq(PendingForks(problem))
    BY DEF Shape
  <2>2. pending[i] \in PendingForks(problem)
    BY <2>1
  <2>3. pending[i].state.len \in Nat
    BY <2>2 DEF PendingForks, States
  <2>4. Agree(arena, arena', pending[i].state.len)
    BY <1>4, <1>5, <1>6, <2>3 DEF Agree
  <2> QED
    BY <2>4, PendingKept
<1> QED
  BY <1>1, <1>3, <1>10, <1>11 DEF Keeping

\* The forks of a fork have what it has, and what is to be added.
LEMMA PushesKeeping ==
  ASSUME Shape, Stacked, Keeping, NEW fs, Pushes(fs)
  PROVE  Keeping'
<1> DEFINE P == PendingForks(problem)
           n == Len(pending)
           k == Len(fs)
           N == NotedIn(arena, Len(arena))
           none == <<>>
<1>1. /\ status = "solving" /\ active # <<>> /\ active' = <<>> /\ fs \in Seq(P)
      /\ pending' = pending \o fs /\ problem' = problem /\ arena' = arena
  BY DEF Pushes
<1>2. \A i \in DOMAIN fs :
         /\ fs[i].state.len = Fork.len /\ Tighter(fs[i].env, Fork.env)
         /\ \/ fs[i].state.trail = Fork.trail /\ fs[i].state.added = Fork.added /\ fs[i].deps = none
            \/ \E d \in Decisions : Gains(d, fs[i].state, fs[i].env, fs[i].deps)
  BY DEF Pushes
<1>3. Len(arena) = Fork.len /\ Fork.trail \in Seq(Decisions) /\ ToSet(none) = {}
  BY <1>1, AtHand DEF Stacked, ToSet
<1>4. \A i \in DOMAIN fs : fs[i] \in P
  <2> HIDE DEF P
  <2> QED
    BY <1>1
<1>5. ASSUME NEW i \in DOMAIN fs
      PROVE  LET f == fs[i] IN
             Kept(problem, Noted(arena, f.state, f.deps), f.state.trail, f.state.added, f.env)
  <2> DEFINE f == fs[i]
             s == f.state
             deps == f.deps
             env == f.env
  <2>1. s \in States /\ s.len = Len(arena) /\ Tighter(env, Fork.env) /\ deps \in Seq(Dependencies)
    BY <1>2, <1>3, <1>4 DEF PendingForks
  <2>2. CASE s.trail = Fork.trail /\ s.added = Fork.added /\ deps = none
    <3> DEFINE t == Fork.trail
               added == Fork.added
               e == Fork.env
    <3>1. Noted(arena, s, deps) = N /\ Noted(arena, Fork, none) = N
      BY <1>3, <2>1, <2>2 DEF Noted
    <3>2. Kept(problem, N, t, added, e)
      BY <1>1, <3>1 DEF Keeping
    <3>3. t \in Seq(Decisions) /\ Len(t) <= Len(t) /\ Agree(t, t, Len(t)) /\ Tighter(env, e)
      BY <1>3, <2>1 DEF Agree
    <3> HIDE DEF t, added, e, env, N
    <3>4. Kept(problem, N, t, added, env)
      BY <3>2, <3>3, KeptOn
    <3> QED
      BY <2>2, <3>1, <3>4 DEF t, added, env
  <2>3. ASSUME NEW d \in Decisions, Gains(d, s, env, deps)
        PROVE  Kept(problem, Noted(arena, s, deps), s.trail, s.added, env)
    <3>1. s.trail = Append(Fork.trail, d)
      BY <2>3 DEF Gains
    <3>2. Last(s.trail) = d
      <4> DEFINE t == Fork.trail
      <4>1. t \in Seq(Decisions)
        BY <1>3
      <4> HIDE DEF t
      <4>2. Last(Append(t, d)) = d
        BY <4>1 DEF Last
      <4> QED
        BY <3>1, <4>2 DEF t
    <3>3. Noted(arena, s, deps) = N \cup {<<d, e>> : e \in ToSet(deps)}
      BY <2>1, <3>2 DEF Noted
    <3> HIDE DEF s, deps, env
    <3>4. Kept(problem, N \cup {<<d, e>> : e \in ToSet(deps)}, s.trail, s.added, env)
      BY <1>1, <2>1, <2>3, GainsKept
    <3> QED
      BY <3>3, <3>4
  <2> QED
    BY <1>2, <2>2, <2>3
<1>6. pending \in Seq(P)
  BY DEF Shape
<1> HIDE DEF P
<1>7. /\ n \in Nat /\ k \in Nat /\ DOMAIN pending = 1..n /\ DOMAIN fs = 1..k
      /\ DOMAIN pending' = 1..(n + k)
      /\ \A i \in 1..n : pending'[i] = pending[i]
      /\ \A i \in 1..k : pending'[n + i] = fs[i]
  BY <1>1, <1>6
<1> HIDE DEF n, k
<1>8. ASSUME NEW i \in DOMAIN pending'
      PROVE  LET f == pending'[i] IN
             Kept(problem, Noted(arena, f.state, f.deps), f.state.trail, f.state.added, f.env)
  <2>1. CASE i \in 1..n
    BY <1>7, <2>1 DEF Keeping
  <2>2. CASE i \notin 1..n
    <3>1. i - n \in 1..k /\ i = n + (i - n)
      BY <1>7, <2>2
    <3>2. pending'[i] = fs[i - n] /\ i - n \in DOMAIN fs
      BY <1>7, <3>1
    <3> QED
      BY <1>5, <3>2
  <2> QED
    BY <2>1, <2>2
<1> QED
  BY <1>1, <1>8 DEF Keeping

\* A fork that is resumed has what it had on the stack: the dependencies
\* that were to be added are in the arena.
LEMMA MaterializeKeeping ==
  ASSUME Shape, Stacked, Keeping, Materialize
  PROVE  Keeping'
<1> DEFINE p == Last(pending)
           P == PendingForks(problem)
           none == <<>>
<1>1. /\ status = "solving" /\ active = <<>> /\ pending # <<>> /\ pending' = Front(pending)
      /\ problem' = problem /\ p \in P /\ Ready(problem, p)
  BY MaterializeStep
<1>2. PICK r : Resumes(p, r)
  BY MaterializeStep
<1>3. pending \in Seq(P) /\ arena \in Seq(ArenaEntries)
  BY DEF Shape
<1>4. /\ p = pending[Len(pending)] /\ Len(pending) \in DOMAIN pending
      /\ \A i \in DOMAIN Front(pending) : i \in DOMAIN pending /\ Front(pending)[i] = pending[i]
  <2> HIDE DEF P
  <2> QED
    BY <1>1, <1>3, FrontIs
<1>5. Len(arena) = p.state.len /\ \A i \in DOMAIN pending : pending[i].state.len <= Len(arena)
  BY <1>1 DEF Stacked
<1>6. Kept(problem, Noted(arena, p.state, p.deps), p.state.trail, p.state.added, p.env)
  BY <1>4 DEF Keeping
<1> HIDE DEF p
<1>7. /\ active' = <<r>> /\ r.env = p.env /\ r.len = Len(arena')
      /\ r.trail = p.state.trail /\ r.added = p.state.added
      /\ Grows(arena, arena') /\ Agree(arena, arena', Len(arena)) /\ Adds(Last(r.trail), p.deps)
  BY <1>2 DEF Resumes, Grows, Agree
<1>8. Fork' = r /\ active' # <<>>
  BY <1>7 DEF Fork
<1>9. ToSet(p.deps) # {} => Last(r.trail) \in Decisions
  <2>1. ASSUME ToSet(p.deps) # {} PROVE p.deps # <<>>
    BY <2>1 DEF ToSet
  <2>2. p.state.trail \in Seq(Decisions)
    BY <1>1 DEF PendingForks, States
  <2>3. ASSUME p.deps # <<>> PROVE Last(p.state.trail) \in Decisions
    <3>1. p.state.trail # <<>>
      BY <1>1, <2>3 DEF Ready
    <3> QED
      BY <2>2, <3>1, FrontIs
  <2> QED
    BY <1>7, <2>1, <2>3
<1>10. Noted(arena', r, none) = Noted(arena, p.state, p.deps)
  <2>1. NotedIn(arena', Len(arena'))
          = NotedIn(arena, Len(arena)) \cup {<<Last(r.trail), e>> : e \in ToSet(p.deps)}
    BY <1>3, <1>7, <1>9, NotedMore
  <2>2. ToSet(none) = {}
    BY DEF ToSet
  <2> QED
    BY <1>5, <1>7, <2>1, <2>2 DEF Noted
<1>11. Kept(problem, Noted(arena', r, none), r.trail, r.added, r.env)
  BY <1>6, <1>7, <1>10
<1>12. ASSUME NEW i \in DOMAIN pending
       PROVE  LET f == pending[i] IN
              Kept(problem, Noted(arena', f.state, f.deps), f.state.trail, f.state.added, f.env)
  <2>1. pending[i] \in P
    BY <1>3
  <2>2. pending[i].state.len \in Nat
    BY <2>1 DEF PendingForks, States
  <2>3. Agree(arena, arena', pending[i].state.len)
    BY <1>3, <1>5, <1>7, <2>2 DEF Agree
  <2> QED
    BY <2>3, PendingKept
<1>13. ASSUME NEW i \in DOMAIN pending'
       PROVE  LET f == pending'[i] IN
              Kept(problem, Noted(arena', f.state, f.deps), f.state.trail, f.state.added, f.env)
  BY <1>1, <1>4, <1>12
<1> QED
  BY <1>1, <1>7, <1>8, <1>11, <1>13 DEF Keeping

\* The forks on the stack keep the part of the arena that they had.
LEMMA FinishKeeping ==
  ASSUME Shape, Stacked, Keeping, Finish
  PROVE  Keeping'
<1> DEFINE P == PendingForks(problem)
<1>1. /\ status = "solving" /\ active # <<>> /\ arena' = Rewind /\ active' = <<>>
      /\ problem' = problem /\ pending' = pending
  BY DEF Finish, Solved, Solving
<1>2. pending \in Seq(P) /\ arena \in Seq(ArenaEntries)
  BY DEF Shape
<1>3. ASSUME NEW i \in DOMAIN pending
      PROVE  LET f == pending[i] IN
             Kept(problem, Noted(arena', f.state, f.deps), f.state.trail, f.state.added, f.env)
  <2> DEFINE len == Last(pending).state.len
  <2>1. pending # <<>>
    BY <1>3
  <2>2. Last(pending) = pending[Len(pending)] /\ Len(pending) \in DOMAIN pending /\ i <= Len(pending)
    <3> HIDE DEF P
    <3>1. i <= Len(pending)
      BY <1>2
    <3> QED
      BY <1>2, <2>1, <3>1, FrontIs
  <2>3. \A j \in DOMAIN pending : pending[j].state.len \in Nat
    <3>1. \A j \in DOMAIN pending : pending[j] \in P
      BY <1>2
    <3> QED
      BY <3>1 DEF PendingForks, States
  <2>4. len \in Nat /\ len <= Len(arena) /\ pending[i].state.len <= len
    BY <1>1, <2>2, <2>3 DEF Stacked
  <2>5. arena' = SubSeq(arena, 1, len)
    BY <1>1, <2>1 DEF Rewind
  <2> HIDE DEF len
  <2>6. \A j \in 1..len : arena'[j] = arena[j]
    BY <1>2, <2>4, <2>5
  <2>7. Agree(arena, arena', pending[i].state.len)
    BY <2>3, <2>4, <2>6 DEF Agree
  <2> QED
    BY <2>7, PendingKept
<1> QED
  BY <1>1, <1>3 DEF Keeping

\* Every step keeps the dependencies of the forks.
LEMMA NextKeeping ==
  ASSUME Shape, Stacked, Keeping, [Next]_vars
  PROVE  Keeping'
<1>1. ASSUME UNCHANGED <<problem, arena, pending, active>>
      PROVE  Keeping'
  BY <1>1 DEF Keeping, Fork
<1>2. CASE Materialize
  BY <1>2, MaterializeKeeping
<1>3. CASE NoVersions
  BY <1>1, <1>3, NoVersionsStep, WorksKeeping
<1>4. CASE RequiresPython
  BY <1>4, RequiresPythonStep, WorksKeeping, PushesKeeping
<1>5. CASE ForkOnPlatform
  BY <1>5, ForkOnPlatformStep, PushesKeeping
<1>6. CASE DecideVersion
  BY <1>6, DecideVersionStep, WorksKeeping, PushesKeeping
<1>7. CASE Finish
  BY <1>7, FinishKeeping
<1>8. CASE UNCHANGED vars
  BY <1>1, <1>8 DEF vars
<1> QED
  BY <1>2, <1>3, <1>4, <1>5, <1>6, <1>7, <1>8 DEF Next, Stop

\* The dependencies that are noted for decisions are in force.
LEMMA NotedInForce ==
  ASSUME Shape, Stacked, Keeping, status = "solving", active # <<>>
  PROVE  /\ Kept(problem, NotedIn(arena, Len(arena)), Fork.trail, Fork.added, Fork.env)
         /\ \A x \in NotedIn(arena, Len(arena)) : x[1] \in Decided => x[2] \in InForce
<1> DEFINE none == <<>>
<1>1. Len(arena) = Fork.len /\ ToSet(none) = {}
  BY DEF Stacked, ToSet
<1>2. Noted(arena, Fork, none) = NotedIn(arena, Len(arena))
  BY <1>1 DEF Noted
<1>3. Kept(problem, NotedIn(arena, Len(arena)), Fork.trail, Fork.added, Fork.env)
  BY <1>2 DEF Keeping
<1>4. ASSUME NEW x \in NotedIn(arena, Len(arena)), x[1] \in Decided PROVE x[2] \in InForce
  <2>1. PICK i \in 1..Len(arena) :
          arena[i].dep # <<>> /\ x = <<<<arena[i].item, arena[i].v>>, arena[i].dep[1]>>
    BY DEF NotedIn
  <2>2. x[1] = <<arena[i].item, arena[i].v>> /\ x[2] = arena[i].dep[1]
    BY <2>1
  <2>3. arena[i] \in Entries
    BY DEF Entries
  <2> QED
    BY <1>4, <2>1, <2>2, <2>3 DEF InForce
<1> QED
  BY <1>3, <1>4

\* The dependencies of the forks, in all states.
LEMMA ForksKeep == Spec => [](Shape /\ Stacked /\ Keeping)
<1>1. Init => Shape /\ Stacked /\ Keeping
  BY InitShape, InitKeeping
<1>2. (Shape /\ Stacked /\ Keeping) /\ [Next]_vars => (Shape /\ Stacked /\ Keeping)'
  BY NextShape, NextKeeping
<1> QED
  BY <1>1, <1>2, PTL DEF Spec

\* Nothing is lost, for a project whose initial forks are one for each
\* world and whose extras require no package in conflict: a package has, in
\* every world that its fork is for, all that it requires there, however
\* often the solver forked and went back (from_requirement,
\* ForkedDependencies::fork, Fork::filter).
THEOREM RequirementsKept ==
  Spec => [](WellPosed(problem) /\ OwnExtras(problem) => NothingLost)
<1>1. ASSUME Shape, Stacked, Keeping, WellPosed(problem), OwnExtras(problem)
      PROVE  NothingLost
  <2> SUFFICES ASSUME Solved, NEW m \in Supported, NEW A \in Selections, Covers(Fork.env, m, A),
                      NEW d \in Decided, NEW k \in DOMAIN Requires(d[1], d[2]),
                      m \in Requires(d[1], d[2])[k].marker,
                      NEW x \in Asks(Requires(d[1], d[2])[k], A)
               PROVE  \E e \in Decided : e[1] = x /\ e[2] \in Requires(d[1], d[2])[k].range
    BY DEF NothingLost
  <2> DEFINE N == NotedIn(arena, Len(arena))
             req == Requires(d[1], d[2])[k]
  <2>1. status = "solving" /\ active # <<>> /\ Consistent /\ Undecided = {}
    BY DEF Solved, Solving
  <2>2. /\ Kept(problem, N, Fork.trail, Fork.added, Fork.env)
        /\ \A y \in N : y[1] \in Decided => y[2] \in InForce
    BY <1>1, <2>1, NotedInForce
  <2>3. d \in Fork.added
    BY <2>2 DEF Kept, Decided
  <2>4. Answers(problem, d[1], d[2], Fork.env, {e \in Dependencies : <<d, e>> \in N})
    BY <1>1, <2>2, <2>3 DEF Kept
  <2>5. m \in SupportedBy(problem) /\ A \in SelectionsOf(problem)
    BY DEF Supported, Selections
  <2>6. PICK f \in {e \in Dependencies : <<d, e>> \in N} : Fulfils(f, req, x)
    BY <2>4, <2>5, OfProblem DEF Answers
  <2>7. f \in InForce
    <3>1. <<d, f>> \in N /\ <<d, f>>[1] = d /\ <<d, f>>[2] = f
      BY <2>6
    <3> QED
      BY <2>2, <3>1
  <2>8. x \in Nodes(f) /\ f.range = req.range
    BY <2>6 DEF Fulfils
  <2>9. PICK c \in Decided : c[1] = x
    BY <2>1, <2>7, <2>8 DEF Undecided
  <2>10. x[1] = f.name
    BY <2>8 DEF Nodes, Item, ProjectOf
  <2>11. c[2] \in f.range
    BY <2>1, <2>7, <2>9, <2>10 DEF Consistent
  <2> QED
    BY <2>8, <2>9, <2>11
<1>2. Shape /\ Stacked /\ Keeping => (WellPosed(problem) /\ OwnExtras(problem) => NothingLost)
  BY <1>1
<1> QED
  BY <1>2, ForksKeep, PTL

\* The decisions that conflict are about dependencies that do.
LEMMA DecidedApart ==
  ASSUME Shape, Stacked, Keeping, Solved, WellPosed(problem), WholeProjects(problem),
         ForWorld(problem, Fork.env), NEW j \in DOMAIN problem.conflicts
  PROVE  LET required(x) ==
                \E d \in Decided :
                    /\ d[1] # RootItem /\ d[1][2] = "project"
                    /\ \E k \in DOMAIN Requires(d[1], d[2]) : Requires(d[1], d[2])[k].name = x[1]
             here == {d[1] : d \in Decided} \cap problem.conflicts[j]
         IN  \A x, y \in {z \in here : z[2] = "project" => ~required(z)} : x = y
<1> DEFINE required(x) ==
                \E d \in Decided :
                    /\ d[1] # RootItem /\ d[1][2] = "project"
                    /\ \E k \in DOMAIN Requires(d[1], d[2]) : Requires(d[1], d[2])[k].name = x[1]
           here == {d[1] : d \in Decided} \cap problem.conflicts[j]
           S == {z \in here : z[2] = "project" => ~required(z)}
           N == NotedIn(arena, Len(arena))
<1>1. status = "solving" /\ active # <<>>
  BY DEF Solved, Solving
<1>2. Kept(problem, N, Fork.trail, Fork.added, Fork.env)
  BY <1>1, NotedInForce
<1>3. /\ \A n \in N : Sourced(problem, n[1][1], n[1][2], n[2])
      /\ \A n, l \in N : ~Opposed(problem, n[2], l[2])
      /\ \A i \in DOMAIN Fork.trail : Grounded(N, Fork.trail, Fork.trail[i][1], i - 1)
  BY <1>2 DEF Kept
<1>4. ASSUME NEW x \in S PROVE \E n \in N : ~n[2].parent /\ Item(n[2]) = x
  <2>1. PICK i \in DOMAIN Fork.trail : Fork.trail[i][1] = x
    BY DEF Decided
  <2>2. x \in Conflicting(problem) /\ x # RootItem
    BY DEF Conflicting, WholeProjects
  <2>3. PICK n \in N : x \in Nodes(n[2]) /\ \E k \in 1..(i - 1) : Fork.trail[k] = n[1]
    BY <1>3, <2>1, <2>2 DEF Grounded
  <2>4. n[1] \in Decided
    <3>1. Fork.trail \in Seq(Decisions)
      BY <1>1, AtHand
    <3>2. \A k \in 1..(i - 1) : k \in DOMAIN Fork.trail
      BY <3>1
    <3> QED
      BY <2>3, <3>2 DEF Decided
  <2> DEFINE item == n[1][1]
             v == n[1][2]
             d == n[2]
  <2>5. PICK k \in DOMAIN Requires(item, v) : Stems(d, item, Requires(item, v)[k])
    BY <1>3, OfProblem DEF Sourced
  <2> DEFINE req == Requires(item, v)[k]
  <2>6. /\ d.name = req.name /\ (d.kind = "project" \/ d.kind \in req.kinds)
        /\ d.parent <=> d.kind = "project" /\ item # RootItem /\ item[2] = "project"
    BY <2>5 DEF Stems
  <2>7. Item(d) = x
    <3> SUFFICES ASSUME d.kind \in Extras, x = ProjectOf(Item(d))
                 PROVE  FALSE
      BY <2>3 DEF Nodes
    <3>1. x = <<req.name, "project">>
      BY <2>6 DEF ProjectOf, Item
    <3>2. d.kind \in req.kinds
      BY <2>6, ForksAssumption
    <3>3. <<item, v>> \in DOMAIN problem.requires /\ Requires(item, v) = problem.requires[<<item, v>>]
      BY DEF Requires
    <3>4. <<req.name, "project">> \notin Conflicting(problem)
      BY <3>2, <3>3 DEF WholeProjects
    <3> QED
      BY <2>2, <3>1, <3>4
  <2>8. ASSUME d.parent PROVE FALSE
    <3>1. x[2] = "project" /\ x[1] = req.name /\ item # RootItem /\ item[2] = "project"
      BY <2>6, <2>7, <2>8 DEF Item
    <3>2. required(x)
      BY <2>4, <3>1
    <3> QED
      BY <3>1, <3>2
  <2> QED
    BY <2>7, <2>8
<1>5. ASSUME NEW x \in S, NEW y \in S, x # y PROVE FALSE
  <2>1. PICK n \in N : ~n[2].parent /\ Item(n[2]) = x
    BY <1>4
  <2>2. PICK l \in N : ~l[2].parent /\ Item(l[2]) = y
    BY <1>4
  <2>3. x \in problem.conflicts[j] /\ y \in problem.conflicts[j]
    OBVIOUS
  <2>4. Opposed(problem, n[2], l[2])
    BY <1>5, <2>1, <2>2, <2>3 DEF Opposed
  <2> QED
    BY <1>3, <2>4
<1>6. \A x, y \in S : x = y
  BY <1>5
<1> QED
  BY <1>6

\* Items that conflict are in no resolution together, for a project whose
\* initial forks are one for each world and where no project in conflict
\* comes along with an extra of it, in every fork that is for some world,
\* unless one is a project that another package requires
\* (ForkedDependencies::fork, Fork::filter, included_by_group).
THEOREM ConflictsKeptApart ==
  Spec => [](WellPosed(problem) /\ WholeProjects(problem)
               /\ (active # <<>> => ForWorld(problem, Fork.env)) => ConflictsApart)
<1>1. ASSUME Shape, Stacked, Keeping, WellPosed(problem), WholeProjects(problem),
             active # <<>> => ForWorld(problem, Fork.env)
      PROVE  ConflictsApart
  <2> SUFFICES ASSUME Solved, NEW j \in DOMAIN problem.conflicts
               PROVE  LET required(x) ==
                            \E d \in Decided :
                              /\ d[1] # RootItem /\ d[1][2] = "project"
                              /\ \E k \in DOMAIN Requires(d[1], d[2]) :
                                   Requires(d[1], d[2])[k].name = x[1]
                          here == {d[1] : d \in Decided} \cap problem.conflicts[j]
                      IN  Cardinality({x \in here : x[2] = "project" => ~required(x)}) <= 1
    BY DEF ConflictsApart
  <2> DEFINE required(x) ==
                \E d \in Decided :
                    /\ d[1] # RootItem /\ d[1][2] = "project"
                    /\ \E k \in DOMAIN Requires(d[1], d[2]) : Requires(d[1], d[2])[k].name = x[1]
             here == {d[1] : d \in Decided} \cap problem.conflicts[j]
             S == {x \in here : x[2] = "project" => ~required(x)}
  <2>1. ForWorld(problem, Fork.env)
    BY <1>1 DEF Solved, Solving
  <2>2. \A x, y \in S : x = y
    BY <1>1, <2>1, DecidedApart
  <2> HIDE DEF S
  <2>3. S = {} \/ \E x : S = {x}
    BY <2>2
  <2>4. Cardinality(S) <= 1
    <3>1. CASE S = {}
      BY <3>1, FS_EmptySet
    <3>2. CASE \E x : S = {x}
      <4>1. PICK x : S = {x}
        BY <3>2
      <4>2. Cardinality({x}) = 1
        BY FS_Singleton
      <4> QED
        BY <4>1, <4>2
    <3> QED
      BY <2>3, <3>1, <3>2
  <2> QED
    BY <2>4 DEF S
<1>2. Shape /\ Stacked /\ Keeping =>
        (WellPosed(problem) /\ WholeProjects(problem)
           /\ (active # <<>> => ForWorld(problem, Fork.env)) => ConflictsApart)
  BY <1>1
<1> QED
  BY <1>2, ForksKeep, PTL

=============================================================================
