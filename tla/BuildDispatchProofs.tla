------------------------- MODULE BuildDispatchProofs -------------------------
(***************************************************************************)
(* For any distributions, requirements and failures: every permit of the    *)
(* builds semaphore is accounted for, hooks run in complete environments, a *)
(* prepare returns what it was asked for, and an entry in flight has its    *)
(* one owner unless a sibling failed under a resolver that goes on.         *)
(***************************************************************************)
EXTENDS BuildDispatch, FiniteSetTheorems, TLAPS

------------------------------------------------------------------------------
(* The steps, apart from how an action comes to them. *)

\* An error ends the futures T of the outermost prepare and the prepares D, and is
\* submitted for the ids K.
FailsWith(D, T, K) ==
    /\ entry' = [i \in Ids |-> IF i \in K THEN "err" ELSE entry[i]]
    /\ fut' = [d \in Prepares |->
                  IF d \in D THEN NoFutures
                  ELSE IF d # Root THEN fut[d]
                  ELSE [q \in Reqs |-> IF q \in T THEN "err" ELSE fut[Root][q]]]
    /\ phase' = [d \in Prepares |->
                    IF d \notin D THEN phase[d] ELSE IF d = Root THEN "failed" ELSE "idle"]
    /\ slots' = slots + PermitsOf(D)
    /\ job' = job /\ wanted' = wanted /\ cached' = cached
    /\ stack' = [d \in Prepares |-> IF d \in D THEN {} ELSE stack[d]]
    /\ ~job.keepGoing => D = Prepares
    /\ job.keepGoing => Root \notin D /\ (D # {} => T # {})
    /\ \A q \in T : /\ fut[Root][q] = "owner" => IdOf[q] \in K
                    /\ IdOf[q] \in K \/ q \in job.refused \/ entry[IdOf[q]] \in {"ok", "err"}
Fails == \E D \in SUBSET Prepares, T \in SUBSET Reqs, K \in SUBSET Ids : FailsWith(D, T, K)

\* The future of r in c runs its own job, is refused, or has found a result.
Decided(c, r) ==
    fut[c][r] = "owner" \/ r \in job.refused \/ entry[IdOf[r]] \in {"ok", "err"}

\* A future registers its id, and starts the build if it is a source.
Registers(c, r) ==
    /\ phase[c] \in Polling /\ fut[c][r] = "new" /\ r \notin job.refused
    /\ entry[IdOf[r]] = "absent"
    /\ entry' = [entry EXCEPT ![IdOf[r]] = "waiting"]
    /\ fut' = [fut EXCEPT ![c][r] = "owner"]
    /\ phase' = IF IdOf[r] \in Sources THEN [phase EXCEPT ![IdOf[r]] = "setup"] ELSE phase
    /\ stack' = IF IdOf[r] \in Sources
                THEN [stack EXCEPT ![IdOf[r]] = stack[c] \cup {IdOf[r]}] ELSE stack
    /\ UNCHANGED <<job, wanted, cached, slots>>

\* A future finds the entry in flight, or another future's wheel.
Joins(c, r) ==
    /\ phase[c] \in Polling
    /\ \/ fut[c][r] = "new" /\ r \notin job.refused
       \/ fut[c][r] = "waiting"
    /\ \/ fut' = [fut EXCEPT ![c][r] = "waiting"]
       \/ /\ entry[IdOf[r]] = "ok" /\ r \notin job.misnamed
          /\ fut' = [fut EXCEPT ![c][r] = "ok"]
    /\ UNCHANGED <<job, wanted, entry, phase, stack, cached, slots>>

\* A future submits the wheel it downloaded or built.
Submits(c, r) ==
    /\ fut[c][r] = "owner" /\ r \notin job.misnamed
    /\ entry' = [entry EXCEPT ![IdOf[r]] = "ok"]
    /\ cached' = cached \cup {IdOf[r]}
    /\ fut' = [fut EXCEPT ![c][r] = "ok"]
    /\ \/ UNCHANGED <<job, wanted, phase, stack, slots>>
       \/ /\ IdOf[r] \in Sources /\ phase[IdOf[r]] = "building"
          /\ phase' = [phase EXCEPT ![IdOf[r]] = "idle"]
          /\ stack' = [stack EXCEPT ![IdOf[r]] = {}]
          /\ slots' = slots + 1
          /\ UNCHANGED <<job, wanted>>

\* The build of i installs reqs, or has them all.
Plans(i, reqs, label, next, free) ==
    /\ phase' = [phase EXCEPT ![i] =
                    IF {r \in reqs : IdOf[r] \notin cached} = {} THEN next ELSE label]
    /\ fut' = [fut EXCEPT ![i] = New({r \in reqs : IdOf[r] \notin cached})]
    /\ slots' = slots + free
    /\ UNCHANGED <<job, wanted, entry, stack, cached>>

Prepared(i) ==
    \/ phase[i] = "setup" /\ Plans(i, job.requires[i], "env", "ask", 0)
    \/ phase[i] = "asking" /\ Plans(i, job.requires[i] \cup job.extra[i], "more", "queue", 1)

Installed(i) ==
    /\ phase[i] \in {"env", "more"} /\ AllReady(i)
    /\ phase' = [phase EXCEPT ![i] = IF phase[i] = "env" THEN "ask" ELSE "queue"]
    /\ fut' = [fut EXCEPT ![i] = NoFutures]
    /\ UNCHANGED <<job, wanted, entry, stack, cached, slots>>

NothingNew(i) ==
    /\ phase[i] = "asking" /\ job.extra[i] \subseteq job.requires[i]
    /\ phase' = [phase EXCEPT ![i] = "queue"]
    /\ slots' = slots + 1
    /\ UNCHANGED <<job, wanted, entry, fut, stack, cached>>

LEMMA FailIs ==
  ASSUME NEW c \in Prepares, NEW r \in Reqs, Fail(c, r), Decided(c, r)
  PROVE  Fails
<1>d. PICK D : D = Dropped(c, r)
  OBVIOUS
<1>t. PICK T : T = FailedTops(c, r)
  OBVIOUS
<1>k. PICK K : K = Chain(c, r) \cap Ids
  OBVIOUS
<1>1. D \in SUBSET Prepares /\ (~job.keepGoing => D = Prepares)
  BY <1>d DEF Dropped, Prepares
<1>2. T \in SUBSET Reqs /\ K \in SUBSET Ids
  BY <1>t, <1>k DEF FailedTops
<1>3. job.keepGoing => Root \notin D /\ (D # {} => T # {})
  BY <1>d, <1>t, Shape DEF Dropped
<1>4. ASSUME NEW q \in T
      PROVE  /\ fut[Root][q] = "owner" => IdOf[q] \in K
             /\ IdOf[q] \in K \/ q \in job.refused \/ entry[IdOf[q]] \in {"ok", "err"}
  <2>1. q \in Reqs /\ IdOf[q] \in Ids
    BY <1>2, Shape
  <2>2. CASE c = Root /\ q = r
    <3>1. fut[Root][q] = "owner" => IdOf[q] \in K
      BY <1>k, <2>1, <2>2 DEF Chain
    <3> QED
      BY <2>2, <3>1 DEF Decided
  <2>3. CASE ~(c = Root /\ q = r)
    BY <1>k, <1>t, <2>1, <2>3 DEF FailedTops
  <2> QED
    BY <2>2, <2>3
<1>5. FailsWith(D, T, K)
  BY <1>d, <1>t, <1>k, <1>1, <1>3, <1>4 DEF Fail, FailsWith
<1> QED
  BY <1>1, <1>2, <1>5 DEF Fails

LEMMA StepIs ==
  ASSUME Step
  PROVE  \/ Fails \/ Complete
         \/ \E c \in Prepares, r \in Reqs : Registers(c, r) \/ Joins(c, r) \/ Submits(c, r)
         \/ \E i \in Sources : Prepared(i) \/ Installed(i) \/ NothingNew(i) \/ TakeSlot(i)
<1>1. ASSUME NEW c \in Prepares, NEW r \in Reqs, Poll(c, r)
      PROVE  Fails \/ Registers(c, r) \/ Joins(c, r)
  <2>1. CASE Fail(c, r) /\ Decided(c, r)
    BY <2>1, FailIs
  <2>2. CASE ~(Fail(c, r) /\ Decided(c, r))
    BY <1>1, <2>2 DEF Decided, Poll, Registers, Joins, UseResult, Ready
  <2> QED
    BY <2>1, <2>2
<1>f. ASSUME NEW i, FailBuild(i) PROVE Fails
  BY <1>f, FailIs DEF FailBuild, Decided
<1>2. ASSUME NEW c \in Prepares, NEW r \in Reqs, Wake(c, r)
      PROVE  Fails \/ Joins(c, r)
  <2>1. CASE Fail(c, r) /\ Decided(c, r)
    BY <2>1, FailIs
  <2>2. CASE ~(Fail(c, r) /\ Decided(c, r))
    BY <1>2, <2>2 DEF Decided, Wake, Joins, UseResult, Ready
  <2> QED
    BY <2>1, <2>2
<1>3. ASSUME NEW c \in Prepares, NEW r \in Reqs, Download(c, r) \/ Built(c, r)
      PROVE  Fails \/ Submits(c, r)
  <2>1. CASE Fail(c, r) \/ FailBuild(IdOf[r])
    <3>1. Decided(c, r)
      BY <1>3 DEF Download, Built, Decided
    <3> QED
      BY <1>f, <2>1, <3>1, FailIs
  <2>2. CASE ~(Fail(c, r) \/ FailBuild(IdOf[r]))
    BY <1>3, <2>2 DEF Download, Built, Submit, Submits, Ready
  <2> QED
    BY <2>1, <2>2
<1>4. ASSUME NEW i \in Sources, Setup(i) \/ EnvReady(i) \/ Asked(i)
      PROVE  Fails \/ Prepared(i) \/ Installed(i) \/ NothingNew(i)
  <2>1. CASE FailBuild(i)
    BY <1>f, <2>1
  <2>2. CASE ~FailBuild(i)
    BY <1>4, <2>2 DEF Setup, EnvReady, Asked, Plan, Plans, Prepared, Installed, NothingNew
  <2> QED
    BY <2>1, <2>2
<1> QED
  BY <1>1, <1>2, <1>3, <1>4 DEF Step

------------------------------------------------------------------------------
(* The semaphore. *)

\* The builds that hold a permit.
Holders == {d \in Ids : phase[d] \in {"asking", "building"}}

LEMMA HoldersFinite ==
  /\ IsFiniteSet(Holders) /\ IsFiniteSet(Holders')
  /\ Cardinality(Holders) \in Nat /\ Cardinality(Holders') \in Nat
<1>1. IsFiniteSet(Holders) /\ IsFiniteSet(Holders')
  BY Shape, FS_Subset DEF Holders
<1> QED
  BY <1>1, FS_CardinalityType

LEMMA PermitsAre ==
  /\ PermitsConserved <=> slots + Cardinality(Holders) = BuildSlots
  /\ PermitsConserved' <=> slots' + Cardinality(Holders') = BuildSlots
BY DEF PermitsConserved, PermitsOf, Holders

\* The step keeps the sum of the free permits and the holders.
LEMMA PermitsStay ==
  ASSUME PermitInv, slots' \in Nat,
         slots' + Cardinality(Holders') = slots + Cardinality(Holders)
  PROVE  PermitsConserved' /\ slots' \in 0..BuildSlots
<1>1. slots + Cardinality(Holders) = BuildSlots
  BY PermitsAre DEF PermitInv
<1>2. Cardinality(Holders') \in Nat /\ BuildSlots \in Nat
  BY HoldersFinite, Shape
<1> QED
  BY <1>1, <1>2, PermitsAre

LEMMA Typed ==
  ASSUME TypeOK
  PROVE  /\ Root \in Prepares /\ Root \notin Ids /\ Ids \subseteq Prepares
         /\ \A r \in Reqs : IdOf[r] \in Ids
         /\ Sources \subseteq Ids /\ slots \in Nat
         /\ \A i \in Sources : job.requires[i] \subseteq Reqs /\ job.extra[i] \subseteq Reqs
<1>1. job \in JobType /\ slots \in 0..BuildSlots
  BY Shape DEF TypeOK
<1>2. \A i \in Sources : job.requires[i] \subseteq Reqs /\ job.extra[i] \subseteq Reqs
  BY <1>1 DEF JobType
<1>3. slots \in Nat
  BY <1>1, Shape
<1> QED
  BY <1>2, <1>3, Shape DEF Prepares

LEMMA NewTyped ==
  /\ NoFutures \in [Reqs -> Futures]
  /\ \A rs : New(rs) \in [Reqs -> Futures]
BY DEF NoFutures, New, Futures

LEMMA PermitsInit == Init => PermitInv
<1> SUFFICES ASSUME Init PROVE PermitInv
  OBVIOUS
<1>1. TypeOK
  <2>1. BuildSlots \in 0..BuildSlots
    BY Shape
  <2>2. fut \in [Prepares -> [Reqs -> Futures]]
    BY NewTyped DEF Init
  <2> QED
    BY <2>1, <2>2 DEF Init, TypeOK, Phases
<1>2. BuildsRegistered
  BY Shape DEF Init, BuildsRegistered, Prepares, Outermost
<1>3. Holders = {}
  BY Shape DEF Init, Holders, Prepares
<1>4. PermitsConserved
  BY <1>3, FS_EmptySet, PermitsAre, Shape DEF Init
<1> QED
  BY <1>1, <1>2, <1>4 DEF PermitInv

\* An error returns the permits of the builds it drops.
LEMMA PermitsFail == ASSUME PermitInv, Fails PROVE PermitInv'
<1>0. TypeOK /\ BuildsRegistered /\ slots \in Nat
  BY Typed DEF PermitInv
<1>1. PICK D \in SUBSET Prepares, T \in SUBSET Reqs, K \in SUBSET Ids : FailsWith(D, T, K)
  BY DEF Fails
<1>2. {d \in D : phase[d] \in {"asking", "building"}} = Holders \cap D
  BY <1>0 DEF BuildsRegistered, Outermost, Holders, Prepares
<1>3. Holders' = Holders \ D
  BY <1>0, <1>1, Typed DEF FailsWith, Holders
<1>4. /\ Cardinality(Holders') = Cardinality(Holders) - Cardinality(Holders \cap D)
      /\ Cardinality(Holders \cap D) \in Nat /\ Cardinality(Holders) \in Nat
  <2>1. IsFiniteSet(Holders \cap D)
    BY HoldersFinite, FS_Subset
  <2> QED
    BY <1>3, <2>1, HoldersFinite, FS_Difference, FS_CardinalityType
<1>5. slots' = slots + Cardinality(Holders \cap D)
  BY <1>1, <1>2 DEF FailsWith, PermitsOf
<1>6. slots' \in Nat /\ slots' + Cardinality(Holders') = slots + Cardinality(Holders)
  BY <1>0, <1>4, <1>5
<1>7. PermitsConserved' /\ slots' \in 0..BuildSlots
  BY <1>6, PermitsStay
<1>8. TypeOK'
  <2>1. fut' \in [Prepares -> [Reqs -> Futures]]
    <3>1. [q \in Reqs |-> IF q \in T THEN "err" ELSE fut[Root][q]] \in [Reqs -> Futures]
      BY <1>0, Typed DEF TypeOK, Futures
    <3> QED
      BY <1>0, <1>1, <3>1, NewTyped DEF TypeOK, FailsWith
  <2>2. phase' \in [Prepares -> Phases]
    BY <1>0, <1>1 DEF TypeOK, FailsWith, Phases
  <2> QED
    BY <1>0, <1>1, <1>7, <2>1, <2>2 DEF TypeOK, FailsWith
<1>9. BuildsRegistered'
  BY <1>0, <1>1, Typed DEF BuildsRegistered, FailsWith, Outermost
<1> QED
  BY <1>7, <1>8, <1>9 DEF PermitInv

LEMMA PermitsFutures ==
  ASSUME PermitInv, NEW c \in Prepares, NEW r \in Reqs,
         Registers(c, r) \/ Joins(c, r) \/ Submits(c, r)
  PROVE  PermitInv'
<1>0. TypeOK /\ BuildsRegistered /\ slots \in Nat /\ IdOf[r] \in Ids /\ Root \notin Ids
      /\ Ids \subseteq Prepares /\ Sources \subseteq Ids
  BY Typed DEF PermitInv
<1>1. fut' \in [Prepares -> [Reqs -> Futures]]
  BY <1>0 DEF TypeOK, Futures, Registers, Joins, Submits
<1>2. entry' \in [Ids -> {"absent", "waiting", "ok", "err"}] /\ cached' \subseteq Ids
  BY <1>0 DEF TypeOK, Registers, Joins, Submits
<1>s. \/ UNCHANGED <<phase, stack>>
      \/ \E l \in {"setup", "idle"}, st \in SUBSET Ids :
           /\ IdOf[r] \in Sources /\ (l = "setup" => entry'[IdOf[r]] = "waiting")
           /\ phase' = [phase EXCEPT ![IdOf[r]] = l]
           /\ stack' = [stack EXCEPT ![IdOf[r]] = st]
  <2>1. CASE Registers(c, r)
    <3>1. stack[c] \cup {IdOf[r]} \in SUBSET Ids /\ entry'[IdOf[r]] = "waiting"
      BY <1>0, <2>1 DEF TypeOK, Registers
    <3> QED
      BY <2>1, <3>1 DEF Registers
  <2>2. CASE Joins(c, r) \/ Submits(c, r)
    BY <2>2 DEF Joins, Submits
  <2> QED
    BY <2>1, <2>2
<1>3. phase' \in [Prepares -> Phases] /\ stack' \in [Prepares -> SUBSET Ids]
  BY <1>0, <1>s DEF TypeOK, Phases
<1>e. \A i \in Ids : entry[i] # "absent" => entry'[i] # "absent"
  BY <1>0 DEF TypeOK, Registers, Joins, Submits
<1>4. BuildsRegistered'
  <2>1. CASE UNCHANGED <<phase, stack>>
    BY <1>0, <1>e, <2>1 DEF BuildsRegistered
  <2>2. CASE ~UNCHANGED <<phase, stack>>
    <3>1. PICK l \in {"setup", "idle"} :
             /\ IdOf[r] \in Sources /\ (l = "setup" => entry'[IdOf[r]] = "waiting")
             /\ phase' = [phase EXCEPT ![IdOf[r]] = l]
      BY <1>s, <2>2
    <3>2. /\ phase'[IdOf[r]] = l
          /\ \A d \in Prepares : d # IdOf[r] => phase'[d] = phase[d]
      BY <1>0, <3>1 DEF TypeOK
    <3> QED
      BY <1>0, <1>e, <3>1, <3>2, Typed DEF BuildsRegistered, Outermost
  <2> QED
    BY <2>1, <2>2
<1>5. slots' \in Nat /\ slots' + Cardinality(Holders') = slots + Cardinality(Holders)
  <2>1. CASE UNCHANGED slots
    <3>1. Holders' = Holders
      <4>1. CASE Registers(c, r)
        BY <1>0, <4>1 DEF Registers, Holders, BuildsRegistered, TypeOK
      <4>2. CASE Joins(c, r) \/ Submits(c, r)
        BY <1>0, <2>1, <4>2 DEF Joins, Submits, Holders
      <4> QED
        BY <4>1, <4>2
    <3> QED
      BY <1>0, <2>1, <3>1
  <2>2. CASE slots' # slots
    <3>1. /\ phase[IdOf[r]] = "building" /\ slots' = slots + 1
          /\ phase' = [phase EXCEPT ![IdOf[r]] = "idle"]
      BY <2>2 DEF Registers, Joins, Submits
    <3>2. Holders' = Holders \ {IdOf[r]} /\ IdOf[r] \in Holders
      BY <1>0, <3>1 DEF Holders, TypeOK
    <3>3. Cardinality(Holders') = Cardinality(Holders) - 1 /\ Cardinality(Holders) \in Nat
      BY <3>2, HoldersFinite, FS_RemoveElement
    <3> QED
      BY <1>0, <3>1, <3>3
  <2> QED
    BY <2>1, <2>2
<1>6. PermitsConserved' /\ slots' \in 0..BuildSlots
  BY <1>5, PermitsStay
<1>7. job' = job /\ wanted' = wanted
  BY DEF Registers, Joins, Submits
<1>8. TypeOK'
  BY <1>0, <1>1, <1>2, <1>3, <1>6, <1>7 DEF TypeOK
<1> QED
  BY <1>4, <1>6, <1>8 DEF PermitInv

LEMMA PermitsBuild ==
  ASSUME PermitInv, NEW i \in Sources,
         Prepared(i) \/ Installed(i) \/ NothingNew(i) \/ TakeSlot(i)
  PROVE  PermitInv'
<1>0. TypeOK /\ BuildsRegistered /\ slots \in Nat /\ i \in Ids /\ Root \notin Ids
      /\ Ids \subseteq Prepares
  BY Typed DEF PermitInv
<1>1. fut' \in [Prepares -> [Reqs -> Futures]]
  <2>1. CASE Prepared(i)
    <3>1. PICK rs : fut' = [fut EXCEPT ![i] = New(rs)]
      BY <2>1 DEF Prepared, Plans
    <3> QED
      BY <1>0, <3>1, NewTyped DEF TypeOK
  <2>2. CASE Installed(i) \/ NothingNew(i) \/ TakeSlot(i)
    BY <1>0, <2>2, NewTyped DEF TypeOK, Installed, NothingNew, TakeSlot
  <2> QED
    BY <2>1, <2>2
<1>p. PICK l : /\ phase' = [phase EXCEPT ![i] = l]
               /\ l \in {"env", "ask", "more", "queue", "asking", "building"}
               /\ phase[i] # "idle"
               /\ \/ phase[i] = "asking" /\ l \in {"more", "queue"} /\ slots' = slots + 1
                  \/ /\ phase[i] \in {"ask", "queue"} /\ l \in {"asking", "building"}
                     /\ slots > 0 /\ slots' = slots - 1
                  \/ phase[i] \in {"setup", "env", "more"} /\ l \in {"env", "ask", "queue"}
                     /\ slots' = slots
  <2>1. CASE phase[i] = "setup" /\ Plans(i, job.requires[i], "env", "ask", 0)
    <3>1. PICK l \in {"env", "ask"} : phase' = [phase EXCEPT ![i] = l]
      BY <2>1 DEF Plans
    <3>2. slots' = slots
      BY <1>0, <2>1 DEF Plans
    <3> QED
      BY <2>1, <3>1, <3>2
  <2>2. CASE phase[i] = "asking" /\ Plans(i, job.requires[i] \cup job.extra[i], "more", "queue", 1)
    BY <1>0, <2>2 DEF Plans
  <2>3. CASE Installed(i) \/ NothingNew(i) \/ TakeSlot(i)
    BY <1>0, <2>3 DEF Installed, NothingNew, TakeSlot
  <2> QED
    BY <2>1, <2>2, <2>3 DEF Prepared
<1>2. UNCHANGED <<job, wanted, entry, stack, cached>>
  BY DEF Prepared, Plans, Installed, NothingNew, TakeSlot
<1>3. phase' \in [Prepares -> Phases]
  BY <1>0, <1>p DEF TypeOK, Phases
<1>4. BuildsRegistered'
  BY <1>0, <1>2, <1>p DEF BuildsRegistered, Outermost, TypeOK
<1>5. slots' \in Nat /\ slots' + Cardinality(Holders') = slots + Cardinality(Holders)
  <2>1. CASE phase[i] = "asking"
    <3>1. Holders' = Holders \ {i} /\ i \in Holders /\ slots' = slots + 1
      BY <1>0, <1>p, <2>1 DEF Holders, TypeOK
    <3>2. Cardinality(Holders') = Cardinality(Holders) - 1 /\ Cardinality(Holders) \in Nat
      BY <3>1, HoldersFinite, FS_RemoveElement
    <3> QED
      BY <1>0, <3>1, <3>2
  <2>2. CASE phase[i] \in {"ask", "queue"}
    <3>1. Holders' = Holders \cup {i} /\ i \notin Holders /\ slots' = slots - 1 /\ slots > 0
      BY <1>0, <1>p, <2>2 DEF Holders, TypeOK
    <3>2. Cardinality(Holders') = Cardinality(Holders) + 1 /\ Cardinality(Holders) \in Nat
      BY <3>1, HoldersFinite, FS_AddElement
    <3> QED
      BY <1>0, <3>1, <3>2
  <2>3. CASE phase[i] \in {"setup", "env", "more"}
    <3>1. Holders' = Holders /\ slots' = slots
      BY <1>0, <1>p, <2>3 DEF Holders, TypeOK
    <3> QED
      BY <1>0, <3>1
  <2> QED
    BY <1>p, <2>1, <2>2, <2>3
<1>6. PermitsConserved' /\ slots' \in 0..BuildSlots
  BY <1>5, PermitsStay
<1>7. TypeOK'
  BY <1>0, <1>1, <1>2, <1>3, <1>6 DEF TypeOK
<1> QED
  BY <1>4, <1>6, <1>7 DEF PermitInv

LEMMA PermitsNext == PermitInv /\ [Next]_vars => PermitInv'
<1> SUFFICES ASSUME PermitInv, [Next]_vars PROVE PermitInv'
  OBVIOUS
<1>0. TypeOK /\ BuildsRegistered /\ Root \in Prepares /\ Root \notin Ids /\ Ids \subseteq Prepares
  BY Typed DEF PermitInv
<1>1. CASE Step
  <2>1. CASE Complete
    <3>1. TypeOK' /\ BuildsRegistered'
      BY <1>0, <2>1 DEF Complete, TypeOK, BuildsRegistered, Outermost, Phases
    <3>2. Holders' = Holders /\ slots' = slots
      BY <1>0, <2>1 DEF Complete, Holders, TypeOK
    <3>3. PermitsConserved'
      BY <3>2, PermitsAre DEF PermitInv
    <3> QED
      BY <3>1, <3>3 DEF PermitInv
  <2> QED
    BY <1>1, <2>1, StepIs, PermitsFail, PermitsFutures, PermitsBuild
<1>2. CASE UNCHANGED vars
  BY <1>2 DEF vars, PermitInv, TypeOK, BuildsRegistered, PermitsConserved, PermitsOf
<1> QED
  BY <1>1, <1>2 DEF Next, Return

\* The builds semaphore loses no permit and gains none, whatever fails while a
\* hook runs, and a build that is under way is registered.
THEOREM PermitsAreConserved == Spec => []PermitInv
BY PermitsInit, PermitsNext, PTL DEF Spec

------------------------------------------------------------------------------
(* Environments and results. *)

\* What a step of the future of r in c does to futures, phases and the cache.
LEMMA FutureMoves ==
  ASSUME PermitInv, NEW c \in Prepares, NEW r \in Reqs,
         Registers(c, r) \/ Joins(c, r) \/ Submits(c, r)
  PROVE  /\ job' = job /\ wanted' = wanted /\ cached \subseteq cached'
         /\ fut[c][r] \in {"new", "waiting", "owner"}
         /\ fut'[c][r] \in {"waiting", "owner", "ok"}
         /\ \A d \in Prepares, q \in Reqs : d # c \/ q # r => fut'[d][q] = fut[d][q]
         /\ phase'[Root] = phase[Root]
         /\ \A i \in Ids : phase'[i] = phase[i] \/ phase'[i] \in {"setup", "idle"}
<1>0. TypeOK /\ IdOf[r] \in Ids /\ Ids \subseteq Prepares /\ Root \notin Ids /\ Root \in Prepares
  BY Typed DEF PermitInv
<1>1. job' = job /\ wanted' = wanted /\ cached \subseteq cached'
  BY DEF Registers, Joins, Submits
<1>2. fut[c][r] \in {"new", "waiting", "owner"}
  BY DEF Registers, Joins, Submits
<1>3. PICK v \in {"waiting", "owner", "ok"} : fut' = [fut EXCEPT ![c][r] = v]
  BY DEF Registers, Joins, Submits
<1>4. /\ fut'[c][r] = v
      /\ \A d \in Prepares, q \in Reqs : d # c \/ q # r => fut'[d][q] = fut[d][q]
  BY <1>0, <1>3 DEF TypeOK
<1>5. phase' = phase \/ \E l \in {"setup", "idle"} : phase' = [phase EXCEPT ![IdOf[r]] = l]
  BY DEF Registers, Joins, Submits
<1>6. /\ phase'[Root] = phase[Root]
      /\ \A i \in Ids : phase'[i] = phase[i] \/ phase'[i] \in {"setup", "idle"}
  BY <1>0, <1>5 DEF TypeOK
<1> QED
  BY <1>1, <1>2, <1>3, <1>4, <1>6

LEMMA EnvFutures ==
  ASSUME PermitInv, EnvInv, NEW c \in Prepares, NEW r \in Reqs,
         Registers(c, r) \/ Joins(c, r) \/ Submits(c, r)
  PROVE  EnvInv'
<1>0. /\ TypeOK /\ IdOf[r] \in Ids /\ Ids \subseteq Prepares /\ Root \notin Ids
      /\ Root \in Prepares /\ Sources \subseteq Ids
      /\ \A i \in Sources : job.requires[i] \subseteq Reqs /\ job.extra[i] \subseteq Reqs
  BY Typed DEF PermitInv
<1>1. /\ job' = job /\ wanted' = wanted /\ cached \subseteq cached'
      /\ fut[c][r] \in {"new", "waiting", "owner"}
      /\ fut'[c][r] \in {"waiting", "owner", "ok"}
      /\ \A d \in Prepares, q \in Reqs : d # c \/ q # r => fut'[d][q] = fut[d][q]
      /\ phase'[Root] = phase[Root]
      /\ \A i \in Ids : phase'[i] = phase[i] \/ phase'[i] \in {"setup", "idle"}
  BY FutureMoves
<1>2. \A i \in Ids : entry'[i] = "ok" => i \in cached'
  BY <1>0, <1>1 DEF Registers, Joins, Submits, EnvInv, ResultsHold, TypeOK
<1>3. r \notin job.refused /\ (fut'[c][r] = "ok" => IdOf[r] \in cached' /\ r \notin job.misnamed)
  <2>1. CASE Registers(c, r)
    BY <1>0, <2>1 DEF Registers, TypeOK
  <2>2. CASE Joins(c, r)
    BY <1>0, <2>2 DEF Joins, EnvInv, ResultsHold, TypeOK
  <2>3. CASE Submits(c, r)
    BY <1>0, <2>3 DEF Submits, EnvInv, ResultsHold, TypeOK
  <2> QED
    BY <2>1, <2>2, <2>3
<1>4. ResultsHold'
  <2>1. ASSUME NEW d \in Prepares, NEW q \in Reqs
        PROVE  /\ fut'[d][q] = "ok" => IdOf[q] \in cached' /\ q \notin job'.misnamed
               /\ fut'[d][q] \in {"ok", "owner", "waiting"} => q \notin job'.refused
               /\ fut'[d][q] = "err" => d = Root
    <3>1. CASE d = c /\ q = r
      BY <1>1, <1>3, <3>1
    <3>2. CASE d # c \/ q # r
      BY <1>1, <3>2 DEF EnvInv, ResultsHold
    <3> QED
      BY <3>1, <3>2
  <2> QED
    BY <1>2, <2>1 DEF ResultsHold
<1>5. EnvsCovered'
  <2>1. \A i \in Ids, q \in Reqs : fut[i][q] # "none" => fut'[i][q] # "none"
    BY <1>0, <1>1
  <2> QED
    BY <1>0, <1>1, <2>1 DEF EnvInv, EnvsCovered
<1>6. WantedCovered'
  <2>1. ASSUME ~job.keepGoing, phase[Root] # "failed", NEW q \in wanted
        PROVE  fut'[Root][q] \notin {"none", "err"} /\ (phase[Root] = "done" => fut'[Root][q] = "ok")
    <3>1. /\ fut[Root][q] \notin {"none", "err"} /\ (phase[Root] = "done" => fut[Root][q] = "ok")
          /\ q \in Reqs
      <4>1. wanted \subseteq Reqs
        BY <1>0, Shape DEF TypeOK, JobType
      <4> QED
        BY <2>1, <4>1 DEF EnvInv, WantedCovered
    <3>2. CASE c = Root /\ q = r
      BY <1>1, <3>1, <3>2
    <3>3. CASE c # Root \/ q # r
      BY <1>0, <1>1, <3>1, <3>3
    <3> QED
      BY <3>2, <3>3
  <2> QED
    BY <1>1, <2>1 DEF WantedCovered
<1>7. HooksHaveEnv'
  BY <1>0, <1>1 DEF EnvInv, HooksHaveEnv
<1> QED
  BY <1>4, <1>5, <1>6, <1>7 DEF EnvInv

LEMMA EnvFail == ASSUME PermitInv, EnvInv, Fails PROVE EnvInv'
<1>0. TypeOK /\ Ids \subseteq Prepares /\ Root \notin Ids /\ Root \in Prepares /\ Sources \subseteq Ids
  BY Typed DEF PermitInv
<1>1. PICK D \in SUBSET Prepares, T \in SUBSET Reqs, K \in SUBSET Ids : FailsWith(D, T, K)
  BY DEF Fails
<1>2. /\ job' = job /\ wanted' = wanted /\ cached' = cached
      /\ \A i \in Ids : entry'[i] = "ok" => entry[i] = "ok"
      /\ \A d \in Prepares, q \in Reqs :
           \/ fut'[d][q] = fut[d][q] \/ fut'[d][q] = "none"
           \/ d = Root /\ fut'[d][q] = "err"
      /\ \A i \in Ids : phase'[i] = "idle" \/ (phase'[i] = phase[i] /\ fut'[i] = fut[i])
      /\ ~job.keepGoing => phase'[Root] = "failed"
  BY <1>0, <1>1 DEF FailsWith, NoFutures
<1>3. ResultsHold'
  BY <1>2 DEF EnvInv, ResultsHold
<1>4. EnvsCovered'
  BY <1>0, <1>2 DEF EnvInv, EnvsCovered
<1>5. WantedCovered'
  BY <1>2 DEF EnvInv, WantedCovered
<1>6. HooksHaveEnv'
  BY <1>0, <1>2 DEF EnvInv, HooksHaveEnv
<1> QED
  BY <1>3, <1>4, <1>5, <1>6 DEF EnvInv

LEMMA EnvBuild ==
  ASSUME PermitInv, EnvInv, NEW i \in Sources,
         Prepared(i) \/ Installed(i) \/ NothingNew(i) \/ TakeSlot(i)
  PROVE  EnvInv'
<1>0. /\ TypeOK /\ i \in Ids /\ i \in Prepares /\ Root \notin Ids /\ Root \in Prepares
      /\ Sources \subseteq Ids /\ Ids \subseteq Prepares
      /\ \A j \in Sources : job.requires[j] \subseteq Reqs /\ job.extra[j] \subseteq Reqs
  BY Typed DEF PermitInv
<1>1. UNCHANGED <<job, wanted, entry, cached>>
  BY DEF Prepared, Plans, Installed, NothingNew, TakeSlot
<1>2. /\ \A d \in Prepares \ {i} : phase'[d] = phase[d] /\ fut'[d] = fut[d]
      /\ \/ fut'[i] = fut[i]
         \/ \A q \in Reqs : fut'[i][q] \in {"none", "new"}
  <2>1. CASE Prepared(i)
    <3>1. PICK rs, l : fut' = [fut EXCEPT ![i] = New(rs)] /\ phase' = [phase EXCEPT ![i] = l]
      BY <2>1 DEF Prepared, Plans
    <3> QED
      BY <1>0, <3>1 DEF New, TypeOK
  <2>2. CASE Installed(i)
    BY <1>0, <2>2 DEF Installed, NoFutures, TypeOK
  <2>3. CASE NothingNew(i) \/ TakeSlot(i)
    BY <1>0, <2>3 DEF NothingNew, TakeSlot, TypeOK
  <2> QED
    BY <2>1, <2>2, <2>3
<1>3. ResultsHold'
  <2>1. \A d \in Prepares, q \in Reqs : fut'[d][q] = fut[d][q] \/ fut'[d][q] \in {"none", "new"}
    BY <1>0, <1>2
  <2> QED
    BY <1>1, <2>1 DEF EnvInv, ResultsHold
<1>4. WantedCovered'
  BY <1>0, <1>1, <1>2 DEF EnvInv, WantedCovered
\* The build that moves: what is not cached has a future, and when all have one
\* everything is cached.
<1>5. /\ phase'[i] = "env" =>
           \A r \in job.requires[i] : IdOf[r] \in cached \/ fut'[i][r] # "none"
      /\ phase'[i] = "more" =>
           \A r \in job.requires[i] \cup job.extra[i] : IdOf[r] \in cached \/ fut'[i][r] # "none"
      /\ phase'[i] \in {"ask", "asking"} => {IdOf[r] : r \in job.requires[i]} \subseteq cached
      /\ phase'[i] \in {"queue", "building"} =>
           {IdOf[r] : r \in job.requires[i] \cup job.extra[i]} \subseteq cached
  <2>1. ASSUME NEW reqs \in SUBSET Reqs, NEW l, NEW n, NEW k, Plans(i, reqs, l, n, k), l # n
        PROVE  \/ phase'[i] = n /\ \A r \in reqs : IdOf[r] \in cached
               \/ phase'[i] = l /\ \A r \in reqs : IdOf[r] \in cached \/ fut'[i][r] = "new"
    <3>1. PICK remote : remote = {r \in reqs : IdOf[r] \notin cached}
      OBVIOUS
    <3>2. /\ phase'[i] = (IF remote = {} THEN n ELSE l)
          /\ fut'[i] = New(remote)
      BY <1>0, <2>1, <3>1 DEF Plans, TypeOK
    <3> QED
      BY <3>1, <3>2 DEF New
  <2>2. CASE phase[i] = "setup" /\ Plans(i, job.requires[i], "env", "ask", 0)
    <3>1. \/ phase'[i] = "ask" /\ \A r \in job.requires[i] : IdOf[r] \in cached
          \/ phase'[i] = "env" /\ \A r \in job.requires[i] : IdOf[r] \in cached \/ fut'[i][r] = "new"
      BY <1>0, <2>1, <2>2
    <3> QED
      BY <3>1
  <2>3. CASE phase[i] = "asking" /\ Plans(i, job.requires[i] \cup job.extra[i], "more", "queue", 1)
    <3>1. job.requires[i] \cup job.extra[i] \in SUBSET Reqs
      BY <1>0
    <3>2. \/ /\ phase'[i] = "queue"
             /\ \A r \in job.requires[i] \cup job.extra[i] : IdOf[r] \in cached
          \/ /\ phase'[i] = "more"
             /\ \A r \in job.requires[i] \cup job.extra[i] : IdOf[r] \in cached \/ fut'[i][r] = "new"
      BY <2>1, <2>3, <3>1
    <3> QED
      BY <3>2
  <2>4. CASE Installed(i)
    <3>1. \A r \in Reqs : fut[i][r] \in {"none", "ok"} /\ (fut[i][r] = "ok" => IdOf[r] \in cached)
      BY <1>0, <2>4 DEF Installed, AllReady, EnvInv, ResultsHold
    <3>2. \/ phase[i] = "env" /\ phase'[i] = "ask"
          \/ phase[i] = "more" /\ phase'[i] = "queue"
      BY <1>0, <2>4 DEF Installed, TypeOK
    <3>3. /\ phase[i] = "env" => \A r \in job.requires[i] : IdOf[r] \in cached
          /\ phase[i] = "more" => \A r \in job.requires[i] \cup job.extra[i] : IdOf[r] \in cached
      BY <1>0, <3>1 DEF EnvInv, EnvsCovered
    <3> QED
      BY <3>2, <3>3
  <2>5. CASE NothingNew(i)
    <3>1. phase'[i] = "queue" /\ job.requires[i] \cup job.extra[i] = job.requires[i]
      BY <1>0, <2>5 DEF NothingNew, TypeOK
    <3>2. {IdOf[r] : r \in job.requires[i]} \subseteq cached
      BY <2>5 DEF NothingNew, EnvInv, HooksHaveEnv
    <3> QED
      BY <3>1, <3>2
  <2>6. CASE TakeSlot(i)
    <3>1. \/ phase[i] = "ask" /\ phase'[i] = "asking"
          \/ phase[i] = "queue" /\ phase'[i] = "building"
      BY <1>0, <2>6 DEF TakeSlot, TypeOK
    <3> QED
      BY <3>1 DEF EnvInv, HooksHaveEnv
  <2> QED
    BY <2>2, <2>3, <2>4, <2>5, <2>6 DEF Prepared
<1>6. EnvsCovered'
  BY <1>0, <1>1, <1>2, <1>5 DEF EnvInv, EnvsCovered
<1>7. HooksHaveEnv'
  BY <1>0, <1>1, <1>2, <1>5 DEF EnvInv, HooksHaveEnv
<1> QED
  BY <1>3, <1>4, <1>6, <1>7 DEF EnvInv

LEMMA EnvNext == PermitInv /\ EnvInv /\ [Next]_vars => EnvInv'
<1> SUFFICES ASSUME PermitInv, EnvInv, [Next]_vars PROVE EnvInv'
  OBVIOUS
<1>1. CASE Complete
  <2>0. TypeOK /\ Ids \subseteq Prepares /\ Root \notin Ids /\ Root \in Prepares /\ Sources \subseteq Ids
    BY Typed DEF PermitInv
  <2>1. /\ UNCHANGED <<job, wanted, entry, fut, stack, cached, slots>>
        /\ phase'[Root] = "done" /\ phase[Root] = "preparing" /\ AllReady(Root)
        /\ \A i \in Ids : phase'[i] = phase[i]
    BY <1>1, <2>0 DEF Complete, TypeOK
  <2>2. ResultsHold' /\ EnvsCovered' /\ HooksHaveEnv'
    BY <2>0, <2>1 DEF EnvInv, ResultsHold, EnvsCovered, HooksHaveEnv
  <2>3. WantedCovered'
    <3>1. wanted \subseteq Reqs
      BY <2>0, Shape DEF TypeOK, JobType
    <3> QED
      BY <2>1, <3>1 DEF EnvInv, WantedCovered, AllReady
  <2> QED
    BY <2>2, <2>3 DEF EnvInv
<1>2. CASE Step
  BY <1>1, <1>2, StepIs, EnvFail, EnvFutures, EnvBuild
<1>3. CASE UNCHANGED vars
  BY <1>3 DEF vars, EnvInv, ResultsHold, EnvsCovered, WantedCovered, HooksHaveEnv
<1> QED
  BY <1>2, <1>3 DEF Next, Return

LEMMA EnvInit == Init => EnvInv
<1> SUFFICES ASSUME Init PROVE EnvInv
  OBVIOUS
<1>0. TypeOK /\ Ids \subseteq Prepares /\ Root \notin Ids /\ Root \in Prepares /\ Sources \subseteq Ids
  BY PermitsInit, Typed DEF PermitInv
<1>1. /\ \A c \in Prepares, r \in Reqs : fut[c][r] \in {"none", "new"}
      /\ \A r \in wanted : r \in Reqs => fut[Root][r] = "new"
  BY <1>0 DEF Init, New, NoFutures
<1>2. wanted \subseteq Reqs
  BY <1>0, Shape DEF TypeOK, JobType
<1>3. phase[Root] = "preparing" /\ \A i \in Ids : phase[i] = "idle" /\ entry[i] = "absent"
  BY <1>0 DEF Init
<1> QED
  BY <1>0, <1>1, <1>2, <1>3 DEF EnvInv, ResultsHold, EnvsCovered, WantedCovered, HooksHaveEnv

\* With every failure and every sharing of downloads between builds, what a build
\* requires is cached before a hook of its runs.
THEOREM EnvInductive == Spec => [](PermitInv /\ EnvInv)
<1>1. Init => PermitInv /\ EnvInv
  BY PermitsInit, EnvInit
<1>2. (PermitInv /\ EnvInv) /\ [Next]_vars => (PermitInv /\ EnvInv)'
  BY PermitsNext, EnvNext
<1> QED
  BY <1>1, <1>2, PTL DEF Spec

\* A build backend's hook runs only once everything the build asked for is prepared.
THEOREM HooksRunInFullEnv == Spec => []HooksHaveEnv
<1>1. EnvInv => HooksHaveEnv
  BY DEF EnvInv
<1> QED
  BY <1>1, EnvInductive, PTL

\* A prepare that returns has, for every request, the wheel of that name and version.
THEOREM PrepareReturnsWhatWasAsked == Spec => []ReturnsWhatWasAsked
<1>1. PermitInv /\ EnvInv => ReturnsWhatWasAsked
  <2> SUFFICES ASSUME PermitInv, EnvInv, phase[Root] = "done", ~job.keepGoing
               PROVE  /\ wanted \cap (job.misnamed \cup job.refused) = {}
                      /\ {IdOf[r] : r \in wanted} \subseteq cached
    BY DEF ReturnsWhatWasAsked
  <2>0. wanted \subseteq Reqs /\ Root \in Prepares
    BY Typed, Shape DEF PermitInv, TypeOK, JobType
  <2>1. \A r \in wanted : fut[Root][r] = "ok"
    BY DEF EnvInv, WantedCovered
  <2> QED
    BY <2>0, <2>1 DEF EnvInv, ResultsHold
<1> QED
  BY <1>1, EnvInductive, PTL

------------------------------------------------------------------------------
(* The owners of the entries in flight. *)

\* After an error, or once the outermost prepare is over, there is nothing to show.
LEMMA OverStays ==
  ASSUME PermitInv, Over, [Next]_vars PROVE Over'
<1>0. TypeOK /\ Root \in Prepares /\ Root \notin Ids /\ Ids \subseteq Prepares /\ Sources \subseteq Ids
  BY Typed DEF PermitInv
<1>1. CASE Fails
  BY <1>0, <1>1 DEF Fails, FailsWith, Over
<1>2. ASSUME NEW c \in Prepares, NEW r \in Reqs, Registers(c, r) \/ Joins(c, r) \/ Submits(c, r)
      PROVE  Over'
  BY <1>2, FutureMoves DEF Over
<1>3. ASSUME NEW i \in Sources, Prepared(i) \/ Installed(i) \/ NothingNew(i) \/ TakeSlot(i)
      PROVE  Over'
  <2>1. PICK l : phase' = [phase EXCEPT ![i] = l]
    BY <1>3 DEF Prepared, Plans, Installed, NothingNew, TakeSlot
  <2> QED
    BY <1>0, <2>1 DEF Over, TypeOK
<1>4. CASE Complete
  BY <1>4 DEF Complete, Over
<1>5. CASE UNCHANGED vars
  BY <1>5 DEF vars, Over
<1> QED
  BY <1>1, <1>2, <1>3, <1>4, <1>5, StepIs DEF Next, Return

\* What OwnerInv says while the command runs.
LEMMA OwnersAre ==
  ASSUME OwnerInv, ~Over
  PROVE  /\ \A i \in Ids : entry[i] = "waiting" =>
              \/ job.keepGoing /\ (\E q \in Reqs : fut[Root][q] = "err") /\ Required(i)
              \/ \E d \in Prepares, q \in Reqs : Owns(d, q) /\ IdOf[q] = i
         /\ \A d \in Prepares, q \in Reqs :
              Owns(d, q) => entry[IdOf[q]] # "absent" /\ phase[d] \in Polling
         /\ \A d, e \in Prepares, q, p \in Reqs :
              Owns(d, q) /\ Owns(e, p) /\ IdOf[q] = IdOf[p] => d = e /\ q = p
         /\ \A q \in Reqs : fut[Root][q] = "err" =>
              q \in job.refused \/ entry[IdOf[q]] \in {"ok", "err"}
         /\ \A i \in Ids : phase[i] \notin Polling => fut[i] = NoFutures
         /\ \A i \in Ids, q \in Reqs : fut[i][q] # "none" =>
              i \in Sources /\ q \in job.requires[i] \cup job.extra[i]
BY DEF OwnerInv

\* A future that registers becomes the one owner; one that submits leaves a result.
LEMMA OwnersFutures ==
  ASSUME PermitInv, OwnerInv, ~Over, NEW c \in Prepares, NEW r \in Reqs,
         Registers(c, r) \/ Joins(c, r) \/ Submits(c, r)
  PROVE  OwnerInv'
<1>0. /\ TypeOK /\ BuildsRegistered /\ IdOf[r] \in Ids /\ Ids \subseteq Prepares
      /\ Root \notin Ids /\ Root \in Prepares /\ Sources \subseteq Ids
      /\ \A q \in Reqs : IdOf[q] \in Ids
  BY Typed DEF PermitInv
<1>1. /\ fut[c][r] \in {"new", "waiting", "owner"}
      /\ fut'[c][r] \in {"waiting", "owner", "ok"}
      /\ \A d \in Prepares, q \in Reqs : d # c \/ q # r => fut'[d][q] = fut[d][q]
      /\ job' = job
  BY FutureMoves
<1>o. /\ \A i \in Ids : entry[i] = "waiting" =>
            \/ job.keepGoing /\ (\E q \in Reqs : fut[Root][q] = "err") /\ Required(i)
            \/ \E d \in Prepares, q \in Reqs : Owns(d, q) /\ IdOf[q] = i
      /\ \A d \in Prepares, q \in Reqs :
            Owns(d, q) => entry[IdOf[q]] # "absent" /\ phase[d] \in Polling
      /\ \A d, e \in Prepares, q, p \in Reqs :
            Owns(d, q) /\ Owns(e, p) /\ IdOf[q] = IdOf[p] => d = e /\ q = p
      /\ \A q \in Reqs : fut[Root][q] = "err" =>
            q \in job.refused \/ entry[IdOf[q]] \in {"ok", "err"}
      /\ \A i \in Ids : phase[i] \notin Polling => fut[i] = NoFutures
      /\ \A i \in Ids, q \in Reqs : fut[i][q] # "none" =>
            i \in Sources /\ q \in job.requires[i] \cup job.extra[i]
  BY OwnersAre
<1>p. phase[c] \in Polling
  BY <1>o DEF Registers, Joins, Submits, Owns
\* The phases that change are not polled, before and after.
<1>2. /\ \A d \in Prepares : phase'[d] = phase[d] \/ (d \in Ids /\ phase[d] \notin Polling /\ phase'[d] \notin Polling)
  <2>1. CASE Registers(c, r)
    <3>1. phase[IdOf[r]] = "idle"
      BY <1>0, <2>1 DEF BuildsRegistered, Registers
    <3> QED
      BY <1>0, <2>1, <3>1 DEF Registers, TypeOK, Polling
  <2>2. CASE Joins(c, r)
    BY <2>2 DEF Joins
  <2>3. CASE Submits(c, r)
    BY <1>0, <2>3 DEF Submits, TypeOK, Polling
  <2> QED
    BY <2>1, <2>2, <2>3
<1>3. \A i \in Ids : phase'[i] \notin Polling => fut'[i] = NoFutures
  <2>1. ASSUME NEW i \in Ids, phase'[i] \notin Polling PROVE fut'[i] = NoFutures
    <3>1. phase[i] \notin Polling /\ fut[i] = NoFutures
      BY <1>0, <1>2, <1>o, <2>1
    <3>2. i # c
      BY <1>p, <3>1
    <3>3. fut'[i] = fut[i]
      BY <1>0, <3>2 DEF Registers, Joins, Submits, TypeOK
    <3> QED
      BY <3>1, <3>3
  <2> QED
    BY <2>1
<1>4. ASSUME NEW d \in Prepares, NEW q \in Reqs, Owns(d, q)' PROVE phase'[d] \in Polling
  <2>1. phase[d] \in Polling
    BY <1>1, <1>4, <1>o, <1>p DEF Owns
  <2> QED
    BY <1>2, <2>1
<1>5. \A i \in Ids, q \in Reqs : fut'[i][q] # "none" =>
         i \in Sources /\ q \in job'.requires[i] \cup job'.extra[i]
  <2>1. \A i \in Ids, q \in Reqs : fut'[i][q] # "none" => fut[i][q] # "none"
    BY <1>0, <1>1
  <2> QED
    BY <1>1, <1>o, <2>1
<1>6. /\ \A q \in Reqs : fut'[Root][q] = "err" <=> fut[Root][q] = "err"
      /\ \A i : Required(i)' <=> Required(i)
  BY <1>0, <1>1 DEF Required
<1>7. \A q \in Reqs : fut'[Root][q] = "err" =>
         q \in job'.refused \/ entry'[IdOf[q]] \in {"ok", "err"}
  <2>1. \A i \in Ids : entry[i] \in {"ok", "err"} => entry'[i] \in {"ok", "err"}
    BY <1>0 DEF Registers, Joins, Submits, TypeOK
  <2> QED
    BY <1>0, <1>1, <1>6, <1>o, <2>1
<1>8. /\ \A i \in Ids : entry'[i] = "waiting" =>
            \/ job.keepGoing /\ (\E q \in Reqs : fut[Root][q] = "err") /\ Required(i)
            \/ \E d \in Prepares, q \in Reqs : Owns(d, q)' /\ IdOf[q] = i
      /\ \A d \in Prepares, q \in Reqs : Owns(d, q)' => entry'[IdOf[q]] # "absent"
      /\ \A d, e \in Prepares, q, p \in Reqs :
            Owns(d, q)' /\ Owns(e, p)' /\ IdOf[q] = IdOf[p] => d = e /\ q = p
  <2>1. CASE Registers(c, r)
    <3>1. /\ fut'[c][r] = "owner" /\ entry[IdOf[r]] = "absent" /\ entry'[IdOf[r]] = "waiting"
          /\ \A i \in Ids : i # IdOf[r] => entry'[i] = entry[i]
      BY <1>0, <2>1 DEF Registers, TypeOK
    <3>2. \A d \in Prepares, q \in Reqs : Owns(d, q) => IdOf[q] # IdOf[r]
      BY <1>o, <3>1
    <3>3. \A d \in Prepares, q \in Reqs : Owns(d, q)' <=> Owns(d, q) \/ (d = c /\ q = r)
      BY <1>1, <3>1 DEF Owns
    <3>4. \A i \in Ids : entry'[i] = "waiting" =>
             \/ job.keepGoing /\ (\E q \in Reqs : fut[Root][q] = "err") /\ Required(i)
             \/ \E d \in Prepares, q \in Reqs : Owns(d, q)' /\ IdOf[q] = i
      BY <1>o, <3>1, <3>3
    <3>5. \A d \in Prepares, q \in Reqs : Owns(d, q)' => entry'[IdOf[q]] # "absent"
      BY <1>0, <1>o, <3>1, <3>2, <3>3
    <3>6. \A d, e \in Prepares, q, p \in Reqs :
             Owns(d, q)' /\ Owns(e, p)' /\ IdOf[q] = IdOf[p] => d = e /\ q = p
      BY <1>o, <3>2, <3>3
    <3> QED
      BY <3>4, <3>5, <3>6
  <2>2. CASE Joins(c, r)
    <3>1. \A d \in Prepares, q \in Reqs : Owns(d, q)' <=> Owns(d, q)
      BY <1>0, <1>1, <2>2 DEF Joins, Owns, TypeOK
    <3>2. entry' = entry
      BY <2>2 DEF Joins
    <3> QED
      BY <1>o, <3>1, <3>2
  <2>3. CASE Submits(c, r)
    <3>1. /\ Owns(c, r) /\ fut'[c][r] = "ok" /\ entry'[IdOf[r]] = "ok"
          /\ \A i \in Ids : i # IdOf[r] => entry'[i] = entry[i]
      BY <1>0, <2>3 DEF Submits, TypeOK, Owns
    <3>2. \A d \in Prepares, q \in Reqs : Owns(d, q)' <=> Owns(d, q) /\ (d # c \/ q # r)
      BY <1>1, <3>1 DEF Owns
    <3>3. \A d \in Prepares, q \in Reqs : Owns(d, q)' => IdOf[q] # IdOf[r]
      BY <1>o, <3>1, <3>2
    <3>4. \A i \in Ids : entry'[i] = "waiting" =>
             \/ job.keepGoing /\ (\E q \in Reqs : fut[Root][q] = "err") /\ Required(i)
             \/ \E d \in Prepares, q \in Reqs : Owns(d, q)' /\ IdOf[q] = i
      BY <1>0, <1>o, <3>1, <3>2
    <3>5. \A d \in Prepares, q \in Reqs : Owns(d, q)' => entry'[IdOf[q]] # "absent"
      BY <1>0, <1>o, <3>1, <3>2, <3>3
    <3> QED
      BY <1>o, <3>2, <3>4, <3>5
  <2> QED
    BY <2>1, <2>2, <2>3
<1> QED
  BY <1>1, <1>3, <1>4, <1>5, <1>6, <1>7, <1>8 DEF OwnerInv

\* The resolver goes on after an error: what was registered and not submitted on the
\* way up has its owner still, or lost it with a sibling's prepare.
LEMMA OwnersFail ==
  ASSUME PermitInv, OwnerInv, ~Over, ~Over', Fails
  PROVE  OwnerInv'
<1>0. /\ TypeOK /\ Ids \subseteq Prepares /\ Root \notin Ids /\ Root \in Prepares
      /\ \A q \in Reqs : IdOf[q] \in Ids
  BY Typed DEF PermitInv
<1>1. PICK D \in SUBSET Prepares, T \in SUBSET Reqs, K \in SUBSET Ids : FailsWith(D, T, K)
  BY DEF Fails
<1>2. job' = job /\ job.keepGoing /\ Root \notin D /\ (D # {} => T # {})
  BY <1>0, <1>1 DEF FailsWith, Over
<1>3. /\ \A i \in Ids : entry'[i] = IF i \in K THEN "err" ELSE entry[i]
      /\ \A d \in Ids, q \in Reqs : fut'[d][q] = IF d \in D THEN "none" ELSE fut[d][q]
      /\ \A d \in Ids : fut'[d] = IF d \in D THEN NoFutures ELSE fut[d]
      /\ \A q \in Reqs : fut'[Root][q] = IF q \in T THEN "err" ELSE fut[Root][q]
      /\ \A d \in Prepares : d \notin D => phase'[d] = phase[d]
  BY <1>0, <1>1, <1>2 DEF FailsWith, NoFutures
<1>4. \A q \in T : /\ fut[Root][q] = "owner" => IdOf[q] \in K
                   /\ IdOf[q] \in K \/ q \in job.refused \/ entry[IdOf[q]] \in {"ok", "err"}
  BY <1>1 DEF FailsWith
<1>o. /\ \A i \in Ids : entry[i] = "waiting" =>
            \/ job.keepGoing /\ (\E q \in Reqs : fut[Root][q] = "err") /\ Required(i)
            \/ \E d \in Prepares, q \in Reqs : Owns(d, q) /\ IdOf[q] = i
      /\ \A d \in Prepares, q \in Reqs :
            Owns(d, q) => entry[IdOf[q]] # "absent" /\ phase[d] \in Polling
      /\ \A d, e \in Prepares, q, p \in Reqs :
            Owns(d, q) /\ Owns(e, p) /\ IdOf[q] = IdOf[p] => d = e /\ q = p
      /\ \A q \in Reqs : fut[Root][q] = "err" =>
            q \in job.refused \/ entry[IdOf[q]] \in {"ok", "err"}
      /\ \A i \in Ids : phase[i] \notin Polling => fut[i] = NoFutures
      /\ \A i \in Ids, q \in Reqs : fut[i][q] # "none" =>
            i \in Sources /\ q \in job.requires[i] \cup job.extra[i]
  BY OwnersAre
<1>r. \A i : Required(i)' <=> Required(i)
  BY <1>2 DEF Required
<1>5. \A d \in Prepares, q \in Reqs : Owns(d, q)' => Owns(d, q) /\ d \notin D
  BY <1>0, <1>2, <1>3 DEF Owns, Prepares
<1>6. ASSUME NEW i \in Ids, entry'[i] = "waiting"
      PROVE  \/ (\E q \in Reqs : fut'[Root][q] = "err") /\ Required(i)
             \/ \E d \in Prepares, q \in Reqs : Owns(d, q)' /\ IdOf[q] = i
  <2>1. i \notin K /\ entry[i] = "waiting"
    BY <1>3, <1>6
  <2>2. CASE (\E q \in Reqs : fut[Root][q] = "err") /\ Required(i)
    BY <1>3, <2>2
  <2>3. CASE \E d \in Prepares, q \in Reqs : Owns(d, q) /\ IdOf[q] = i
    <3>1. PICK d \in Prepares, q \in Reqs : Owns(d, q) /\ IdOf[q] = i
      BY <2>3
    <3>2. CASE d = Root
      <4>1. q \notin T
        BY <1>4, <2>1, <3>1, <3>2 DEF Owns
      <4>2. Owns(Root, q)'
        BY <1>3, <3>1, <3>2, <4>1 DEF Owns
      <4> QED
        BY <1>0, <3>1, <4>2
    <3>3. CASE d # Root /\ d \in D
      <4>1. d \in Ids /\ fut[d][q] # "none"
        BY <3>1, <3>3 DEF Prepares, Owns
      <4>2. Required(i)
        BY <1>o, <3>1, <4>1 DEF Required
      <4>3. \E p \in Reqs : fut'[Root][p] = "err"
        BY <1>2, <1>3, <3>3
      <4> QED
        BY <4>2, <4>3
    <3>4. CASE d # Root /\ d \notin D
      <4>1. d \in Ids
        BY <3>4 DEF Prepares
      <4>2. Owns(d, q)'
        BY <1>3, <3>1, <3>4, <4>1 DEF Owns
      <4> QED
        BY <3>1, <4>2
    <3> QED
      BY <3>2, <3>3, <3>4
  <2> QED
    BY <1>o, <2>1, <2>2, <2>3
<1>7. \A d \in Prepares, q \in Reqs : Owns(d, q)' => entry'[IdOf[q]] # "absent" /\ phase'[d] \in Polling
  BY <1>0, <1>3, <1>5, <1>o
<1>8. \A d, e \in Prepares, q, p \in Reqs :
         Owns(d, q)' /\ Owns(e, p)' /\ IdOf[q] = IdOf[p] => d = e /\ q = p
  BY <1>5, <1>o
<1>9. \A q \in Reqs : fut'[Root][q] = "err" =>
         q \in job'.refused \/ entry'[IdOf[q]] \in {"ok", "err"}
  BY <1>0, <1>2, <1>3, <1>4, <1>o
<1>10. \A i \in Ids : phase'[i] \notin Polling => fut'[i] = NoFutures
  BY <1>0, <1>3, <1>o
<1>11. \A i \in Ids, q \in Reqs : fut'[i][q] # "none" =>
          i \in Sources /\ q \in job'.requires[i] \cup job'.extra[i]
  BY <1>2, <1>3, <1>o
<1> QED
  BY <1>2, <1>6, <1>7, <1>8, <1>9, <1>10, <1>11, <1>r DEF OwnerInv

\* A build moves when it owns nothing.
LEMMA OwnersBuild ==
  ASSUME PermitInv, OwnerInv, ~Over, NEW i \in Sources,
         Prepared(i) \/ Installed(i) \/ NothingNew(i) \/ TakeSlot(i)
  PROVE  OwnerInv'
<1>0. TypeOK /\ i \in Ids /\ Ids \subseteq Prepares /\ i \in Prepares /\ Root \in Prepares
      /\ Root \notin Ids
  BY Typed DEF PermitInv
<1>o. /\ \A j \in Ids : entry[j] = "waiting" =>
            \/ job.keepGoing /\ (\E q \in Reqs : fut[Root][q] = "err") /\ Required(j)
            \/ \E d \in Prepares, q \in Reqs : Owns(d, q) /\ IdOf[q] = j
      /\ \A d \in Prepares, q \in Reqs :
            Owns(d, q) => entry[IdOf[q]] # "absent" /\ phase[d] \in Polling
      /\ \A d, e \in Prepares, q, p \in Reqs :
            Owns(d, q) /\ Owns(e, p) /\ IdOf[q] = IdOf[p] => d = e /\ q = p
      /\ \A q \in Reqs : fut[Root][q] = "err" =>
            q \in job.refused \/ entry[IdOf[q]] \in {"ok", "err"}
      /\ \A j \in Ids : phase[j] \notin Polling => fut[j] = NoFutures
      /\ \A j \in Ids, q \in Reqs : fut[j][q] # "none" =>
            j \in Sources /\ q \in job.requires[j] \cup job.extra[j]
  BY OwnersAre
<1>1. entry' = entry /\ job' = job
  BY DEF Prepared, Plans, Installed, NothingNew, TakeSlot
\* Neither before nor after the step does the prepare of i own anything.
<1>2. /\ \A d \in Prepares \ {i} : phase'[d] = phase[d] /\ fut'[d] = fut[d]
      /\ \A q \in Reqs : fut[i][q] # "owner" /\ fut'[i][q] # "owner"
      /\ phase'[i] \notin Polling => fut'[i] = NoFutures
      /\ \A q \in Reqs : fut'[i][q] # "none" => q \in job.requires[i] \cup job.extra[i]
  <2>1. CASE Prepared(i)
    <3>1. PICK rs : /\ fut' = [fut EXCEPT ![i] = New(rs)]
                    /\ rs \subseteq job.requires[i] \cup job.extra[i]
                    /\ \/ phase' = [phase EXCEPT ![i] = "env"]
                       \/ phase' = [phase EXCEPT ![i] = "more"]
                       \/ rs = {} /\ phase' = [phase EXCEPT ![i] = "ask"]
                       \/ rs = {} /\ phase' = [phase EXCEPT ![i] = "queue"]
      BY <2>1 DEF Prepared, Plans
    <3>2. fut[i] = NoFutures
      BY <1>0, <1>o, <2>1 DEF Prepared, Polling
    <3>3. fut'[i] = New(rs) /\ (phase'[i] \notin Polling => rs = {})
      BY <1>0, <3>1 DEF Polling, TypeOK
    <3>4. New({}) = NoFutures
      BY DEF New, NoFutures
    <3> QED
      BY <1>0, <3>1, <3>2, <3>3, <3>4 DEF New, NoFutures, TypeOK
  <2>2. CASE Installed(i)
    BY <1>0, <2>2 DEF Installed, AllReady, NoFutures, TypeOK
  <2>3. CASE NothingNew(i) \/ TakeSlot(i)
    <3>1. fut[i] = NoFutures /\ fut' = fut
      BY <1>0, <1>o, <2>3 DEF NothingNew, TakeSlot, Polling
    <3>2. \A d \in Prepares \ {i} : phase'[d] = phase[d]
      BY <1>0, <2>3 DEF NothingNew, TakeSlot, TypeOK
    <3> QED
      BY <3>1, <3>2 DEF NoFutures
  <2> QED
    BY <2>1, <2>2, <2>3
<1>3. \A d \in Prepares, q \in Reqs : /\ Owns(d, q)' <=> Owns(d, q)
                                      /\ Owns(d, q)' => phase'[d] \in Polling
  BY <1>2, <1>o DEF Owns
<1>4. \A j \in Ids : phase'[j] \notin Polling => fut'[j] = NoFutures
  BY <1>0, <1>2, <1>o
<1>5. fut'[Root] = fut[Root]
  BY <1>0, <1>2
<1>6. \A j \in Ids, q \in Reqs : fut'[j][q] # "none" =>
         j \in Sources /\ q \in job'.requires[j] \cup job'.extra[j]
  BY <1>0, <1>1, <1>2, <1>o
<1>7. \A j : Required(j)' <=> Required(j)
  BY <1>1 DEF Required
<1> QED
  BY <1>1, <1>3, <1>4, <1>5, <1>6, <1>7, <1>o DEF OwnerInv

LEMMA OwnersNext == PermitInv /\ OwnerInv /\ [Next]_vars => OwnerInv'
<1> SUFFICES ASSUME PermitInv, OwnerInv, [Next]_vars PROVE OwnerInv'
  OBVIOUS
<1>1. CASE Over \/ Over'
  BY <1>1, OverStays DEF OwnerInv
<1>2. CASE ~Over /\ ~Over'
  <2>1. ~Complete
    BY <1>2, Typed DEF PermitInv, TypeOK, Complete, Over
  <2>2. CASE UNCHANGED vars
    BY <2>2 DEF vars, OwnerInv, Owns, Over, Required
  <2> QED
    BY <1>2, <2>1, <2>2, StepIs, OwnersFail, OwnersFutures, OwnersBuild DEF Next, Return
<1> QED
  BY <1>1, <1>2

LEMMA OwnersInit == Init => OwnerInv
<1> SUFFICES ASSUME Init PROVE OwnerInv
  OBVIOUS
<1>0. Ids \subseteq Prepares /\ Root \notin Ids /\ Root \in Prepares
  BY PermitsInit, Typed DEF PermitInv
<1> QED
  BY <1>0 DEF Init, OwnerInv, Owns, New, NoFutures

\* What OwnerInv says of entries without an owner, in the words of the property.
LEMMA OwnersSuffice ==
  ASSUME TypeOK, OwnerInv PROVE AbandonedBelowErrors
<1> SUFFICES ASSUME ~Over, NEW i \in Ids
             PROVE  Cardinality(Owners(i)) \in {0, 1} /\ (Abandoned(i) => SiblingFailed(i))
  BY DEF AbandonedBelowErrors
<1>1. \A x, y \in Owners(i) : x = y
  BY OwnersAre DEF Owners, Owns
<1>2. Cardinality(Owners(i)) \in {0, 1}
  <2>1. CASE Owners(i) = {}
    BY <2>1, FS_EmptySet
  <2>2. CASE Owners(i) # {}
    <3>1. PICK x : Owners(i) = {x}
      BY <1>1, <2>2
    <3> QED
      BY <3>1, FS_Singleton
  <2> QED
    BY <2>1, <2>2
<1>3. ASSUME Abandoned(i) PROVE SiblingFailed(i)
  <2>1. ~\E d \in Prepares, q \in Reqs : Owns(d, q) /\ IdOf[q] = i
    <3>1. ASSUME NEW d \in Prepares, NEW q \in Reqs, Owns(d, q), IdOf[q] = i PROVE FALSE
      <4>1. <<d, q>> \in Owners(i)
        BY <3>1, OwnersAre DEF Owners, Owns
      <4> QED
        BY <1>3, <4>1 DEF Abandoned
    <3> QED
      BY <3>1
  <2>2. entry[i] = "waiting"
    BY <1>3 DEF Abandoned
  <2>3. job.keepGoing /\ (\E q \in Reqs : fut[Root][q] = "err") /\ Required(i)
    BY <2>1, <2>2, OwnersAre
  <2>4. \A q \in Reqs \ job.refused : IdOf[q] = i => fut[Root][q] # "err"
    BY <2>2, OwnersAre
  <2> QED
    BY <2>3, <2>4 DEF SiblingFailed
<1> QED
  BY <1>2, <1>3

\* Every entry of InFlight.downloads that others wait for has exactly one future, in a
\* prepare that is polled, that will submit its result, except where try_collect
\* dropped it: under a resolver that goes on, for a build requirement, after the
\* failure of a request for something else.
THEOREM OwnersOrSiblingsFailed == Spec => []AbandonedBelowErrors
<1>1. Init => PermitInv /\ OwnerInv
  BY PermitsInit, OwnersInit
<1>2. (PermitInv /\ OwnerInv) /\ [Next]_vars => (PermitInv /\ OwnerInv)'
  BY PermitsNext, OwnersNext
<1>3. PermitInv /\ OwnerInv => AbandonedBelowErrors
  BY OwnersSuffice DEF PermitInv
<1> QED
  BY <1>1, <1>2, <1>3, PTL DEF Spec
==============================================================================
