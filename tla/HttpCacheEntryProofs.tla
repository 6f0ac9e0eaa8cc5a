------------------------- MODULE HttpCacheEntryProofs -------------------------
(***************************************************************************)
(* For any requests, versions and policies, and any interleaving of         *)
(* readers, replacements, refreshes and interruptions: a policy vouches for *)
(* the payload it stands with, and who asked the server returns a recent    *)
(* version, by induction on IInv; and only an interrupted or overlapped     *)
(* refresh leaves a torn file, by induction on AInv on top of it.           *)
(***************************************************************************)
EXTENDS HttpCacheEntry, SequenceTheorems, TLAPS

\* A function on 1..n is a sequence of length n.
LEMMA SeqOf ==
  ASSUME NEW S, NEW n \in Nat, NEW f \in [1..n -> S]
  PROVE  f \in Seq(S) /\ Len(f) = n
<1>1. f \in Seq(S)
  BY SeqDef
<1>2. DOMAIN f = 1..n /\ DOMAIN f = 1..Len(f) /\ Len(f) \in Nat
  BY <1>1, LenProperties
<1> QED
  BY <1>1, <1>2

LEMMA CellTypes ==
  /\ Zero \in Cells /\ Zero[1] = "zero"
  /\ \A k \in 1..MaxPolicies : Cell(k) \in Cells /\ Cell(k)[1] = "policy"
  /\ \A k \in 1..MaxPolicies, i \in Nat :
       /\ Footer(k, i) \in Cells
       /\ Footer(k, i)[1] = "footer" /\ Footer(k, i)[2] = k /\ Footer(k, i)[3] = i
BY HttpAssumption DEF Cells, Zero, Cell, Footer

\* serialize_policy: the cells of the policy, and then its footer.
LEMMA Tail0Is ==
  ASSUME policies \in Seq(Policies), Len(policies) <= MaxPolicies,
         NEW k \in 1..Len(policies), NEW i \in Nat
  PROVE  /\ Tail0(k, i) \in Seq(Cells)
         /\ policies[k].size \in 1..MaxSize
         /\ Len(Tail0(k, i)) = policies[k].size + 1
         /\ \A n \in 1..policies[k].size : Tail0(k, i)[n] = Cell(k)
         /\ Tail0(k, i)[policies[k].size + 1] = Footer(k, i)
<1> DEFINE m == policies[k].size
<1> DEFINE body == [n \in 1..m |-> Cell(k)]
<1>0. m \in 1..MaxSize /\ MaxSize \in Nat
  <2>1. policies[k] \in Policies
    BY ElementOfSeq
  <2> QED
    BY <2>1, HttpAssumption DEF Policies, Sizes
<1>1. k \in 1..MaxPolicies
  BY HttpAssumption, LenProperties
<1>2. Cell(k) \in Cells /\ Footer(k, i) \in Cells
  BY <1>1, CellTypes
<1>3. body \in [1..m -> Cells]
  BY <1>2
<1>4. m \in Nat
  BY <1>0
<1>5. body \in Seq(Cells) /\ Len(body) = m
  BY <1>3, <1>4, SeqOf
<1>6. Tail0(k, i) = Append(body, Footer(k, i))
  BY DEF Tail0
<1> HIDE DEF body
<1>7. /\ Tail0(k, i) \in Seq(Cells) /\ Len(Tail0(k, i)) = m + 1
      /\ \A n \in 1..m : Tail0(k, i)[n] = body[n]
      /\ Tail0(k, i)[m + 1] = Footer(k, i)
  BY <1>2, <1>4, <1>5, <1>6, AppendProperties
<1>8. \A n \in 1..m : body[n] = Cell(k)
  BY DEF body
<1> QED
  BY <1>0, <1>7, <1>8

\* A write at a position replaces that cell, and fills a gap with zeros.
LEMMA WriteAtIs ==
  ASSUME NEW tail \in Seq(Cells), NEW n \in Nat \ {0}, NEW cell \in Cells
  PROVE  /\ WriteAt(tail, n, cell) \in Seq(Cells)
         /\ Len(WriteAt(tail, n, cell)) = IF n > Len(tail) THEN n ELSE Len(tail)
         /\ \A m \in 1..Len(WriteAt(tail, n, cell)) :
              \/ m = n /\ WriteAt(tail, n, cell)[m] = cell
              \/ m \in 1..Len(tail) /\ WriteAt(tail, n, cell)[m] = tail[m]
              \/ WriteAt(tail, n, cell)[m] = Zero
<1> DEFINE l == IF n > Len(tail) THEN n ELSE Len(tail)
<1> DEFINE new == WriteAt(tail, n, cell)
<1>1. l \in Nat /\ Len(tail) \in Nat
  BY LenProperties
<1>2. \A m \in 1..Len(tail) : tail[m] \in Cells
  BY ElementOfSeq
<1>3. new \in [1..l -> Cells]
  BY <1>1, <1>2, CellTypes DEF WriteAt
<1>4. new \in Seq(Cells) /\ Len(new) = l
  BY <1>1, <1>3, SeqOf
<1>5. ASSUME NEW m \in 1..l
      PROVE  \/ m = n /\ new[m] = cell
             \/ m \in 1..Len(tail) /\ new[m] = tail[m]
             \/ new[m] = Zero
  BY <1>1 DEF WriteAt
<1> QED
  BY <1>4, <1>5

\* set_len keeps the beginning and fills up with zeros.
LEMMA CutToIs ==
  ASSUME NEW tail \in Seq(Cells), NEW n \in Nat
  PROVE  LET new == CutTo(tail, n)
         IN  /\ new \in Seq(Cells) /\ Len(new) = n
             /\ \A m \in 1..n : \/ m \in 1..Len(tail) /\ new[m] = tail[m]
                                \/ new[m] = Zero
<1> DEFINE new == CutTo(tail, n)
<1>1. Len(tail) \in Nat
  BY LenProperties
<1>2. \A m \in 1..Len(tail) : tail[m] \in Cells
  BY ElementOfSeq
<1>3. new \in [1..n -> Cells]
  BY <1>1, <1>2, CellTypes DEF CutTo
<1>4. new \in Seq(Cells) /\ Len(new) = n
  BY <1>3, SeqOf
<1>5. ASSUME NEW m \in 1..n
      PROVE  \/ m \in 1..Len(tail) /\ new[m] = tail[m]
             \/ new[m] = Zero
  BY <1>1 DEF CutTo
<1> QED
  BY <1>4, <1>5

\* Policies are only added, and the payload of a file never changes.
PoliciesGrow ==
    /\ policies' \in Seq(Policies) /\ Len(policies') <= MaxPolicies
    /\ Len(policies) <= Len(policies')
    /\ \A k \in 1..Len(policies) : policies'[k] = policies[k]
PayloadsStay ==
    /\ files' \in Seq(Files) /\ Len(files) <= Len(files')
    /\ \A i \in Inodes : files'[i].payload = files[i].payload

LEMMA SameGrow ==
  ASSUME TypeOK
  PROVE  /\ UNCHANGED policies => PoliciesGrow
         /\ UNCHANGED files => PayloadsStay
<1>1. Len(policies) \in Nat /\ Len(files) \in Nat
  BY LenProperties DEF TypeOK
<1> QED
  BY <1>1 DEF TypeOK, PoliciesGrow, PayloadsStay

LEMMA IssueGrows ==
  ASSUME TypeOK, NEW r \in Requests, Issue(r)
  PROVE  /\ PoliciesGrow
         /\ fresh'[r] = Len(policies) + 1 /\ fresh'[r] \in 1..Len(policies')
         /\ fresh' \in [Requests -> 0..Len(policies')]
         /\ policies'[fresh'[r]].version = version
         /\ UNCHANGED <<version, seen>>
<1>1. PICK s \in Shapes :
        policies' = Append(policies, [version |-> version, size |-> s.size,
                                      immutable |-> s.immutable])
  BY DEF Issue
<1> DEFINE new == [version |-> version, size |-> s.size, immutable |-> s.immutable]
<1>2. new \in Policies /\ new.version = version
  BY HttpAssumption DEF TypeOK, Policies, Sizes
<1> HIDE DEF new
<1>p. policies' = Append(policies, new)
  BY <1>1 DEF new
<1>3. policies \in Seq(Policies) /\ Len(policies) \in Nat /\ Len(policies) < MaxPolicies
  BY LenProperties DEF TypeOK, Issue
<1>4. /\ policies' \in Seq(Policies) /\ Len(policies') = Len(policies) + 1
      /\ \A k \in 1..Len(policies) : policies'[k] = policies[k]
      /\ policies'[Len(policies) + 1] = new
  BY <1>p, <1>2, <1>3, AppendProperties
<1>5. fresh' = [fresh EXCEPT ![r] = Len(policies) + 1] /\ fresh \in [Requests -> 0..Len(policies)]
  BY DEF Issue, TypeOK
<1>6. PoliciesGrow
  BY <1>3, <1>4, HttpAssumption DEF PoliciesGrow
<1> QED
  BY <1>2, <1>3, <1>4, <1>5, <1>6 DEF Issue

LEMMA VouchedStays ==
  ASSUME TypeOK, PoliciesGrow, PayloadsStay, NEW k, NEW i, Vouched(k, i)
  PROVE  Vouched(k, i)'
<1>1. Len(policies) \in Nat /\ Len(files) \in Nat /\ Len(policies') \in Nat /\ Len(files') \in Nat
  BY LenProperties DEF TypeOK, PoliciesGrow, PayloadsStay
<1> QED
  BY <1>1 DEF Vouched, Inodes, PoliciesGrow, PayloadsStay

LEMMA FootersStay ==
  ASSUME TypeOK, PoliciesGrow, PayloadsStay, NEW t, NEW i, FootersOf(t, i)
  PROVE  FootersOf(t, i)'
BY VouchedStays DEF FootersOf

\* One request's part of IInv.
Holds(r) ==
    /\ FootersOf(buf[r], fd[r])
    /\ pc[r] \in {"stat", "read"} => fd[r] \in Inodes
    /\ pc[r] \in {"stale", "reopen", "compare", "write"} =>
          Vouched(fresh[r], fd[r]) /\ payload[r] = files[fd[r]].payload
    /\ pc[r] \in {"store", "hit", "done"} =>
          fresh[r] \in 1..Len(policies) /\ policies[fresh[r]].version = payload[r]
    /\ pc[r] = "compare" => wfd[r] \in Inodes
    /\ pc[r] = "write" => wfd[r] = fd[r]
    /\ pc[r] = "start" => buf[r] = <<>>
    /\ pc[r] \notin {"start", "hit", "done", "dead"} => version \in seen[r]
    /\ pc[r] \in {"store", "reopen", "compare", "write"} => payload[r] \in seen[r]
    /\ pc[r] = "done" => payload[r] \in seen[r]
    /\ pc[r] = "hit" /\ mode[r] = "MustRevalidate" /\ ~policies[fresh[r]].immutable =>
          payload[r] \in seen[r]

FilesHold == \A i \in Inodes : FootersOf(files[i].tail, i)

LEMMA IInvParts == IInv <=> TypeOK /\ FilesHold /\ \A r \in Requests : Holds(r)
BY DEF IInv, FootersVouch, RequestsVouch, ResponsesSeen, RevalidatedIsRecent,
   Holds, FilesHold

LEMMA IInvPartsPrime == IInv' <=> TypeOK' /\ FilesHold' /\ \A r \in Requests : Holds(r)'
BY DEF IInv, FootersVouch, RequestsVouch, ResponsesSeen, RevalidatedIsRecent,
   Holds, FilesHold

\* A request that takes no step keeps its part, whatever the others write.
LEMMA OthersHold ==
  ASSUME TypeOK, PoliciesGrow, PayloadsStay, NEW r \in Requests, Holds(r),
         pc'[r] = pc[r], mode'[r] = mode[r], fd'[r] = fd[r], buf'[r] = buf[r],
         fresh'[r] = fresh[r], payload'[r] = payload[r], wfd'[r] = wfd[r],
         version' = version, seen'[r] = seen[r]
  PROVE  Holds(r)'
<1>0. /\ Len(policies) \in Nat /\ Len(files) \in Nat
      /\ Len(policies') \in Nat /\ Len(files') \in Nat
  BY LenProperties DEF TypeOK, PoliciesGrow, PayloadsStay
<1>1. FootersOf(buf[r], fd[r])'
  <2>1. FootersOf(buf[r], fd[r])
    BY DEF Holds
  <2> HIDE DEF Holds
  <2>2. \A n \in 1..Len(buf[r]) : buf[r][n][1] = "footer" =>
           buf[r][n][3] = fd[r] /\ Vouched(buf[r][n][2], fd[r])'
    BY <2>1, VouchedStays DEF FootersOf
  <2> QED
    BY <2>2 DEF FootersOf
<1>2. fd[r] \in Inodes => fd'[r] \in Inodes'
  BY <1>0 DEF Inodes, PayloadsStay
<1>3. Vouched(fresh[r], fd[r]) /\ payload[r] = files[fd[r]].payload =>
        Vouched(fresh[r], fd[r])' /\ payload'[r] = files'[fd'[r]].payload
  BY VouchedStays DEF Vouched, PayloadsStay
<1>4. fresh[r] \in 1..Len(policies) =>
        fresh'[r] \in 1..Len(policies') /\ policies'[fresh'[r]] = policies[fresh[r]]
  BY <1>0 DEF PoliciesGrow
<1>5. wfd[r] \in Inodes => wfd'[r] \in Inodes'
  BY <1>0 DEF Inodes, PayloadsStay
<1>6. pc[r] = "stale" => fresh[r] \in 1..Len(policies)
  BY DEF Holds, Vouched
<1> QED
  BY <1>1, <1>2, <1>3, <1>4, <1>5, <1>6 DEF Holds

\* A step of one request is its own: the others' variables stay.
LEMMA OwnStep ==
  ASSUME TypeOK, NEW q \in Requests, Step(q) \/ Die(q), NEW r \in Requests \ {q}
  PROVE  /\ pc'[r] = pc[r] /\ mode'[r] = mode[r] /\ fd'[r] = fd[r] /\ buf'[r] = buf[r]
         /\ fresh'[r] = fresh[r] /\ payload'[r] = payload[r] /\ wfd'[r] = wfd[r]
         /\ version' = version /\ seen'[r] = seen[r] /\ pos'[r] = pos[r]
<1> USE DEF TypeOK, server, disk, writer, Goto, Drop, Close, End, Refreshed
<1>1. CASE Open(q) \/ SkipCache(q) \/ Stat(q) \/ Read(q)
  BY <1>1 DEF Open, SkipCache, Stat, Read
<1>2. CASE DecodeBroken(q) \/ DecodeNoMatch(q) \/ RemoveBroken(q) \/ Unusable(q) \/ DontStore(q)
  BY <1>2 DEF DecodeBroken, DecodeNoMatch, RemoveBroken, Unusable, DontStore
<1>3. CASE DecodeFresh(q) \/ DecodeStale(q)
  BY <1>3 DEF DecodeFresh, DecodeStale, Decode
<1>4. CASE NotModified(q) \/ Modified(q) \/ FreshRequest(q)
  BY <1>4 DEF NotModified, Modified, FreshRequest, Issue
<1>5. CASE Store(q)
  BY <1>5 DEF Store
<1>6. CASE Reopen(q) \/ Compare(q)
  <2>1. CASE Refreshed(q) /\ UNCHANGED <<server, disk, mode, fresh, payload, deaths>>
    BY <2>1
  <2>2. CASE Reopen(q) /\ ~Refreshed(q)
    BY <2>2 DEF Reopen
  <2>3. CASE Compare(q) /\ ~Refreshed(q)
    BY <2>3 DEF Compare
  <2> QED
    BY <1>6, <2>1, <2>2, <2>3 DEF Reopen, Compare
<1>7. CASE Write(q)
  BY <1>7 DEF Write
<1>8. CASE SetLen(q)
  BY <1>8 DEF SetLen
<1>9. CASE Die(q)
  BY <1>9 DEF Die
<1> QED
  BY <1>1, <1>2, <1>3, <1>4, <1>5, <1>6, <1>7, <1>8, <1>9 DEF Step

\* What is left to show of a step that writes no file.
LEMMA QuietStep ==
  ASSUME IInv, NEW q \in Requests, Step(q) \/ Die(q), UNCHANGED files, PoliciesGrow,
         TypeOK', Holds(q)'
  PROVE  IInv'
<1>0. TypeOK /\ FilesHold /\ \A r \in Requests : Holds(r)
  BY IInvParts
<1>1. PayloadsStay
  BY <1>0, SameGrow
<1>2. FilesHold'
  <2>1. ASSUME NEW i \in Inodes PROVE FootersOf(files[i].tail, i)'
    <3>1. FootersOf(files[i].tail, i)
      BY <1>0 DEF FilesHold
    <3>2. \A n \in 1..Len(files[i].tail) : files[i].tail[n][1] = "footer" =>
             files[i].tail[n][3] = i /\ Vouched(files[i].tail[n][2], i)'
      BY <1>0, <1>1, <3>1, VouchedStays DEF FootersOf
    <3> QED
      BY <3>2 DEF FootersOf
  <2> QED
    BY <2>1 DEF FilesHold, Inodes
<1>3. ASSUME NEW r \in Requests PROVE Holds(r)'
  BY <1>0, <1>1, <1>3, OwnStep, OthersHold
<1> QED
  BY <1>2, <1>3, IInvPartsPrime

\* The lengths of what there is are numbers.
LEMMA Lengths ==
  ASSUME TypeOK
  PROVE  /\ Len(policies) \in Nat /\ Len(files) \in Nat /\ MaxTail \in Nat
         /\ \A i \in Inodes : files[i] \in Files /\ files[i].tail \in Seq(Cells)
                            /\ files[i].payload \in 0..MaxVersion
                            /\ Len(files[i].tail) \in 0..MaxTail
         /\ \A r \in Requests : Len(buf[r]) \in 0..MaxTail
<1>1. Len(policies) \in Nat /\ Len(files) \in Nat
  BY LenProperties DEF TypeOK
<1>2. MaxTail \in Nat
  BY HttpAssumption DEF MaxTail
<1>3. ASSUME NEW i \in Inodes
      PROVE  files[i] \in Files /\ files[i].tail \in Seq(Cells)
             /\ files[i].payload \in 0..MaxVersion /\ Len(files[i].tail) \in 0..MaxTail
  <2>1. files[i] \in Files
    BY ElementOfSeq DEF TypeOK, Inodes
  <2>2. files[i].tail \in Seq(Cells) /\ files[i].payload \in 0..MaxVersion
    BY <2>1 DEF Files
  <2>3. Len(files[i].tail) \in Nat /\ Len(files[i].tail) <= MaxTail
    BY <2>2, LenProperties DEF TypeOK
  <2> QED
    BY <1>2, <2>1, <2>2, <2>3
<1>4. ASSUME NEW r \in Requests PROVE Len(buf[r]) \in 0..MaxTail
  <2>1. buf[r] \in Seq(Cells) /\ Len(buf[r]) <= MaxTail
    BY DEF TypeOK
  <2>2. Len(buf[r]) \in Nat
    BY <2>1, LenProperties
  <2> QED
    BY <1>2, <2>1, <2>2
<1> QED
  BY <1>1, <1>2, <1>3, <1>4

LEMMA NoFooters == \A i : FootersOf(<<>>, i) /\ FootersOf(<<>>, i)' /\ Len(<<>>) = 0
BY DEF FootersOf

\* A request that ends, or gives up what it read, holds no file.
LEMMA EndIs ==
  ASSUME TypeOK, NEW q \in Requests, NEW l \in {"hit", "done", "broken", "request", "dead"}, End(q, l)
  PROVE  /\ pc'[q] = l /\ buf'[q] = <<>> /\ fd'[q] = 0 /\ wfd'[q] = 0
         /\ pc' \in [Requests -> {"start", "stat", "read", "stale", "broken", "request",
                                  "store", "reopen", "compare", "write", "hit", "done", "dead"}]
         /\ fd' \in [Requests -> 0..Len(files)] /\ wfd' \in [Requests -> 0..Len(files)]
         /\ size' \in [Requests -> 0..MaxTail] /\ pos' \in [Requests -> 0..MaxTail]
         /\ buf' \in [Requests -> Seq(Cells)] /\ \A r \in Requests : Len(buf'[r]) <= MaxTail
<1>1. /\ 0 \in 0..MaxTail /\ 0 \in 0..Len(files)
      /\ <<>> \in Seq(Cells) /\ Len(<<>>) = 0 /\ 0 <= MaxTail
  BY Lengths, EmptySeq
<1>2. pc'[q] = l /\ pc' \in [Requests -> {"start", "stat", "read", "stale", "broken", "request",
                              "store", "reopen", "compare", "write", "hit", "done", "dead"}]
  BY DEF TypeOK, End, Goto
<1>3. /\ fd' = [fd EXCEPT ![q] = 0] /\ wfd' = [wfd EXCEPT ![q] = 0]
      /\ size' = [size EXCEPT ![q] = 0] /\ pos' = [pos EXCEPT ![q] = 0]
      /\ buf' = [buf EXCEPT ![q] = <<>>]
  BY DEF End, Close, Drop
<1>4. /\ fd' \in [Requests -> 0..Len(files)] /\ wfd' \in [Requests -> 0..Len(files)]
      /\ size' \in [Requests -> 0..MaxTail] /\ pos' \in [Requests -> 0..MaxTail]
      /\ fd'[q] = 0 /\ wfd'[q] = 0
  BY <1>1, <1>3 DEF TypeOK
<1>5. /\ buf' \in [Requests -> Seq(Cells)] /\ buf'[q] = <<>>
      /\ \A r \in Requests : Len(buf'[r]) <= MaxTail
  BY <1>1, <1>3 DEF TypeOK
<1> QED
  BY <1>2, <1>4, <1>5

\* The server's resource changes, and the running requests see it.
LEMMA ChangeHolds == ASSUME IInv, Change PROVE IInv'
<1> USE DEF disk, writer
<1>0. TypeOK /\ FilesHold /\ \A r \in Requests : Holds(r)
  BY IInvParts
<1>1. version' \in 0..MaxVersion
  BY HttpAssumption DEF Change, IInv, TypeOK
<1>2. seen' \in [Requests -> SUBSET (0..MaxVersion)]
  BY <1>1 DEF Change, IInv, TypeOK
<1>3. TypeOK'
  BY <1>0, <1>1, <1>2 DEF Change, TypeOK, Inodes
<1>4. FilesHold'
  BY <1>0 DEF Change, FilesHold, FootersOf, Vouched, Inodes
<1>5. ASSUME NEW r \in Requests PROVE Holds(r)'
  <2>1. seen[r] \subseteq seen'[r]
    BY DEF Change
  <2>2. pc[r] \notin {"start", "hit", "done", "dead"} => version' \in seen'[r]
    BY DEF Change
  <2>3. FootersOf(buf[r], fd[r])'
    BY <1>0 DEF Change, Holds, FootersOf, Vouched, Inodes
  <2>4. Vouched(fresh[r], fd[r]) => Vouched(fresh[r], fd[r])'
    BY DEF Change, Vouched, Inodes
  <2> QED
    BY <1>0, <2>1, <2>2, <2>3, <2>4 DEF Change, Holds, Inodes
<1> QED
  BY <1>3, <1>4, <1>5, IInvPartsPrime

\* A request begins, with the file that the path names or without any.
LEMMA OpenHolds ==
  ASSUME IInv, NEW q \in Requests, Open(q) \/ SkipCache(q)
  PROVE  IInv'
<1> USE DEF disk, writer, Goto
<1>0. TypeOK /\ Holds(q) /\ version \in 0..MaxVersion /\ path \in 0..Len(files)
  BY IInvParts DEF TypeOK
<1>1. UNCHANGED <<files, policies>> /\ PoliciesGrow
  BY <1>0, SameGrow DEF Open, SkipCache
<1>2. TypeOK'
  <2>1. seen' \in [Requests -> SUBSET (0..MaxVersion)]
    <3>1. {version} \in SUBSET (0..MaxVersion) /\ seen \in [Requests -> SUBSET (0..MaxVersion)]
      BY <1>0 DEF TypeOK
    <3>2. seen' = [seen EXCEPT ![q] = {version}]
      BY DEF Open, SkipCache
    <3> QED
      BY <3>1, <3>2
  <2>2. CASE Open(q)
    <3>1. mode' \in [Requests -> Modes \cup {"None"}] /\ fd' \in [Requests -> 0..Len(files)]
      BY <1>0, <2>2 DEF Open, TypeOK
    <3>2. pc' \in [Requests -> {"start", "stat", "read", "stale", "broken", "request",
                               "store", "reopen", "compare", "write", "hit", "done", "dead"}]
      BY <1>0, <2>2 DEF Open, TypeOK
    <3> QED
      BY <1>0, <2>1, <2>2, <3>1, <3>2 DEF Open, TypeOK, Inodes
  <2>3. CASE SkipCache(q)
    BY <1>0, <2>1, <2>3 DEF SkipCache, TypeOK, Inodes
  <2> QED
    BY <2>2, <2>3
<1>3. Holds(q)'
  <2>1. buf'[q] = <<>> /\ pc'[q] \in {"request", "stat"} /\ version \in seen'[q]
    BY <1>0 DEF Open, SkipCache, TypeOK, Holds
  <2>2. pc'[q] = "stat" => fd'[q] \in Inodes'
    BY <1>0, <1>1, Lengths DEF Open, SkipCache, TypeOK, Inodes
  <2>3. version' = version
    BY DEF Open, SkipCache
  <2> QED
    BY <2>1, <2>2, <2>3, NoFooters DEF Holds
<1>4. Step(q)
  BY DEF Step
<1> QED
  BY <1>1, <1>2, <1>3, <1>4, QuietStep

\* The file is read cell by cell while others write to it.
LEMMA ReadHolds ==
  ASSUME IInv, NEW q \in Requests, Stat(q) \/ Read(q)
  PROVE  IInv'
<1> USE DEF server, disk, writer, Goto
<1>0. TypeOK /\ FilesHold /\ Holds(q) /\ fd[q] \in Inodes
  BY IInvParts DEF Stat, Read, Holds
<1>1. UNCHANGED <<files, policies>> /\ PoliciesGrow
  BY <1>0, SameGrow DEF Stat, Read
<1>2. Step(q)
  BY DEF Step
<1>3. CASE Stat(q)
  <2>1. Len(files[fd[q]].tail) \in 0..MaxTail
    BY <1>0, Lengths
  <2>2. TypeOK'
    BY <1>0, <1>3, <2>1 DEF Stat, TypeOK, Inodes
  <2>3. Holds(q)'
    <3>1. pc'[q] = "read" /\ pc[q] = "stat"
      BY <1>0, <1>3 DEF Stat, TypeOK
    <3>2. FootersOf(buf[q], fd[q])'
      BY <1>0, <1>3 DEF Stat, Holds, FootersOf, Vouched, Inodes
    <3> QED
      BY <1>0, <1>3, <3>1, <3>2 DEF Stat, Holds, Inodes
  <2> QED
    BY <1>1, <1>2, <2>2, <2>3, QuietStep
<1>4. CASE Read(q)
  <2> DEFINE n == Len(buf[q]) + 1
  <2> DEFINE cell == files[fd[q]].tail[n]
  <2>0. /\ buf[q] \in Seq(Cells) /\ Len(buf[q]) \in Nat /\ files[fd[q]].tail \in Seq(Cells)
        /\ Len(files[fd[q]].tail) \in 0..MaxTail /\ MaxTail \in Nat
        /\ Len(buf[q]) < Len(files[fd[q]].tail)
    <3>1. buf[q] \in Seq(Cells) /\ Len(buf[q]) < Len(files[fd[q]].tail)
      BY <1>0, <1>4 DEF TypeOK, Read
    <3>2. Len(buf[q]) \in Nat
      BY <3>1, LenProperties
    <3> QED
      BY <1>0, <3>1, <3>2, Lengths
  <2>1. n \in 1..Len(files[fd[q]].tail) /\ n <= MaxTail
    BY <2>0
  <2>2. cell \in Cells
    BY <2>0, <2>1, ElementOfSeq
  <2>3. buf' = [buf EXCEPT ![q] = Append(buf[q], cell)]
    BY <1>4 DEF Read
  <2>4. /\ Append(buf[q], cell) \in Seq(Cells) /\ Len(Append(buf[q], cell)) = n
        /\ \A m \in 1..Len(buf[q]) : Append(buf[q], cell)[m] = buf[q][m]
        /\ Append(buf[q], cell)[n] = cell
    BY <2>0, <2>2, AppendProperties
  <2>5. TypeOK'
    <3>1. buf' \in [Requests -> Seq(Cells)] /\ \A r \in Requests : Len(buf'[r]) <= MaxTail
      BY <1>0, <2>1, <2>3, <2>4 DEF TypeOK
    <3> QED
      BY <1>0, <1>4, <3>1 DEF Read, TypeOK, Inodes
  <2>6. buf'[q] = Append(buf[q], cell) /\ fd' = fd /\ pc' = pc /\ pc[q] = "read"
    BY <1>0, <1>4, <2>3 DEF Read, TypeOK
  <2>7. FootersOf(buf[q], fd[q])'
    <3>1. ASSUME NEW m \in 1..n, Append(buf[q], cell)[m][1] = "footer"
          PROVE  /\ Append(buf[q], cell)[m][3] = fd[q]
                 /\ Vouched(Append(buf[q], cell)[m][2], fd[q])
      <4>1. CASE m = n
        BY <1>0, <2>1, <2>4, <3>1, <4>1 DEF FilesHold, FootersOf
      <4>2. CASE m \in 1..Len(buf[q])
        BY <1>0, <2>4, <3>1, <4>2 DEF Holds, FootersOf
      <4> QED
        BY <2>0, <4>1, <4>2
    <3> QED
      BY <1>1, <2>4, <2>6, <3>1 DEF FootersOf, Vouched, Inodes
  <2>8. Holds(q)'
    BY <1>0, <1>4, <2>6, <2>7 DEF Read, Holds, Inodes
  <2> QED
    BY <1>1, <1>2, <2>5, <2>8, QuietStep
<1> QED
  BY <1>3, <1>4

\* A request ends or starts over; if it is done, what it returns is vouched for.
LEMMA EndHolds ==
  ASSUME IInv, NEW q \in Requests, Step(q) \/ Die(q),
         NEW l \in {"hit", "done", "broken", "request", "dead"}, End(q, l),
         UNCHANGED <<files, policies, version, seen, mode>>,
         fresh' \in [Requests -> 0..Len(policies)], payload' \in [Requests -> 0..MaxVersion],
         path' \in 0..Len(files), deaths' \in 0..MaxDeaths, torn' \subseteq Inodes,
         pc[q] \notin {"start", "hit", "done", "dead"},
         l \in {"hit", "done"} =>
            fresh'[q] # 0 /\ policies[fresh'[q]].version = payload'[q],
         l = "done" => payload'[q] \in seen[q],
         l = "hit" /\ mode[q] = "MustRevalidate" /\ ~policies[fresh'[q]].immutable =>
            payload'[q] \in seen[q]
  PROVE  IInv'
<1>0. TypeOK /\ Holds(q)
  BY IInvParts
<1>1. PoliciesGrow
  BY <1>0, SameGrow
<1>2. /\ pc'[q] = l /\ buf'[q] = <<>> /\ fd'[q] = 0 /\ wfd'[q] = 0
      /\ pc' \in [Requests -> {"start", "stat", "read", "stale", "broken", "request",
                               "store", "reopen", "compare", "write", "hit", "done", "dead"}]
      /\ fd' \in [Requests -> 0..Len(files)] /\ wfd' \in [Requests -> 0..Len(files)]
      /\ size' \in [Requests -> 0..MaxTail] /\ pos' \in [Requests -> 0..MaxTail]
      /\ buf' \in [Requests -> Seq(Cells)] /\ \A r \in Requests : Len(buf'[r]) <= MaxTail
  BY <1>0, EndIs
<1>3. TypeOK'
  BY <1>0, <1>2 DEF TypeOK, Inodes
<1>4. Holds(q)'
  <2>1. version \in seen[q]
    BY <1>0 DEF Holds
  <2>2. fresh'[q] \in 0..Len(policies) /\ Len(policies) \in Nat
    BY <1>0, Lengths
  <2>3. fresh'[q] # 0 => fresh'[q] \in 1..Len(policies')
    BY <2>2
  <2> QED
    BY <1>2, <2>1, <2>3, NoFooters DEF Holds
<1> QED
  BY <1>1, <1>3, <1>4, QuietStep

\* The entry is broken, of another request, useless, not to be stored; or the
\* request dies.
LEMMA QuitHolds ==
  ASSUME IInv, NEW q \in Requests,
         DecodeBroken(q) \/ DecodeNoMatch(q) \/ Unusable(q) \/ DontStore(q) \/ Die(q)
  PROVE  IInv'
<1> USE DEF server, disk
<1>0. TypeOK /\ Holds(q) /\ Len(policies) \in Nat
  BY IInvParts, Lengths
<1>1. Step(q) \/ Die(q)
  BY DEF Step
<1>2. CASE DecodeBroken(q) \/ Unusable(q)
  BY <1>0, <1>1, <1>2, EndHolds DEF DecodeBroken, Unusable, TypeOK
<1>3. CASE DecodeNoMatch(q)
  BY <1>0, <1>1, <1>3, EndHolds DEF DecodeNoMatch, TypeOK
<1>4. CASE DontStore(q)
  <2>1. /\ policies[fresh[q]].version = payload[q] /\ payload[q] \in seen[q]
        /\ fresh[q] # 0
    BY <1>0, <1>4 DEF DontStore, Holds
  <2> QED
    BY <1>0, <1>1, <1>4, <2>1, EndHolds DEF DontStore, TypeOK
<1>5. CASE Die(q)
  <2>1. deaths' \in 0..MaxDeaths
    BY <1>0, <1>5, HttpAssumption DEF Die, TypeOK
  <2>2. 0 \in 0..MaxVersion /\ 0 \in 0..Len(policies)
    BY <1>0, HttpAssumption
  <2>3. fresh' \in [Requests -> 0..Len(policies)] /\ payload' \in [Requests -> 0..MaxVersion]
    BY <1>0, <1>5, <2>2 DEF Die, TypeOK
  <2>4. torn' \subseteq Inodes
    BY <1>0, <1>5 DEF Die, TypeOK, Holds, Vouched, Writes
  <2> QED
    BY <1>0, <1>1, <1>5, <2>1, <2>3, <2>4, EndHolds DEF Die, TypeOK
<1> QED
  BY <1>2, <1>3, <1>4, <1>5

LEMMA RemoveBrokenHolds == ASSUME IInv, NEW q \in Requests, RemoveBroken(q) PROVE IInv'
<1> USE DEF server, writer, Goto
<1>0. TypeOK /\ Holds(q) /\ Len(policies) \in Nat /\ Len(files) \in Nat
  BY IInvParts, Lengths
<1>1. UNCHANGED files /\ PoliciesGrow
  BY <1>0, SameGrow DEF RemoveBroken
<1>2. TypeOK'
  <2>1. 0 \in 0..MaxVersion /\ 0 \in 0..Len(policies) /\ 0 \in 0..Len(files)
    BY <1>0, HttpAssumption
  <2>2. fresh' \in [Requests -> 0..Len(policies)] /\ payload' \in [Requests -> 0..MaxVersion]
    BY <1>0, <2>1 DEF RemoveBroken, TypeOK
  <2> QED
    BY <1>0, <2>1, <2>2 DEF RemoveBroken, TypeOK, Inodes
<1>3. Holds(q)'
  <2>1. pc[q] = "broken" /\ pc'[q] = "request" /\ buf' = buf /\ fd' = fd
    BY <1>0 DEF RemoveBroken, TypeOK
  <2>2. FootersOf(buf[q], fd[q])'
    BY <1>0 DEF RemoveBroken, Holds, FootersOf, Vouched, Inodes
  <2> QED
    BY <1>0, <2>1, <2>2 DEF RemoveBroken, Holds
<1>4. Step(q)
  BY DEF Step
<1> QED
  BY <1>1, <1>2, <1>3, <1>4, QuietStep

\* from_aligned_bytes: a tail whose checksum is right is one policy, entire, and
\* that policy vouches for the payload it was read with.
LEMMA ValidVouches ==
  ASSUME IInv, NEW q \in Requests, pc[q] = "read", NEW k \in ValidPolicy(q)
  PROVE  Vouched(k, fd[q])
<1>0. TypeOK /\ Holds(q) /\ fd[q] \in Inodes
  BY IInvParts DEF Holds
<1>1. k \in 1..Len(policies) /\ buf[q] = Tail0(k, fd[q]) /\ fd[q] \in Nat
  BY <1>0, Lengths DEF ValidPolicy, Inodes
<1>2. /\ policies[k].size \in 1..MaxSize
      /\ Len(buf[q]) = policies[k].size + 1
      /\ \A n \in 1..policies[k].size : buf[q][n] = Cell(k)
      /\ buf[q][policies[k].size + 1] = Footer(k, fd[q])
  BY <1>0, <1>1, Tail0Is DEF TypeOK
<1>3. policies[k].size + 1 \in 1..Len(buf[q])
  BY <1>2, HttpAssumption
<1>4. k \in 1..MaxPolicies
  BY <1>0, <1>1, HttpAssumption, Lengths DEF TypeOK
<1>5. Footer(k, fd[q])[1] = "footer" /\ Footer(k, fd[q])[2] = k
  BY <1>1, <1>4, CellTypes
<1> QED
  BY <1>0, <1>2, <1>3, <1>5 DEF Holds, FootersOf

LEMMA DecodeHolds ==
  ASSUME IInv, NEW q \in Requests, DecodeFresh(q) \/ DecodeStale(q)
  PROVE  IInv'
<1> USE DEF server, disk, writer
<1>1. PICK k \in ValidPolicy(q) :
         Decode(q, k) /\ (DecodeFresh(q) => MayBeFresh(q, k) /\ End(q, "hit"))
  BY DEF DecodeFresh, DecodeStale, End, Goto
<1>0. TypeOK /\ Holds(q) /\ fd[q] \in Inodes /\ pc[q] = "read"
  BY <1>1, IInvParts DEF Decode, Holds
<1>2. Vouched(k, fd[q])
  BY <1>0, ValidVouches
<1>3. k \in 1..Len(policies) /\ policies[k].version = files[fd[q]].payload /\ Len(policies) \in Nat
  BY <1>0, <1>2, Lengths DEF Vouched
<1>4. /\ fresh' \in [Requests -> 0..Len(policies)] /\ fresh'[q] = k
      /\ payload' \in [Requests -> 0..MaxVersion] /\ payload'[q] = files[fd[q]].payload
  <2>1. k \in 0..Len(policies) /\ files[fd[q]].payload \in 0..MaxVersion
    BY <1>0, <1>3, Lengths
  <2>2. fresh' \in [Requests -> 0..Len(policies)] /\ fresh'[q] = k
    BY <1>0, <1>1, <2>1 DEF TypeOK, Decode
  <2>3. payload' = [payload EXCEPT ![q] = files[fd[q]].payload]
    BY <1>1 DEF Decode
  <2>4. payload' \in [Requests -> 0..MaxVersion] /\ payload'[q] = files[fd[q]].payload
    BY <1>0, <2>1, <2>3 DEF TypeOK
  <2> QED
    BY <2>2, <2>4
<1>5. Step(q)
  BY DEF Step
<1>6. CASE DecodeFresh(q)
  <2>1. /\ mode[q] # "MustRevalidate" \/ policies[k].immutable
        /\ End(q, "hit")
        /\ UNCHANGED <<version, policies, seen, files, path, torn, mode, deaths>>
    BY <1>1, <1>6 DEF MayBeFresh, Decode
  <2>2. deaths' \in 0..MaxDeaths /\ path' \in 0..Len(files) /\ torn' \subseteq Inodes
    BY <1>0, <2>1 DEF TypeOK
  <2>3. fresh'[q] # 0 /\ policies[fresh'[q]].version = payload'[q]
    BY <1>3, <1>4
  <2> QED
    BY <1>0, <1>4, <1>5, <2>1, <2>2, <2>3, EndHolds
<1>7. CASE DecodeStale(q)
  <2>1. /\ UNCHANGED <<files, policies, version, seen, mode, fd, size, buf, wfd, pos, path,
                       torn, deaths>>
        /\ pc' = [pc EXCEPT ![q] = "stale"]
    BY <1>1, <1>7 DEF DecodeStale, Decode, Goto
  <2>2. PoliciesGrow
    BY <1>0, <2>1, SameGrow
  <2>3. TypeOK'
    BY <1>0, <1>4, <2>1 DEF TypeOK, Inodes
  <2>4. Holds(q)'
    <3>1. pc'[q] = "stale"
      BY <1>0, <2>1 DEF TypeOK
    <3>2. FootersOf(buf[q], fd[q])'
      BY <1>0, <2>1 DEF Holds, FootersOf, Vouched, Inodes
    <3>3. Vouched(fresh[q], fd[q])'
      BY <1>2, <1>4, <2>1 DEF Vouched, Inodes
    <3>4. version \in seen[q]
      BY <1>0 DEF Holds
    <3> QED
      BY <1>2, <1>4, <2>1, <3>1, <3>2, <3>3, <3>4 DEF Holds
  <2> QED
    BY <1>5, <2>1, <2>2, <2>3, <2>4, QuietStep
<1> QED
  BY <1>6, <1>7

\* What is left to show of a step that writes a file.
LEMMA LoudStep ==
  ASSUME IInv, NEW q \in Requests, Step(q), UNCHANGED policies, PayloadsStay,
         TypeOK', FilesHold', Holds(q)'
  PROVE  IInv'
<1>0. TypeOK /\ \A r \in Requests : Holds(r)
  BY IInvParts
<1>1. PoliciesGrow
  BY <1>0, SameGrow
<1>2. ASSUME NEW r \in Requests PROVE Holds(r)'
  BY <1>0, <1>1, <1>2, OwnStep, OthersHold
<1> QED
  BY <1>2, IInvPartsPrime

\* A response: its policy is about the version at the server.
LEMMA ResponseHolds ==
  ASSUME IInv, NEW q \in Requests, NotModified(q) \/ Modified(q) \/ FreshRequest(q)
  PROVE  IInv'
<1> USE DEF disk, writer, Goto
<1>0. TypeOK /\ Holds(q) /\ Issue(q) /\ version \in seen[q] /\ version \in 0..MaxVersion
  BY IInvParts DEF NotModified, Modified, FreshRequest, Holds, TypeOK
<1>1. /\ PoliciesGrow /\ UNCHANGED <<version, seen>>
      /\ fresh'[q] \in 1..Len(policies') /\ fresh' \in [Requests -> 0..Len(policies')]
      /\ policies'[fresh'[q]].version = version
  BY <1>0, IssueGrows
<1>2. UNCHANGED <<files, path, torn, mode, fd, wfd, pos, deaths>>
  BY DEF NotModified, Modified, FreshRequest
<1>3. Step(q)
  BY DEF Step
<1>4. PayloadsStay
  BY <1>0, <1>2, SameGrow
<1>5. CASE NotModified(q)
  <2>1. /\ pc' = [pc EXCEPT ![q] = "reopen"] /\ UNCHANGED payload /\ payload[q] = version
        /\ size' = [size EXCEPT ![q] = 0] /\ buf' = [buf EXCEPT ![q] = <<>>] /\ pc[q] = "stale"
    BY <1>5 DEF NotModified, Drop
  <2>2. 0 \in 0..MaxTail /\ <<>> \in Seq(Cells) /\ Len(<<>>) <= MaxTail
    BY <1>0, Lengths, EmptySeq
  <2>3. /\ size' \in [Requests -> 0..MaxTail] /\ buf' \in [Requests -> Seq(Cells)]
        /\ \A r \in Requests : Len(buf'[r]) <= MaxTail
        /\ buf'[q] = <<>> /\ pc'[q] = "reopen"
    BY <1>0, <2>1, <2>2 DEF TypeOK
  <2>4. TypeOK'
    BY <1>0, <1>1, <1>2, <2>1, <2>3 DEF TypeOK, Inodes, PoliciesGrow
  <2>5. Holds(q)'
    <3>1. fd[q] \in Inodes /\ payload[q] = files[fd[q]].payload
      BY <1>0, <2>1 DEF Holds, Vouched
    <3>2. Vouched(fresh[q], fd[q])'
      BY <1>1, <1>2, <2>1, <3>1 DEF Vouched, Inodes
    <3> QED
      BY <1>0, <1>1, <1>2, <2>1, <2>3, <3>1, <3>2, NoFooters DEF Holds
  <2> QED
    BY <1>1, <1>2, <1>3, <2>4, <2>5, QuietStep
<1>6. CASE Modified(q) \/ FreshRequest(q)
  <2>1. /\ pc' = [pc EXCEPT ![q] = "store"] /\ UNCHANGED <<size, buf>>
        /\ payload' = [payload EXCEPT ![q] = version]
    BY <1>6 DEF Modified, FreshRequest
  <2>2. pc'[q] = "store" /\ payload'[q] = version /\ payload' \in [Requests -> 0..MaxVersion]
    BY <1>0, <2>1 DEF TypeOK
  <2>3. TypeOK'
    BY <1>0, <1>1, <1>2, <2>1, <2>2 DEF TypeOK, Inodes, PoliciesGrow
  <2>4. Holds(q)'
    <3>1. FootersOf(buf[q], fd[q])'
      <4>1. FootersOf(buf[q], fd[q])
        BY <1>0 DEF Holds
      <4>2. \A n \in 1..Len(buf[q]) : buf[q][n][1] = "footer" =>
               buf[q][n][3] = fd[q] /\ Vouched(buf[q][n][2], fd[q])'
        BY <1>0, <1>1, <1>2, <1>4, <2>1, <4>1, VouchedStays DEF FootersOf
      <4> QED
        BY <1>2, <2>1, <4>2 DEF FootersOf
    <3> QED
      BY <1>0, <1>1, <2>2, <3>1 DEF Holds
  <2> QED
    BY <1>1, <1>2, <1>3, <2>3, <2>4, QuietStep
<1> QED
  BY <1>5, <1>6

\* refresh_policy before it writes: no entry, another entry, or the one read.
LEMMA ReopenHolds ==
  ASSUME IInv, NEW q \in Requests, Reopen(q) \/ Compare(q)
  PROVE  IInv'
<1> USE DEF server, disk, writer, Goto
<1>0. TypeOK /\ Holds(q) /\ Len(files) \in Nat /\ path \in 0..Len(files)
  BY IInvParts, Lengths DEF TypeOK
<1>1. /\ UNCHANGED <<files, policies, version, seen, mode, path, fresh, payload, deaths>>
      /\ PoliciesGrow /\ Step(q)
  BY <1>0, SameGrow DEF Reopen, Compare, Step
<1>2. /\ Vouched(fresh[q], fd[q]) /\ payload[q] = files[fd[q]].payload
      /\ payload[q] \in seen[q] /\ version \in seen[q] /\ pc[q] \in {"reopen", "compare"}
  BY <1>0 DEF Reopen, Compare, Holds
<1>t. torn' \subseteq Inodes
  BY <1>0 DEF Reopen, Compare, Holds, TypeOK
<1>3. CASE Refreshed(q)
  <2>1. fresh[q] # 0 /\ policies[fresh[q]].version = payload[q]
    BY <1>2 DEF Vouched
  <2>2. /\ fresh \in [Requests -> 0..Len(policies)] /\ payload \in [Requests -> 0..MaxVersion]
        /\ deaths \in 0..MaxDeaths
    BY <1>0 DEF TypeOK
  <2> QED
    BY <1>0, <1>1, <1>2, <1>3, <1>t, <2>1, <2>2, EndHolds DEF Refreshed
<1>4. CASE ~Refreshed(q)
  <2>1. /\ UNCHANGED <<fd, size, buf, pos>>
        /\ \/ path # 0 /\ wfd' = [wfd EXCEPT ![q] = path] /\ pc' = [pc EXCEPT ![q] = "compare"]
           \/ wfd[q] = fd[q] /\ wfd' = wfd /\ pc' = [pc EXCEPT ![q] = "write"]
    BY <1>4 DEF Reopen, Compare
  <2>2. TypeOK'
    BY <1>0, <1>1, <1>t, <2>1 DEF TypeOK, Inodes
  <2>3. Holds(q)'
    <3>1. \/ pc'[q] = "compare" /\ wfd'[q] \in Inodes
          \/ pc'[q] = "write" /\ wfd'[q] = fd'[q]
      BY <1>0, <2>1 DEF TypeOK, Inodes
    <3>2. FootersOf(buf[q], fd[q])'
      BY <1>0, <1>1, <2>1 DEF Holds, FootersOf, Vouched, Inodes
    <3>3. Vouched(fresh[q], fd[q])'
      BY <1>1, <1>2, <2>1 DEF Vouched, Inodes
    <3> QED
      BY <1>1, <1>2, <2>1, <3>1, <3>2, <3>3 DEF Holds, Inodes
  <2> QED
    BY <1>1, <2>2, <2>3, QuietStep
<1> QED
  BY <1>3, <1>4

\* A new response replaces the file: another inode, with its own tail.
LEMMA StoreHolds == ASSUME IInv, NEW q \in Requests, Store(q) PROVE IInv'
<1> USE DEF server
<1>0. TypeOK /\ FilesHold /\ Holds(q) /\ Len(files) \in Nat /\ Len(policies) \in Nat
  BY IInvParts, Lengths
<1>i. PICK i \in Nat : i = Len(files) + 1
  BY <1>0
<1> DEFINE new == [payload |-> payload[q], tail |-> Tail0(fresh[q], i)]
<1>1. /\ files' = Append(files, new) /\ path' = i /\ End(q, "done") /\ pc[q] = "store"
      /\ UNCHANGED <<version, policies, seen, torn, mode, fresh, payload, deaths>>
  BY <1>i DEF Store
<1>2. /\ fresh[q] \in 1..Len(policies) /\ policies[fresh[q]].version = payload[q]
      /\ version \in seen[q] /\ payload[q] \in seen[q]
  BY <1>0, <1>1 DEF Holds
<1>3. /\ Tail0(fresh[q], i) \in Seq(Cells)
      /\ policies[fresh[q]].size \in 1..MaxSize
      /\ Len(Tail0(fresh[q], i)) = policies[fresh[q]].size + 1
      /\ \A n \in 1..policies[fresh[q]].size : Tail0(fresh[q], i)[n] = Cell(fresh[q])
      /\ Tail0(fresh[q], i)[policies[fresh[q]].size + 1] = Footer(fresh[q], i)
  BY <1>0, <1>2, Tail0Is DEF TypeOK
<1>4. new \in Files /\ new.payload = payload[q] /\ new.tail = Tail0(fresh[q], i)
  BY <1>0, <1>3 DEF Files, TypeOK
<1> HIDE DEF new
<1>5. /\ files' \in Seq(Files) /\ Len(files') = i
      /\ \A j \in Inodes : files'[j] = files[j]
      /\ files'[i] = new
  BY <1>0, <1>1, <1>4, <1>i, AppendProperties DEF TypeOK, Inodes
<1>6. PayloadsStay
  BY <1>0, <1>5, <1>i DEF PayloadsStay
<1>7. Inodes' = Inodes \cup {i}
  BY <1>0, <1>5, <1>i DEF Inodes
<1>8. PoliciesGrow
  BY <1>0, <1>1, SameGrow
<1>9. TypeOK'
  <2>1. /\ pc' \in [Requests -> {"start", "stat", "read", "stale", "broken", "request",
                                 "store", "reopen", "compare", "write", "hit", "done", "dead"}]
        /\ fd' \in [Requests -> 0..Len(files)] /\ wfd' \in [Requests -> 0..Len(files)]
        /\ size' \in [Requests -> 0..MaxTail] /\ pos' \in [Requests -> 0..MaxTail]
        /\ buf' \in [Requests -> Seq(Cells)] /\ \A r \in Requests : Len(buf'[r]) <= MaxTail
    BY <1>0, <1>1, EndIs
  <2>2. fd' \in [Requests -> 0..Len(files')] /\ wfd' \in [Requests -> 0..Len(files')]
    BY <1>0, <1>5, <1>i, <2>1
  <2>3. \A j \in Inodes' : Len(files'[j].tail) <= MaxTail
    <3>1. Len(files'[i].tail) <= MaxTail
      BY <1>3, <1>4, <1>5, HttpAssumption DEF MaxTail
    <3> QED
      BY <1>0, <1>5, <1>7, <3>1 DEF TypeOK
  <2>4. path' \in 0..Len(files')
    BY <1>0, <1>1, <1>5, <1>i
  <2> QED
    BY <1>0, <1>1, <1>5, <1>7, <2>1, <2>2, <2>3, <2>4 DEF TypeOK
<1>10. FilesHold'
  <2>1. Vouched(fresh[q], i)'
    BY <1>1, <1>2, <1>4, <1>5, <1>7 DEF Vouched
  <2>2. fresh[q] \in 1..MaxPolicies /\ fresh' = fresh
    BY <1>0, <1>1, <1>2, HttpAssumption DEF TypeOK
  <2>3. ASSUME NEW n \in 1..Len(files'[i].tail), files'[i].tail[n][1] = "footer"
        PROVE  files'[i].tail[n] = Footer(fresh[q], i)
    <3>1. files'[i].tail = Tail0(fresh[q], i)
      BY <1>4, <1>5
    <3>2. CASE n \in 1..policies[fresh[q]].size
      BY <1>3, <2>2, <2>3, <3>1, <3>2, CellTypes
    <3>3. CASE n = policies[fresh[q]].size + 1
      BY <1>3, <3>1, <3>3
    <3> QED
      BY <1>3, <3>1, <3>2, <3>3, HttpAssumption
  <2>4. ASSUME NEW n \in 1..Len(files'[i].tail), files'[i].tail[n][1] = "footer"
        PROVE  files'[i].tail[n][3] = i /\ Vouched(files[i].tail[n][2], i)'
    <3>1. files'[i].tail[n][2] = fresh[q] /\ files'[i].tail[n][3] = i
      BY <1>2, <2>2, <2>3, <2>4, CellTypes
    <3> QED
      BY <2>1, <2>2, <3>1
  <2>5. FootersOf(files[i].tail, i)'
    BY <2>4 DEF FootersOf
  <2>6. ASSUME NEW j \in Inodes PROVE FootersOf(files[j].tail, j)'
    <3>1. FootersOf(files[j].tail, j) /\ files'[j] = files[j]
      BY <1>0, <1>5 DEF FilesHold
    <3>2. \A n \in 1..Len(files[j].tail) : files[j].tail[n][1] = "footer" =>
             files[j].tail[n][3] = j /\ Vouched(files[j].tail[n][2], j)'
      BY <1>0, <1>6, <1>8, <3>1, VouchedStays DEF FootersOf
    <3> QED
      BY <3>1, <3>2 DEF FootersOf
  <2> QED
    BY <1>7, <2>5, <2>6 DEF FilesHold
<1>11. Holds(q)'
  <2>1. pc'[q] = "done" /\ buf'[q] = <<>> /\ fd'[q] = 0
    BY <1>0, <1>1, EndIs
  <2> QED
    BY <1>1, <1>2, <2>1, NoFooters DEF Holds
<1>12. Step(q)
  BY DEF Step
<1> QED
  BY <1>1, <1>6, <1>9, <1>10, <1>11, <1>12, LoudStep

\* A write to the tail of one file.
LEMMA TailChanges ==
  ASSUME TypeOK, NEW w \in Inodes, NEW t \in Seq(Cells), Len(t) <= MaxTail,
         files' = [files EXCEPT ![w].tail = t]
  PROVE  /\ PayloadsStay /\ Len(files') = Len(files) /\ Inodes' = Inodes
         /\ files'[w].tail = t
         /\ \A i \in Inodes \ {w} : files'[i] = files[i]
         /\ \A i \in Inodes' : Len(files'[i].tail) <= MaxTail
<1> DEFINE new == [files[w] EXCEPT !.tail = t]
<1>1. files \in Seq(Files) /\ files[w] \in Files /\ w \in 1..Len(files) /\ Len(files) \in Nat
  BY Lengths DEF TypeOK, Inodes
<1>2. new \in Files /\ new.tail = t /\ new.payload = files[w].payload
  BY <1>1 DEF Files
<1>3. files' = [files EXCEPT ![w] = new]
  OBVIOUS
<1> HIDE DEF new
<1>4. /\ files' \in Seq(Files) /\ Len(files') = Len(files)
      /\ \A i \in 1..Len(files) : files'[i] = IF i = w THEN new ELSE files[i]
  <2>1. /\ [files EXCEPT ![w] = new] \in Seq(Files)
        /\ Len([files EXCEPT ![w] = new]) = Len(files)
        /\ \A i \in 1..Len(files) :
             [files EXCEPT ![w] = new][i] = IF i = w THEN new ELSE files[i]
    BY <1>1, <1>2, ExceptSeq
  <2> QED
    BY <1>3, <2>1
<1>5. Inodes' = Inodes
  BY <1>4 DEF Inodes
<1>6. PayloadsStay
  BY <1>1, <1>2, <1>4 DEF PayloadsStay, Inodes
<1>7. files'[w].tail = t /\ \A i \in Inodes \ {w} : files'[i] = files[i]
  BY <1>1, <1>2, <1>4 DEF Inodes
<1>8. \A i \in Inodes' : Len(files'[i].tail) <= MaxTail
  BY <1>5, <1>7 DEF TypeOK
<1> QED
  BY <1>4, <1>5, <1>6, <1>7, <1>8

\* Cells that were there, zeros, and the footer of a policy for this payload:
\* the footers of the rewritten file still vouch.
LEMMA RewrittenFooters ==
  ASSUME IInv, NEW w \in Inodes, NEW t \in Seq(Cells), Len(t) <= MaxTail,
         files' = [files EXCEPT ![w].tail = t], UNCHANGED policies,
         \A n \in 1..Len(t) :
            t[n][1] = "footer" =>
              \/ n \in 1..Len(files[w].tail) /\ t[n] = files[w].tail[n]
              \/ t[n][3] = w /\ Vouched(t[n][2], w)
  PROVE  FilesHold'
<1>0. TypeOK /\ FilesHold
  BY IInvParts
<1>1. /\ PayloadsStay /\ Inodes' = Inodes /\ files'[w].tail = t
      /\ \A i \in Inodes \ {w} : files'[i] = files[i]
  BY <1>0, TailChanges
<1>2. PoliciesGrow
  BY <1>0, SameGrow
<1>3. FootersOf(files[w].tail, w)'
  <2>1. \A n \in 1..Len(t) : t[n][1] = "footer" => t[n][3] = w /\ Vouched(t[n][2], w)
    BY <1>0 DEF FilesHold, FootersOf
  <2>2. \A n \in 1..Len(t) : t[n][1] = "footer" => t[n][3] = w /\ Vouched(t[n][2], w)'
    BY <1>0, <1>1, <1>2, <2>1, VouchedStays
  <2> QED
    BY <1>1, <2>2 DEF FootersOf
<1>4. ASSUME NEW i \in Inodes \ {w} PROVE FootersOf(files[i].tail, i)'
  <2>1. FootersOf(files[i].tail, i) /\ files'[i] = files[i]
    BY <1>0, <1>1 DEF FilesHold
  <2>2. \A n \in 1..Len(files[i].tail) : files[i].tail[n][1] = "footer" =>
           files[i].tail[n][3] = i /\ Vouched(files[i].tail[n][2], i)'
    BY <1>0, <1>1, <1>2, <2>1, VouchedStays DEF FootersOf
  <2> QED
    BY <2>1, <2>2 DEF FootersOf
<1> QED
  BY <1>1, <1>3, <1>4 DEF FilesHold

\* refresh_policy writes one more cell: into the file whose payload the new
\* policy is about, for it has compared the ids.
LEMMA WriteHolds == ASSUME IInv, NEW q \in Requests, Write(q) PROVE IInv'
<1> USE DEF server
<1>0. TypeOK /\ FilesHold /\ Holds(q) /\ Len(files) \in Nat /\ MaxTail \in Nat
  BY IInvParts, Lengths
<1>1. /\ Vouched(fresh[q], fd[q]) /\ payload[q] = files[fd[q]].payload /\ wfd[q] = fd[q]
      /\ payload[q] \in seen[q] /\ version \in seen[q] /\ pc[q] = "write"
  BY <1>0 DEF Write, Holds
<1>w. PICK w \in Inodes : w = wfd[q] /\ w = fd[q]
  BY <1>1 DEF Vouched
<1>n. PICK n \in Nat \ {0} : n = pos[q] + 1
  BY <1>0 DEF TypeOK
<1>k. PICK k \in 1..Len(policies) : k = fresh[q]
  BY <1>1 DEF Vouched
<1>2. w \in Nat /\ k \in 1..MaxPolicies
  BY <1>0, HttpAssumption, Lengths DEF Inodes, TypeOK
<1>3. /\ Tail0(k, w) \in Seq(Cells)
      /\ policies[k].size \in 1..MaxSize
      /\ Len(Tail0(k, w)) = policies[k].size + 1
      /\ \A m \in 1..policies[k].size : Tail0(k, w)[m] = Cell(k)
      /\ Tail0(k, w)[policies[k].size + 1] = Footer(k, w)
  BY <1>0, <1>2, Tail0Is DEF TypeOK
<1>c. PICK cell : cell = Tail0(k, w)[n]
  OBVIOUS
<1>4. /\ n <= policies[k].size + 1 /\ n \in 1..MaxTail
      /\ files' = [files EXCEPT ![w].tail = WriteAt(files[w].tail, n, cell)]
      /\ pos' = [pos EXCEPT ![q] = n]
      /\ UNCHANGED <<version, policies, seen, path, torn, pc, mode, fd, size, buf, fresh, payload, wfd, deaths>>
  <2>1. /\ n <= Len(Tail0(k, w))
        /\ files' = [files EXCEPT ![w].tail = WriteAt(files[w].tail, n, cell)]
        /\ pos' = [pos EXCEPT ![q] = n]
    BY <1>w, <1>n, <1>k, <1>c DEF Write
  <2>2. n <= policies[k].size + 1 /\ n \in 1..MaxTail
    <3>1. n \in Nat \ {0} /\ policies[k].size \in 1..MaxSize /\ MaxSize \in Nat
      BY <1>3, <1>n, HttpAssumption
    <3>2. n <= policies[k].size + 1
      BY <1>3, <2>1
    <3> QED
      BY <3>1, <3>2 DEF MaxTail
  <2> QED
    BY <2>1, <2>2 DEF Write
<1>5. /\ cell \in Cells
      /\ cell[1] = "footer" => cell[2] = k /\ cell[3] = w
  <2>1. CASE n \in 1..policies[k].size
    BY <1>2, <1>3, <1>c, <2>1, CellTypes
  <2>2. CASE n = policies[k].size + 1
    BY <1>2, <1>3, <1>c, <2>2, CellTypes
  <2> QED
    BY <1>3, <1>4, <2>1, <2>2, HttpAssumption
<1>t. PICK t : t = WriteAt(files[w].tail, n, cell)
  OBVIOUS
<1>6. files[w].tail \in Seq(Cells) /\ Len(files[w].tail) \in 0..MaxTail
  BY <1>0, Lengths
<1>7. /\ t \in Seq(Cells)
      /\ Len(t) = IF n > Len(files[w].tail) THEN n ELSE Len(files[w].tail)
      /\ \A m \in 1..Len(t) : \/ m = n /\ t[m] = cell
                              \/ m \in 1..Len(files[w].tail) /\ t[m] = files[w].tail[m]
                              \/ t[m] = Zero
  <2>1. PICK old \in Seq(Cells) : old = files[w].tail
    BY <1>6
  <2>2. cell \in Cells /\ n \in Nat \ {0} /\ t = WriteAt(old, n, cell)
    BY <1>5, <1>n, <1>t, <2>1
  <2>3. /\ t \in Seq(Cells)
        /\ Len(t) = IF n > Len(old) THEN n ELSE Len(old)
        /\ \A m \in 1..Len(t) : \/ m = n /\ t[m] = cell
                                \/ m \in 1..Len(old) /\ t[m] = old[m]
                                \/ t[m] = Zero
    BY <2>2, WriteAtIs
  <2> QED
    BY <2>1, <2>3
<1>8. Len(t) <= MaxTail /\ files' = [files EXCEPT ![w].tail = t]
  BY <1>4, <1>6, <1>7, <1>t
<1>9. FilesHold'
  <2>1. Vouched(k, w)
    BY <1>1, <1>w, <1>k
  <2>2. \A m \in 1..Len(t) :
           t[m][1] = "footer" =>
             \/ m \in 1..Len(files[w].tail) /\ t[m] = files[w].tail[m]
             \/ t[m][3] = w /\ Vouched(t[m][2], w)
    BY <1>5, <1>7, <2>1, CellTypes
  <2> QED
    BY <1>4, <1>7, <1>8, <2>2, RewrittenFooters
<1>10. /\ PayloadsStay /\ Len(files') = Len(files) /\ Inodes' = Inodes
       /\ \A i \in Inodes' : Len(files'[i].tail) <= MaxTail
  BY <1>0, <1>7, <1>8, TailChanges
<1>11. TypeOK'
  <2>1. pos' \in [Requests -> 0..MaxTail]
    BY <1>0, <1>4 DEF TypeOK
  <2> QED
    BY <1>0, <1>4, <1>10, <2>1 DEF TypeOK, PayloadsStay
<1>12. Holds(q)'
  <2>1. PoliciesGrow
    BY <1>0, <1>4, SameGrow
  <2> QED
    BY <1>0, <1>4, <1>10, <2>1, OthersHold
<1>13. Step(q)
  BY DEF Step
<1> QED
  BY <1>4, <1>9, <1>10, <1>11, <1>12, <1>13, LoudStep

\* refresh_policy sets the length and is done.
LEMMA SetLenHolds == ASSUME IInv, NEW q \in Requests, SetLen(q) PROVE IInv'
<1> USE DEF server
<1>0. TypeOK /\ FilesHold /\ Holds(q) /\ Len(files) \in Nat /\ Len(policies) \in Nat
  BY IInvParts, Lengths
<1>1. /\ Vouched(fresh[q], fd[q]) /\ payload[q] = files[fd[q]].payload /\ wfd[q] = fd[q]
      /\ payload[q] \in seen[q] /\ version \in seen[q] /\ pc[q] = "write"
  BY <1>0 DEF SetLen, Holds
<1>w. PICK w \in Inodes : w = wfd[q]
  BY <1>1 DEF Vouched
<1>n. PICK n \in 0..MaxTail : n = pos[q]
  BY <1>0 DEF TypeOK
<1>2. /\ files' = [files EXCEPT ![w].tail = CutTo(files[w].tail, n)] /\ Refreshed(q)
      /\ UNCHANGED <<version, policies, seen, path, torn, mode, fresh, payload, deaths>>
  BY <1>w, <1>n DEF SetLen
<1>t. PICK t : t = CutTo(files[w].tail, n)
  OBVIOUS
<1>3. files[w].tail \in Seq(Cells) /\ n \in Nat /\ n <= MaxTail
  BY <1>0, Lengths
<1>4. /\ t \in Seq(Cells) /\ Len(t) = n
      /\ \A m \in 1..n : \/ m \in 1..Len(files[w].tail) /\ t[m] = files[w].tail[m]
                         \/ t[m] = Zero
  BY <1>3, <1>t, CutToIs
<1>5. Len(t) <= MaxTail /\ files' = [files EXCEPT ![w].tail = t]
  BY <1>2, <1>3, <1>4, <1>t
<1>6. FilesHold'
  <2>1. \A m \in 1..Len(t) :
           t[m][1] = "footer" => m \in 1..Len(files[w].tail) /\ t[m] = files[w].tail[m]
    BY <1>4, CellTypes
  <2> QED
    BY <1>2, <1>4, <1>5, <2>1, RewrittenFooters
<1>7. /\ PayloadsStay /\ Len(files') = Len(files) /\ Inodes' = Inodes
      /\ \A i \in Inodes' : Len(files'[i].tail) <= MaxTail
  BY <1>0, <1>4, <1>5, TailChanges
<1>8. PICK l \in {"done", "broken"} : End(q, l)
  BY <1>2 DEF Refreshed
<1>9. /\ pc'[q] = l /\ buf'[q] = <<>> /\ fd'[q] = 0 /\ wfd'[q] = 0
      /\ pc' \in [Requests -> {"start", "stat", "read", "stale", "broken", "request",
                               "store", "reopen", "compare", "write", "hit", "done", "dead"}]
      /\ fd' \in [Requests -> 0..Len(files)] /\ wfd' \in [Requests -> 0..Len(files)]
      /\ size' \in [Requests -> 0..MaxTail] /\ pos' \in [Requests -> 0..MaxTail]
      /\ buf' \in [Requests -> Seq(Cells)] /\ \A r \in Requests : Len(buf'[r]) <= MaxTail
  BY <1>0, <1>8, EndIs
<1>10. TypeOK'
  BY <1>0, <1>2, <1>7, <1>9 DEF TypeOK, PayloadsStay
<1>11. Holds(q)'
  <2>1. fresh[q] \in 1..Len(policies) /\ policies[fresh[q]].version = payload[q]
    BY <1>1 DEF Vouched
  <2> QED
    BY <1>1, <1>2, <1>9, <2>1, NoFooters DEF Holds
<1>12. Step(q)
  BY DEF Step
<1> QED
  BY <1>2, <1>6, <1>7, <1>10, <1>11, <1>12, LoudStep

\* Every step preserves IInv.
LEMMA NextHolds == IInv /\ [Next]_vars => IInv'
<1> SUFFICES ASSUME IInv, [Next]_vars PROVE IInv'
  OBVIOUS
<1>1. CASE Change
  BY <1>1, ChangeHolds
<1>2. ASSUME NEW q \in Requests, Step(q) \/ Die(q) PROVE IInv'
  BY <1>2, OpenHolds, ReadHolds, QuitHolds, RemoveBrokenHolds, DecodeHolds, ResponseHolds,
     ReopenHolds, StoreHolds, WriteHolds, SetLenHolds DEF Step
<1>3. CASE UNCHANGED vars
  <2> USE <1>3, IInvParts DEF vars, server, disk, writer
  <2>1. TypeOK'
    BY DEF TypeOK, Inodes
  <2>2. FilesHold'
    BY DEF FilesHold, FootersOf, Vouched, Inodes
  <2>3. ASSUME NEW r \in Requests PROVE Holds(r)'
    <3>1. FootersOf(buf[r], fd[r])'
      BY DEF Holds, FootersOf, Vouched, Inodes
    <3> QED
      BY <3>1 DEF Holds, Vouched, Inodes
  <2> QED
    BY <2>1, <2>2, <2>3, IInvPartsPrime
<1> QED
  BY <1>1, <1>2, <1>3 DEF Next

\* The entry is absent, or as an earlier request stored it.
LEMMA InitHolds == Init => IInv
<1> SUFFICES ASSUME Init PROVE IInv
  OBVIOUS
<1>1. /\ MaxTail \in Nat /\ 0 \in 0..MaxTail /\ 0 \in 0..MaxVersion /\ 0 \in 0..MaxDeaths
      /\ <<>> \in Seq(Cells) /\ Len(<<>>) = 0 /\ Len(<<>>) <= MaxTail
  BY HttpAssumption, EmptySeq DEF MaxTail
<1>2. ASSUME policies \in Seq(Policies), Len(policies) <= MaxPolicies, files \in Seq(Files),
             \A i \in Inodes : Len(files[i].tail) <= MaxTail, path \in 0..Len(files),
             FilesHold
      PROVE  IInv
  <2>1. Len(policies) \in Nat /\ Len(files) \in Nat
    BY <1>2, LenProperties
  <2>2. TypeOK
    BY <1>1, <1>2, <2>1 DEF Init, TypeOK
  <2>3. ASSUME NEW r \in Requests PROVE Holds(r)
    BY <1>1, NoFooters DEF Init, Holds
  <2> QED
    BY <1>2, <2>2, <2>3, IInvParts
<1>3. CASE policies = <<>> /\ files = <<>> /\ path = 0
  BY <1>2, <1>3, EmptySeq, HttpAssumption DEF FilesHold, Inodes
<1>4. ASSUME NEW s \in Shapes,
             policies = <<[version |-> 0, size |-> s.size, immutable |-> s.immutable]>>,
             files = <<[payload |-> 0, tail |-> Tail0(1, 1)]>>, path = 1
      PROVE  IInv
  <2> DEFINE n == s.size
  <2>1. [version |-> 0, size |-> n, immutable |-> s.immutable] \in Policies
    BY <1>1, HttpAssumption DEF Policies, Sizes
  <2>2. /\ policies \in Seq(Policies) /\ Len(policies) = 1 /\ Len(policies) <= MaxPolicies
        /\ policies[1].size = n /\ policies[1].version = 0
    BY <1>4, <2>1, HttpAssumption
  <2>3. /\ Tail0(1, 1) \in Seq(Cells) /\ n \in 1..MaxSize
        /\ Len(Tail0(1, 1)) = n + 1
        /\ \A m \in 1..n : Tail0(1, 1)[m] = Cell(1)
        /\ Tail0(1, 1)[n + 1] = Footer(1, 1)
    <3>1. 1 \in 1..Len(policies) /\ 1 \in Nat
      BY <2>2
    <3> QED
      BY <2>2, <3>1, Tail0Is
  <2>4. [payload |-> 0, tail |-> Tail0(1, 1)] \in Files
    BY <1>1, <2>3 DEF Files
  <2>5. /\ files \in Seq(Files) /\ Len(files) = 1 /\ Inodes = {1}
        /\ files[1].payload = 0 /\ files[1].tail = Tail0(1, 1)
    BY <1>4, <2>4 DEF Inodes
  <2>6. Len(files[1].tail) <= MaxTail
    BY <2>3, <2>5, HttpAssumption DEF MaxTail
  <2>7. FilesHold
    <3>1. Vouched(1, 1)
      BY <2>2, <2>5 DEF Vouched
    <3>2. 1 \in 1..MaxPolicies
      BY HttpAssumption
    <3>3. ASSUME NEW m \in 1..Len(Tail0(1, 1)), Tail0(1, 1)[m][1] = "footer"
          PROVE  Tail0(1, 1)[m] = Footer(1, 1)
      <4>1. CASE m \in 1..n
        BY <2>3, <3>2, <3>3, <4>1, CellTypes
      <4>2. CASE m = n + 1
        BY <2>3, <4>2
      <4> QED
        BY <2>3, <4>1, <4>2, HttpAssumption
    <3>4. Footer(1, 1)[2] = 1 /\ Footer(1, 1)[3] = 1
      BY <3>2, CellTypes
    <3>5. FootersOf(files[1].tail, 1)
      BY <2>5, <3>1, <3>3, <3>4 DEF FootersOf
    <3> QED
      BY <2>5, <3>5 DEF FilesHold
  <2> QED
    BY <1>2, <1>4, <2>2, <2>5, <2>6, <2>7
<1> QED
  BY <1>3, <1>4 DEF Init

-------------------------------------------------------------------------------
\* A refresh that runs alone.

\* What one file that is not torn is like, while it is written and afterwards.
Begun(r, i) ==
    /\ pos[r] <= Len(files[i].tail)
    /\ \A n \in 1..pos[r] : files[i].tail[n] = Tail0(fresh[r], i)[n]
Sound(i) ==
    /\ \A r \in Requests :
         Writes(r, i) => Begun(r, i) /\ \A q \in Requests : Writes(q, i) => q = r
    /\ Whole(i) \/ \E r \in Requests : Writes(r, i)
PosZero == \A r \in Requests : pc[r] # "write" => pos[r] = 0

LEMMA AInvParts == AInv <=> PosZero /\ \A i \in Inodes \ torn : Sound(i)
BY DEF AInv, WritesAlone, TornByOverlapOnly, PosZero, Sound, Begun

LEMMA AInvPartsPrime == AInv' <=> PosZero' /\ \A i \in Inodes' \ torn' : Sound(i)'
BY DEF AInv, WritesAlone, TornByOverlapOnly, PosZero, Sound, Begun

\* The tail of a policy that was issued stays what it is.
LEMMA Tail0Same ==
  ASSUME PoliciesGrow, NEW k \in 1..Len(policies), NEW i
  PROVE  Tail0(k, i)' = Tail0(k, i)
BY DEF Tail0, PoliciesGrow

\* A request that writes has a policy that was issued, and a file that exists.
LEMMA WriterHas ==
  ASSUME IInv, NEW r \in Requests, pc[r] = "write"
  PROVE  /\ fresh[r] \in 1..Len(policies) /\ wfd[r] \in Inodes /\ wfd[r] \in Nat
         /\ pos[r] \in 0..MaxTail /\ MaxTail \in Nat
<1>1. TypeOK /\ Holds(r)
  BY IInvParts
<1> QED
  BY <1>1, Lengths DEF Holds, Vouched, Inodes, TypeOK

\* A file that nobody begins to write, writes or leaves is as sound as it was.
LEMMA SoundStays ==
  ASSUME IInv, PoliciesGrow, NEW i \in Inodes, Sound(i), files'[i] = files[i],
         \A r \in Requests :
            /\ Writes(r, i)' <=> Writes(r, i)
            /\ Writes(r, i) => pos'[r] = pos[r] /\ fresh'[r] = fresh[r]
  PROVE  Sound(i)'
<1>1. ASSUME NEW r \in Requests, Writes(r, i)' PROVE Begun(r, i)'
  <2>1. Writes(r, i) /\ Begun(r, i) /\ fresh[r] \in 1..Len(policies)
    BY <1>1, WriterHas DEF Sound, Writes
  <2>2. Tail0(fresh[r], i)' = Tail0(fresh[r], i)
    <3>1. PICK k \in 1..Len(policies) : k = fresh[r]
      BY <2>1
    <3>2. fresh'[r] = k
      BY <2>1, <3>1
    <3>3. Tail0(k, i)' = Tail0(k, i)
      BY Tail0Same
    <3> QED
      BY <3>1, <3>2, <3>3 DEF Tail0
  <2> QED
    BY <2>1, <2>2 DEF Begun
<1>2. Whole(i) => Whole(i)'
  <2>1. ASSUME NEW k \in 1..Len(policies), files[i].tail = Tail0(k, i) PROVE Whole(i)'
    <3>1. k \in 1..Len(policies') /\ files'[i].tail = Tail0(k, i)'
      <4>1. Len(policies) \in Nat /\ Len(policies') \in Nat
        BY LenProperties DEF IInv, TypeOK, PoliciesGrow
      <4> QED
        BY <2>1, <4>1, Tail0Same DEF PoliciesGrow
    <3> QED
      BY <3>1 DEF Whole
  <2> QED
    BY <2>1 DEF Whole
<1> QED
  BY <1>1, <1>2 DEF Sound

\* A step of a request that neither is nor gets to writing, and writes no file.
LEMMA AloneQuiet ==
  ASSUME IInv, AInv, NEW q \in Requests, Step(q) \/ Die(q), PoliciesGrow,
         UNCHANGED <<files, torn>>, pc[q] # "write", pc'[q] # "write", pos'[q] \in {0, pos[q]}
  PROVE  AInv'
<1>0. TypeOK /\ PosZero /\ \A i \in Inodes \ torn : Sound(i)
  BY AInvParts DEF IInv
<1>1. ASSUME NEW r \in Requests \ {q}
      PROVE  pc'[r] = pc[r] /\ wfd'[r] = wfd[r] /\ pos'[r] = pos[r] /\ fresh'[r] = fresh[r]
  BY <1>0, OwnStep
<1>2. PosZero'
  BY <1>0, <1>1 DEF PosZero
<1>3. ASSUME NEW i \in Inodes \ torn PROVE Sound(i)'
  <2>1. ASSUME NEW r \in Requests
        PROVE  /\ Writes(r, i)' <=> Writes(r, i)
               /\ Writes(r, i) => pos'[r] = pos[r] /\ fresh'[r] = fresh[r]
    BY <1>1 DEF Writes
  <2> QED
    BY <1>0, <2>1, SoundStays
<1> QED
  BY <1>2, <1>3, AInvPartsPrime DEF Inodes

\* Every step but the ones of a refresh, the replacement and a death while writing.
LEMMA AloneOthers ==
  ASSUME IInv, AInv, NEW q \in Requests,
         \/ Open(q) \/ SkipCache(q) \/ Stat(q) \/ Read(q) \/ DecodeBroken(q)
         \/ DecodeFresh(q) \/ DecodeStale(q) \/ DecodeNoMatch(q) \/ RemoveBroken(q)
         \/ NotModified(q) \/ Modified(q) \/ Unusable(q) \/ FreshRequest(q)
         \/ DontStore(q) \/ Reopen(q) \/ (Die(q) /\ pc[q] # "write")
  PROVE  AInv'
<1>0. TypeOK /\ (Step(q) \/ Die(q))
  BY DEF IInv, Step
<1> USE DEF server, disk, writer, Goto, Drop, Close, End, TypeOK
<1>1. CASE Open(q) \/ SkipCache(q) \/ Stat(q) \/ Read(q)
  BY <1>0, <1>1, SameGrow, AloneQuiet DEF Open, SkipCache, Stat, Read
<1>2. CASE DecodeBroken(q) \/ DecodeNoMatch(q) \/ Unusable(q) \/ DontStore(q)
  BY <1>0, <1>2, SameGrow, AloneQuiet DEF DecodeBroken, DecodeNoMatch, Unusable, DontStore
<1>3. CASE DecodeFresh(q) \/ DecodeStale(q)
  BY <1>0, <1>3, SameGrow, AloneQuiet DEF DecodeFresh, DecodeStale, Decode
<1>4. CASE RemoveBroken(q)
  BY <1>0, <1>4, SameGrow, AloneQuiet DEF RemoveBroken
<1>5. CASE NotModified(q) \/ Modified(q) \/ FreshRequest(q)
  <2>1. PoliciesGrow
    BY <1>0, <1>5, IssueGrows DEF NotModified, Modified, FreshRequest
  <2> QED
    BY <1>0, <1>5, <2>1, AloneQuiet DEF NotModified, Modified, FreshRequest
<1>6. CASE Reopen(q)
  <2>1. UNCHANGED <<files, torn, policies>> /\ pc[q] = "reopen"
    BY <1>6 DEF Reopen
  <2>2. pc'[q] # "write" /\ pos'[q] \in {0, pos[q]}
    BY <1>0, <1>6 DEF Reopen, Refreshed
  <2> QED
    BY <1>0, <2>1, <2>2, SameGrow, AloneQuiet
<1>7. CASE Die(q) /\ pc[q] # "write"
  <2>1. UNCHANGED <<files, torn, policies>> /\ pc'[q] = "dead" /\ pos'[q] = 0
    BY <1>0, <1>7 DEF Die, Writes
  <2> QED
    BY <1>0, <1>7, <2>1, SameGrow, AloneQuiet
<1> QED
  BY <1>1, <1>2, <1>3, <1>4, <1>5, <1>6, <1>7

\* A step of one request that is writing or begins to: the other files.
LEMMA AloneElsewhere ==
  ASSUME IInv, AInv, NEW q \in Requests, Step(q) \/ Die(q), UNCHANGED policies,
         NEW i \in Inodes \ torn, files'[i] = files[i],
         ~Writes(q, i), ~Writes(q, i)'
  PROVE  Sound(i)'
<1>0. TypeOK /\ Sound(i)
  BY AInvParts DEF IInv
<1>1. ASSUME NEW r \in Requests
      PROVE  /\ Writes(r, i)' <=> Writes(r, i)
             /\ Writes(r, i) => pos'[r] = pos[r] /\ fresh'[r] = fresh[r]
  <2>1. CASE r = q
    BY <2>1
  <2>2. CASE r # q
    BY <1>0, <2>2, OwnStep DEF Writes
  <2> QED
    BY <2>1, <2>2
<1> QED
  BY <1>0, <1>1, SameGrow, SoundStays

\* What a step does to the positions of the requests that do not write.
LEMMA PosZeroStays ==
  ASSUME IInv, AInv, NEW q \in Requests, Step(q) \/ Die(q),
         pc'[q] # "write" => pos'[q] = 0
  PROVE  PosZero'
<1>0. TypeOK /\ PosZero
  BY AInvParts DEF IInv
<1>1. ASSUME NEW r \in Requests \ {q} PROVE pc'[r] = pc[r] /\ pos'[r] = pos[r]
  BY <1>0, OwnStep
<1> QED
  BY <1>0, <1>1 DEF PosZero

\* refresh_policy has compared the ids and begins, alone in the file or not.
LEMMA AloneCompare ==
  ASSUME IInv, AInv, NEW q \in Requests, Compare(q)
  PROVE  AInv'
<1> USE DEF server, writer, Goto
<1>0. /\ TypeOK /\ Holds(q) /\ PosZero /\ Step(q) /\ pc[q] = "compare" /\ pos[q] = 0
      /\ \A i \in Inodes \ torn : Sound(i)
  BY AInvParts, IInvParts DEF Compare, PosZero, Step
<1>1. UNCHANGED <<files, policies, fresh>>
  BY DEF Compare
<1>2. CASE Refreshed(q) /\ UNCHANGED torn
  <2>1. pc'[q] # "write" /\ pos'[q] = 0
    BY <1>0, <1>2 DEF Refreshed, End, Close, Drop, TypeOK
  <2> QED
    BY <1>0, <1>1, <1>2, <2>1, SameGrow, AloneQuiet
<1>3. CASE /\ wfd[q] = fd[q] /\ pc' = [pc EXCEPT ![q] = "write"]
           /\ torn' = torn \cup {i \in {wfd[q]} : \E r \in Requests : Writes(r, i)}
           /\ UNCHANGED <<fd, size, buf, wfd, pos>>
  <2>1. PosZero'
    BY <1>0, <1>3 DEF PosZero, TypeOK
  <2>2. ASSUME NEW i \in Inodes \ torn', i = wfd[q] PROVE Sound(i)'
    <3>1. /\ i \in Inodes \ torn /\ Sound(i) /\ \A r \in Requests : ~Writes(r, i)
      BY <1>0, <1>3, <2>2
    <3>2. Whole(i) /\ Whole(i)'
      <4>1. Whole(i)
        BY <3>1 DEF Sound
      <4> QED
        BY <1>1, <4>1 DEF Whole, Tail0
    <3>3. \A r \in Requests : Writes(r, i)' => r = q
      BY <1>0, <1>3, <3>1 DEF Writes, TypeOK
    <3>4. Begun(q, i)'
      <4>1. pos'[q] = 0 /\ Len(files'[i].tail) \in 0..MaxTail /\ MaxTail \in Nat
        BY <1>0, <1>1, <1>3, Lengths
      <4> QED
        BY <4>1 DEF Begun
    <3> QED
      BY <3>2, <3>3, <3>4 DEF Sound
  <2>3. ASSUME NEW i \in Inodes \ torn', i # wfd[q] PROVE Sound(i)'
    <3>1. i \in Inodes \ torn /\ ~Writes(q, i) /\ ~Writes(q, i)'
      BY <1>3, <2>3 DEF Writes
    <3> QED
      BY <1>0, <1>1, <3>1, AloneElsewhere
  <2> QED
    BY <1>1, <2>1, <2>2, <2>3, AInvPartsPrime DEF Inodes
<1> QED
  BY <1>2, <1>3 DEF Compare

\* One more cell of the new tail is in place.
LEMMA AloneWrite ==
  ASSUME IInv, AInv, NEW q \in Requests, Write(q)
  PROVE  AInv'
<1> USE DEF server
<1>0. /\ TypeOK /\ Holds(q) /\ PosZero /\ Step(q) /\ pc[q] = "write"
      /\ \A i \in Inodes \ torn : Sound(i)
  BY AInvParts, IInvParts DEF Write, Step
<1>1. /\ fresh[q] \in 1..Len(policies) /\ wfd[q] \in Inodes /\ wfd[q] \in Nat
      /\ pos[q] \in 0..MaxTail /\ MaxTail \in Nat
  BY <1>0, WriterHas
<1>w. PICK w \in Inodes : w = wfd[q] /\ w \in Nat
  BY <1>1
<1>k. PICK k \in 1..Len(policies) : k = fresh[q]
  BY <1>1
<1>n. PICK n \in Nat \ {0} : n = pos[q] + 1
  BY <1>1
<1>2. /\ Tail0(k, w) \in Seq(Cells) /\ policies[k].size \in 1..MaxSize
      /\ Len(Tail0(k, w)) = policies[k].size + 1
  BY <1>0, <1>w, Tail0Is DEF TypeOK
<1>c. PICK cell : cell = Tail0(k, w)[n]
  OBVIOUS
<1>t. PICK t : t = WriteAt(files[w].tail, n, cell)
  OBVIOUS
<1>3. /\ n <= Len(Tail0(k, w))
      /\ files' = [files EXCEPT ![w].tail = t]
      /\ pos' = [pos EXCEPT ![q] = n]
      /\ UNCHANGED <<policies, torn, pc, fresh, wfd>>
  BY <1>w, <1>k, <1>n, <1>c, <1>t DEF Write
<1>4. /\ files[w].tail \in Seq(Cells) /\ Len(files[w].tail) \in 0..MaxTail
  BY <1>0, Lengths
<1>5. cell \in Cells
  <2>1. n \in 1..Len(Tail0(k, w))
    BY <1>2, <1>3
  <2> QED
    BY <1>2, <1>c, <2>1, ElementOfSeq
<1>6. /\ t \in Seq(Cells)
      /\ Len(t) = IF n > Len(files[w].tail) THEN n ELSE Len(files[w].tail)
      /\ Len(t) <= MaxTail
  <2>1. /\ t \in Seq(Cells)
        /\ Len(t) = IF n > Len(files[w].tail) THEN n ELSE Len(files[w].tail)
    BY <1>4, <1>5, <1>n, <1>t, WriteAtIs
  <2>2. n <= MaxTail
    BY <1>2, <1>3, HttpAssumption DEF MaxTail
  <2> QED
    BY <1>4, <2>1, <2>2
<1>7. /\ Inodes' = Inodes /\ files'[w].tail = t
      /\ \A i \in Inodes \ {w} : files'[i] = files[i]
  BY <1>0, <1>3, <1>6, TailChanges
<1>8. t[n] = cell /\ \A m \in 1..Len(files[w].tail) : m # n => t[m] = files[w].tail[m]
  BY <1>4, <1>t, <1>n DEF WriteAt
<1>9. ASSUME w \notin torn PROVE Sound(w)'
  <2>1. /\ Writes(q, w) /\ Begun(q, w) /\ \A r \in Requests : Writes(r, w) => r = q
    BY <1>0, <1>9, <1>w DEF Sound, Writes
  <2>2. \A r \in Requests : Writes(r, w)' <=> Writes(r, w)
    BY <1>3 DEF Writes
  <2>3. Begun(q, w)'
    <3>1. pos'[q] = n /\ fresh'[q] = k /\ Tail0(k, w)' = Tail0(k, w)
      BY <1>0, <1>3, <1>k DEF TypeOK, Tail0
    <3>2. /\ pos[q] <= Len(files[w].tail)
          /\ \A m \in 1..pos[q] : files[w].tail[m] = Tail0(k, w)[m]
      BY <2>1, <1>k DEF Begun
    <3>3. n <= Len(t)
      BY <1>4, <1>6
    <3>4. ASSUME NEW m \in 1..n PROVE t[m] = Tail0(k, w)[m]
      <4>1. CASE m = n
        BY <1>8, <1>c, <4>1
      <4>2. CASE m # n
        <5>1. m \in 1..pos[q] /\ m \in 1..Len(files[w].tail)
          BY <1>n, <1>1, <1>4, <3>2, <4>2
        <5> QED
          BY <1>8, <3>2, <4>2, <5>1
      <4> QED
        BY <4>1, <4>2
    <3>5. \A m \in 1..pos'[q] : files'[w].tail[m] = Tail0(fresh[q], w)'[m]
      BY <1>7, <3>1, <3>4 DEF Tail0
    <3> QED
      BY <1>7, <3>1, <3>3, <3>5 DEF Begun
  <2> QED
    BY <2>1, <2>2, <2>3 DEF Sound
<1>10. ASSUME NEW i \in Inodes \ torn, i # w PROVE Sound(i)'
  <2>1. ~Writes(q, i) /\ ~Writes(q, i)'
    BY <1>3, <1>10, <1>w DEF Writes
  <2> QED
    BY <1>0, <1>3, <1>7, <1>10, <2>1, AloneElsewhere
<1>11. PosZero'
  BY <1>0, <1>3, PosZeroStays
<1> QED
  BY <1>3, <1>7, <1>9, <1>10, <1>11, AInvPartsPrime

\* set_len cuts off the rest of a longer policy: the file is whole again.
LEMMA AloneSetLen ==
  ASSUME IInv, AInv, NEW q \in Requests, SetLen(q)
  PROVE  AInv'
<1> USE DEF server
<1>0. /\ TypeOK /\ Holds(q) /\ PosZero /\ Step(q) /\ pc[q] = "write"
      /\ \A i \in Inodes \ torn : Sound(i)
  BY AInvParts, IInvParts DEF SetLen, Step
<1>1. /\ fresh[q] \in 1..Len(policies) /\ wfd[q] \in Inodes /\ wfd[q] \in Nat
      /\ pos[q] \in 0..MaxTail /\ MaxTail \in Nat
  BY <1>0, WriterHas
<1>w. PICK w \in Inodes : w = wfd[q] /\ w \in Nat
  BY <1>1
<1>k. PICK k \in 1..Len(policies) : k = fresh[q]
  BY <1>1
<1>n. PICK n \in Nat : n = pos[q] /\ n <= MaxTail
  BY <1>1
<1>2. /\ Tail0(k, w) \in Seq(Cells) /\ Len(Tail0(k, w)) = n
  <2>1. n = policies[k].size + 1
    BY <1>k, <1>n DEF SetLen
  <2> QED
    BY <1>0, <1>w, <2>1, Tail0Is DEF TypeOK
<1>t. PICK t : t = CutTo(files[w].tail, n)
  OBVIOUS
<1>3. /\ files' = [files EXCEPT ![w].tail = t] /\ Refreshed(q)
      /\ UNCHANGED <<policies, torn, fresh>>
  BY <1>w, <1>n, <1>t DEF SetLen
<1>4. files[w].tail \in Seq(Cells) /\ Len(files[w].tail) \in Nat
  BY <1>0, Lengths
<1>5. t \in Seq(Cells) /\ Len(t) = n
  BY <1>4, <1>t, CutToIs
<1>l. Len(t) <= MaxTail /\ files' = [files EXCEPT ![w].tail = t]
  BY <1>3, <1>5, <1>n
<1>6. /\ Inodes' = Inodes /\ files'[w].tail = t
      /\ \A i \in Inodes \ {w} : files'[i] = files[i]
  BY <1>0, <1>5, <1>l, TailChanges
<1>7. pc'[q] # "write" /\ pos'[q] = 0
  BY <1>0, <1>3 DEF Refreshed, End, Close, Drop, Goto, TypeOK
<1>8. ASSUME w \notin torn PROVE Sound(w)'
  <2>1. Begun(q, w) /\ \A r \in Requests : Writes(r, w) => r = q
    BY <1>0, <1>8, <1>w DEF Sound, Writes
  <2>2. \A r \in Requests : ~Writes(r, w)'
    BY <1>0, <1>7, <2>1, OwnStep DEF Writes
  <2>3. t = Tail0(k, w)
    <3>1. /\ n <= Len(files[w].tail)
          /\ \A m \in 1..n : files[w].tail[m] = Tail0(k, w)[m]
      BY <2>1, <1>k, <1>n DEF Begun
    <3>2. ASSUME NEW m \in 1..n PROVE t[m] = Tail0(k, w)[m]
      BY <1>4, <1>t, <1>n, <3>1 DEF CutTo
    <3> QED
      BY <1>2, <1>5, <3>2, SeqEqual
  <2>4. Whole(w)'
    BY <1>3, <1>6, <2>3 DEF Whole, Tail0
  <2> QED
    BY <2>2, <2>4 DEF Sound
<1>9. ASSUME NEW i \in Inodes \ torn, i # w PROVE Sound(i)'
  <2>1. ~Writes(q, i) /\ ~Writes(q, i)'
    BY <1>7, <1>9, <1>w DEF Writes
  <2> QED
    BY <1>0, <1>3, <1>6, <1>9, <2>1, AloneElsewhere
<1>10. PosZero'
  BY <1>0, <1>7, PosZeroStays
<1> QED
  BY <1>3, <1>6, <1>8, <1>9, <1>10, AInvPartsPrime

\* Who dies while writing leaves a torn file, and no other.
LEMMA AloneDie ==
  ASSUME IInv, AInv, NEW q \in Requests, Die(q), pc[q] = "write"
  PROVE  AInv'
<1>0. TypeOK
  BY DEF IInv
<1>1. /\ UNCHANGED <<files, policies>> /\ torn' = torn \cup {wfd[q]}
      /\ pc'[q] = "dead" /\ pos'[q] = 0
  BY <1>0 DEF Die, Writes, End, Close, Drop, Goto, TypeOK, server
<1>2. PosZero'
  BY <1>1, PosZeroStays
<1>3. ASSUME NEW i \in Inodes' \ torn' PROVE Sound(i)'
  <2>1. i \in Inodes \ torn /\ ~Writes(q, i) /\ ~Writes(q, i)' /\ files'[i] = files[i]
    BY <1>1, <1>3 DEF Writes, Inodes
  <2> QED
    BY <1>1, <2>1, AloneElsewhere
<1> QED
  BY <1>2, <1>3, AInvPartsPrime

\* A new file is whole, and nobody has it open for writing.
LEMMA AloneStore ==
  ASSUME IInv, AInv, NEW q \in Requests, Store(q)
  PROVE  AInv'
<1> USE DEF server
<1>0. TypeOK /\ Holds(q) /\ Len(files) \in Nat /\ Step(q) /\ pc[q] = "store"
  BY IInvParts, Lengths DEF Step, Store
<1>i. PICK i \in Nat : i = Len(files) + 1
  BY <1>0
<1>k. PICK k \in 1..Len(policies) : k = fresh[q]
  BY <1>0 DEF Holds
<1> DEFINE new == [payload |-> payload[q], tail |-> Tail0(k, i)]
<1>1. /\ files' = Append(files, new) /\ UNCHANGED <<policies, torn>>
      /\ pc'[q] = "done" /\ pos'[q] = 0
  BY <1>0, <1>i, <1>k DEF Store, End, Close, Drop, Goto, TypeOK
<1>2. new \in Files /\ new.tail = Tail0(k, i)
  <2>1. Tail0(k, i) \in Seq(Cells) /\ payload[q] \in 0..MaxVersion
    BY <1>0, Tail0Is DEF TypeOK
  <2> QED
    BY <2>1 DEF Files
<1> HIDE DEF new
<1>a. /\ files' \in Seq(Files) /\ Len(files') = i /\ files'[i] = new
      /\ \A j \in Inodes : files'[j] = files[j]
  BY <1>0, <1>1, <1>2, <1>i, AppendProperties DEF TypeOK, Inodes
<1>3. /\ Inodes' = Inodes \cup {i} /\ files'[i] = new
      /\ \A j \in Inodes : files'[j] = files[j]
  BY <1>0, <1>a, <1>i DEF Inodes
<1>4. Sound(i)'
  <2>1. ASSUME NEW r \in Requests PROVE ~Writes(r, i)'
    <3>1. CASE r = q
      BY <1>1, <3>1 DEF Writes
    <3>2. CASE r # q
      <4>1. pc'[r] = pc[r] /\ wfd'[r] = wfd[r]
        BY <1>0, <3>2, OwnStep
      <4>2. pc[r] = "write" => wfd[r] # i
        BY <1>0, <1>i, WriterHas DEF Inodes
      <4> QED
        BY <4>1, <4>2 DEF Writes
    <3> QED
      BY <3>1, <3>2
  <2>2. Whole(i)'
    BY <1>1, <1>2, <1>3 DEF Whole, Tail0
  <2> QED
    BY <2>1, <2>2 DEF Sound
<1>5. ASSUME NEW j \in Inodes \ torn PROVE Sound(j)'
  <2>1. ~Writes(q, j) /\ ~Writes(q, j)'
    BY <1>0, <1>1 DEF Writes
  <2> QED
    BY <1>0, <1>1, <1>3, <2>1, AloneElsewhere
<1>6. PosZero'
  BY <1>0, <1>1, PosZeroStays
<1> QED
  BY <1>1, <1>3, <1>4, <1>5, <1>6, AInvPartsPrime

\* The resource changes, or nothing does.
LEMMA AloneIdle ==
  ASSUME IInv, AInv, Change \/ UNCHANGED vars
  PROVE  AInv'
<1>1. UNCHANGED <<files, torn, policies, pc, wfd, pos, fresh>>
  BY DEF Change, vars, server, disk, writer
<1>2. PosZero'
  BY <1>1, AInvParts DEF PosZero
<1>3. ASSUME NEW i \in Inodes \ torn PROVE Sound(i)'
  <2>1. TypeOK /\ Sound(i)
    BY AInvParts DEF IInv
  <2>2. \A r \in Requests : Writes(r, i)' <=> Writes(r, i)
    BY <1>1 DEF Writes
  <2> QED
    BY <1>1, <2>1, <2>2, SameGrow, SoundStays
<1> QED
  BY <1>1, <1>2, <1>3, AInvPartsPrime DEF Inodes

LEMMA AloneNext == IInv /\ AInv /\ [Next]_vars => AInv'
<1> SUFFICES ASSUME IInv, AInv, [Next]_vars PROVE AInv'
  OBVIOUS
<1>1. CASE Change \/ UNCHANGED vars
  BY <1>1, AloneIdle
<1>2. ASSUME NEW q \in Requests, Step(q) \/ Die(q) PROVE AInv'
  BY <1>2, AloneOthers, AloneCompare, AloneWrite, AloneSetLen, AloneDie, AloneStore DEF Step
<1> QED
  BY <1>1, <1>2 DEF Next

LEMMA AloneInit == Init => AInv
<1> SUFFICES ASSUME Init PROVE AInv
  OBVIOUS
<1>1. PosZero /\ \A r \in Requests : \A i : ~Writes(r, i)
  BY DEF Init, PosZero, Writes
<1>2. ASSUME NEW i \in Inodes PROVE Whole(i)
  <2>1. CASE files = <<>>
    BY <1>2, <2>1 DEF Inodes
  <2>2. ASSUME NEW s \in Shapes,
               policies = <<[version |-> 0, size |-> s.size, immutable |-> s.immutable]>>,
               files = <<[payload |-> 0, tail |-> Tail0(1, 1)]>>
        PROVE  Whole(i)
    <3>1. i = 1 /\ files[1].tail = Tail0(1, 1) /\ 1 \in 1..Len(policies)
      BY <1>2, <2>2 DEF Inodes
    <3> QED
      BY <3>1 DEF Whole
  <2> QED
    BY <2>1, <2>2 DEF Init
<1>3. ASSUME NEW i \in Inodes PROVE Sound(i)
  BY <1>1, <1>2, <1>3 DEF Sound
<1> QED
  BY <1>1, <1>3, AInvParts

-------------------------------------------------------------------------------
\* In every reachable state the footers, wherever they are, vouch for the payload
\* of their file, and every request has in hand what its step says it has.
THEOREM Inductive == Spec => []IInv
BY InitHolds, NextHolds, PTL DEF Spec

\* No payload is returned, or left in the entry for the next reader, on the word of
\* a policy for another one (refresh_policy compares the ids before it overwrites).
THEOREM PoliciesVouch == Spec => []PolicyVouches
<1>1. IInv => PolicyVouches
  <2> SUFFICES ASSUME IInv PROVE PolicyVouches
    OBVIOUS
  <2>0. TypeOK /\ FilesHold /\ \A r \in Requests : Holds(r)
    BY IInvParts
  <2>1. ASSUME NEW r \in Requests, pc[r] \in {"hit", "done", "stale"}
        PROVE  policies[fresh[r]].version = payload[r]
    BY <2>0, <2>1 DEF Holds, Vouched
  <2>2. ASSUME NEW k \in 1..Len(policies), path # 0, files[path].tail = Tail0(k, path)
        PROVE  policies[k].version = files[path].payload
    <3>1. path \in Inodes /\ path \in Nat
      BY <2>0, <2>2, Lengths DEF TypeOK, Inodes
    <3>2. /\ policies[k].size \in 1..MaxSize
          /\ Len(Tail0(k, path)) = policies[k].size + 1
          /\ Tail0(k, path)[policies[k].size + 1] = Footer(k, path)
      BY <2>0, <3>1, Tail0Is DEF TypeOK
    <3>n. Len(policies) \in Nat /\ Len(policies) <= MaxPolicies
      BY <2>0, Lengths DEF TypeOK
    <3>3. k \in 1..MaxPolicies /\ policies[k].size + 1 \in 1..Len(files[path].tail)
      BY <2>2, <3>n, <3>2, HttpAssumption
    <3>4. Footer(k, path)[1] = "footer" /\ Footer(k, path)[2] = k
      BY <3>1, <3>3, CellTypes
    <3>5. Vouched(k, path)
      BY <2>0, <2>2, <3>1, <3>2, <3>3, <3>4 DEF FilesHold, FootersOf
    <3> QED
      BY <3>5 DEF Vouched
  <2> QED
    BY <2>1, <2>2 DEF PolicyVouches
<1> QED
  BY <1>1, Inductive, PTL

\* A request that asked the server returns a version the resource had while the
\* request was under way, whatever others do to the entry meanwhile; one that has to
\* revalidate goes without asking only by a response marked immutable.
THEOREM RevalidationIsRecent == Spec => []RevalidatedIsRecent
<1>1. IInv => RevalidatedIsRecent
  BY DEF IInv
<1> QED
  BY <1>1, Inductive, PTL

\* Only a refresh that was interrupted, or that another one overlapped, leaves a file
\* whose checksum fails (refresh_policy overwrites policy and footer, then cuts the
\* file to its new length).
THEOREM TornOnlyByOverlap == Spec => []TornByOverlapOnly
<1>1. AInv => TornByOverlapOnly
  BY DEF AInv
<1>2. Spec => []AInv
  BY Inductive, AloneInit, AloneNext, PTL DEF Spec
<1> QED
  BY <1>1, <1>2, PTL
===============================================================================
