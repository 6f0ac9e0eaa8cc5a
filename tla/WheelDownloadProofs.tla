------------------------- MODULE WheelDownloadProofs -------------------------
(***************************************************************************)
(* For any versions, sizes, budget and callers: the retries that are        *)
(* performed are the ones that are counted, and a published wheel is, byte  *)
(* for byte and in its place, what was hashed, through any interruptions,   *)
(* resumptions and responses that start over.                               *)
(***************************************************************************)
EXTENDS WheelDownload, SequenceTheorems, TLAPS

-------------------------------------------------------------------------------
(* The retry budget. *)

LEMMA BudgetInit == Init => BudgetInv
BY DEF Init, BudgetInv, NoError, Error, Errors

\* A full or a partial response is entered, or rejected, with the error's retries
\* at zero.
LEMMA EnterErr ==
  ASSUME NEW r, Enter(r)
  PROVE  \/ pc' = "copy" /\ err' = err
         \/ pc' = "outer" /\ err' = Fatal
BY DEF Enter, ToLoop

\* An error that carries no retries.
Clean(e) == e \in Errors /\ e.retries = 0

LEMMA CleanErrors ==
  /\ Clean(Fatal) /\ Clean(NoError)
  /\ Clean(Error(TRUE, TRUE, 0)) /\ Clean(Error(FALSE, TRUE, 0))
  /\ Clean(Error(TRUE, FALSE, 0)) /\ Clean(Error(FALSE, FALSE, 0))
BY DEF Clean, Fatal, NoError, Error, Errors

LEMMA BudgetNext == BudgetInv /\ [Next]_vars => BudgetInv'
<1> SUFFICES ASSUME BudgetInv, [Next]_vars PROVE BudgetInv'
  OBVIOUS
<1>0. Mid \subseteq Nat /\ Budget \in Nat
  BY VersionsAssumption DEF Mid
<1>1. pc # "outer" => Clean(err) /\ spent = retries
  BY DEF BudgetInv, Clean
<1>t. retries \in Nat /\ err \in Errors /\ err.retries \in Nat /\ spent = retries + err.retries
  BY DEF BudgetInv, Errors
\* The steps that keep what is counted, or count what is performed.
<1>2. ASSUME Clean(err'), spent = retries, NEW m \in Nat, retries' = retries + m, spent' = spent + m
      PROVE  BudgetInv'
  BY <1>2, <1>t DEF BudgetInv, Clean
<1>3. CASE Start
  BY <1>3, CleanErrors DEF Start, BudgetInv, Clean
<1>4. CASE SendFails
  <2>1. PICK m \in Mid, t \in BOOLEAN : ToLoop(Error(t, FALSE, m)) /\ spent' = spent + m
    BY <1>4 DEF SendFails
  <2>2. pc' = "outer" /\ err' = Error(t, FALSE, m) /\ m \in Nat
    BY <1>0, <2>1 DEF ToLoop
  <2>3. err' \in Errors /\ err'.retries = m
    BY <2>2 DEF Error, Errors
  <2>4. retries' = retries /\ spent = retries
    BY <1>1, <1>4 DEF SendFails
  <2> QED
    BY <1>t, <2>1, <2>2, <2>3, <2>4 DEF BudgetInv
<1>5. CASE SendAnswered
  <2>1. PICK m \in Mid : retries' = retries + m /\ spent' = spent + m
    BY <1>5 DEF SendAnswered, Record
  <2>2. err' = err \/ err' = Fatal
    <3>1. CASE \E r : Enter(r)
      BY <3>1, EnterErr
    <3>2. CASE ~\E r : Enter(r)
      BY <1>5, <3>2 DEF SendAnswered
    <3> QED
      BY <3>1, <3>2
  <2>3. spent = retries /\ Clean(err) /\ m \in Nat
    BY <1>0, <1>1, <1>5 DEF SendAnswered
  <2> QED
    BY <1>2, <2>1, <2>2, <2>3, CleanErrors
<1>6. CASE Stream
  <2>1. retries' = retries /\ spent' = spent /\ spent = retries /\ Clean(err)
    BY <1>1, <1>6 DEF Stream
  <2>2. Clean(err')
    BY <1>6, <2>1, CleanErrors DEF Stream, ToLoop, Return
  <2> QED
    BY <1>2, <1>t, <2>1, <2>2
<1>r. ASSUME NEW e, Clean(e), NEW b \in BOOLEAN, NEW o, NEW n, Recover(e, b, o, n), spent = retries
      PROVE  BudgetInv'
  <2>1. err' = e
    BY <1>r DEF Recover, ToLoop
  <2>2. \E m \in Nat : retries' = retries + m /\ spent' = spent + m
    BY <1>r, <1>t DEF Recover
  <2> QED
    BY <1>2, <1>r, <2>1, <2>2
<1>7. CASE CopyEnds
  <2>1. Clean(err) /\ spent = retries
    BY <1>1, <1>7 DEF CopyEnds
  <2>2. CASE Recover(Error(TRUE, FALSE, 0), FALSE, bytes_retrieved', bytes_retrieved')
    BY <1>r, <2>1, <2>2, CleanErrors
  <2>3. CASE ~Recover(Error(TRUE, FALSE, 0), FALSE, bytes_retrieved', bytes_retrieved')
    <3>1. (err' = err \/ err' = Fatal) /\ UNCHANGED <<retries, spent>>
      BY <1>7, <2>3 DEF CopyEnds, Drained, ToLoop
    <3> QED
      BY <1>2, <1>t, <2>1, <3>1, CleanErrors
  <2> QED
    BY <2>2, <2>3
<1>8. CASE CopyBreaks
  <2>1. PICK t \in BOOLEAN : Recover(Error(t, FALSE, 0), TRUE, Len(file'), bytes_retrieved')
    BY <1>8 DEF CopyBreaks
  <2>2. spent = retries /\ Clean(Error(t, FALSE, 0))
    <3>1. spent = retries
      BY <1>1, <1>8 DEF CopyBreaks
    <3>2. CASE t = TRUE
      BY <3>1, <3>2, CleanErrors
    <3>3. CASE t = FALSE
      BY <3>1, <3>3, CleanErrors
    <3> QED
      BY <3>2, <3>3
  <2> QED
    BY <1>r, <2>1, <2>2
<1>9. CASE ResumeFails
  <2>1. PICK m \in Mid : retries' = retries + m /\ spent' = spent + m
    BY <1>9 DEF ResumeFails, Record
  <2>2. spent = retries /\ Clean(err)
    BY <1>1, <1>9 DEF ResumeFails
  <2>3. \/ err' = err \/ err' = Error(TRUE, FALSE, 0) \/ err' = Error(FALSE, FALSE, 0)
    BY <1>9 DEF ResumeFails, ToLoop
  <2> QED
    BY <1>0, <1>2, <2>1, <2>2, <2>3, CleanErrors
<1>10. CASE ResumeRanged \/ ResumeRestarted
  <2>1. PICK m \in Mid : retries' = retries + m /\ spent' = spent + m
    BY <1>10 DEF ResumeRanged, ResumeRestarted, Record
  <2>2. Clean(err) /\ spent = retries
    BY <1>1, <1>10 DEF ResumeRanged, ResumeRestarted
  <2>3. err' = err \/ err' = Fatal
    <3>1. CASE \E r : Enter(r)
      BY <3>1, EnterErr
    <3>2. CASE ~\E r : Enter(r)
      BY <1>10, <3>2 DEF ResumeRanged, ResumeRestarted, ToLoop
    <3> QED
      BY <3>1, <3>2
  <2> QED
    BY <1>0, <1>2, <2>1, <2>2, <2>3, CleanErrors
<1>11. CASE Finish
  <2>1. retries' = retries /\ spent' = spent /\ spent = retries /\ Clean(err)
    BY <1>1, <1>11 DEF Finish
  <2>2. Clean(err')
    BY <1>11, <2>1, CleanErrors DEF Finish, ToLoop, Return
  <2> QED
    BY <1>2, <1>t, <2>1, <2>2
<1>12. CASE Retry
  <2>1. retries' = retries + err.retries + 1 /\ spent' = spent + 1 /\ Clean(err')
    BY <1>12, CleanErrors DEF Retry
  <2> QED
    BY <1>t, <2>1 DEF BudgetInv, Clean
<1>13. CASE GiveUp
  <2>1. retries' = retries + err.retries /\ spent' = spent /\ err' = [err EXCEPT !.retries = 0]
    BY <1>13 DEF GiveUp
  <2>2. Clean(err')
    BY <1>t, <2>1 DEF Clean, Errors
  <2> QED
    BY <1>t, <2>1, <2>2 DEF BudgetInv, Clean
<1>14. CASE Check
  BY <1>14, <1>1, <1>2, <1>t DEF Check, Clean, BudgetInv
<1>15. CASE Stop \/ UNCHANGED vars
  BY <1>15 DEF Stop, vars, BudgetInv
<1> QED
  BY <1>3, <1>4, <1>5, <1>6, <1>7, <1>8, <1>9, <1>10, <1>11, <1>12, <1>13, <1>14, <1>15 DEF Next

\* RetryState and the error in hand account for every retry performed, by the
\* middleware, by a resumed body and by a restarted request.
THEOREM RetriesAreCounted == Spec => []BudgetInv
BY BudgetInit, BudgetNext, PTL DEF Spec

\* Nothing is resumed or restarted once the shared budget is used up.
THEOREM RecoveryIsWithinBudget == Spec => RecoversWithinBudget
<1>1. BudgetInv /\ [Next]_vars => [spent' > spent /\ (pc = "copy" \/ pc = "outer") => spent < Budget]_vars
  <2> SUFFICES ASSUME BudgetInv, Next, spent' > spent, pc = "copy" \/ pc = "outer"
               PROVE  spent < Budget
    BY DEF vars
  <2>0. retries \in Nat /\ err.retries \in Nat /\ spent = retries + err.retries
    BY DEF BudgetInv, Errors
  <2>r. ASSUME NEW e, NEW b \in BOOLEAN, NEW o, NEW n, Recover(e, b, o, n), pc = "copy"
        PROVE  spent < Budget
    <3>1. spent = retries
      BY <2>0, <2>r DEF BudgetInv
    <3>2. b = TRUE /\ Granted(e, retries)
      BY <2>0, <2>r, <3>1 DEF Recover
    <3> QED
      BY <3>1, <3>2 DEF Granted
  <2>1. CASE CopyEnds
    <3>1. Recover(Error(TRUE, FALSE, 0), FALSE, bytes_retrieved', bytes_retrieved') \/ spent' = spent
      BY <2>1 DEF CopyEnds, Drained
    <3>2. pc = "copy" /\ spent' # spent
      BY <2>0, <2>1 DEF CopyEnds
    <3> QED
      BY <2>r, <3>1, <3>2
  <2>2. CASE CopyBreaks
    BY <2>2, <2>r DEF CopyBreaks
  <2>3. CASE Retry
    BY <2>0, <2>3 DEF Retry, Granted
  <2>4. CASE GiveUp
    BY <2>0, <2>4 DEF GiveUp
  <2> QED
    BY <2>1, <2>2, <2>3, <2>4 DEF Next, Start, SendFails, SendAnswered, Stream, ResumeFails,
       ResumeRanged, ResumeRestarted, Finish, Check, Stop
<1> QED
  BY <1>1, RetriesAreCounted, PTL DEF Spec, RecoversWithinBudget

\* No retry is counted twice: with a transient error the loop stops only once the
\* retries performed reach the budget.
THEOREM GivingUpIsSpent == Spec => GivesUpOnlySpent
<1>1. BudgetInv /\ [Next]_vars =>
        [pc = "outer" /\ err.transient /\ pc' # "send" => spent >= Budget]_vars
  <2> SUFFICES ASSUME BudgetInv, Next, pc = "outer", err.transient, pc' # "send"
               PROVE  spent >= Budget
    BY DEF vars
  <2>0. retries \in Nat /\ err.retries \in Nat /\ spent = retries + err.retries /\ Budget \in Nat
    BY VersionsAssumption DEF BudgetInv, Errors
  <2>1. GiveUp
    BY DEF Next, Start, SendFails, SendAnswered, Stream, CopyEnds, CopyBreaks, ResumeFails,
       ResumeRanged, ResumeRestarted, Finish, Check, Stop, Retry
  <2> QED
    BY <2>0, <2>1 DEF GiveUp, Granted
<1> QED
  BY <1>1, RetriesAreCounted, PTL DEF Spec, GivesUpOnlySpent

-------------------------------------------------------------------------------
(* The bytes of the file. *)

\* The bytes of s lie at consecutive places from o + 1 on.
Placed(s, o) == s \in Seq(Bytes) /\ \A i \in 1..Len(s) : s[i][2] = o + i

LEMMA ContentPlaced ==
  ASSUME NEW v \in Versions
  PROVE  Placed(Content(v), 0) /\ Len(Content(v)) = Size[v]
<1>1. Size[v] \in Nat
  BY VersionsAssumption
<1>2. Content(v) \in Seq(Bytes) /\ Len(Content(v)) = Size[v]
  BY <1>1 DEF Content, Bytes
<1>3. ASSUME NEW i \in 1..Len(Content(v)) PROVE Content(v)[i][2] = 0 + i
  BY <1>1, <1>2, <1>3 DEF Content
<1> QED
  BY <1>2, <1>3 DEF Placed

\* A piece of a placed sequence lies where it was cut from.
LEMMA PiecePlaced ==
  ASSUME NEW s, Placed(s, 0), NEW first \in Nat, NEW last \in Nat, last <= Len(s)
  PROVE  /\ Placed(SubSeq(s, first + 1, last), first)
         /\ Len(SubSeq(s, first + 1, last)) = IF first < last THEN last - first ELSE 0
<1>1. s \in Seq(Bytes) /\ Len(s) \in Nat
  BY DEF Placed
<1>2. CASE first < last
  <2>1. /\ SubSeq(s, first + 1, last) \in Seq(Bytes)
        /\ Len(SubSeq(s, first + 1, last)) = last - first
        /\ \A i \in 1..(last - first) : SubSeq(s, first + 1, last)[i] = s[first + i]
    BY <1>1, <1>2, SubSeqProperties
  <2>2. ASSUME NEW i \in 1..(last - first) PROVE SubSeq(s, first + 1, last)[i][2] = first + i
    BY <1>1, <1>2, <2>1, <2>2 DEF Placed
  <2> QED
    BY <1>2, <2>1, <2>2 DEF Placed
<1>3. CASE ~(first < last)
  <2>1. SubSeq(s, first + 1, last) = <<>>
    BY <1>1, <1>3, SubSeqProperties
  <2> QED
    BY <1>3, <2>1 DEF Placed
<1> QED
  BY <1>2, <1>3

LEMMA PrefixPlaced ==
  ASSUME NEW s, NEW o \in Nat, Placed(s, o), NEW n \in 0..Len(s)
  PROVE  Placed(SubSeq(s, 1, n), o) /\ Len(SubSeq(s, 1, n)) = n
<1>1. s \in Seq(Bytes) /\ Len(s) \in Nat
  BY DEF Placed
<1>2. /\ SubSeq(s, 1, n) \in Seq(Bytes)
      /\ Len(SubSeq(s, 1, n)) = n
      /\ \A i \in 1..n : SubSeq(s, 1, n)[i] = s[i]
  BY <1>1, SubSeqProperties
<1> QED
  BY <1>1, <1>2 DEF Placed

\* What is written behind a placed file, from where the file ends, keeps it placed.
LEMMA ConcatPlaced ==
  ASSUME NEW f, NEW b, Placed(f, 0), Placed(b, Len(f))
  PROVE  Placed(f \o b, 0) /\ Len(f \o b) = Len(f) + Len(b)
<1>1. f \in Seq(Bytes) /\ b \in Seq(Bytes) /\ Len(f) \in Nat /\ Len(b) \in Nat
  BY DEF Placed
<1>2. /\ f \o b \in Seq(Bytes) /\ Len(f \o b) = Len(f) + Len(b)
      /\ \A i \in 1..(Len(f) + Len(b)) :
           (f \o b)[i] = IF i <= Len(f) THEN f[i] ELSE b[i - Len(f)]
  BY <1>1, ConcatProperties
<1>3. ASSUME NEW i \in 1..(Len(f) + Len(b)) PROVE (f \o b)[i][2] = i
  <2>1. CASE i <= Len(f)
    BY <1>1, <1>2, <2>1 DEF Placed
  <2>2. CASE ~(i <= Len(f))
    <3>1. i - Len(f) \in 1..Len(b) /\ (f \o b)[i] = b[i - Len(f)]
      BY <1>1, <1>2, <2>2
    <3>2. b[i - Len(f)][2] = Len(f) + (i - Len(f))
      BY <3>1 DEF Placed
    <3> QED
      BY <1>1, <3>1, <3>2
  <2> QED
    BY <2>1, <2>2
<1> QED
  BY <1>1, <1>2, <1>3 DEF Placed

\* A whole response, of either kind, holds a version from its first byte on.
LEMMA FullPlaced ==
  ASSUME NEW kind \in {"Initial", "Restarted"}, NEW r \in FullResponses(kind)
  PROVE  r.kind = kind /\ BodyInPlace(r)
<1>1. PICK v \in Versions, ranges \in BOOLEAN :
        \/ r = Full(kind, v, ranges, Size[v], 0)
        \/ r = Full(kind, v, ranges, None, 0)
        \/ r = Full(kind, v, ranges, None, 1)
  BY DEF FullResponses
<1>2. Size[v] \in Nat \ {0} /\ Placed(Content(v), 0) /\ Len(Content(v)) = Size[v]
  BY ContentPlaced, VersionsAssumption
<1>3. PICK clen \in {Size[v], None}, cut \in {0, 1} :
        r = Full(kind, v, ranges, clen, cut) /\ (clen = None \/ cut = 0)
  BY <1>1
<1>4. Size[v] - cut \in 0..Len(Content(v))
  BY <1>2
<1>5. /\ Placed(SubSeq(Content(v), 1, Size[v] - cut), 0)
      /\ Len(SubSeq(Content(v), 1, Size[v] - cut)) = Size[v] - cut
  BY <1>2, <1>4, PrefixPlaced
<1>6. r.kind = kind /\ r.clen = clen /\ r.body = SubSeq(Content(v), 1, Size[v] - cut)
  BY <1>3 DEF Full
<1>7. Placed(r.body, 0) /\ (r.clen # None => r.clen = Len(r.body))
  BY <1>2, <1>3, <1>5, <1>6
<1> QED
  BY <1>6, <1>7 DEF BodyInPlace, Placed

\* A range that is accepted starts where the file ends, and holds the bytes it says.
LEMMA RangedPlaced ==
  ASSUME Len(file) \in Nat, NEW r \in RangedResponses, content_range(r.range) # None
  PROVE  LET q == [r EXCEPT !.range = content_range(r.range)]
         IN  q.kind = "Resumed" /\ q.range.first = Len(file) /\ BodyInPlace(q)
<1>1. PICK v \in Versions : \E first \in {0, Offset} \cap 0..(Size[v] - 1),
          last \in 0..(Size[v] - 1), complete \in {Size[v], None}, sent \in 1..Size[v] :
            r = Ranged(v, first, last, complete, sent)
  BY DEF RangedResponses
<1>2. PICK first \in 0..(Size[v] - 1), last \in 0..(Size[v] - 1), complete \in {Size[v], None},
          sent \in 1..Size[v] : r = Ranged(v, first, last, complete, sent)
  BY <1>1
<1>3. Size[v] \in Nat \ {0} /\ Placed(Content(v), 0) /\ Len(Content(v)) = Size[v]
  BY ContentPlaced, VersionsAssumption
<1>4. /\ r = [kind |-> "Resumed", ranges |-> TRUE, clen |-> None, range |-> r.range, body |-> r.body]
      /\ r.range = [first |-> first, last |-> last, complete |-> complete]
      /\ r.body = SubSeq(Content(v), first + 1, sent)
  BY <1>2 DEF Ranged
<1>5. first \in Nat /\ sent \in Nat /\ sent <= Len(Content(v))
  BY <1>3
<1>6. Placed(r.body, first)
  BY <1>3, <1>4, <1>5, PiecePlaced
<1>7. first = Len(file) /\ content_range(r.range).first = first
  BY <1>4 DEF content_range, Offset
<1> DEFINE q == [r EXCEPT !.range = content_range(r.range)]
<1>8. /\ q.kind = "Resumed" /\ q.clen = None
      /\ q.range.first = first /\ q.body = r.body
  BY <1>4, <1>7
<1>9. BodyInPlace(q)
  BY <1>5, <1>6, <1>8 DEF BodyInPlace, Placed
<1> QED
  BY <1>7, <1>8, <1>9

\* The body in hand continues the file.
LEMMA BodyContinues ==
  ASSUME FileInPlace, pc = "copy"
  PROVE  /\ Placed(file, 0) /\ Placed(resp.body, Len(file)) /\ Len(file) \in Nat
         /\ hashed = file /\ bytes_retrieved = Len(file)
         /\ resp.kind = "Resumed" => resp.clen = None
         /\ resp.kind # "Resumed" => Len(file) = 0 /\ (resp.clen # None => resp.clen = Len(resp.body))
<1>1. /\ file \in Seq(Bytes) /\ hashed = file /\ bytes_retrieved = Len(file)
      /\ \A i \in 1..Len(file) : file[i][2] = i
      /\ BodyInPlace(resp)
      /\ Len(file) = IF resp.kind = "Resumed" THEN resp.range.first ELSE 0
  BY DEF FileInPlace
<1>2. Placed(file, 0)
  BY <1>1 DEF Placed
<1>3. CASE resp.kind = "Resumed"
  <2>1. Len(file) = resp.range.first
    BY <1>1, <1>3
  <2>2. Placed(resp.body, Len(file)) /\ resp.clen = None
    BY <1>1, <1>3, <2>1 DEF BodyInPlace, Placed
  <2> QED
    BY <1>1, <1>2, <1>3, <2>2
<1>4. CASE resp.kind # "Resumed"
  <2>1. Len(file) = 0
    BY <1>1, <1>4
  <2>2. Placed(resp.body, 0) /\ (resp.clen # None => resp.clen = Len(resp.body))
    BY <1>1, <1>4 DEF BodyInPlace, Placed
  <2> QED
    BY <1>1, <1>2, <1>4, <2>1, <2>2
<1> QED
  BY <1>3, <1>4

\* A response is entered with an empty file or, when it resumes, behind the file.
LEMMA EnterPlaced ==
  ASSUME NEW r, Enter(r), BodyInPlace(r),
         r.kind = "Resumed" =>
           /\ file \in Seq(Bytes) /\ hashed = file /\ bytes_retrieved = Len(file)
           /\ \A i \in 1..Len(file) : file[i][2] = i
           /\ r.range.first = Len(file)
  PROVE  FileInPlace' /\ ArchiveVouched'
<1>1. CASE Conflicting(r)
  BY <1>1 DEF Enter, ToLoop, FileInPlace, ArchiveVouched
<1>2. CASE ~Conflicting(r) /\ r.kind = "Resumed"
  <2>1. pc' = "copy" /\ resp' = r /\ UNCHANGED <<file, hashed, bytes_retrieved>>
    BY <1>2 DEF Enter
  <2> QED
    BY <1>2, <2>1 DEF FileInPlace, ArchiveVouched, BodyInPlace
<1>3. CASE ~Conflicting(r) /\ r.kind # "Resumed"
  <2>1. pc' = "copy" /\ resp' = r /\ file' = <<>> /\ hashed' = <<>> /\ bytes_retrieved' = 0
    BY <1>3 DEF Enter
  <2> QED
    BY <1>3, <2>1 DEF FileInPlace, ArchiveVouched, BodyInPlace
<1> QED
  BY <1>1, <1>2, <1>3

\* With a publication: the bytes are placed, hashed and of the size asked for.
LEMMA ReturnVouched ==
  ASSUME NEW bs, Placed(bs, 0), conf' = conf, resp' = resp,
         Return(Persisted(bs, bs, Len(bs))), SizeMatches(Len(bs)), HashesMatch(bs), Announced(Len(bs))
  PROVE  FileInPlace' /\ ArchiveVouched'
<1>1. pc' \in {"check", "done"} /\ archive' = Persisted(bs, bs, Len(bs))
  BY DEF Return
<1>2. /\ archive'.bytes = bs /\ archive'.digest = bs /\ archive'.size = Len(bs)
  BY <1>1 DEF Persisted
<1>3. FileInPlace'
  BY <1>1 DEF FileInPlace
<1>4. conf.pinned # None => bs = Content(conf.pinned)
  BY DEF HashesMatch
<1>5. SizeMatches(archive.size)' /\ Announced(archive.size)'
  BY <1>2 DEF SizeMatches, Announced
<1>6. bs \in Seq(Bytes) /\ \A i \in 1..Len(bs) : bs[i][2] = i
  BY DEF Placed
<1>7. Content(conf'.pinned) = Content(conf.pinned)
  BY DEF Content
<1> QED
  BY <1>1, <1>2, <1>3, <1>4, <1>5, <1>6, <1>7 DEF ArchiveVouched, Content

LEMMA FetchInit == Init => FetchInv
BY ConfigsAssumption DEF Init, FetchInv, ConfTyped, FileInPlace, ArchiveVouched

LEMMA ConfNext == ConfTyped /\ [Next]_vars => ConfTyped'
<1> SUFFICES ASSUME ConfTyped, [Next]_vars PROVE ConfTyped'
  OBVIOUS
<1>1. conf' = conf \/ conf' = [conf EXCEPT !.cached = None]
  BY DEF Next, Start, SendFails, SendAnswered, Stream, CopyEnds, CopyBreaks, ResumeFails,
     ResumeRanged, ResumeRestarted, Finish, Retry, GiveUp, Check, Stop, vars
<1> QED
  BY <1>1 DEF ConfTyped

\* A step into a state where nothing is in hand.
LEMMA Leaves ==
  ASSUME pc' \in {"start", "send", "outer", "failed"}
  PROVE  FileInPlace' /\ ArchiveVouched'
BY DEF FileInPlace, ArchiveVouched

LEMMA FetchNext == FetchInv /\ [Next]_vars => FetchInv'
<1> SUFFICES ASSUME FetchInv, [Next]_vars PROVE FileInPlace' /\ ArchiveVouched'
  BY ConfNext DEF FetchInv
<1>0. ConfTyped /\ FileInPlace /\ ArchiveVouched
  BY DEF FetchInv
<1>1. CASE Start
  <2>1. CASE pass = "get" /\ conf.cached # None
    <3>1. archive' = conf.cached /\ pc' = "check"
      BY <1>1, <2>1 DEF Start
    <3>2. archive'.bytes = None
      BY <1>0, <2>1, <3>1 DEF ConfTyped, CachedArchives
    <3> QED
      BY <3>1, <3>2 DEF FileInPlace, ArchiveVouched
  <2>2. CASE ~(pass = "get" /\ conf.cached # None)
    BY <1>1, <2>2, Leaves DEF Start
  <2> QED
    BY <2>1, <2>2
<1>2. CASE SendFails \/ ResumeFails \/ Retry \/ GiveUp
  <2>1. pc' \in {"start", "send", "outer", "failed"}
    BY <1>2 DEF SendFails, ResumeFails, Retry, GiveUp, ToLoop
  <2> QED
    BY <2>1, Leaves
<1>3. CASE SendAnswered
  <2>1. PICK r \in FullResponses("Initial") :
          IF phase = "stream" THEN pc' = "stream" /\ resp' = r ELSE Enter(r)
    BY <1>3 DEF SendAnswered
  <2>2. r.kind = "Initial" /\ BodyInPlace(r)
    BY FullPlaced
  <2>3. CASE phase = "stream"
    BY <2>1, <2>2, <2>3 DEF FileInPlace, ArchiveVouched, BodyInPlace
  <2>4. CASE phase # "stream"
    BY <2>1, <2>2, <2>4, EnterPlaced
  <2> QED
    BY <2>3, <2>4
<1>4. CASE Stream
  <2>1. CASE pc' = "outer"
    BY <2>1, Leaves
  <2>2. CASE pc' # "outer"
    <3>1. /\ SizeMatches(Len(resp.body)) /\ HashesMatch(resp.body)
          /\ Return(Persisted(resp.body, resp.body, Len(resp.body)))
          /\ conf' = conf /\ resp' = resp /\ pc = "stream"
      BY <1>4, <2>2 DEF Stream, ToLoop, body
    <3>2. resp.kind = "Initial" /\ BodyInPlace(resp)
      BY <1>0, <3>1 DEF FileInPlace
    <3>3. Placed(resp.body, 0) /\ (resp.clen # None => resp.clen = Len(resp.body))
      BY <3>2 DEF BodyInPlace, Placed
    <3>4. Announced(Len(resp.body))
      BY <3>2, <3>3 DEF Announced
    <3> QED
      BY <3>1, <3>3, <3>4, ReturnVouched
  <2> QED
    BY <2>1, <2>2
<1>5. CASE CopyEnds
  <2>0. /\ pc = "copy" /\ file' = file \o resp.body /\ hashed' = hashed \o resp.body
        /\ bytes_retrieved' = bytes_retrieved + Len(resp.body) /\ Drained(bytes_retrieved')
        /\ resp' = resp
    BY <1>5 DEF CopyEnds
  <2>1. /\ Placed(file, 0) /\ Placed(resp.body, Len(file)) /\ Len(file) \in Nat
        /\ hashed = file /\ bytes_retrieved = Len(file)
        /\ resp.kind = "Resumed" => resp.clen = None
        /\ resp.kind # "Resumed" => Len(file) = 0 /\ (resp.clen # None => resp.clen = Len(resp.body))
    BY <1>0, <2>0, BodyContinues
  <2>2. Placed(file', 0) /\ Len(file') = Len(file) + Len(resp.body) /\ Len(resp.body) \in Nat
    <3>1. Placed(file \o resp.body, 0) /\ Len(file \o resp.body) = Len(file) + Len(resp.body)
      BY <2>1, ConcatPlaced
    <3> QED
      BY <2>0, <2>1, <3>1 DEF Placed
  <2>3. hashed' = file' /\ bytes_retrieved' = Len(file')
    BY <2>0, <2>1, <2>2
  <2>4. file' \in Seq(Bytes) /\ \A i \in 1..Len(file') : file'[i][2] = i
    BY <2>2 DEF Placed
  <2>5. CASE pc' = "outer"
    BY <2>5, Leaves
  <2>6. CASE pc' = "resume"
    BY <2>3, <2>4, <2>6 DEF FileInPlace, ArchiveVouched
  <2>7. CASE pc' = "finish"
    <3>1. Announced(bytes_retrieved)'
      <4>1. CASE resp.kind = "Resumed"
        <5>1. bytes_retrieved' = resp.range.complete
          BY <2>0, <2>7, <4>1 DEF Drained, Recover, ToLoop
        <5> QED
          BY <2>0, <2>1, <4>1, <5>1 DEF Announced
      <4>2. CASE resp.kind # "Resumed"
        <5>1. bytes_retrieved' = Len(resp.body)
          BY <2>1, <2>2, <2>3, <4>2
        <5> QED
          BY <2>0, <2>1, <4>2, <5>1 DEF Announced
      <4> QED
        BY <4>1, <4>2
    <3> QED
      BY <2>3, <2>4, <2>7, <3>1 DEF FileInPlace, ArchiveVouched
  <2> QED
    <3>1. pc' \in {"outer", "resume", "finish"}
      BY <2>0 DEF Drained, Recover, ToLoop
    <3> QED
      BY <2>5, <2>6, <2>7, <3>1
<1>6. CASE CopyBreaks
  <2>0. pc = "copy"
    BY <1>6 DEF CopyBreaks
  <2>1. /\ Placed(file, 0) /\ Placed(resp.body, Len(file)) /\ Len(file) \in Nat
        /\ hashed = file /\ bytes_retrieved = Len(file)
    BY <1>0, <2>0, BodyContinues
  <2>a. PICK n \in 0..Len(resp.body), t \in BOOLEAN :
          \E lost \in {0, 1} \cap 0..n :
            /\ file' = file \o SubSeq(resp.body, 1, n - lost)
            /\ hashed' = hashed \o SubSeq(resp.body, 1, n)
            /\ bytes_retrieved' = bytes_retrieved + n
            /\ Recover(Error(t, FALSE, 0), TRUE, Len(file'), bytes_retrieved')
    BY <1>6, Zenon DEF CopyBreaks
  <2>2. PICK lost \in {0, 1} \cap 0..n :
          /\ file' = file \o SubSeq(resp.body, 1, n - lost)
          /\ hashed' = hashed \o SubSeq(resp.body, 1, n)
          /\ bytes_retrieved' = bytes_retrieved + n
          /\ Recover(Error(t, FALSE, 0), TRUE, Len(file'), bytes_retrieved')
    BY <2>a
  <2>3. CASE pc' = "outer"
    BY <2>3, Leaves
  <2>4. CASE pc' # "outer"
    <3>1. pc' = "resume" /\ Len(file') = bytes_retrieved'
      BY <2>2, <2>4 DEF Recover, ToLoop, CanResume
    <3>2. Len(resp.body) \in Nat /\ n \in Nat /\ n - lost \in 0..Len(resp.body)
      BY <2>1, <2>2 DEF Placed
    <3>3. /\ Placed(SubSeq(resp.body, 1, n - lost), Len(file))
          /\ Len(SubSeq(resp.body, 1, n - lost)) = n - lost
      BY <2>1, <3>2, PrefixPlaced
    <3>4. Placed(file', 0) /\ Len(file') = Len(file) + (n - lost)
      <4>1. /\ Placed(file \o SubSeq(resp.body, 1, n - lost), 0)
            /\ Len(file \o SubSeq(resp.body, 1, n - lost))
                 = Len(file) + Len(SubSeq(resp.body, 1, n - lost))
        BY <2>1, <3>3, ConcatPlaced
      <4> QED
        BY <2>2, <3>3, <4>1
    <3>5. lost = 0
      BY <2>1, <2>2, <3>1, <3>2, <3>4
    <3>6. hashed' = file'
      BY <2>1, <2>2, <3>2, <3>5
    <3>7. file' \in Seq(Bytes) /\ \A i \in 1..Len(file') : file'[i][2] = i
      BY <3>4 DEF Placed
    <3> QED
      BY <3>1, <3>6, <3>7 DEF FileInPlace, ArchiveVouched
  <2> QED
    BY <2>3, <2>4
<1>7. CASE ResumeRanged
  <2>0. pc = "resume"
    BY <1>7 DEF ResumeRanged
  <2>1. /\ file \in Seq(Bytes) /\ hashed = file /\ bytes_retrieved = Len(file)
        /\ \A i \in 1..Len(file) : file[i][2] = i
    BY <1>0, <2>0 DEF FileInPlace
  <2>2. PICK r \in RangedResponses :
          \/ content_range(r.range) = None /\ pc' = "outer"
          \/ content_range(r.range) # None /\ Enter([r EXCEPT !.range = content_range(r.range)])
    BY <1>7 DEF ResumeRanged, ToLoop
  <2>3. CASE pc' = "outer"
    BY <2>3, Leaves
  <2>4. CASE content_range(r.range) # None /\ Enter([r EXCEPT !.range = content_range(r.range)])
    <3>1. PICK q : q = [r EXCEPT !.range = content_range(r.range)]
      OBVIOUS
    <3>2. q.kind = "Resumed" /\ q.range.first = Len(file) /\ BodyInPlace(q)
      BY <2>1, <2>4, <3>1, RangedPlaced
    <3> QED
      BY <2>1, <2>4, <3>1, <3>2, EnterPlaced
  <2> QED
    BY <2>2, <2>3, <2>4
<1>8. CASE ResumeRestarted
  <2>1. PICK r \in FullResponses("Restarted") : Enter(r)
    BY <1>8 DEF ResumeRestarted
  <2>2. r.kind = "Restarted" /\ BodyInPlace(r)
    BY FullPlaced
  <2> QED
    BY <2>1, <2>2, EnterPlaced
<1>9. CASE Finish
  <2>1. CASE pc' = "outer"
    BY <2>1, Leaves
  <2>2. CASE pc' # "outer"
    <3>1. /\ SizeMatches(bytes_retrieved) /\ HashesMatch(hashed)
          /\ Return(Persisted(file, hashed, bytes_retrieved))
          /\ conf' = conf /\ resp' = resp /\ pc = "finish"
      BY <1>9, <2>2 DEF Finish, ToLoop, body
    <3>2. /\ file \in Seq(Bytes) /\ hashed = file /\ bytes_retrieved = Len(file)
          /\ \A i \in 1..Len(file) : file[i][2] = i
      BY <1>0, <3>1 DEF FileInPlace
    <3>3. Placed(file, 0) /\ Announced(Len(file))
      BY <1>0, <3>1, <3>2 DEF Placed, ArchiveVouched
    <3> QED
      BY <3>1, <3>2, <3>3, ReturnVouched
  <2> QED
    BY <2>1, <2>2
<1>10. CASE Check
  <2>1. CASE pc' # "done"
    BY <1>10, <2>1, Leaves DEF Check
  <2>2. CASE pc' = "done"
    <3>1. pc = "check" /\ UNCHANGED <<archive, conf, resp>>
      BY <1>10, <2>2 DEF Check, body
    <3> QED
      BY <1>0, <2>2, <3>1 DEF FileInPlace, ArchiveVouched, Announced, SizeMatches, Content
  <2> QED
    BY <2>1, <2>2
<1>11. CASE Stop \/ UNCHANGED vars
  BY <1>0, <1>11 DEF Stop, vars, FileInPlace, ArchiveVouched, Announced, SizeMatches, Content, BodyInPlace
<1> QED
  BY <1>1, <1>2, <1>3, <1>4, <1>5, <1>6, <1>7, <1>8, <1>9, <1>10, <1>11 DEF Next

\* What is copied, hashed and extracted is at its place at every step of the fetch.
THEOREM FetchInductive == Spec => []FetchInv
BY FetchInit, FetchNext, PTL DEF Spec

\* A published wheel is what was hashed, and with a required hash it is the
\* pinned file, whatever the responses were.
THEOREM HashCoversArchive == Spec => []HashVouches
<1>1. FetchInv => HashVouches
  BY DEF FetchInv, ArchiveVouched, HashVouches, Fetched
<1> QED
  BY <1>1, FetchInductive, PTL

\* Every byte of a published wheel is at its place, and the wheel has the length
\* that the caller trusts and the last response announced.
THEOREM PublishedIsInPlace == Spec => []PublishedInPlace
<1>1. FetchInv => PublishedInPlace
  <2> SUFFICES ASSUME FetchInv, Fetched
               PROVE  /\ \A i \in DOMAIN archive.bytes : archive.bytes[i][2] = i
                      /\ archive.size = Len(archive.bytes)
                      /\ conf.expected # None => archive.size = conf.expected
                      /\ resp.kind = "Resumed" => archive.size = resp.range.complete
                      /\ resp.clen # None => archive.size = resp.clen
    BY DEF PublishedInPlace
  <2>1. /\ archive.bytes \in Seq(Bytes)
        /\ \A i \in 1..Len(archive.bytes) : archive.bytes[i][2] = i
        /\ archive.size = Len(archive.bytes)
        /\ SizeMatches(archive.size) /\ Announced(archive.size)
    BY DEF FetchInv, ArchiveVouched, Fetched
  <2>2. DOMAIN archive.bytes = 1..Len(archive.bytes)
    BY <2>1, LenProperties
  <2>3. \A i \in DOMAIN archive.bytes : archive.bytes[i][2] = i
    BY <2>1, <2>2
  <2> QED
    BY <2>1, <2>3 DEF SizeMatches, Announced
<1> QED
  BY <1>1, FetchInductive, PTL
===============================================================================
