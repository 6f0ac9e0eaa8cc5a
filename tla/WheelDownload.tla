---------------------------- MODULE WheelDownload ----------------------------
(***************************************************************************)
(* The fetch of one remote wheel: `get_wheel`, `stream_wheel`,             *)
(* `download_wheel` and `download_wheel_response` of uv-distribution, and  *)
(* the retry budget (`RetryState`, `get_cacheable_with_retry` and          *)
(* `skip_cache_with_retry` of uv-client) they share with the HTTP          *)
(* middleware.  A wheel is streamed into the extractor first; when         *)
(* streaming is unsupported or breaks it is downloaded to a temporary file *)
(* and resumed with range requests after an interruption.                  *)
(*                                                                         *)
(* A byte is <<version, position>>.  The server may hold another version   *)
(* of the file at every request (a mirror, a re-upload), may ignore ranges *)
(* or misreport them, and a body may end early, with or without an error.  *)
(***************************************************************************)
EXTENDS Integers, Sequences, SequencesExt

CONSTANTS
  Versions,   \* the contents the server may hold under the URL
  Size,       \* the length of each version, in bytes
  Budget,     \* max retries of the policy, the middleware's and RetryState's
  Configs,    \* [expected, pinned, cached]: what the caller asks for and has
  None        \* an absent option

ASSUME VersionsAssumption == Size \in [Versions -> Nat \ {0}] /\ Budget \in Nat

\* An archive that an earlier run left in the cache: its bytes do not matter here.
CachedArchives ==
  [bytes : {None}, digest : {None}, size : Nat \cup {None}, exists : BOOLEAN, digests : BOOLEAN]
ASSUME ConfigsAssumption ==
  Configs \subseteq [expected : Nat \cup {None}, pinned : Versions \cup {None},
                     cached : CachedArchives \cup {None}]

VARIABLES
  conf,       \* expected size, pinned version (the required hash), cached entry
  phase,      \* "stream" or "download": which of the two functions runs
  pass,       \* "get" (get_cacheable) or "skip" (skip_cache)
  pc,         \* the step the fetch is at
  retries,    \* RetryState::total_retries
  resp,       \* the response whose body is being drained
  file,       \* the bytes of the temporary file
  hashed,     \* the bytes the hashers have seen
  bytes_retrieved,
  download_size,
  err,        \* the error in hand: [transient, fallback, retries]
  archive,    \* the archive produced: [bytes, digest, size, exists, digests]
  spent       \* history: the retries really performed under this RetryState

vars == <<conf, phase, pass, pc, retries, resp, file, hashed, bytes_retrieved,
          download_size, err, archive, spent>>

body == <<resp, file, hashed, bytes_retrieved, download_size>>

Content(v) == [i \in 1..Size[v] |-> <<v, i>>]
Bytes == Versions \X (Nat \ {0})

(***************************************************************************)
(* The client's retry state.                                               *)
(***************************************************************************)
Mid == 0..Budget  \* the retries one request may see inside the middleware

Error(transient, fallback, n) ==
  [transient |-> transient, fallback |-> fallback, retries |-> n]
NoError == Error(FALSE, FALSE, 0)
Fatal == Error(FALSE, FALSE, 0)

\* retry_policy.should_retry for `total` past retries, of a transient error.
Granted(e, total) == e.transient /\ total < Budget

\* The error leaves the response callback (or the request) for the loop of
\* get_cacheable_with_retry.
ToLoop(e) == pc' = "outer" /\ err' = e

Init ==
  /\ conf \in Configs
  /\ phase = "stream" /\ pass = "get" /\ pc = "start"
  /\ retries = 0 /\ spent = 0
  /\ resp = None /\ file = <<>> /\ hashed = <<>> /\ bytes_retrieved = 0
  /\ download_size = None /\ err = NoError /\ archive = None

(***************************************************************************)
(* get_serde_with_retry or skip_cache_with_retry is called: a new          *)
(* RetryState.  A fresh cached entry answers without a request;            *)
(* skip_cache removes the entry first.                                     *)
(***************************************************************************)
Start ==
  /\ pc = "start"
  /\ retries' = 0 /\ spent' = 0 /\ err' = NoError
  /\ IF pass = "get" /\ conf.cached # None
       THEN archive' = conf.cached /\ pc' = "check" /\ UNCHANGED conf
       ELSE /\ pc' = "send" /\ UNCHANGED archive
            /\ conf' = [conf EXCEPT !.cached = None]
  /\ UNCHANGED <<phase, pass, body>>

(***************************************************************************)
(* The request of the whole wheel.  On an answer, handle_response counts   *)
(* the middleware's retries before the callback runs; an error carries     *)
(* them to should_retry.                                                   *)
(***************************************************************************)
Full(kind, v, ranges, clen, unframed) ==
  [kind |-> kind, ranges |-> ranges, clen |-> clen, range |-> None,
   body |-> SubSeq(Content(v), 1, Size[v] - unframed)]

\* A full response: with a length its clean end is the end of the file,
\* without one a closed connection looks like the end wherever it happens.
FullResponses(kind) ==
  UNION {{Full(kind, v, ranges, Size[v], 0), Full(kind, v, ranges, None, 0),
          Full(kind, v, ranges, None, 1)} : v \in Versions, ranges \in BOOLEAN}

\* The top of the download loop: reject a conflicting length before reading,
\* and let a full response replace the partial bytes.
Conflicting(r) ==
  /\ r.kind # "Resumed"
  /\ conf.expected # None /\ r.clen # None /\ r.clen # conf.expected

Enter(r) ==
  IF Conflicting(r)
    THEN ToLoop(Fatal) /\ UNCHANGED <<resp, file, hashed, bytes_retrieved>>
    ELSE /\ pc' = "copy" /\ resp' = r /\ UNCHANGED err
         /\ IF r.kind = "Resumed"
              THEN UNCHANGED <<file, hashed, bytes_retrieved>>
              ELSE file' = <<>> /\ hashed' = <<>> /\ bytes_retrieved' = 0

\* Mutant: the retries of a failed request are recorded and carried by its error.
SendFailsCountedTwice ==
  /\ pc = "send"
  /\ \E m \in Mid, transient \in BOOLEAN :
       ToLoop(Error(transient, FALSE, m)) /\ retries' = retries + m /\ spent' = spent + m
  /\ UNCHANGED <<conf, phase, pass, body, archive>>

SendFails ==
  /\ pc = "send"
  /\ \E m \in Mid, transient \in BOOLEAN :
       ToLoop(Error(transient, FALSE, m)) /\ spent' = spent + m
  /\ UNCHANGED <<conf, phase, pass, retries, body, archive>>

\* Mutant: an answered request does not report the middleware's retries.
RecordNothing(m) == retries' = retries /\ spent' = spent + m

\* record_request_retries, through handle_response or send.
Record(m) == retries' = retries + m /\ spent' = spent + m

SendAnswered ==
  /\ pc = "send"
  /\ \E m \in Mid, r \in FullResponses("Initial") :
       /\ Record(m)
       /\ IF phase = "stream"
            THEN /\ pc' = "stream" /\ resp' = r
                 /\ UNCHANGED <<file, hashed, bytes_retrieved, download_size, err>>
            ELSE /\ Enter(r)
                 /\ download_size' = IF r.clen # None THEN r.clen ELSE conf.expected
  /\ UNCHANGED <<conf, phase, pass, archive>>

(***************************************************************************)
(* The result of a callback that succeeded: the extracted wheel passed the *)
(* size check, the extractor and the hash check, and is persisted.         *)
(***************************************************************************)
SizeMatches(n) == conf.expected = None \/ n = conf.expected
HashesMatch(bs) == conf.pinned = None \/ bs = Content(conf.pinned)

Persisted(bs, digest, n) ==
  [bytes |-> bs, digest |-> digest, size |-> n, exists |-> TRUE, digests |-> TRUE]

Return(a) ==
  /\ archive' = a
  /\ pc' = IF pass = "get" THEN "check" ELSE "done"
  /\ UNCHANGED err

(***************************************************************************)
(* stream_wheel's callback: extract while reading, then exhaust the reader.*)
(* The extractor may refuse the archive for a reason that streaming causes *)
(* (fallback) or not.                                                      *)
(***************************************************************************)
Stream ==
  /\ pc = "stream"
  /\ \/ \* extract_streaming fails: unsupported, or the body broke, or a bad zip
        \E e \in {Error(TRUE, TRUE, 0), Error(FALSE, TRUE, 0), Fatal, Error(TRUE, FALSE, 0)} :
          ToLoop(e) /\ UNCHANGED archive
     \/ \* extracted, but the rest of the body cannot be read (HashExhaustion)
        \E transient \in BOOLEAN : ToLoop(Error(transient, FALSE, 0)) /\ UNCHANGED archive
     \/ IF SizeMatches(Len(resp.body)) /\ HashesMatch(resp.body)
          THEN Return(Persisted(resp.body, resp.body, Len(resp.body)))
          ELSE ToLoop(Fatal) /\ UNCHANGED archive
  /\ UNCHANGED <<conf, phase, pass, retries, body, spent>>

(***************************************************************************)
(* download_wheel_response: drain the body, then finish, resume or fail.   *)
(***************************************************************************)
\* Mutant: the file's position is not compared with the bytes retrieved.
CanResumeUnsynced(offset, n) ==
  /\ resp.ranges /\ resp.kind # "Restarted"
  /\ offset > (IF resp.kind = "Resumed" THEN resp.range.first ELSE 0)

\* Mutant: a response that added nothing may be resumed.
CanResumeInPlace(offset, n) ==
  /\ resp.ranges /\ resp.kind # "Restarted"
  /\ offset = n

\* The error handling below the copy.  `offset` is the file's position after
\* the flush, `n` the bytes retrieved; a body that broke needs a retry from
\* the budget, a range that completed does not.
CanResume(offset, n) ==
  /\ resp.ranges /\ resp.kind # "Restarted"
  /\ offset > (IF resp.kind = "Resumed" THEN resp.range.first ELSE 0)
  /\ offset = n

Recover(e, interrupted, offset, n) ==
  IF CanResume(offset, n) /\ (interrupted => Granted(e, retries))
    THEN /\ pc' = "resume" /\ err' = e
         /\ LET used == IF interrupted THEN 1 ELSE 0
            IN  retries' = retries + used /\ spent' = spent + used
    ELSE ToLoop(e) /\ UNCHANGED <<retries, spent>>

\* The body ended.  A range must end where it said, and the last one at the
\* end of the wheel.
Drained(n) ==
  \/ /\ resp.kind # "Resumed"
     /\ pc' = "finish" /\ UNCHANGED <<err, retries, spent>>
  \/ /\ resp.kind = "Resumed"
     /\ \/ /\ n # resp.range.last + 1
           /\ ToLoop(Fatal) /\ UNCHANGED <<retries, spent>>
        \/ /\ n = resp.range.last + 1 /\ n = resp.range.complete
           /\ pc' = "finish" /\ UNCHANGED <<err, retries, spent>>
        \/ /\ n = resp.range.last + 1 /\ n # resp.range.complete
           /\ Recover(Error(TRUE, FALSE, 0), FALSE, n, n)

CopyEnds ==
  /\ pc = "copy"
  /\ file' = file \o resp.body
  /\ hashed' = hashed \o resp.body
  /\ bytes_retrieved' = bytes_retrieved + Len(resp.body)
  /\ Drained(bytes_retrieved')
  /\ UNCHANGED <<conf, phase, pass, resp, download_size, archive>>

\* The copy breaks after n bytes were read and hashed, of which `lost` had not
\* reached the file; a read error is transient, a full disk is not.
CopyBreaks ==
  /\ pc = "copy"
  /\ \E n \in 0..Len(resp.body), transient \in BOOLEAN :
       \E lost \in {0, 1} \cap 0..n :
         /\ file' = file \o SubSeq(resp.body, 1, n - lost)
         /\ hashed' = hashed \o SubSeq(resp.body, 1, n)
         /\ bytes_retrieved' = bytes_retrieved + n
         /\ Recover(Error(transient, FALSE, 0), TRUE, Len(file'), bytes_retrieved')
  /\ UNCHANGED <<conf, phase, pass, resp, download_size, archive>>

(***************************************************************************)
(* The range request from the file's position.  It carries no If-Range, so *)
(* the range may come from another version.                                *)
(***************************************************************************)
Offset == Len(file)

\* A partial response: the server starts at `first`, announces the bytes up
\* to `last` of `complete` (or does not say) and sends up to `sent`.
Ranged(v, first, last, complete, sent) ==
  [kind |-> "Resumed", ranges |-> TRUE, clen |-> None,
   range |-> [first |-> first, last |-> last, complete |-> complete],
   body |-> SubSeq(Content(v), first + 1, sent)]

RangedResponses ==
  UNION {{Ranged(v, first, last, complete, sent) :
            first \in {0, Offset} \cap 0..(Size[v] - 1), last \in 0..(Size[v] - 1),
            complete \in {Size[v], None}, sent \in 1..Size[v]} : v \in Versions}

\* Mutant: the range is not checked against what was asked.
content_range_any_start(range) ==
  LET complete == IF range.complete = None THEN download_size ELSE range.complete
  IN  IF complete = None \/ range.last >= complete
        THEN None
        ELSE [range EXCEPT !.complete = complete]

\* content_range: an unbound range takes the length known so far; the range
\* starts where it was asked to and agrees with that length.
content_range(range) ==
  LET complete == IF range.complete = None THEN download_size ELSE range.complete
  IN  IF \/ complete = None
         \/ range.first # Offset
         \/ range.last >= complete
         \/ download_size # None /\ download_size # complete
        THEN None
        ELSE [range EXCEPT !.complete = complete]

\* The request fails, with or without a status, or answers 416: the former is
\* a new error, the latter returns the one in hand.  `send` has counted the
\* middleware's retries, so neither error carries any.
ResumeFails ==
  /\ pc = "resume"
  /\ \E m \in Mid :
       /\ Record(m)
       /\ \E e \in {err} \cup {Error(transient, FALSE, 0) : transient \in BOOLEAN} : ToLoop(e)
  /\ UNCHANGED <<conf, phase, pass, body, archive>>

ResumeRanged ==
  /\ pc = "resume"
  /\ \E m \in Mid, r \in RangedResponses :
       LET range == content_range(r.range)
       IN  /\ Record(m)
           /\ IF range = None
                THEN ToLoop(err) /\ UNCHANGED body
                ELSE Enter([r EXCEPT !.range = range]) /\ download_size' = range.complete
  /\ UNCHANGED <<conf, phase, pass, archive>>

\* The server ignored the range: the response is the whole wheel.
ResumeRestarted ==
  /\ pc = "resume"
  /\ \E m \in Mid, r \in FullResponses("Restarted") : Record(m) /\ Enter(r)
  /\ UNCHANGED <<conf, phase, pass, download_size, archive>>

\* After the loop: the size check, the extraction from the file, the hash
\* check on what was hashed, the publication.
Finish ==
  /\ pc = "finish"
  /\ \/ /\ SizeMatches(bytes_retrieved)
        /\ \E transient \in BOOLEAN : ToLoop(Error(transient, FALSE, 0))
        /\ UNCHANGED archive
     \/ IF SizeMatches(bytes_retrieved) /\ HashesMatch(hashed)
          THEN Return(Persisted(file, hashed, bytes_retrieved))
          ELSE ToLoop(Fatal) /\ UNCHANGED archive
  /\ UNCHANGED <<conf, phase, pass, retries, body, spent>>

(***************************************************************************)
(* The loop of get_cacheable_with_retry: restart the whole request within  *)
(* the budget.  When stream_wheel gives up for a reason of streaming,      *)
(* get_wheel calls download_wheel, with a budget of its own.               *)
(***************************************************************************)
Retry ==
  /\ pc = "outer" /\ Granted(err, retries + err.retries)
  /\ retries' = retries + err.retries + 1
  /\ spent' = spent + 1
  /\ pc' = "send" /\ err' = NoError
  /\ UNCHANGED <<conf, phase, pass, body, archive>>

GiveUp ==
  /\ pc = "outer" /\ ~Granted(err, retries + err.retries)
  /\ retries' = retries + err.retries
  /\ err' = [err EXCEPT !.retries = 0]
  /\ IF phase = "stream" /\ err.fallback
       THEN phase' = "download" /\ pass' = "get" /\ pc' = "start"
       ELSE pc' = "failed" /\ UNCHANGED <<phase, pass>>
  /\ UNCHANGED <<conf, body, archive, spent>>

(***************************************************************************)
(* Back in stream_wheel or download_wheel: the archive may come from the   *)
(* cache and lack what this caller needs.                                  *)
(***************************************************************************)
Usable(a) ==
  /\ conf.pinned # None => a.digests
  /\ a.exists
  /\ conf.expected # None => a.size # None

WrongSize(a) == conf.expected # None /\ a.size # None /\ a.size # conf.expected

Check ==
  /\ pc = "check"
  /\ \/ /\ WrongSize(archive)
        /\ pc' = "failed" /\ UNCHANGED <<pass, archive>>
     \/ /\ ~WrongSize(archive) /\ Usable(archive)
        /\ pc' = "done" /\ UNCHANGED <<pass, archive>>
     \/ /\ ~WrongSize(archive) /\ ~Usable(archive)
        /\ pass' = "skip" /\ pc' = "start" /\ archive' = None
  /\ UNCHANGED <<conf, phase, retries, body, err, spent>>

Stop == pc \in {"done", "failed"} /\ UNCHANGED vars

Next ==
  \/ Start \/ SendFails \/ SendAnswered \/ Stream
  \/ CopyEnds \/ CopyBreaks \/ ResumeFails \/ ResumeRanged \/ ResumeRestarted
  \/ Finish \/ Retry \/ GiveUp \/ Check \/ Stop

\* Every await of the fetch ends: requests and body reads have timeouts.
Fairness == WF_vars(Next)

Spec == Init /\ [][Next]_vars /\ Fairness

-----------------------------------------------------------------------------
Sizes == {Size[v] : v \in Versions} \cup {None}

TypeOK ==
  /\ phase \in {"stream", "download"} /\ pass \in {"get", "skip"}
  /\ pc \in {"start", "send", "stream", "copy", "resume", "finish", "outer",
             "check", "done", "failed"}
  /\ retries \in Nat /\ spent \in Nat /\ bytes_retrieved \in Nat
  /\ file \in Seq(Bytes) /\ hashed \in Seq(Bytes)
  /\ download_size \in Sizes \cup {conf.expected}
  /\ err.retries \in Mid
  /\ pc \in {"stream", "copy", "resume", "finish"} => resp # None
  /\ pc \in {"check", "done"} => archive # None
  /\ pc # "start" /\ pass = "skip" => conf.cached = None

\* A wheel that this fetch extracted, rather than found in the cache.
Fetched == pc = "done" /\ archive.bytes # None

\* The hashes are computed on the bytes that pass by, the wheel is extracted
\* from the temporary file.  Through interruptions, resumed ranges and
\* responses that start over, the two are the same bytes, and with a required
\* hash they are the pinned file, although a range request carries no If-Range
\* and the server may have changed files in between.
HashVouches ==
  Fetched =>
    /\ archive.bytes = archive.digest
    /\ conf.pinned # None => archive.bytes = Content(conf.pinned)

\* Whatever the responses were, each byte of a published wheel is at its place
\* (no gap, no range applied twice), the archive records the length it has, and
\* that is the size the caller trusts and the one the last response announced.
PublishedInPlace ==
  Fetched =>
    /\ \A i \in DOMAIN archive.bytes : archive.bytes[i][2] = i
    /\ archive.size = Len(archive.bytes)
    /\ conf.expected # None => archive.size = conf.expected
    /\ resp.kind = "Resumed" => archive.size = resp.range.complete
    /\ resp.clen # None => archive.size = resp.clen

\* The budget is shared: a body is resumed or a request restarted only while
\* the retries really performed, the middleware's on answered and on failed
\* requests included, are fewer than the policy's maximum.
RecoversWithinBudget ==
  [][spent' > spent /\ (pc = "copy" \/ pc = "outer") => spent < Budget]_vars

\* No retry is counted twice: a transient failure is given up only when the
\* retries really performed have used up the budget.
GivesUpOnlySpent ==
  [][pc = "outer" /\ err.transient /\ pc' # "send" => spent >= Budget]_vars

\* What makes these inductive.  The retries that were performed are those that
\* RetryState has recorded and those that the error in hand carries to it.
Errors == [transient : BOOLEAN, fallback : BOOLEAN, retries : Nat]
BudgetInv ==
  /\ retries \in Nat /\ err \in Errors
  /\ spent = retries + err.retries
  /\ pc # "outer" => err.retries = 0

\* A body is the bytes of one version from where the response says it starts.
BodyInPlace(r) ==
  /\ r.body \in Seq(Bytes)
  /\ \/ /\ r.kind \in {"Initial", "Restarted"}
        /\ \A i \in 1..Len(r.body) : r.body[i][2] = i
        /\ r.clen # None => r.clen = Len(r.body)
     \/ /\ r.kind = "Resumed" /\ r.clen = None /\ r.range.first \in Nat
        /\ \A i \in 1..Len(r.body) : r.body[i][2] = r.range.first + i

\* What is in the file is what was hashed, each byte at its place, from the
\* start of the copy to the extraction; after an error the two may differ, and
\* then the file is not read again.
FileInPlace ==
  /\ pc \in {"copy", "resume", "finish"} =>
       /\ file \in Seq(Bytes) /\ hashed = file /\ bytes_retrieved = Len(file)
       /\ \A i \in 1..Len(file) : file[i][2] = i
  /\ pc \in {"stream", "copy"} => BodyInPlace(resp)
  /\ pc = "stream" => resp.kind = "Initial"
  /\ pc = "copy" => Len(file) = IF resp.kind = "Resumed" THEN resp.range.first ELSE 0

\* The length n is the one that the last response announced.
Announced(n) ==
  /\ resp.kind = "Resumed" => n = resp.range.complete
  /\ resp.clen # None => n = resp.clen

ArchiveVouched ==
  /\ pc = "finish" => Announced(bytes_retrieved)
  /\ pc \in {"check", "done"} /\ archive.bytes # None =>
       /\ archive.bytes = archive.digest
       /\ conf.pinned # None => archive.bytes = Content(conf.pinned)
       /\ archive.bytes \in Seq(Bytes)
       /\ \A i \in 1..Len(archive.bytes) : archive.bytes[i][2] = i
       /\ archive.size = Len(archive.bytes) /\ SizeMatches(archive.size)
       /\ Announced(archive.size)

ConfTyped ==
  conf \in [expected : Nat \cup {None}, pinned : Versions \cup {None},
            cached : CachedArchives \cup {None}]

FetchInv == ConfTyped /\ FileInPlace /\ ArchiveVouched

\* The fetch ends, with an archive or an error: every resumption moves forward
\* or costs a retry.
Terminates == <>(pc \in {"done", "failed"})

=============================================================================
