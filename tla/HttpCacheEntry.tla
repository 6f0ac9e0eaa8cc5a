--------------------------- MODULE HttpCacheEntry ---------------------------
(***************************************************************************)
(* One entry of the HTTP cache (uv-client, cached_client.rs), read and     *)
(* refreshed by concurrent requests of any number of processes without a   *)
(* lock.                                                                   *)
(*                                                                         *)
(* A file holds a payload, a random entry id, a cache policy and a footer  *)
(* with a checksum.  A new response replaces the whole file by a rename: a *)
(* new inode with a new id.  A 304 response overwrites the policy and the  *)
(* footer in place, one write after another, and then sets the length,     *)
(* because policies differ in size.  A reader takes the file's size, and   *)
(* then reads that much.                                                   *)
(*                                                                         *)
(* The tail of a file is a sequence of cells: as many as the policy is     *)
(* long, and the footer.  The id of an entry is its inode.  Payloads are   *)
(* abstracted to the version of the resource they hold; they are of one    *)
(* length and never rewritten.  Checksums are taken not to collide.        *)
(* A payload that does not decode is a choice made when it is decoded.     *)
(* Errors of the server or of the disk end a request, like a kill; the     *)
(* retries around a request are left out.                                  *)
(***************************************************************************)
EXTENDS Naturals, Sequences

CONSTANTS
    Requests,     \* the requests made
    Modes,        \* the CacheControl values in use (Override only sets a header)
    MaxVersion,   \* bound on how often the resource changes
    MaxSize,      \* bound on the size of a cache policy, in cells
    Shapes,       \* the policies a server may set: their size, whether `immutable`
    MaxPolicies,  \* bound on the responses of the server
    MaxDeaths     \* bound on the requests that are interrupted

ASSUME HttpAssumption ==
    /\ MaxVersion \in Nat /\ MaxDeaths \in Nat
    /\ MaxPolicies \in Nat \ {0} /\ MaxSize \in Nat \ {0}
    /\ Modes \subseteq {"AllowStale", "MustRevalidate", "None"}
    /\ Shapes \subseteq [size : 1..MaxSize, immutable : BOOLEAN]

VARIABLES
    version,  \* the version of the resource at the server
    policies, \* the policies issued: which version each vouches for, and its shape
    files,    \* the inodes created: payload, and tail
    path,     \* the inode the path of the entry names, 0 if there is none
    torn,     \* history: the inodes in which a refresh was interrupted, or met another
    pc, mode, \* mode[r]: the CacheControl of the request
    fd, size, \* fd[r], size[r]: the inode opened, and its size when opened
    buf,      \* buf[r]: what was read of the tail
    fresh,    \* fresh[r]: the policy read or issued last, 0 if none
    payload,  \* payload[r]: the version that the request has in hand, or returns
    wfd, pos, \* wfd[r], pos[r]: the inode opened for writing, the cells written
    seen,     \* seen[r]: the versions the resource had since the request began
    deaths

server == <<version, policies, seen>>
disk == <<files, path, torn>>
writer == <<wfd, pos>>
vars == <<server, disk, pc, mode, fd, size, buf, fresh, payload, writer, deaths>>

Sizes == 1..MaxSize
Zero == <<"zero", 0, 0>>
Cell(k) == <<"policy", k, 0>>

(* The checksum covers the entry id and the policy.                        *)
Footer(k, i) == <<"footer", k, i>>
Tail0(k, i) == Append([n \in 1..policies[k].size |-> Cell(k)], Footer(k, i))

Inodes == 1..Len(files)
MaxTail == MaxSize + 1
Cells == {"zero", "policy", "footer"} \X (0..MaxPolicies) \X Nat
Policies == [version : 0..MaxVersion, size : Sizes, immutable : BOOLEAN]
Files == [payload : 0..MaxVersion, tail : Seq(Cells)]

TypeOK ==
    /\ version \in 0..MaxVersion
    /\ policies \in Seq(Policies) /\ Len(policies) <= MaxPolicies
    /\ files \in Seq(Files) /\ \A i \in Inodes : Len(files[i].tail) <= MaxTail
    /\ path \in 0..Len(files) /\ torn \subseteq Inodes
    /\ pc \in [Requests -> {"start", "stat", "read", "stale", "broken", "request",
                            "store", "reopen", "compare", "write", "hit", "done", "dead"}]
    /\ mode \in [Requests -> Modes \cup {"None"}]
    /\ fd \in [Requests -> 0..Len(files)]
    /\ size \in [Requests -> 0..MaxTail]
    /\ buf \in [Requests -> Seq(Cells)] /\ \A r \in Requests : Len(buf[r]) <= MaxTail
    /\ wfd \in [Requests -> 0..Len(files)] /\ pos \in [Requests -> 0..MaxTail]
    /\ fresh \in [Requests -> 0..Len(policies)]
    /\ payload \in [Requests -> 0..MaxVersion]
    /\ seen \in [Requests -> SUBSET (0..MaxVersion)]
    /\ deaths \in 0..MaxDeaths

(* The entry is absent, or was stored by an earlier request.               *)
Init ==
    /\ version = 0
    /\ \/ policies = <<>> /\ files = <<>> /\ path = 0
       \/ \E s \in Shapes :
            /\ policies = <<[version |-> 0, size |-> s.size, immutable |-> s.immutable]>>
            /\ files = <<[payload |-> 0, tail |-> Tail0(1, 1)]>>
            /\ path = 1
    /\ torn = {}
    /\ pc = [r \in Requests |-> "start"] /\ mode = [r \in Requests |-> "None"]
    /\ fd = [r \in Requests |-> 0] /\ size = [r \in Requests |-> 0]
    /\ buf = [r \in Requests |-> <<>>]
    /\ fresh = [r \in Requests |-> 0]
    /\ payload = [r \in Requests |-> 0]
    /\ wfd = [r \in Requests |-> 0] /\ pos = [r \in Requests |-> 0]
    /\ seen = [r \in Requests |-> {}]
    /\ deaths = 0

Goto(r, l) == pc' = [pc EXCEPT ![r] = l]

(* The buffer of a read is dropped once it is dealt with, the open files   *)
(* when the request ends or starts over.                                   *)
Drop(r) == size' = [size EXCEPT ![r] = 0] /\ buf' = [buf EXCEPT ![r] = <<>>]
Close(r) ==
    /\ Drop(r)
    /\ fd' = [fd EXCEPT ![r] = 0]
    /\ wfd' = [wfd EXCEPT ![r] = 0] /\ pos' = [pos EXCEPT ![r] = 0]
End(r, l) == Goto(r, l) /\ Close(r)

(* External: the resource changes at the server.                           *)
Change ==
    /\ version < MaxVersion
    /\ version' = version + 1
    /\ seen' = [r \in Requests |-> IF pc[r] \in {"start", "hit", "done", "dead"} THEN seen[r]
                                   ELSE seen[r] \cup {version'}]
    /\ UNCHANGED <<policies, disk, pc, mode, fd, size, buf, fresh, payload, writer, deaths>>

-----------------------------------------------------------------------------
(* DataWithCachePolicy::from_path_sync: open the file, take its size, read *)
(* that much.                                                              *)
Open(r) ==
    /\ pc[r] = "start"
    /\ \E m \in Modes : mode' = [mode EXCEPT ![r] = m]
    /\ seen' = [seen EXCEPT ![r] = {version}]
    /\ IF path = 0 THEN Goto(r, "request") ELSE Goto(r, "stat")
    /\ fd' = [fd EXCEPT ![r] = path]
    /\ UNCHANGED <<version, policies, disk, size, buf, fresh, payload, writer, deaths>>

(* skip_cache: the entry is not read, only written.                        *)
SkipCache(r) ==
    /\ pc[r] = "start"
    /\ seen' = [seen EXCEPT ![r] = {version}]
    /\ Goto(r, "request")
    /\ UNCHANGED <<version, policies, disk, mode, fd, size, buf, fresh, payload,
                   writer, deaths>>

Stat(r) ==
    /\ pc[r] = "stat"
    /\ size' = [size EXCEPT ![r] = Len(files[fd[r]].tail)]
    /\ Goto(r, "read")
    /\ UNCHANGED <<server, disk, mode, fd, buf, fresh, payload, writer, deaths>>

Read(r) ==
    /\ pc[r] = "read" /\ Len(buf[r]) < size[r] /\ Len(buf[r]) < Len(files[fd[r]].tail)
    /\ buf' = [buf EXCEPT ![r] = Append(@, files[fd[r]].tail[Len(@) + 1])]
    /\ UNCHANGED <<server, disk, pc, mode, fd, size, fresh, payload, writer, deaths>>

(* from_aligned_bytes: the policy that the tail holds, if its checksum is  *)
(* right.                                                                  *)
ValidPolicy(r) == {k \in 1..Len(policies) : buf[r] = Tail0(k, fd[r])}

(* is_fresh: the no-cache of a request that has to revalidate counts only  *)
(* when the stored response is not immutable.                              *)
MayBeFresh(r, k) == mode[r] # "MustRevalidate" \/ policies[k].immutable

(* read_cache, read_and_decode_stale_cache: the entry is broken (read_exact *)
(* fails when the file has become shorter; or the payload does not decode), *)
(* fresh, to be revalidated, or stored for a request with other headers.   *)
DecodeBroken(r) ==
    /\ pc[r] = "read"
    /\ \/ Len(buf[r]) < size[r] /\ Len(buf[r]) >= Len(files[fd[r]].tail)
       \/ Len(buf[r]) = size[r] /\ ValidPolicy(r) = {}
       \/ Len(buf[r]) = size[r] /\ \E k \in ValidPolicy(r) : MayBeFresh(r, k)
    /\ End(r, "broken")
    /\ UNCHANGED <<server, disk, mode, fresh, payload, deaths>>

Decode(r, k) ==
    /\ pc[r] = "read" /\ Len(buf[r]) = size[r]
    /\ fresh' = [fresh EXCEPT ![r] = k]
    /\ payload' = [payload EXCEPT ![r] = files[fd[r]].payload]
    /\ UNCHANGED <<server, disk, mode, deaths>>

(* A fresh entry is used although the request asks to revalidate it.       *)
DecodeAnyFresh(r) == \E k \in ValidPolicy(r) : Decode(r, k) /\ End(r, "hit")

DecodeFresh(r) ==
    \E k \in ValidPolicy(r) : MayBeFresh(r, k) /\ Decode(r, k) /\ End(r, "hit")

DecodeStale(r) ==
    /\ mode[r] # "AllowStale"
    /\ \E k \in ValidPolicy(r) : Decode(r, k)
    /\ Goto(r, "stale")
    /\ UNCHANGED <<fd, size, buf, writer>>

DecodeNoMatch(r) ==
    /\ pc[r] = "read" /\ Len(buf[r]) = size[r] /\ ValidPolicy(r) # {}
    /\ End(r, "request")
    /\ UNCHANGED <<server, disk, mode, fresh, payload, deaths>>

(* The request is made again without removing what is broken.              *)
RestartBroken(r) ==
    /\ pc[r] = "broken"
    /\ Goto(r, "start")
    /\ UNCHANGED <<server, disk, mode, fd, size, buf, fresh, payload, writer, deaths>>

(* The broken entry is removed by its path, whatever is there by now.      *)
RemoveBroken(r) ==
    /\ pc[r] = "broken"
    /\ path' = 0
    /\ Goto(r, "request")
    /\ fresh' = [fresh EXCEPT ![r] = 0] /\ payload' = [payload EXCEPT ![r] = 0]
    /\ UNCHANGED <<server, files, torn, mode, fd, size, buf, writer, deaths>>

-----------------------------------------------------------------------------
(* The server's responses.                                                 *)

(* The policy of a response vouches for the version at the server.         *)
Issue(r) ==
    /\ Len(policies) < MaxPolicies
    /\ \E s \in Shapes :
          policies' = Append(policies, [version |-> version, size |-> s.size,
                                        immutable |-> s.immutable])
    /\ fresh' = [fresh EXCEPT ![r] = Len(policies) + 1]
    /\ UNCHANGED <<version, seen>>

(* send_cached_handle_stale: 304 when the payload is still current.        *)
NotModified(r) ==
    /\ pc[r] = "stale" /\ payload[r] = version
    /\ Issue(r)
    /\ Goto(r, "reopen")
    /\ Drop(r)
    /\ UNCHANGED <<disk, mode, fd, payload, writer, deaths>>

Modified(r) ==
    /\ pc[r] = "stale" /\ payload[r] # version
    /\ Issue(r)
    /\ payload' = [payload EXCEPT ![r] = version]
    /\ Goto(r, "store")
    /\ UNCHANGED <<disk, mode, fd, size, buf, writer, deaths>>

(* A 304 whose validators do not match: resend_and_heal_cache.             *)
Unusable(r) ==
    /\ pc[r] = "stale"
    /\ End(r, "broken")
    /\ UNCHANGED <<server, disk, mode, fresh, payload, deaths>>

FreshRequest(r) ==
    /\ pc[r] = "request"
    /\ Issue(r)
    /\ payload' = [payload EXCEPT ![r] = version]
    /\ Goto(r, "store")
    /\ UNCHANGED <<disk, mode, fd, size, buf, writer, deaths>>

-----------------------------------------------------------------------------
(* run_response_callback: a response that may be stored replaces the file. *)
Store(r) ==
    /\ pc[r] = "store"
    /\ LET i == Len(files) + 1
       IN  /\ files' = Append(files, [payload |-> payload[r], tail |-> Tail0(fresh[r], i)])
           /\ path' = i
    /\ End(r, "done")
    /\ UNCHANGED <<server, torn, mode, fresh, payload, deaths>>

DontStore(r) ==
    /\ pc[r] = "store"
    /\ End(r, "done")
    /\ UNCHANGED <<server, disk, mode, fresh, payload, deaths>>

-----------------------------------------------------------------------------
(* refresh_policy: open the path again, compare the entry id, overwrite    *)
(* the policy and the footer, set the length.                              *)

(* Once the policy is refreshed, the payload is decoded; one that does not *)
(* decode is fetched anew.                                                 *)
Refreshed(r) == End(r, "done") \/ End(r, "broken")

(* The request is overwriting the policy in this file.                     *)
Writes(r, i) == pc[r] = "write" /\ wfd[r] = i

Reopen(r) ==
    /\ pc[r] = "reopen"
    /\ IF path = 0 THEN Refreshed(r)
       ELSE /\ wfd' = [wfd EXCEPT ![r] = path]
            /\ Goto(r, "compare")
            /\ UNCHANGED <<fd, size, buf, pos>>
    /\ UNCHANGED <<server, disk, mode, fresh, payload, deaths>>

(* A refresh that does not compare the ids.                                *)
CompareNothing(r) ==
    /\ pc[r] = "compare"
    /\ Goto(r, "write")
    /\ UNCHANGED <<server, disk, mode, fd, size, buf, fresh, payload, writer, deaths>>

Compare(r) ==
    /\ pc[r] = "compare"
    /\ IF wfd[r] = fd[r]
       THEN /\ Goto(r, "write")
            /\ torn' = torn \cup {i \in {wfd[r]} : \E q \in Requests : Writes(q, i)}
            /\ UNCHANGED <<fd, size, buf, writer>>
       ELSE Refreshed(r) /\ UNCHANGED torn
    /\ UNCHANGED <<server, files, path, mode, fresh, payload, deaths>>

(* A write behind the end, after another writer has cut the file short,    *)
(* fills the gap with zeros.                                               *)
WriteAt(tail, n, cell) ==
    [m \in 1..(IF n > Len(tail) THEN n ELSE Len(tail)) |->
        IF m = n THEN cell ELSE IF m <= Len(tail) THEN tail[m] ELSE Zero]

Write(r) ==
    /\ pc[r] = "write"
    /\ LET new == Tail0(fresh[r], wfd[r])
           n   == pos[r] + 1
       IN  /\ n <= Len(new)
           /\ files' = [files EXCEPT ![wfd[r]].tail = WriteAt(@, n, new[n])]
           /\ pos' = [pos EXCEPT ![r] = n]
    /\ UNCHANGED <<server, path, torn, pc, mode, fd, size, buf, fresh, payload, wfd,
                   deaths>>

(* set_len: cut the file, or fill it up with zeros.                        *)
CutTo(tail, n) == [m \in 1..n |-> IF m <= Len(tail) THEN tail[m] ELSE Zero]

(* A refresh that leaves the rest of a longer policy behind its footer.    *)
SetNoLen(r) ==
    /\ pc[r] = "write" /\ pos[r] = policies[fresh[r]].size + 1
    /\ Refreshed(r)
    /\ UNCHANGED <<server, disk, mode, fresh, payload, deaths>>

SetLen(r) ==
    /\ pc[r] = "write" /\ pos[r] = policies[fresh[r]].size + 1
    /\ files' = [files EXCEPT ![wfd[r]].tail = CutTo(@, pos[r])]
    /\ Refreshed(r)
    /\ UNCHANGED <<server, path, torn, mode, fresh, payload, deaths>>

(* A process is interrupted, or a write fails.                             *)
Die(r) ==
    /\ pc[r] \notin {"start", "hit", "done", "dead"} /\ deaths < MaxDeaths
    /\ End(r, "dead")
    /\ torn' = torn \cup {i \in {wfd[r]} : Writes(r, i)}
    /\ deaths' = deaths + 1
    /\ fresh' = [fresh EXCEPT ![r] = 0] /\ payload' = [payload EXCEPT ![r] = 0]
    /\ UNCHANGED <<server, files, path, mode>>

Step(r) ==
    \/ Open(r) \/ SkipCache(r) \/ Stat(r) \/ Read(r)
    \/ DecodeBroken(r) \/ DecodeFresh(r) \/ DecodeStale(r) \/ DecodeNoMatch(r)
    \/ RemoveBroken(r) \/ NotModified(r) \/ Modified(r) \/ Unusable(r) \/ FreshRequest(r)
    \/ Store(r) \/ DontStore(r) \/ Reopen(r) \/ Compare(r) \/ Write(r) \/ SetLen(r)

Next == Change \/ \E r \in Requests : Step(r) \/ Die(r)

(* Each request goes on, and the server responds.                          *)
Fairness == \A r \in Requests : WF_vars(Step(r))
Spec == Init /\ [][Next]_vars /\ Fairness

-----------------------------------------------------------------------------
(* A payload is never returned, nor left in the entry for the next reader,  *)
(* on the word of a policy for another one: a 304 that is late finds a     *)
(* newer response in place of the one it is about, and leaves it alone.    *)
PolicyVouches ==
    /\ \A r \in Requests :
          pc[r] \in {"hit", "done", "stale"} => policies[fresh[r]].version = payload[r]
    /\ \A k \in 1..Len(policies) :
          path # 0 /\ files[path].tail = Tail0(k, path) =>
              policies[k].version = files[path].payload

(* Only a refresh that was interrupted, or that another one overlapped,     *)
(* leaves a file whose checksum fails: one that runs alone, however long   *)
(* the old and the new policy are, ends with the new policy whole.         *)
Whole(i) == \E k \in 1..Len(policies) : files[i].tail = Tail0(k, i)
TornByOverlapOnly ==
    \A i \in Inodes \ torn : Whole(i) \/ \E r \in Requests : Writes(r, i)

(* A request that asked the server returns a version that the resource had *)
(* at some time during the request.  One that has to revalidate goes       *)
(* without asking only if the server had marked the stored response        *)
(* immutable.                                                              *)
RevalidatedIsRecent ==
    \A r \in Requests :
        /\ pc[r] = "done" => payload[r] \in seen[r]
        /\ pc[r] = "hit" /\ mode[r] = "MustRevalidate" /\ ~policies[fresh[r]].immutable =>
              payload[r] \in seen[r]

(* What makes these inductive.  The policy of a footer, wherever it    *)
(* stands in a file or has been read from it, was issued for the payload   *)
(* of that file: whoever writes has compared the ids, and a payload is     *)
(* never rewritten.                                                        *)
Vouched(k, i) ==
    k \in 1..Len(policies) /\ i \in Inodes /\ policies[k].version = files[i].payload
FootersOf(s, i) ==
    \A n \in 1..Len(s) : s[n][1] = "footer" => s[n][3] = i /\ Vouched(s[n][2], i)
FootersVouch ==
    /\ \A i \in Inodes : FootersOf(files[i].tail, i)
    /\ \A r \in Requests : FootersOf(buf[r], fd[r])

(* A request that revalidates has in hand the payload of the file it read, *)
(* and then a policy for that payload.                                     *)
RequestsVouch ==
    \A r \in Requests :
        /\ pc[r] \in {"stat", "read"} => fd[r] \in Inodes
        /\ pc[r] \in {"stale", "reopen", "compare", "write"} =>
              Vouched(fresh[r], fd[r]) /\ payload[r] = files[fd[r]].payload
        /\ pc[r] \in {"store", "hit", "done"} =>
              fresh[r] \in 1..Len(policies) /\ policies[fresh[r]].version = payload[r]
        /\ pc[r] = "compare" => wfd[r] \in Inodes
        /\ pc[r] = "write" => wfd[r] = fd[r]
        /\ pc[r] = "start" => buf[r] = <<>>

(* A response is about the version at the server, which the request saw.   *)
ResponsesSeen ==
    \A r \in Requests :
        /\ pc[r] \notin {"start", "hit", "done", "dead"} => version \in seen[r]
        /\ pc[r] \in {"store", "reopen", "compare", "write"} => payload[r] \in seen[r]

IInv == /\ TypeOK /\ FootersVouch /\ RequestsVouch
        /\ ResponsesSeen /\ RevalidatedIsRecent

(* In a file that is not torn at most one request writes, and what it has  *)
(* written so far is the beginning of the new tail.                        *)
WritesAlone ==
    /\ \A r \in Requests : pc[r] # "write" => pos[r] = 0
    /\ \A i \in Inodes \ torn : \A r \in Requests :
          Writes(r, i) =>
              /\ pos[r] <= Len(files[i].tail)
              /\ \A n \in 1..pos[r] : files[i].tail[n] = Tail0(fresh[r], i)[n]
              /\ \A q \in Requests : Writes(q, i) => q = r
AInv == WritesAlone /\ TornByOverlapOnly

(* Every request gets its answer, from whatever state the entry is in.     *)
Terminates == <>(\A r \in Requests : pc[r] \in {"hit", "done", "dead"})
=============================================================================
