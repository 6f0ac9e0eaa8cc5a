---------------------------- MODULE AuthMiddleware ----------------------------
(***************************************************************************)
(* uv-auth's `AuthMiddleware` and `CredentialsCache`: the requests of one  *)
(* command run concurrently through `handle`, share a cache of credentials *)
(* per realm and user and per URL prefix, and fetch from external sources  *)
(* (netrc, the text store, a keyring, a provider's token) at most once per *)
(* index or realm and user.                                                *)
(*                                                                         *)
(* A URL is a sequence: its realm, then its path segments.  A credential   *)
(* records the realm it belongs to.  Every realm has a host of its own,    *)
(* and netrc has no default entry.                                         *)
(***************************************************************************)
EXTENDS Naturals, FiniteSets, Sequences, SequencesExt

CONSTANTS
  Tasks,      \* concurrent requests
  Users,
  Configs,    \* pairs of a client, [only, dependabot, indexes, files, keyring, tokens,
              \* seeds, prompt], and the requests its tasks may make, [Tasks -> [url, cred]]
  None

Realm(url) == url[1]

\* c is a credential for a realm, or none.
Own(c, realm) == c # None => c.of = realm /\ c.user \in Users \cup {None}

Urls == Seq(STRING) \ {<<>>}

\* The credentials of a URL, and the ones that are stored for it, belong to its
\* realm; the root of an index is the start of its URL.  A client that prompts
\* has one destination, and one for uploads has no indexes (uv-publish).
ASSUME ConfigsAssumption ==
  \A c \in Configs :
    /\ \A r \in c[2] : \A t \in Tasks :
         /\ r[t].url \in Urls /\ Own(r[t].cred, Realm(r[t].url))
         /\ Own(c[1].prompt, Realm(r[t].url))
    /\ \A s \in c[1].seeds : s.url \in Urls /\ s.cred # None /\ Own(s.cred, Realm(s.url))
    /\ \A i \in c[1].indexes : i.url \in Urls /\ i.root \in Urls /\ Realm(i.root) = Realm(i.url)
    /\ \A x \in c[1].files \cup c[1].keyring \cup c[1].tokens : x.user \in Users \cup {None}
    /\ \A x \in c[1].tokens : x.secret = "token"
    /\ c[1].only => c[1].indexes = {}

VARIABLES
  conf,       \* the client's configuration, fixed
  unstored,   \* the seeds that are still to be stored
  req,        \* each task's request
  pc,         \* where each task is in `handle`
  creds,      \* the local `credentials` of each task
  tried,      \* attempt_has_username
  answered,   \* whether the first attempt has a response to return
  attached,   \* the credential the request carries
  store,      \* the credential complete_request caches on success
  realms,     \* CredentialsCache::realms
  urls,       \* CredentialsCache::urls, the values of the trie
  fetches,    \* CredentialsCache::fetches: [state, is], is the result if filled
  proven      \* history: credentials a server accepted, and the seeds

local == <<creds, tried, answered, attached, store>>
cache == <<realms, urls>>
vars == <<conf, unstored, req, pc, local, cache, fetches, proven>>

(***************************************************************************)
(* Credentials, URLs and indexes.                                          *)
(***************************************************************************)
Credential(realm, user, secret) == [of |-> realm, user |-> user, secret |-> secret]

HasPassword(c) == c.secret = "password"
is_authenticated(c) == c.secret # "none"
UserOf(c) == IF c = None THEN None ELSE c.user
Complete(c) == c # None /\ is_authenticated(c)

Url(t) == req[t].url

FirstOf(S) == IF S = {} THEN None ELSE CHOOSE x \in S : TRUE

\* The first index whose root is a path prefix of the URL.
index_for(url) == FirstOf({i \in conf.indexes : IsPrefix(i.root, url)})

Index(t) == index_for(Url(t))

auth_policy_for(t) == IF Index(t) = None THEN "auto" ELSE Index(t).policy

\* must_authenticate of `handle`: Dependabot adds credentials outside of uv, so
\* that there the policy is not enforced before a first attempt.
Must(t) == conf.only \/ (auth_policy_for(t) = "always" /\ ~conf.dependabot)

(***************************************************************************)
(* The cache.                                                              *)
(***************************************************************************)
get_realm(realm, user) ==
  LET c == realms[<<realm, user>>]
  IN  IF c # None /\ user # None /\ ~HasPassword(c) THEN None ELSE c

\* The trie is walked from the realm; the first value on the way is returned.
get_url(url, user) ==
  LET on == {p \in DOMAIN urls : IsPrefix(p, url) /\ urls[p] # None}
      c == FirstOf({urls[p] : p \in {q \in on : \A o \in on : Len(q) <= Len(o)}})
  IN  IF c # None /\ user # None /\ (c.user # user \/ ~HasPassword(c)) THEN None ELSE c

OrElse(a, b) == IF a # None THEN a ELSE b

\* A username alone does not replace a password.
insert_realm(rs, key, c) ==
  IF is_authenticated(c) \/ rs[key] = None \/ ~HasPassword(rs[key])
    THEN [rs EXCEPT ![key] = c] ELSE rs

Realms(rs, url, c) ==
  LET named == IF c.user = None THEN rs ELSE insert_realm(rs, <<Realm(url), c.user>>, c)
  IN  insert_realm(named, <<Realm(url), None>>, c)

insert(url, c) ==
  /\ realms' = Realms(realms, url, c)
  /\ urls' = [urls EXCEPT ![url] = c]

(***************************************************************************)
(* The external sources, in the order fetch_credentials asks them: the     *)
(* token of a known provider, then netrc, text store and native store      *)
(* (`files`, each at most one entry per URL prefix and user here), then    *)
(* the keyring, only for a user or an index that must authenticate.        *)
(***************************************************************************)
Sources(url, index, user, policy) ==
  LET token == {c \in conf.tokens : c.of = Realm(url)}
      asked(S) == {c \in S : c.of = Realm(url) /\ (user = None \/ c.user = user)}
      slow == IF user # None \/ (policy = "always" /\ index # None)
                THEN asked(conf.keyring) ELSE {}
  IN  OrElse(FirstOf(token), OrElse(FirstOf(asked(conf.files)), FirstOf(slow)))

\* Mutant: fetches are shared per user.
KeyByUser(t) == <<"realm", <<>>, UserOf(creds[t])>>
\* Mutant: fetches are shared by all users of a realm.
KeyByPlace(t) ==
  IF Index(t) # None THEN <<"index", Index(t).url, None>>
                     ELSE <<"realm", <<Realm(Url(t))>>, None>>
\* Fetches are shared per index URL, or realm, and user.
Key(t) ==
  IF Index(t) # None THEN <<"index", Index(t).url, UserOf(creds[t])>>
                     ELSE <<"realm", <<Realm(Url(t))>>, UserOf(creds[t])>>

Absent == [state |-> "absent", is |-> None]
Waiting == [state |-> "waiting", is |-> None]
Filled(result) == [state |-> "filled", is |-> result]

Keys ==
  {<<kind, u, user>> :
     kind \in {"index", "realm"}, user \in Users \cup {None},
     u \in {<<>>} \cup {<<Realm(req[t].url)>> : t \in Tasks} \cup {i.url : i \in conf.indexes}}

UrlsOf == {req[t].url : t \in Tasks} \cup {i.url : i \in conf.indexes}
            \cup {s.url : s \in conf.seeds}

RealmKeys == {Realm(u) : u \in UrlsOf} \X (Users \cup {None})

Init ==
  /\ \E c \in Configs : conf = c[1] /\ req \in c[2]
  /\ unstored = conf.seeds
  /\ pc = [t \in Tasks |-> "begin"]
  /\ creds = [t \in Tasks |-> None] /\ tried = [t \in Tasks |-> FALSE]
  /\ answered = [t \in Tasks |-> FALSE]
  /\ attached = [t \in Tasks |-> req[t].cred]
  /\ store = [t \in Tasks |-> None]
  /\ realms = [k \in RealmKeys |-> None]
  /\ urls = [u \in UrlsOf |-> None]
  /\ fetches = [k \in Keys |-> Absent]
  /\ proven = {}

\* The credentials of the command line and the configured indexes are stored
\* before the first request.
store_credentials ==
  /\ \E s \in unstored :
       /\ insert(s.url, s.cred)
       /\ unstored' = unstored \ {s}
       /\ proven' = proven \cup {s.cred}
  /\ UNCHANGED <<conf, req, pc, local, fetches>>

(***************************************************************************)
(* complete_request: send with `c` attached and cache `keep` on success.   *)
(***************************************************************************)
\* Mutant: a user without a password is sent whatever the policy is.
complete_any(t, keep, c) ==
  /\ pc' = [pc EXCEPT ![t] = "send"]
  /\ attached' = [attached EXCEPT ![t] = c]
  /\ store' = [store EXCEPT ![t] = keep]

complete_request(t, keep, c) ==
  IF keep # None /\ auth_policy_for(t) = "always" /\ ~is_authenticated(keep)
    THEN /\ pc' = [pc EXCEPT ![t] = "error"]
         /\ UNCHANGED <<attached, store>>
    ELSE /\ pc' = [pc EXCEPT ![t] = "send"]
         /\ attached' = [attached EXCEPT ![t] = c]
         /\ store' = [store EXCEPT ![t] = keep]

(***************************************************************************)
(* The start of `handle`, for a request with credentials (and a policy     *)
(* that allows them): complete, or a user whose password is looked up.     *)
(***************************************************************************)
Given(t) == req[t].cred # None /\ auth_policy_for(t) # "never"

BeginComplete(t) ==
  /\ pc[t] = "begin" /\ Given(t) /\ is_authenticated(req[t].cred)
  /\ complete_request(t, req[t].cred, req[t].cred)
  /\ UNCHANGED <<conf, unstored, req, creds, tried, answered, cache, fetches, proven>>

CachedFor(t, user) ==
  OrElse(IF Index(t) # None
           THEN OrElse(get_url(Index(t).url, user), get_url(Index(t).root, user))
           ELSE get_realm(Realm(Url(t)), user),
         get_url(Url(t), user))

BeginUser(t) ==
  /\ pc[t] = "begin" /\ Given(t) /\ ~is_authenticated(req[t].cred)
  /\ LET c == CachedFor(t, req[t].cred.user)
     IN  IF c # None
           THEN complete_request(t, None, c) /\ UNCHANGED creds
           ELSE /\ pc' = [pc EXCEPT ![t] = "fetch"]
                /\ creds' = [creds EXCEPT ![t] = req[t].cred]
                /\ UNCHANGED <<attached, store>>
  /\ UNCHANGED <<conf, unstored, req, tried, answered, cache, fetches, proven>>

(***************************************************************************)
(* Without credentials: the URL's cached ones, if any, on a first attempt; *)
(* a request that must authenticate skips the attempt.                     *)
(***************************************************************************)
BeginPlain(t) ==
  /\ pc[t] = "begin" /\ ~Given(t)
  /\ LET c == IF auth_policy_for(t) = "never" THEN None ELSE get_url(Url(t), None)
     IN  IF Complete(c)
           THEN complete_request(t, None, c) /\ UNCHANGED <<creds, tried>>
           ELSE /\ pc' = [pc EXCEPT ![t] = IF Must(t) THEN "search" ELSE "first"]
                /\ creds' = [creds EXCEPT ![t] = c]
                /\ tried' = [tried EXCEPT ![t] = UserOf(c) # None]
                /\ attached' = [attached EXCEPT ![t] = OrElse(c, req[t].cred)]
                /\ UNCHANGED store
  /\ UNCHANGED <<conf, unstored, req, answered, cache, fetches, proven>>

\* The first attempt: 401, 403 and 404 start the search for credentials.
First(t) ==
  /\ pc[t] = "first"
  /\ \E denied \in BOOLEAN :
       IF denied /\ auth_policy_for(t) # "never"
         THEN /\ pc' = [pc EXCEPT ![t] = "search"]
              /\ answered' = [answered EXCEPT ![t] = TRUE]
         ELSE pc' = [pc EXCEPT ![t] = "returned"] /\ UNCHANGED answered
  /\ UNCHANGED <<conf, unstored, req, creds, tried, attached, store, cache, fetches, proven>>

\* The cache again, now also per realm: another task may have filled it.
Search(t) ==
  /\ pc[t] = "search"
  /\ LET user == UserOf(creds[t])
         here == get_realm(Realm(Url(t)), user)
         found == IF Index(t) # None THEN OrElse(get_url(Index(t).url, user), here) ELSE here
         c == OrElse(found, creds[t])
     IN  /\ creds' = [creds EXCEPT ![t] = c]
         /\ IF Complete(c)
              THEN complete_request(t, None, c)
              ELSE pc' = [pc EXCEPT ![t] = "fetch"] /\ UNCHANGED <<attached, store>>
  /\ UNCHANGED <<conf, unstored, req, tried, answered, cache, fetches, proven>>

(***************************************************************************)
(* fetch_credentials and what its callers do with the result.              *)
(***************************************************************************)
\* The caller had a user without a password.
ResumeUser(t, found) ==
  LET cached == IF Index(t) # None THEN get_realm(Realm(Url(t)), creds[t].user) ELSE None
      c == OrElse(found, OrElse(cached, creds[t]))
  IN  complete_request(t, c, c)

\* The caller had no credentials, or a user from the cache.  A request that
\* must authenticate may prompt; the answer is kept for the whole client,
\* which then has a single destination, and reading it may fail.
Asks(t, found) == Must(t) /\ auth_policy_for(t) # "never" /\ ~Complete(found)

Fails(t, how) == pc' = [pc EXCEPT ![t] = how] /\ UNCHANGED <<attached, store>>

ResumePlain(t, found) ==
  LET typed == IF Asks(t, found) THEN OrElse(conf.prompt, found) ELSE found
  IN  \/ Asks(t, found) /\ conf.prompt # None /\ Fails(t, "error")
      \/ typed # None /\ complete_request(t, typed, typed)
      \/ typed = None /\ creds[t] # None /\ ~tried[t] /\ complete_request(t, None, creds[t])
      \/ /\ typed = None /\ (creds[t] = None \/ tried[t])
         /\ Fails(t, IF answered[t] THEN "returned" ELSE "error")

Resume(t, found) == IF Given(t) THEN ResumeUser(t, found) ELSE ResumePlain(t, found)

\* register_or_wait: own the fetch, or use the result once it is there.
Register(t) ==
  /\ pc[t] = "fetch" /\ fetches[Key(t)].state = "absent"
  /\ fetches' = [fetches EXCEPT ![Key(t)] = Waiting]
  /\ pc' = [pc EXCEPT ![t] = "fetching"]
  /\ UNCHANGED <<conf, unstored, req, local, cache, proven>>

Wait(t) ==
  /\ pc[t] = "fetch" /\ fetches[Key(t)].state = "filled"
  /\ Resume(t, fetches[Key(t)].is)
  /\ UNCHANGED <<conf, unstored, req, creds, tried, answered, cache, fetches, proven>>

\* Mutant: a fetch that finds nothing returns before `done`.
FetchQuietly(t) ==
  /\ pc[t] = "fetching"
  /\ LET found == Sources(Url(t), Index(t), UserOf(creds[t]), auth_policy_for(t))
     IN  /\ fetches' = IF found = None THEN fetches
                       ELSE [fetches EXCEPT ![Key(t)] = Filled(found)]
         /\ Resume(t, found)
  /\ UNCHANGED <<conf, unstored, req, creds, tried, answered, cache, proven>>

Fetch(t) ==
  /\ pc[t] = "fetching"
  /\ LET found == Sources(Url(t), Index(t), UserOf(creds[t]), auth_policy_for(t))
     IN  /\ fetches' = [fetches EXCEPT ![Key(t)] = Filled(found)]
         /\ Resume(t, found)
  /\ UNCHANGED <<conf, unstored, req, creds, tried, answered, cache, proven>>

(***************************************************************************)
(* The answer to the completed request.                                    *)
(***************************************************************************)
Send(t) ==
  /\ pc[t] = "send"
  /\ pc' = [pc EXCEPT ![t] = "returned"]
  /\ \E ok \in BOOLEAN :
       /\ IF ok /\ store[t] # None THEN insert(Url(t), store[t]) ELSE UNCHANGED cache
       /\ proven' = IF ok /\ attached[t] # None THEN proven \cup {attached[t]} ELSE proven
  /\ UNCHANGED <<conf, unstored, req, local, fetches>>

Ended(t) == pc[t] \in {"returned", "error"}

Step(t) ==
  \/ BeginComplete(t) \/ BeginUser(t) \/ BeginPlain(t) \/ First(t) \/ Search(t)
  \/ Register(t) \/ Wait(t) \/ Fetch(t) \/ Send(t)

Next == store_credentials \/ (unstored = {} /\ \E t \in Tasks : Step(t))

\* Requests and sources end, and the executor runs some future that is ready:
\* no fairness between the tasks is needed.
Fairness == WF_vars(Next)

Spec == Init /\ [][Next]_vars /\ Fairness

-----------------------------------------------------------------------------
InFlight(t) == pc[t] \in {"first", "send"}

TypeOK ==
  /\ \E c \in Configs : conf = c[1] /\ req \in c[2]
  /\ unstored \subseteq conf.seeds
  /\ pc \in [Tasks -> {"begin", "first", "search", "fetch", "fetching", "send",
                     "returned", "error"}]
  /\ tried \in [Tasks -> BOOLEAN] /\ answered \in [Tasks -> BOOLEAN]
  /\ DOMAIN creds = Tasks /\ DOMAIN attached = Tasks /\ DOMAIN store = Tasks
  /\ DOMAIN realms = RealmKeys /\ DOMAIN urls = UrlsOf /\ DOMAIN fetches = Keys

\* A credential goes to the realm it belongs to only, whether it came from the
\* request, the cache, a source, or a fetch that another task made.
RealmBound ==
  \A t \in Tasks : InFlight(t) /\ attached[t] # None => attached[t].of = Realm(Url(t))

\* A request that names a user is sent as that user, or with a provider's
\* token, although caches and fetches are shared with requests of other users.
UserKept ==
  \A t \in Tasks : InFlight(t) /\ req[t].cred # None /\ req[t].cred.user # None =>
    attached[t].secret = "token" \/ attached[t].user = req[t].cred.user

\* With authenticate = "always", or for an upload, there is no first attempt
\* without credentials, except for the index under Dependabot; and the request
\* that is then sent, under Dependabot too, has a credential.  For an index it
\* is complete, unless the request names no user: then it may be a user
\* without a password that the cache has for the index or its realm.
AlwaysCarries ==
  \A t \in Tasks :
    /\ conf.only \/ (auth_policy_for(t) = "always" /\ ~conf.dependabot) => pc[t] # "first"
    /\ pc[t] = "send" /\ (conf.only \/ auth_policy_for(t) = "always") =>
         /\ attached[t] # None
         /\ \/ conf.only \/ is_authenticated(attached[t])
            \/ attached[t] \in proven /\ UserOf(req[t].cred) = None

-----------------------------------------------------------------------------
(* What makes these inductive.                                             *)

\* The user of c is the one that was asked for, if any was; a token has none.
NamedAs(c, user) == user # None => c.secret = "token" \/ c.user = user

\* The cache has credentials of its realm and user, which were accepted before.
CacheHolds ==
  /\ \A k \in RealmKeys : realms[k] # None =>
       /\ Own(realms[k], k[1]) /\ realms[k] \in proven
       /\ k[2] # None => realms[k].user = k[2]
  /\ \A u \in UrlsOf : urls[u] # None => Own(urls[u], Realm(u)) /\ urls[u] \in proven

\* What a fetch found is for the index or realm, and the user, it is shared by.
FetchesHold ==
  \A k \in Keys : fetches[k].is # None =>
    Own(fetches[k].is, Realm(k[2])) /\ NamedAs(fetches[k].is, k[3])

\* A request that names a user searches as that user; what another one has
\* come by is from the cache; with "never" nothing is searched.
SearchHolds(t) ==
  /\ Own(creds[t], Realm(Url(t)))
  /\ Given(t) /\ pc[t] \in {"fetch", "fetching"} => creds[t] = req[t].cred
  /\ ~Given(t) /\ creds[t] # None => creds[t] \in proven
  /\ auth_policy_for(t) = "never" => pc[t] \in {"begin", "first", "returned"}
  /\ pc[t] = "first" => ~Must(t)
  /\ pc[t] \in {"first", "search"} => ~Given(t)
  /\ store[t] # None =>
       /\ pc[t] \in {"send", "returned"} /\ attached[t] = store[t]
       /\ Own(store[t], Realm(Url(t)))

AuthInv ==
  /\ TypeOK /\ CacheHolds /\ FetchesHold /\ \A t \in Tasks : SearchHolds(t)
  /\ RealmBound /\ UserKept /\ AlwaysCarries

\* Every request ends, the ones that wait for another's fetch included.
Terminates == \A t \in Tasks : <>Ended(t)
===============================================================================
