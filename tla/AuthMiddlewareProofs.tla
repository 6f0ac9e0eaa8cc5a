------------------------ MODULE AuthMiddlewareProofs ------------------------
(***************************************************************************)
(* For any clients, indexes, sources, users and number of concurrent       *)
(* requests: a credential goes to its own realm only, a request that names *)
(* a user is sent as that user, and one that must authenticate carries a   *)
(* credential, without a first attempt unless Dependabot adds one.         *)
(***************************************************************************)
EXTENDS AuthMiddleware, SequenceTheorems, TLAPS

-----------------------------------------------------------------------------
(* The configuration, which is fixed.                                      *)

LEMMA ConfIs ==
  ASSUME TypeOK
  PROVE  /\ \A t \in Tasks : /\ Url(t) \in Urls /\ Own(req[t].cred, Realm(Url(t)))
                             /\ Own(conf.prompt, Realm(Url(t)))
         /\ \A s \in conf.seeds : s.url \in Urls /\ s.cred # None /\ Own(s.cred, Realm(s.url))
         /\ \A i \in conf.indexes : i.url \in Urls /\ i.root \in Urls /\ Realm(i.root) = Realm(i.url)
         /\ \A x \in conf.files \cup conf.keyring \cup conf.tokens : x.user \in Users \cup {None}
         /\ \A x \in conf.tokens : x.secret = "token"
         /\ conf.only => conf.indexes = {}
BY ConfigsAssumption DEF TypeOK, Url

LEMMA FirstOfIs == ASSUME NEW S PROVE FirstOf(S) = None \/ FirstOf(S) \in S
BY DEF FirstOf

LEMMA PrefixRealm ==
  ASSUME NEW p \in Urls, NEW u \in Urls, IsPrefix(p, u)
  PROVE  Realm(p) = Realm(u)
<1>1. p \in Seq(STRING) /\ u \in Seq(STRING) /\ Len(p) \in Nat /\ Len(p) # 0 /\ Len(p) <= Len(u)
  BY EmptySeq DEF Urls, IsPrefix
<1>2. SubSeq(p, 1, Len(p))[1] = p[1]
  BY <1>1
<1>3. SubSeq(u, 1, Len(p))[1] = u[1]
  BY <1>1
<1> QED
  BY <1>2, <1>3 DEF IsPrefix, Realm

LEMMA IndexIs ==
  ASSUME TypeOK, NEW t \in Tasks, Index(t) # None
  PROVE  /\ Index(t) \in conf.indexes /\ Index(t).url \in Urls /\ Index(t).root \in Urls
         /\ Realm(Index(t).url) = Realm(Url(t)) /\ Realm(Index(t).root) = Realm(Url(t))
         /\ ~conf.only
<1>1. Index(t) \in {i \in conf.indexes : IsPrefix(i.root, Url(t))}
  BY FirstOfIs DEF Index, index_for
<1>2. Index(t) \in conf.indexes /\ IsPrefix(Index(t).root, Url(t))
  BY <1>1
<1> QED
  BY <1>2, ConfIs, PrefixRealm

\* Only an index has the policy "never", and a client for uploads has none.
LEMMA NeverIsNot ==
  ASSUME TypeOK, NEW t \in Tasks, auth_policy_for(t) = "never"
  PROVE  ~Must(t) /\ ~Given(t)
BY IndexIs DEF auth_policy_for, Must, Given

LEMMA UrlIsThere == ASSUME NEW t \in Tasks PROVE Url(t) \in UrlsOf
BY DEF Url, UrlsOf

LEMMA RealmIsThere ==
  ASSUME NEW t \in Tasks, NEW user \in Users \cup {None}
  PROVE  <<Realm(Url(t)), user>> \in RealmKeys
BY UrlIsThere DEF RealmKeys

LEMMA KeyIsThere ==
  ASSUME TypeOK, NEW t \in Tasks, Own(creds[t], Realm(Url(t)))
  PROVE  Key(t) \in Keys /\ Realm(Key(t)[2]) = Realm(Url(t)) /\ Key(t)[3] = UserOf(creds[t])
<1>1. UserOf(creds[t]) \in Users \cup {None}
  BY DEF Own, UserOf
<1>2. CASE Index(t) # None
  <2>1. Index(t) \in conf.indexes /\ Realm(Index(t).url) = Realm(Url(t))
    BY <1>2, IndexIs
  <2> QED
    BY <1>1, <1>2, <2>1 DEF Key, Keys
<1>3. CASE Index(t) = None
  <2>1. PICK u : u = <<Realm(Url(t))>>
    OBVIOUS
  <2>2. u[1] = Realm(Url(t)) /\ u \in {<<Realm(req[x].url)>> : x \in Tasks}
    BY <2>1 DEF Url
  <2>3. Key(t) = <<"realm", u, UserOf(creds[t])>>
    BY <1>3, <2>1 DEF Key
  <2>4. Key(t) \in Keys
    BY <1>1, <2>2, <2>3 DEF Keys
  <2> QED
    BY <2>2, <2>3, <2>4 DEF Realm
<1> QED
  BY <1>2, <1>3

LEMMA Fixed ==
  ASSUME conf' = conf, req' = req
  PROVE  /\ UrlsOf' = UrlsOf /\ RealmKeys' = RealmKeys /\ Keys' = Keys
         /\ \A t \in Tasks : /\ Url(t)' = Url(t) /\ Index(t)' = Index(t)
                             /\ auth_policy_for(t)' = auth_policy_for(t)
                             /\ Must(t)' = Must(t) /\ Given(t)' = Given(t)
<1>1. UrlsOf' = UrlsOf
  BY DEF UrlsOf
<1>2. RealmKeys' = RealmKeys
  BY <1>1 DEF RealmKeys
<1>3. Keys' = Keys
  BY DEF Keys
<1>4. ASSUME NEW t \in Tasks
      PROVE  /\ Url(t)' = Url(t) /\ Index(t)' = Index(t)
             /\ auth_policy_for(t)' = auth_policy_for(t)
             /\ Must(t)' = Must(t) /\ Given(t)' = Given(t)
  <2>1. Url(t)' = Url(t)
    BY DEF Url
  <2>2. Index(t)' = Index(t)
    BY <2>1 DEF Index, index_for
  <2>3. auth_policy_for(t)' = auth_policy_for(t)
    BY <2>2 DEF auth_policy_for
  <2> QED
    BY <2>1, <2>2, <2>3 DEF Must, Given
<1> QED
  BY <1>1, <1>2, <1>3, <1>4

-----------------------------------------------------------------------------
(* What the cache and the sources return.                                  *)

LEMMA GetRealmIs ==
  ASSUME TypeOK, CacheHolds, NEW t \in Tasks, NEW user \in Users \cup {None}, NEW c,
         c = get_realm(Realm(Url(t)), user), c # None
  PROVE  /\ Own(c, Realm(Url(t))) /\ c \in proven
         /\ user # None => c.user = user /\ is_authenticated(c)
<1>1. c = realms[<<Realm(Url(t)), user>>] /\ (user # None => is_authenticated(c))
  BY DEF get_realm, HasPassword, is_authenticated
<1> QED
  BY <1>1, RealmIsThere DEF CacheHolds

LEMMA GetUrlIs ==
  ASSUME TypeOK, CacheHolds, NEW url \in Urls, NEW user, NEW c, c = get_url(url, user), c # None
  PROVE  /\ Own(c, Realm(url)) /\ c \in proven
         /\ user # None => c.user = user /\ is_authenticated(c)
<1> DEFINE on == {p \in DOMAIN urls : IsPrefix(p, url) /\ urls[p] # None}
<1> DEFINE S == {urls[p] : p \in {q \in on : \A o \in on : Len(q) <= Len(o)}}
<1>1. c = FirstOf(S) /\ (user # None => c.user = user /\ is_authenticated(c))
  BY DEF get_url, HasPassword, is_authenticated
<1>2. c \in S
  BY <1>1, FirstOfIs
<1>3. PICK p \in UrlsOf : c = urls[p] /\ IsPrefix(p, url)
  BY <1>2 DEF TypeOK
<1>4. p \in Urls
  BY <1>3, ConfIs DEF UrlsOf, Url
<1>5. Realm(p) = Realm(url)
  BY <1>3, <1>4, PrefixRealm
<1> QED
  BY <1>1, <1>3, <1>5 DEF CacheHolds

LEMMA SourcesIs ==
  ASSUME TypeOK, NEW url, NEW index, NEW user, NEW policy, NEW c,
         c = Sources(url, index, user, policy), c # None
  PROVE  Own(c, Realm(url)) /\ NamedAs(c, user)
<1> DEFINE token == {x \in conf.tokens : x.of = Realm(url)}
           asked(S) == {x \in S : x.of = Realm(url) /\ (user = None \/ x.user = user)}
           slow == IF user # None \/ (policy = "always" /\ index # None)
                     THEN asked(conf.keyring) ELSE {}
<1>1. c = OrElse(FirstOf(token), OrElse(FirstOf(asked(conf.files)), FirstOf(slow)))
  BY DEF Sources
<1>2. c = FirstOf(token) \/ c = FirstOf(asked(conf.files)) \/ c = FirstOf(slow)
  BY <1>1 DEF OrElse
<1>3. c \in token \/ c \in asked(conf.files) \/ c \in slow
  BY <1>2, FirstOfIs
<1> QED
  BY <1>3, ConfIs DEF Own, NamedAs

\* What is inserted on success is accepted, and in its place.
LEMMA InsertRealmIs ==
  ASSUME NEW rs, NEW key \in RealmKeys, NEW c, DOMAIN rs = RealmKeys
  PROVE  /\ DOMAIN insert_realm(rs, key, c) = RealmKeys
         /\ \A k \in RealmKeys : \/ insert_realm(rs, key, c)[k] = rs[k]
                                 \/ k = key /\ insert_realm(rs, key, c)[k] = c
BY DEF insert_realm

LEMMA InsertHolds ==
  ASSUME TypeOK, CacheHolds, UNCHANGED <<conf, req>>, NEW url \in UrlsOf, NEW c, c # None,
         Own(c, Realm(url)), insert(url, c), proven \cup {c} \subseteq proven'
  PROVE  CacheHolds' /\ DOMAIN realms' = RealmKeys' /\ DOMAIN urls' = UrlsOf'
<1>0. UrlsOf' = UrlsOf /\ RealmKeys' = RealmKeys
  BY Fixed
<1>1. <<Realm(url), None>> \in RealmKeys /\ (c.user # None => <<Realm(url), c.user>> \in RealmKeys)
  BY DEF RealmKeys, Own
<1>2. PICK named : named = IF c.user = None THEN realms ELSE insert_realm(realms, <<Realm(url), c.user>>, c)
  OBVIOUS
<1>3. /\ DOMAIN named = RealmKeys
      /\ \A k \in RealmKeys : \/ named[k] = realms[k]
                              \/ c.user # None /\ k = <<Realm(url), c.user>> /\ named[k] = c
  BY <1>1, <1>2, InsertRealmIs DEF TypeOK
<1>4. realms' = insert_realm(named, <<Realm(url), None>>, c)
  BY <1>2 DEF insert, Realms
<1>5. /\ DOMAIN realms' = RealmKeys
      /\ \A k \in RealmKeys : realms'[k] = named[k] \/ (k = <<Realm(url), None>> /\ realms'[k] = c)
  BY <1>1, <1>3, <1>4, InsertRealmIs
<1>6. ASSUME NEW k \in RealmKeys, realms'[k] # None
      PROVE  Own(realms'[k], k[1]) /\ realms'[k] \in proven' /\ (k[2] # None => realms'[k].user = k[2])
  <2>1. CASE realms'[k] = realms[k]
    BY <1>6, <2>1 DEF CacheHolds
  <2>2. CASE k = <<Realm(url), None>> /\ realms'[k] = c
    BY <2>2
  <2>3. CASE k = <<Realm(url), c.user>> /\ realms'[k] = c
    BY <2>3
  <2> QED
    BY <1>3, <1>5, <2>1, <2>2, <2>3
<1>7. DOMAIN urls' = UrlsOf /\ \A u \in UrlsOf : urls'[u] = urls[u] \/ (u = url /\ urls'[u] = c)
  BY DEF insert, TypeOK
<1>8. \A u \in UrlsOf : urls'[u] # None => Own(urls'[u], Realm(u)) /\ urls'[u] \in proven'
  BY <1>7 DEF CacheHolds
<1>9. CacheHolds'
  BY <1>0, <1>6, <1>8 DEF CacheHolds, Own
<1> QED
  BY <1>0, <1>5, <1>7, <1>9

-----------------------------------------------------------------------------
(* One request.                                                            *)

\* The credential c is one that t may be sent with.
GoodFor(t, c) ==
  /\ c # None => c.of = Realm(Url(t))
  /\ req[t].cred # None => NamedAs(c, req[t].cred.user)

\* The credential c is enough for t, if t has to be sent with one.
Enough(t, c) ==
  conf.only \/ auth_policy_for(t) = "always" =>
    /\ c # None
    /\ \/ conf.only \/ is_authenticated(c)
       \/ c \in proven /\ UserOf(req[t].cred) = None

TaskHolds(t) ==
  /\ SearchHolds(t)
  /\ InFlight(t) => GoodFor(t, attached[t])
  /\ pc[t] = "send" => Enough(t, attached[t])

LEMMA TasksAre ==
  TypeOK => ((\A t \in Tasks : TaskHolds(t)) <=>
    ((\A t \in Tasks : SearchHolds(t)) /\ RealmBound /\ UserKept /\ AlwaysCarries))
<1> SUFFICES ASSUME TypeOK
             PROVE  (\A t \in Tasks : TaskHolds(t)) <=>
                      ((\A t \in Tasks : SearchHolds(t)) /\ RealmBound /\ UserKept /\ AlwaysCarries)
  OBVIOUS
<1>1. ASSUME \A t \in Tasks : TaskHolds(t)
      PROVE  (\A t \in Tasks : SearchHolds(t)) /\ RealmBound /\ UserKept /\ AlwaysCarries
  BY <1>1 DEF TaskHolds, GoodFor, Enough, SearchHolds, RealmBound, UserKept, AlwaysCarries, NamedAs, Must
<1>2. ASSUME \A t \in Tasks : SearchHolds(t), RealmBound, UserKept, AlwaysCarries
      PROVE  \A t \in Tasks : TaskHolds(t)
  BY <1>2 DEF TaskHolds, GoodFor, Enough, SearchHolds, RealmBound, UserKept, AlwaysCarries, NamedAs, Must
<1> QED
  BY <1>1, <1>2
\* A request that a step leaves alone.
LEMMA TaskSame ==
  ASSUME UNCHANGED <<conf, req>>, proven \subseteq proven', NEW t \in Tasks, TaskHolds(t),
         pc'[t] = pc[t], creds'[t] = creds[t], attached'[t] = attached[t], store'[t] = store[t]
  PROVE  TaskHolds(t)'
<1>1. /\ Url(t)' = Url(t) /\ auth_policy_for(t)' = auth_policy_for(t)
      /\ Must(t)' = Must(t) /\ Given(t)' = Given(t)
  BY Fixed
<1>2. SearchHolds(t)'
  BY <1>1 DEF TaskHolds, SearchHolds, Own
<1>3. InFlight(t)' = InFlight(t)
  BY DEF InFlight
<1>4. GoodFor(t, attached[t]) => GoodFor(t, attached[t])'
  BY <1>1 DEF GoodFor, NamedAs
<1>5. Enough(t, attached[t]) => Enough(t, attached[t])'
  BY <1>1 DEF Enough, is_authenticated, UserOf
<1> QED
  BY <1>2, <1>3, <1>4, <1>5 DEF TaskHolds

\* complete_request: c is good for t, or keep is c and has to be complete.
LEMMA CompleteHolds ==
  ASSUME TypeOK, NEW t \in Tasks, SearchHolds(t), auth_policy_for(t) # "never", pc[t] \notin {"send", "returned"},
         NEW keep, NEW c, complete_request(t, keep, c), UNCHANGED <<conf, req, proven>>,
         Own(creds'[t], Realm(Url(t))), ~Given(t) /\ creds'[t] # None => creds'[t] \in proven,
         keep = None \/ keep = c, Own(c, Realm(Url(t))),
         req[t].cred # None => NamedAs(c, req[t].cred.user),
         c # None, keep = None => is_authenticated(c) \/ (c \in proven /\ UserOf(req[t].cred) = None)
  PROVE  TaskHolds(t)'
<1>0. /\ Url(t)' = Url(t) /\ auth_policy_for(t)' = auth_policy_for(t)
      /\ Must(t)' = Must(t) /\ Given(t)' = Given(t)
  BY Fixed
<1>1. store[t] = None
  BY DEF SearchHolds
<1>2. CASE keep # None /\ auth_policy_for(t) = "always" /\ ~is_authenticated(keep)
  <2>1. pc'[t] = "error" /\ store'[t] = None
    BY <1>1, <1>2 DEF complete_request, TypeOK
  <2> QED
    BY <1>0, <2>1 DEF TaskHolds, SearchHolds, InFlight, Own
<1>3. CASE ~(keep # None /\ auth_policy_for(t) = "always" /\ ~is_authenticated(keep))
  <2>1. pc'[t] = "send" /\ store'[t] = keep /\ attached'[t] = c
    BY <1>3 DEF complete_request, TypeOK
  <2>2. SearchHolds(t)'
    BY <1>0, <2>1 DEF SearchHolds, Own
  <2>3. Enough(t, c)
    BY <1>3 DEF Enough
  <2>4. GoodFor(t, attached[t])'
    BY <1>0, <2>1 DEF GoodFor, Own, NamedAs
  <2>5. Enough(t, attached[t])'
    BY <1>0, <2>1, <2>3 DEF Enough, is_authenticated, UserOf
  <2> QED
    BY <2>2, <2>4, <2>5 DEF TaskHolds
<1> QED
  BY <1>2, <1>3

\* The request t ends, or goes on without being sent.
LEMMA GoesOnHolds ==
  ASSUME TypeOK, NEW t \in Tasks, SearchHolds(t), UNCHANGED <<conf, req>>, proven \subseteq proven',
         pc'[t] = "search" => ~Given(t), pc'[t] \in {"search", "fetch", "fetching", "error", "returned"}, store'[t] = store[t],
         store[t] = None \/ (pc[t] = "send" /\ pc'[t] = "returned" /\ attached'[t] = attached[t]),
         Own(creds'[t], Realm(Url(t))), ~Given(t) /\ creds'[t] # None => creds'[t] \in proven,
         Given(t) /\ pc'[t] \in {"fetch", "fetching"} => creds'[t] = req[t].cred,
         auth_policy_for(t) = "never" => pc'[t] = "returned"
  PROVE  TaskHolds(t)'
<1>0. /\ Url(t)' = Url(t) /\ auth_policy_for(t)' = auth_policy_for(t)
      /\ Must(t)' = Must(t) /\ Given(t)' = Given(t)
  BY Fixed
<1> QED
  BY <1>0 DEF TaskHolds, SearchHolds, InFlight, Own

-----------------------------------------------------------------------------
(* The steps of a request.                                                 *)

\* What the invariant says, request by request.
Inv == TypeOK /\ CacheHolds /\ FetchesHold /\ \A t \in Tasks : TaskHolds(t)

LEMMA InvIs == Inv <=> AuthInv
BY TasksAre DEF Inv, AuthInv

LEMMA CompleteOthers ==
  ASSUME TypeOK, NEW t \in Tasks, NEW keep, NEW c, complete_request(t, keep, c)
  PROVE  /\ \A x \in Tasks \ {t} : pc'[x] = pc[x] /\ attached'[x] = attached[x] /\ store'[x] = store[x]
         /\ pc' \in [Tasks -> {"begin", "first", "search", "fetch", "fetching", "send", "returned", "error"}]
         /\ DOMAIN attached' = Tasks /\ DOMAIN store' = Tasks
BY DEF TypeOK, complete_request

LEMMA BeginCompleteHolds ==
  ASSUME Inv, NEW t \in Tasks, BeginComplete(t)
  PROVE  TaskHolds(t)'
<1>1. /\ TypeOK /\ SearchHolds(t) /\ pc[t] = "begin" /\ Given(t) /\ complete_request(t, req[t].cred, req[t].cred)
      /\ UNCHANGED <<conf, req, proven, creds>> /\ req[t].cred # None /\ auth_policy_for(t) # "never"
  BY DEF Inv, TaskHolds, BeginComplete, Given
<1>2. Own(req[t].cred, Realm(Url(t)))
  BY <1>1, ConfIs
<1>3. NamedAs(req[t].cred, req[t].cred.user)
  BY DEF NamedAs
<1>4. Own(creds'[t], Realm(Url(t)))
  BY <1>1 DEF SearchHolds
<1> QED
  BY <1>1, <1>2, <1>3, <1>4, CompleteHolds

\* CachedFor: from the index, or the realm, or the URL.
LEMMA CachedForIs ==
  ASSUME TypeOK, CacheHolds, NEW t \in Tasks, NEW user \in Users \cup {None}, NEW c,
         c = CachedFor(t, user), c # None
  PROVE  /\ Own(c, Realm(Url(t))) /\ c \in proven
         /\ user # None => c.user = user /\ is_authenticated(c)
<1>1. \/ Index(t) # None /\ (c = get_url(Index(t).url, user) \/ c = get_url(Index(t).root, user))
      \/ c = get_realm(Realm(Url(t)), user)
      \/ c = get_url(Url(t), user)
  BY DEF CachedFor, OrElse
<1>2. CASE Index(t) # None /\ c = get_url(Index(t).url, user)
  <2>1. Index(t).url \in Urls /\ Realm(Index(t).url) = Realm(Url(t))
    BY <1>2, IndexIs
  <2> QED
    BY <1>2, <2>1, GetUrlIs
<1>3. CASE Index(t) # None /\ c = get_url(Index(t).root, user)
  <2>1. Index(t).root \in Urls /\ Realm(Index(t).root) = Realm(Url(t))
    BY <1>3, IndexIs
  <2> QED
    BY <1>3, <2>1, GetUrlIs
<1>4. CASE c = get_realm(Realm(Url(t)), user)
  BY <1>4, GetRealmIs
<1>5. CASE c = get_url(Url(t), user)
  <2>1. Url(t) \in Urls
    BY ConfIs
  <2> QED
    BY <1>5, <2>1, GetUrlIs
<1> QED
  BY <1>1, <1>2, <1>3, <1>4, <1>5

LEMMA BeginUserHolds ==
  ASSUME Inv, NEW t \in Tasks, BeginUser(t)
  PROVE  TaskHolds(t)'
<1>1. /\ TypeOK /\ CacheHolds /\ SearchHolds(t) /\ pc[t] = "begin" /\ Given(t)
      /\ UNCHANGED <<conf, req, proven>> /\ req[t].cred # None /\ auth_policy_for(t) # "never"
  BY DEF Inv, TaskHolds, BeginUser, Given
<1>2. Own(req[t].cred, Realm(Url(t))) /\ req[t].cred.user \in Users \cup {None}
  BY <1>1, ConfIs DEF Own
<1>3. PICK c : c = CachedFor(t, req[t].cred.user)
  OBVIOUS
<1>4. CASE c # None
  <2>1. complete_request(t, None, c) /\ UNCHANGED creds
    BY <1>3, <1>4 DEF BeginUser
  <2>2. /\ Own(c, Realm(Url(t))) /\ c \in proven
        /\ req[t].cred.user # None => c.user = req[t].cred.user /\ is_authenticated(c)
    BY <1>1, <1>2, <1>3, <1>4, CachedForIs
  <2>3. NamedAs(c, req[t].cred.user)
    BY <2>2 DEF NamedAs
  <2>4. Own(creds'[t], Realm(Url(t)))
    BY <1>1, <2>1 DEF SearchHolds
  <2>5. is_authenticated(c) \/ (c \in proven /\ UserOf(req[t].cred) = None)
    BY <1>1, <2>2 DEF UserOf
  <2> QED
    BY <1>1, <1>4, <2>1, <2>2, <2>3, <2>4, <2>5, CompleteHolds
<1>5. CASE c = None
  <2>1. pc'[t] = "fetch" /\ creds'[t] = req[t].cred /\ store' = store
    BY <1>1, <1>3, <1>5 DEF BeginUser, TypeOK
  <2>2. store[t] = None
    BY <1>1 DEF SearchHolds
  <2> QED
    BY <1>1, <1>2, <2>1, <2>2, GoesOnHolds
<1> QED
  BY <1>4, <1>5
\* Without credentials in the request, which a policy may make so.
LEMMA PlainIs ==
  ASSUME NEW t \in Tasks, ~Given(t), auth_policy_for(t) # "never"
  PROVE  req[t].cred = None
BY DEF Given

LEMMA BeginPlainHolds ==
  ASSUME Inv, NEW t \in Tasks, BeginPlain(t)
  PROVE  TaskHolds(t)'
<1>1. /\ TypeOK /\ CacheHolds /\ SearchHolds(t) /\ pc[t] = "begin" /\ ~Given(t)
      /\ UNCHANGED <<conf, req, proven>>
  BY DEF Inv, TaskHolds, BeginPlain
<1>2. Url(t) \in Urls /\ Own(req[t].cred, Realm(Url(t)))
  BY <1>1, ConfIs
<1>3. PICK c : c = IF auth_policy_for(t) = "never" THEN None ELSE get_url(Url(t), None)
  OBVIOUS
<1>4. c # None => Own(c, Realm(Url(t))) /\ c \in proven /\ auth_policy_for(t) # "never" /\ req[t].cred = None
  BY <1>1, <1>2, <1>3, GetUrlIs, PlainIs
<1>5. Own(c, Realm(Url(t)))
  BY <1>4 DEF Own
<1>6. CASE Complete(c)
  <2>1. complete_request(t, None, c) /\ UNCHANGED creds /\ c # None /\ is_authenticated(c)
    BY <1>3, <1>6 DEF BeginPlain, Complete
  <2>2. Own(creds'[t], Realm(Url(t))) /\ (creds'[t] # None => creds'[t] \in proven)
    BY <1>1, <2>1 DEF SearchHolds
  <2> QED
    BY <1>1, <1>4, <1>5, <2>1, <2>2, CompleteHolds
<1>7. CASE ~Complete(c)
  <2>1. /\ pc'[t] = (IF Must(t) THEN "search" ELSE "first") /\ creds'[t] = c /\ store' = store
        /\ attached'[t] = OrElse(c, req[t].cred)
    BY <1>1, <1>3, <1>7 DEF BeginPlain, TypeOK
  <2>2. store[t] = None
    BY <1>1 DEF SearchHolds
  <2>3. auth_policy_for(t) = "never" => ~Must(t)
    BY <1>1, NeverIsNot
  <2>4. CASE Must(t)
    BY <1>1, <1>4, <1>5, <2>1, <2>2, <2>3, <2>4, GoesOnHolds
  <2>5. CASE ~Must(t)
    <3>1. /\ Url(t)' = Url(t) /\ auth_policy_for(t)' = auth_policy_for(t)
          /\ Must(t)' = Must(t) /\ Given(t)' = Given(t)
      BY <1>1, Fixed
    <3>2. SearchHolds(t)'
      BY <1>1, <1>4, <1>5, <2>1, <2>2, <2>5, <3>1 DEF SearchHolds, Own
    <3>3. attached'[t] # None => attached'[t].of = Realm(Url(t))
      BY <1>2, <1>5, <2>1 DEF OrElse, Own
    <3>4. req[t].cred # None => attached'[t] = req[t].cred
      BY <1>4, <2>1 DEF OrElse
    <3>5. GoodFor(t, attached[t])'
      BY <1>1, <2>5, <3>1, <3>3, <3>4 DEF GoodFor, NamedAs
    <3> QED
      BY <2>1, <2>5, <3>2, <3>5 DEF TaskHolds
  <2> QED
    BY <2>4, <2>5
<1> QED
  BY <1>6, <1>7

LEMMA FirstHolds ==
  ASSUME Inv, NEW t \in Tasks, First(t)
  PROVE  TaskHolds(t)'
<1>1. /\ TypeOK /\ SearchHolds(t) /\ pc[t] = "first" /\ ~Given(t)
      /\ UNCHANGED <<conf, req, proven, creds, store>>
  BY DEF Inv, TaskHolds, First, SearchHolds
<1>2. /\ store[t] = None /\ Own(creds'[t], Realm(Url(t)))
      /\ creds'[t] # None => creds'[t] \in proven
  BY <1>1 DEF SearchHolds
<1>3. pc'[t] = "returned" \/ (pc'[t] = "search" /\ auth_policy_for(t) # "never")
  BY <1>1 DEF First, TypeOK
<1> QED
  BY <1>1, <1>2, <1>3, GoesOnHolds

LEMMA SearchStepHolds ==
  ASSUME Inv, NEW t \in Tasks, Search(t)
  PROVE  TaskHolds(t)'
<1>1. /\ TypeOK /\ CacheHolds /\ SearchHolds(t) /\ pc[t] = "search" /\ ~Given(t)
      /\ UNCHANGED <<conf, req, proven>> /\ auth_policy_for(t) # "never" /\ req[t].cred = None
  BY PlainIs DEF Inv, TaskHolds, Search, SearchHolds
<1>2. PICK user : user = UserOf(creds[t])
  OBVIOUS
<1>3. user \in Users \cup {None} /\ store[t] = None
  BY <1>1, <1>2 DEF SearchHolds, Own, UserOf
<1>4. PICK here : here = get_realm(Realm(Url(t)), user)
  OBVIOUS
<1>5. PICK found : found = IF Index(t) # None THEN OrElse(get_url(Index(t).url, user), here) ELSE here
  OBVIOUS
<1>6. PICK c : c = OrElse(found, creds[t])
  OBVIOUS
<1>7. found # None => Own(found, Realm(Url(t))) /\ found \in proven
  <2>1. here # None => Own(here, Realm(Url(t))) /\ here \in proven
    BY <1>1, <1>3, <1>4, GetRealmIs
  <2>2. CASE Index(t) # None /\ get_url(Index(t).url, user) # None
    <3>1. Index(t).url \in Urls /\ Realm(Index(t).url) = Realm(Url(t))
      BY <1>1, <2>2, IndexIs
    <3>2. found = get_url(Index(t).url, user)
      BY <1>5, <2>2 DEF OrElse
    <3> QED
      BY <1>1, <3>1, <3>2, GetUrlIs
  <2>3. CASE ~(Index(t) # None /\ get_url(Index(t).url, user) # None)
    BY <1>5, <2>1, <2>3 DEF OrElse
  <2> QED
    BY <2>2, <2>3
<1>8. /\ creds'[t] = c /\ IF Complete(c) THEN complete_request(t, None, c)
                          ELSE pc' = [pc EXCEPT ![t] = "fetch"] /\ UNCHANGED <<attached, store>>
  BY <1>1, <1>2, <1>4, <1>5, <1>6 DEF Search, TypeOK
<1>9. Own(c, Realm(Url(t))) /\ (c # None => c \in proven)
  BY <1>1, <1>6, <1>7 DEF OrElse, SearchHolds, Own
<1>10. CASE Complete(c)
  <2>1. c # None /\ complete_request(t, None, c) /\ is_authenticated(c)
    BY <1>8, <1>10 DEF Complete
  <2> QED
    BY <1>1, <1>8, <1>9, <2>1, CompleteHolds
<1>11. CASE ~Complete(c)
  <2>1. pc'[t] = "fetch" /\ store' = store
    BY <1>1, <1>8, <1>11 DEF TypeOK
  <2> QED
    BY <1>1, <1>3, <1>8, <1>9, <2>1, GoesOnHolds
<1> QED
  BY <1>10, <1>11

\* The result of a fetch, made by t or by another request.
LEMMA ResumeHolds ==
  ASSUME Inv, NEW t \in Tasks, pc[t] \in {"fetch", "fetching"}, NEW found, Resume(t, found),
         found # None => Own(found, Realm(Url(t))) /\ NamedAs(found, UserOf(creds[t])),
         UNCHANGED <<conf, req, proven, creds>>
  PROVE  TaskHolds(t)'
<1>1. /\ TypeOK /\ CacheHolds /\ SearchHolds(t) /\ auth_policy_for(t) # "never" /\ store[t] = None
      /\ Own(creds[t], Realm(Url(t))) /\ (~Given(t) /\ creds[t] # None => creds[t] \in proven)
      /\ pc[t] \notin {"send", "returned"} /\ creds' = creds
  BY DEF Inv, TaskHolds, SearchHolds
<1>2. CASE Given(t)
  <2>1. creds[t] = req[t].cred /\ req[t].cred # None /\ ResumeUser(t, found)
    BY <1>1, <1>2 DEF SearchHolds, Given, Resume
  <2>2. creds[t].user \in Users \cup {None} /\ UserOf(creds[t]) = creds[t].user
    BY <1>1, <2>1 DEF Own, UserOf
  <2>3. PICK cached : cached = IF Index(t) # None THEN get_realm(Realm(Url(t)), creds[t].user) ELSE None
    OBVIOUS
  <2>4. PICK c : c = OrElse(found, OrElse(cached, creds[t]))
    OBVIOUS
  <2>5. complete_request(t, c, c)
    BY <2>1, <2>3, <2>4 DEF ResumeUser
  <2>6. cached # None => Own(cached, Realm(Url(t))) /\ NamedAs(cached, req[t].cred.user)
    BY <1>1, <2>1, <2>2, <2>3, GetRealmIs DEF NamedAs
  <2>7. c # None /\ Own(c, Realm(Url(t))) /\ NamedAs(c, req[t].cred.user)
    <3>1. CASE found # None
      BY <2>1, <2>2, <2>4, <3>1 DEF OrElse
    <3>2. CASE found = None /\ cached # None
      BY <2>4, <2>6, <3>2 DEF OrElse
    <3>3. CASE found = None /\ cached = None
      BY <1>1, <2>1, <2>4, <3>3 DEF OrElse, NamedAs
    <3> QED
      BY <3>1, <3>2, <3>3
  <2> QED
    BY <1>1, <1>2, <2>5, <2>7, CompleteHolds
<1>3. CASE ~Given(t)
  <2>1. req[t].cred = None /\ ResumePlain(t, found)
    BY <1>1, <1>3, PlainIs DEF Resume
  <2>2. PICK typed : typed = IF Asks(t, found) THEN OrElse(conf.prompt, found) ELSE found
    OBVIOUS
  <2>3. \/ Fails(t, "error") \/ Fails(t, "returned")
        \/ typed # None /\ complete_request(t, typed, typed)
        \/ creds[t] # None /\ complete_request(t, None, creds[t])
    BY <2>1, <2>2 DEF ResumePlain
  <2>4. Own(typed, Realm(Url(t)))
    BY <1>1, <2>2, ConfIs DEF OrElse, Own
  <2>5. CASE Fails(t, "error") \/ Fails(t, "returned")
    <3>1. pc'[t] \in {"error", "returned"} /\ store'[t] = store[t]
      BY <1>1, <2>5 DEF Fails, TypeOK
    <3> QED
      BY <1>1, <1>3, <3>1, GoesOnHolds
  <2>6. CASE typed # None /\ complete_request(t, typed, typed)
    BY <1>1, <2>1, <2>4, <2>6, CompleteHolds
  <2>7. CASE creds[t] # None /\ complete_request(t, None, creds[t])
    <3>1. creds[t] \in proven /\ UserOf(req[t].cred) = None
      BY <1>1, <1>3, <2>1, <2>7 DEF UserOf
    <3> QED
      BY <1>1, <1>3, <2>1, <2>7, <3>1, CompleteHolds
  <2> QED
    BY <2>3, <2>5, <2>6, <2>7
<1> QED
  BY <1>2, <1>3

LEMMA RegisterHolds ==
  ASSUME Inv, NEW t \in Tasks, Register(t)
  PROVE  TaskHolds(t)'
<1>1. /\ TypeOK /\ SearchHolds(t) /\ pc[t] = "fetch" /\ auth_policy_for(t) # "never" /\ store[t] = None
      /\ UNCHANGED <<conf, req, proven, creds, store>>
  BY DEF Inv, TaskHolds, Register, local, SearchHolds
<1>2. pc'[t] = "fetching"
  BY <1>1 DEF Register, TypeOK
<1>3. /\ Own(creds'[t], Realm(Url(t))) /\ (~Given(t) /\ creds'[t] # None => creds'[t] \in proven)
      /\ Given(t) => creds'[t] = req[t].cred
  BY <1>1 DEF SearchHolds
<1> QED
  BY <1>1, <1>2, <1>3, GoesOnHolds

LEMMA WaitHolds ==
  ASSUME Inv, NEW t \in Tasks, Wait(t)
  PROVE  TaskHolds(t)'
<1>1. Key(t) \in Keys /\ Realm(Key(t)[2]) = Realm(Url(t)) /\ Key(t)[3] = UserOf(creds[t])
  BY KeyIsThere DEF Inv, TaskHolds, SearchHolds
<1>2. PICK found : found = fetches[Key(t)].is
  OBVIOUS
<1>3. found # None => Own(found, Realm(Url(t))) /\ NamedAs(found, UserOf(creds[t]))
  BY <1>1, <1>2 DEF Inv, FetchesHold
<1>4. pc[t] = "fetch" /\ Resume(t, found) /\ UNCHANGED <<conf, req, proven, creds>>
  BY <1>2 DEF Wait
<1> QED
  BY <1>3, <1>4, ResumeHolds

LEMMA FetchHolds ==
  ASSUME Inv, NEW t \in Tasks, Fetch(t)
  PROVE  TaskHolds(t)' /\ FetchesHold' /\ DOMAIN fetches' = Keys'
<1>1. Key(t) \in Keys /\ Realm(Key(t)[2]) = Realm(Url(t)) /\ Key(t)[3] = UserOf(creds[t])
  BY KeyIsThere DEF Inv, TaskHolds, SearchHolds
<1>2. PICK found : found = Sources(Url(t), Index(t), UserOf(creds[t]), auth_policy_for(t))
  OBVIOUS
<1>3. found # None => Own(found, Realm(Url(t))) /\ NamedAs(found, UserOf(creds[t]))
  BY <1>2, SourcesIs DEF Inv
<1>4. /\ pc[t] = "fetching" /\ Resume(t, found) /\ UNCHANGED <<conf, req, proven, creds>>
      /\ fetches' = [fetches EXCEPT ![Key(t)] = Filled(found)]
  BY <1>2 DEF Fetch
<1>5. Keys' = Keys
  BY <1>4, Fixed
<1>6. /\ DOMAIN fetches' = Keys
      /\ \A k \in Keys : fetches'[k] = fetches[k] \/ (k = Key(t) /\ fetches'[k].is = found)
  BY <1>1, <1>4 DEF Inv, TypeOK, Filled
<1>7. FetchesHold'
  BY <1>1, <1>3, <1>5, <1>6 DEF FetchesHold, Inv, Own, NamedAs
<1> QED
  BY <1>3, <1>4, <1>5, <1>6, <1>7, ResumeHolds
LEMMA SendHolds ==
  ASSUME Inv, NEW t \in Tasks, Send(t)
  PROVE  /\ TaskHolds(t)' /\ CacheHolds' /\ proven \subseteq proven'
         /\ DOMAIN realms' = RealmKeys' /\ DOMAIN urls' = UrlsOf'
<1>1. /\ TypeOK /\ CacheHolds /\ SearchHolds(t) /\ pc[t] = "send" /\ auth_policy_for(t) # "never"
      /\ UNCHANGED <<conf, req, creds, attached, store>>
  BY DEF Inv, TaskHolds, SearchHolds, Send, local
<1>2. PICK ok \in BOOLEAN :
        /\ IF ok /\ store[t] # None THEN insert(Url(t), store[t]) ELSE UNCHANGED cache
        /\ proven' = IF ok /\ attached[t] # None THEN proven \cup {attached[t]} ELSE proven
  BY DEF Send
<1>3. proven \subseteq proven'
  BY <1>2
<1>4. pc'[t] = "returned"
  BY <1>1 DEF Send, TypeOK
<1>5. TaskHolds(t)'
  <2>1. /\ Own(creds'[t], Realm(Url(t))) /\ (~Given(t) /\ creds'[t] # None => creds'[t] \in proven)
        /\ store'[t] = store[t] /\ attached'[t] = attached[t]
    BY <1>1 DEF SearchHolds
  <2> QED
    BY <1>1, <1>3, <1>4, <2>1, GoesOnHolds
<1>6. CacheHolds' /\ DOMAIN realms' = RealmKeys' /\ DOMAIN urls' = UrlsOf'
  <2>1. CASE ok /\ store[t] # None
    <3>1. store[t] = attached[t] /\ Own(store[t], Realm(Url(t)))
      BY <1>1, <2>1 DEF SearchHolds
    <3>2. insert(Url(t), store[t]) /\ proven \cup {store[t]} \subseteq proven'
      BY <1>2, <2>1, <3>1
    <3>3. Url(t) \in UrlsOf
      BY UrlIsThere
    <3> QED
      BY <1>1, <2>1, <3>1, <3>2, <3>3, InsertHolds
  <2>2. CASE ~(ok /\ store[t] # None)
    <3>1. realms' = realms /\ urls' = urls
      BY <1>2, <2>2 DEF cache
    <3>2. UrlsOf' = UrlsOf /\ RealmKeys' = RealmKeys
      BY <1>1, Fixed
    <3> QED
      BY <1>1, <1>3, <3>1, <3>2 DEF CacheHolds, Own, TypeOK
  <2> QED
    BY <2>1, <2>2
<1> QED
  BY <1>3, <1>5, <1>6

\* What a step of t leaves alone, and the types of what it changes.
LEMMA StepFrame ==
  ASSUME Inv, NEW t \in Tasks, Step(t)
  PROVE  /\ UNCHANGED <<conf, unstored, req>>
         /\ pc' \in [Tasks -> {"begin", "first", "search", "fetch", "fetching", "send", "returned", "error"}]
         /\ tried' \in [Tasks -> BOOLEAN] /\ answered' \in [Tasks -> BOOLEAN]
         /\ DOMAIN creds' = Tasks /\ DOMAIN attached' = Tasks /\ DOMAIN store' = Tasks
         /\ \A x \in Tasks \ {t} : /\ pc'[x] = pc[x] /\ creds'[x] = creds[x]
                                   /\ attached'[x] = attached[x] /\ store'[x] = store[x]
<1>0. TypeOK
  BY DEF Inv
<1>1. CASE BeginComplete(t)
  BY <1>0, <1>1, CompleteOthers DEF BeginComplete, TypeOK
<1>2. CASE BeginUser(t)
  <2>1. PICK c : c = CachedFor(t, req[t].cred.user)
    OBVIOUS
  <2>2. CASE c # None
    <3>1. complete_request(t, None, c) /\ UNCHANGED <<creds, conf, unstored, req, tried, answered>>
      BY <1>2, <2>1, <2>2 DEF BeginUser
    <3> QED
      BY <1>0, <3>1, CompleteOthers DEF TypeOK
  <2>3. CASE c = None
    BY <1>0, <1>2, <2>1, <2>3 DEF BeginUser, TypeOK
  <2> QED
    BY <2>2, <2>3
<1>3. CASE BeginPlain(t)
  <2>1. PICK c : c = IF auth_policy_for(t) = "never" THEN None ELSE get_url(Url(t), None)
    OBVIOUS
  <2>2. CASE Complete(c)
    <3>1. complete_request(t, None, c) /\ UNCHANGED <<creds, conf, unstored, req, tried, answered>>
      BY <1>3, <2>1, <2>2 DEF BeginPlain
    <3> QED
      BY <1>0, <3>1, CompleteOthers DEF TypeOK
  <2>3. CASE ~Complete(c)
    <3>1. /\ pc' = [pc EXCEPT ![t] = IF Must(t) THEN "search" ELSE "first"]
          /\ creds' = [creds EXCEPT ![t] = c]
          /\ tried' = [tried EXCEPT ![t] = UserOf(c) # None]
          /\ attached' = [attached EXCEPT ![t] = OrElse(c, req[t].cred)]
          /\ UNCHANGED <<store, conf, unstored, req, answered>>
      BY <1>3, <2>1, <2>3 DEF BeginPlain
    <3>2. (UserOf(c) # None) \in BOOLEAN
      OBVIOUS
    <3>3. tried' \in [Tasks -> BOOLEAN]
      BY <1>0, <3>1, <3>2 DEF TypeOK
    <3> QED
      BY <1>0, <3>1, <3>3 DEF TypeOK
  <2> QED
    BY <2>2, <2>3
<1>4. CASE First(t)
  BY <1>0, <1>4 DEF First, TypeOK
<1>5. CASE Search(t)
  <2>1. PICK c : /\ creds' = [creds EXCEPT ![t] = c]
                 /\ \/ complete_request(t, None, c)
                    \/ pc' = [pc EXCEPT ![t] = "fetch"] /\ UNCHANGED <<attached, store>>
    BY <1>5 DEF Search
  <2>2. UNCHANGED <<conf, unstored, req, tried, answered>>
    BY <1>5 DEF Search
  <2>3. /\ \A x \in Tasks \ {t} : pc'[x] = pc[x] /\ attached'[x] = attached[x] /\ store'[x] = store[x]
        /\ pc' \in [Tasks -> {"begin", "first", "search", "fetch", "fetching", "send", "returned", "error"}]
        /\ DOMAIN attached' = Tasks /\ DOMAIN store' = Tasks
    <3>1. CASE complete_request(t, None, c)
      BY <1>0, <3>1, CompleteOthers
    <3>2. CASE pc' = [pc EXCEPT ![t] = "fetch"] /\ UNCHANGED <<attached, store>>
      BY <1>0, <3>2 DEF TypeOK
    <3> QED
      BY <2>1, <3>1, <3>2
  <2> QED
    BY <1>0, <2>1, <2>2, <2>3 DEF TypeOK
<1>6. CASE Register(t) \/ Send(t)
  BY <1>0, <1>6 DEF Register, Send, local, TypeOK
<1>7. CASE Wait(t) \/ Fetch(t)
  <2>1. PICK found : Resume(t, found)
    BY <1>7 DEF Wait, Fetch
  <2>2. UNCHANGED <<conf, unstored, req, creds, tried, answered>>
    BY <1>7 DEF Wait, Fetch
  <2>3. (\E keep, c : complete_request(t, keep, c)) \/ Fails(t, "error") \/ Fails(t, "returned")
    BY <2>1 DEF Resume, ResumeUser, ResumePlain
  <2>4. /\ \A x \in Tasks \ {t} : pc'[x] = pc[x] /\ attached'[x] = attached[x] /\ store'[x] = store[x]
        /\ pc' \in [Tasks -> {"begin", "first", "search", "fetch", "fetching", "send", "returned", "error"}]
        /\ DOMAIN attached' = Tasks /\ DOMAIN store' = Tasks
    <3>1. CASE \E keep, c : complete_request(t, keep, c)
      BY <1>0, <3>1, CompleteOthers
    <3>2. CASE Fails(t, "error") \/ Fails(t, "returned")
      BY <1>0, <3>2 DEF Fails, TypeOK
    <3> QED
      BY <2>3, <3>1, <3>2
  <2> QED
    BY <1>0, <2>2, <2>4 DEF TypeOK
<1> QED
  BY <1>1, <1>2, <1>3, <1>4, <1>5, <1>6, <1>7 DEF Step

\* The cache and the fetches, when a step leaves them alone.
LEMMA CacheSame ==
  ASSUME TypeOK, CacheHolds, UNCHANGED <<conf, req, realms, urls, proven>>
  PROVE  CacheHolds' /\ DOMAIN realms' = RealmKeys' /\ DOMAIN urls' = UrlsOf'
<1>1. UrlsOf' = UrlsOf /\ RealmKeys' = RealmKeys
  BY Fixed
<1> QED
  BY <1>1 DEF CacheHolds, Own, TypeOK

LEMMA FetchesSame ==
  ASSUME TypeOK, FetchesHold, UNCHANGED <<conf, req, fetches>>
  PROVE  FetchesHold' /\ DOMAIN fetches' = Keys'
<1>1. Keys' = Keys
  BY Fixed
<1> QED
  BY <1>1 DEF FetchesHold, Own, NamedAs, TypeOK

LEMMA StepHolds ==
  ASSUME Inv, NEW t \in Tasks, Step(t)
  PROVE  Inv'
<1>0. TypeOK /\ CacheHolds /\ FetchesHold /\ \A x \in Tasks : TaskHolds(x)
  BY DEF Inv
<1>1. /\ UNCHANGED <<conf, unstored, req>>
      /\ pc' \in [Tasks -> {"begin", "first", "search", "fetch", "fetching", "send", "returned", "error"}]
      /\ tried' \in [Tasks -> BOOLEAN] /\ answered' \in [Tasks -> BOOLEAN]
      /\ DOMAIN creds' = Tasks /\ DOMAIN attached' = Tasks /\ DOMAIN store' = Tasks
      /\ \A x \in Tasks \ {t} : /\ pc'[x] = pc[x] /\ creds'[x] = creds[x]
                                /\ attached'[x] = attached[x] /\ store'[x] = store[x]
  BY StepFrame
<1>2. Send(t) \/ UNCHANGED <<realms, urls, proven>>
  BY DEF Step, BeginComplete, BeginUser, BeginPlain, First, Search, Register, Wait, Fetch, cache
<1>3. CacheHolds' /\ DOMAIN realms' = RealmKeys' /\ DOMAIN urls' = UrlsOf' /\ proven \subseteq proven'
  <2>1. CASE Send(t)
    BY <2>1, SendHolds
  <2>2. CASE UNCHANGED <<realms, urls, proven>>
    BY <1>0, <1>1, <2>2, CacheSame
  <2> QED
    BY <1>2, <2>1, <2>2
<1>4. Register(t) \/ Fetch(t) \/ UNCHANGED fetches
  BY DEF Step, BeginComplete, BeginUser, BeginPlain, First, Search, Wait, Send
<1>5. FetchesHold' /\ DOMAIN fetches' = Keys'
  <2>1. CASE Register(t)
    <3>1. Key(t) \in Keys /\ Keys' = Keys
      BY <1>0, <1>1, Fixed, KeyIsThere DEF TaskHolds, SearchHolds
    <3>2. DOMAIN fetches' = Keys /\ \A k \in Keys : fetches'[k] = fetches[k] \/ fetches'[k].is = None
      BY <1>0, <2>1, <3>1 DEF Register, Waiting, TypeOK
    <3> QED
      BY <1>0, <3>1, <3>2 DEF FetchesHold, Own, NamedAs
  <2>2. CASE Fetch(t)
    BY <2>2, FetchHolds
  <2>3. CASE UNCHANGED fetches
    BY <1>0, <1>1, <2>3, FetchesSame
  <2> QED
    BY <1>4, <2>1, <2>2, <2>3
<1>6. TaskHolds(t)'
  BY BeginCompleteHolds, BeginUserHolds, BeginPlainHolds, FirstHolds, SearchStepHolds, RegisterHolds,
     WaitHolds, FetchHolds, SendHolds DEF Step
<1>7. ASSUME NEW x \in Tasks, x # t PROVE TaskHolds(x)'
  BY <1>0, <1>1, <1>3, <1>7, TaskSame
<1>8. TypeOK'
  BY <1>0, <1>1, <1>3, <1>5 DEF TypeOK
<1> QED
  BY <1>3, <1>5, <1>6, <1>7, <1>8 DEF Inv

LEMMA StoreHolds ==
  ASSUME Inv, store_credentials
  PROVE  Inv'
<1>0. TypeOK /\ CacheHolds /\ FetchesHold /\ \A x \in Tasks : TaskHolds(x)
  BY DEF Inv
<1>1. PICK s \in unstored : /\ insert(s.url, s.cred) /\ unstored' = unstored \ {s}
                            /\ proven' = proven \cup {s.cred}
  BY DEF store_credentials
<1>2. UNCHANGED <<conf, req, pc, creds, tried, answered, attached, store, fetches>>
  BY DEF store_credentials, local
<1>3. s \in conf.seeds /\ s.url \in UrlsOf /\ s.cred # None /\ Own(s.cred, Realm(s.url))
  BY <1>0, <1>1, ConfIs DEF TypeOK, UrlsOf
<1>4. CacheHolds' /\ DOMAIN realms' = RealmKeys' /\ DOMAIN urls' = UrlsOf'
  BY <1>0, <1>1, <1>2, <1>3, InsertHolds
<1>5. FetchesHold' /\ DOMAIN fetches' = Keys'
  BY <1>0, <1>2, FetchesSame
<1>6. ASSUME NEW x \in Tasks PROVE TaskHolds(x)'
  BY <1>0, <1>1, <1>2, <1>6, TaskSame
<1>7. TypeOK'
  BY <1>0, <1>1, <1>2, <1>4, <1>5 DEF TypeOK
<1> QED
  BY <1>4, <1>5, <1>6, <1>7 DEF Inv

-----------------------------------------------------------------------------

LEMMA InvInit == Init => Inv
<1> SUFFICES ASSUME Init PROVE Inv
  OBVIOUS
<1>1. TypeOK
  BY DEF Init, TypeOK
<1>2. CacheHolds /\ FetchesHold
  BY DEF Init, CacheHolds, FetchesHold, Absent
<1>3. ASSUME NEW t \in Tasks PROVE TaskHolds(t)
  BY DEF Init, TaskHolds, SearchHolds, InFlight, Own
<1> QED
  BY <1>1, <1>2, <1>3 DEF Inv

LEMMA InvNext == Inv /\ [Next]_vars => Inv'
<1> SUFFICES ASSUME Inv, [Next]_vars PROVE Inv'
  OBVIOUS
<1>1. CASE store_credentials
  BY <1>1, StoreHolds
<1>2. CASE \E t \in Tasks : Step(t)
  BY <1>2, StepHolds
<1>3. CASE UNCHANGED vars
  <2>1. UNCHANGED <<conf, unstored, req, pc, creds, tried, answered, attached, store, realms, urls, fetches, proven>>
    BY <1>3 DEF vars, local, cache
  <2>2. CacheHolds' /\ DOMAIN realms' = RealmKeys' /\ DOMAIN urls' = UrlsOf'
    BY <2>1, CacheSame DEF Inv
  <2>3. FetchesHold' /\ DOMAIN fetches' = Keys'
    BY <2>1, FetchesSame DEF Inv
  <2>4. ASSUME NEW x \in Tasks PROVE TaskHolds(x)'
    BY <2>1, <2>4, TaskSame DEF Inv
  <2>5. TypeOK'
    BY <2>1, <2>2, <2>3 DEF Inv, TypeOK
  <2> QED
    BY <2>2, <2>3, <2>4, <2>5 DEF Inv
<1> QED
  BY <1>1, <1>2, <1>3 DEF Next

\* The invariant of the cache, the shared fetches and the requests.
THEOREM Inductive == Spec => []AuthInv
<1>1. Inv => AuthInv
  BY InvIs
<1> QED
  BY <1>1, InvInit, InvNext, PTL DEF Spec

\* A credential goes to the realm it belongs to only, whichever request of
\* the client found it and wherever it was found.
THEOREM CredentialsStayInRealm == Spec => []RealmBound
<1>1. AuthInv => RealmBound
  BY DEF AuthInv
<1> QED
  BY <1>1, Inductive, PTL

\* A request that names a user is sent as that user, or with a token.
THEOREM UsersAreKept == Spec => []UserKept
<1>1. AuthInv => UserKept
  BY DEF AuthInv
<1> QED
  BY <1>1, Inductive, PTL

\* With authenticate = "always", or for an upload, no first attempt is made
\* outside of Dependabot, and what is sent then, or after a first attempt under
\* Dependabot, carries a credential.  For an index it is complete, or a user
\* the cache has for a request that names none.
THEOREM MustCarryCredentials == Spec => []AlwaysCarries
<1>1. AuthInv => AlwaysCarries
  BY DEF AuthInv
<1> QED
  BY <1>1, Inductive, PTL
=============================================================================
