--------------------------- MODULE MCAuthMiddleware ---------------------------
EXTENDS AuthMiddleware

CONSTANT Late  \* a task that asks for a file without credentials

\* Two realms; in the first an index of each policy and files outside them.
A == [url |-> <<"r1", "a", "simple">>, root |-> <<"r1", "a">>, policy |-> "auto"]
B == [url |-> <<"r1", "b">>, root |-> <<"r1", "b">>, policy |-> "always"]
N == [url |-> <<"r1", "n">>, root |-> <<"r1", "n">>, policy |-> "never"]

Name(u) == Credential("r1", u, "none")
Pass(r, u) == Credential(r, u, "password")

Ask(url, c) == [url |-> url, cred |-> c]
File == Ask(<<"r1", "f">>, None)

Downloads ==
  {Ask(<<"r1", "a", "simple", "p">>, c) : c \in {None, Name("u")}}
    \cup {Ask(<<"r1", "b", "p">>, c) : c \in {None, Name("v")}}
    \cup {Ask(<<"r1", "f">>, c) : c \in {None, Name("u"), Name("v"), Pass("r1", "v")}}
    \cup {Ask(<<"r1", "n", "p">>, None), Ask(<<"r2", "f">>, None)}

Uploads == {Ask(<<"r1", "f">>, c) : c \in {None, Name("u")}}

Among(S) == {r \in [Tasks -> S \cup {File}] : r[Late] = File}

Clients(only, dependabot, indexes, files, keyring, tokens, prompts, seeds) ==
  [only : {only}, dependabot : dependabot, indexes : {indexes}, files : files, keyring : {keyring},
   tokens : {tokens}, prompt : prompts, seeds : seeds]

MCConfigs ==
  (Clients(FALSE, {FALSE}, {A, B, N}, {{Pass("r1", "u"), Pass("r2", "u")}}, {Pass("r1", "v")},
           {}, {None}, {{}})
     \X {Among(Downloads)})
  \cup
  (Clients(FALSE, BOOLEAN, {A, B, N}, {{}}, {}, {}, {None},
           {{}, {[url |-> A.url, cred |-> Name("u")]}})
     \X {Among(Downloads)})
  \cup
  (Clients(FALSE, {FALSE}, {}, {{}}, {}, {Credential("r2", None, "token")}, {None}, {{}})
     \X {Among(Downloads)})
  \cup
  (Clients(TRUE, {FALSE}, {}, {{}, {Pass("r1", "u")}}, {}, {}, {None, Pass("r1", "v")},
           {{}, {[url |-> <<"r1", "g">>, cred |-> Name("u")]}})
     \X {Among(Uploads)})
===============================================================================
