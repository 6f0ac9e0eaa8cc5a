---------------------------- MODULE MCCacheStore ----------------------------
(* Small instances of CacheStore.                                          *)
EXTENDS CacheStore, TLC

CONSTANTS p1, p2, wheelA, wheelB, envE, pkgA, pkgB

(* One wheel for each of two packages.                                     *)
MCPackageOf == [s \in WheelSlots |-> IF s = wheelA THEN pkgA ELSE pkgB]

(* Random archive ids, and any process but `clean` may be killed.  Digests *)
(* as archive ids: two packages may share an archive, and a process that   *)
(* removes is not killed.                                                  *)
BothSettings ==
    {[digests |-> FALSE, killable |-> {"prune", "prune --ci", pkgA}, commands |-> 3],
     [digests |-> TRUE, killable |-> {}, commands |-> 3]}

(* Digests, and a removing command may be killed halfway.                  *)
TornSettings == {[digests |-> TRUE, killable |-> {pkgA}, commands |-> 3]}
=============================================================================
