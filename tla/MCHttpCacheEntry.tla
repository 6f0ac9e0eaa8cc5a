-------------------------- MODULE MCHttpCacheEntry --------------------------
(* A small instance of HttpCacheEntry: a process that may be interrupted    *)
(* and another that goes on, each in every mode; the server marks its      *)
(* longer responses immutable.                                             *)
EXTENDS HttpCacheEntry

MCShapes ==
    {[size |-> 1, immutable |-> FALSE], [size |-> 2, immutable |-> TRUE]}
=============================================================================
