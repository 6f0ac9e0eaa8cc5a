--------------------------- MODULE MCWheelDownload ---------------------------
EXTENDS WheelDownload

MCVersions == 1..3
MCSize == <<3, 3, 2>>

\* What an earlier run left in the HTTP cache: nothing, an archive without the
\* digests or the size this caller needs, one that was pruned, a complete one.
Cached(size, exists, digests) ==
  [bytes |-> None, digest |-> None, size |-> size, exists |-> exists, digests |-> digests]

MCConfigs ==
  [expected : {None, 2, 3}, pinned : {None, 1}, cached : {None}]
    \cup [expected : {None, 3}, pinned : {None, 1},
          cached : {Cached(3, TRUE, FALSE), Cached(None, TRUE, TRUE),
                    Cached(3, FALSE, TRUE), Cached(2, TRUE, TRUE)}]
==============================================================================
