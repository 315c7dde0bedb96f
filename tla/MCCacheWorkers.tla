--------------------------- MODULE MCCacheWorkers ---------------------------
(* Small command lines for CacheWorkers. *)
EXTENDS CacheWorkers

Line(b, o, w, c, i, p) ==
  [backend |-> b, op |-> o, workers |-> w, count |-> c, iterations |-> i, pipe |-> p]

SetOps  == {"set", "pipeline-set"}
ReadOps == {"get", "pipeline-get", "mixed"}

\* Counts that divide and that do not divide by the workers and the pipeline
\* size, more workers than units, and a pipeline long enough for one SET.
RedisLines ==
  {Line("redis", o, w, c, 1, p) : o \in SetOps, w \in 1..3, c \in 1..7, p \in 1..3}
    \cup {Line("redis", o, w, 1, i, 2) : o \in ReadOps, w \in 1..3, i \in 1..5}
    \cup {Line("redis", "mixed", 2, 1, i, 5) : i \in 2..4}

\* Memcached with at most one worker more than there are units.
MemcachedLines ==
  {Line("memcached", o, w, c, 1, 2) : o \in SetOps, w \in 1..3, c \in 2..5}
    \cup {Line("memcached", o, w, 1, i, 2) : o \in ReadOps, w \in 1..2, i \in 1..4}

SafeLines == RedisLines \cup MemcachedLines

CrowdedLine == {Line("memcached", "set", 4, 2, 1, 1)}
=============================================================================
