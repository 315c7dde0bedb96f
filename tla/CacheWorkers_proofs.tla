------------------------- MODULE CacheWorkers_proofs -------------------------
(***************************************************************************)
(* What the operations of loadgen-cache return, for every number of        *)
(* workers, keys, iterations and commands in a pipeline, those that do not *)
(* divide one another included.                                            *)
(***************************************************************************)
EXTENDS CacheWorkers, FiniteSetTheorems, TLAPS

-----------------------------------------------------------------------------
(* The inductive invariant.                                                *)

Last == flags.workers - 1

\* The first key that may be a worker's: those of another one come before it, or
\* from the first one of the next worker on.
LowKey(w) ==
  IF flags.backend = "redis" /\ flags.op = "pipeline-set" THEN KeyBase(w) ELSE StartOf(w)

OwnKeys ==
  \A w \in Workers :
    /\ written[w] # {} => IsSetOp
    /\ \A k \in written[w] : LowKey(w) <= k /\ (w # Last => k < LowKey(w + 1))
    /\ flags.op = "set" => \A k \in written[w] : k < StartOf(w) + UnitsOf(w)

\* What a set has done it has written.
Kept ==
  flags.op = "set" =>
    \A w \in Workers :
      /\ \A u \in 0 .. unit[w] - 1 : StartOf(w) + u \in written[w]
      /\ pc[w] = "sending" => StartOf(w) + unit[w] \in written[w]

\* A worker that has returned has done all of its units, unless there was an error.
Units ==
  \A w \in Workers :
    /\ unit[w] <= UnitsOf(w)
    /\ pc[w] = "sending" \/ built[w] > 0 => unit[w] < UnitsOf(w)
    /\ pc[w] = "returned" => unit[w] = UnitsOf(w) \/ errs > 0
    /\ IF IsRedisMixed THEN pc[w] = "sending" => built[w] = flags.pipe ELSE built[w] = 0

\* There is one duration for each unit done.
UnitsDone == {x \in Workers \X Nat : x[2] < unit[x[1]]}

Timed == IsFiniteSet(UnitsDone) /\ durs = Cardinality(UnitsDone)

\* The commands in the pipelines under construction.
InPipes == {x \in Workers \X (0 .. flags.pipe - 1) : x[2] < built[x[1]]}

\* After total commands the pattern has been gone through k times and in part, with
\* a threshold of t SETs in each.
InPattern(total, k, pipe, n, t, s) ==
  total = k * pipe + n /\ s = k * t + IF n < t THEN n ELSE t

\* That holds of all commands in the pipelines sent and under construction.
Pattern ==
  IsRedisMixed =>
    \E k \in Nat :
      InPattern(durs * flags.pipe + Cardinality(InPipes), k, flags.pipe, setCounter,
                SetThreshold, sets)

Returned ==
  outcome.kind # "none" =>
    AllReturned /\ outcome.durs = durs /\ (outcome.kind = "ok" => errs = 0)

IInv == TypeOK /\ OwnKeys /\ Kept /\ Units /\ Timed /\ Pattern /\ Returned

-----------------------------------------------------------------------------
(* What the command line says.                                             *)

\* The numbers of a command line.
LEMMA FlagFacts ==
  ASSUME flags \in Flags
  PROVE  /\ flags.workers \in Nat \ {0} /\ flags.count \in Nat \ {0}
         /\ flags.iterations \in Nat \ {0} /\ flags.pipe \in Nat \ {0}
         /\ flags.backend \in {"redis", "memcached"}
         /\ flags.op \in {"set", "get", "pipeline-set", "pipeline-get", "mixed"}
         /\ Workers = 0 .. flags.workers - 1 /\ Last = flags.workers - 1 /\ Last \in Workers
<1>1. flags \in FlagType /\ ValidFlags(flags)
  BY FlagsAssumption
<1>2. QED
  BY <1>1 DEF FlagType, ValidFlags, Workers, Last

\* Quotients, and what they leave.
LEMMA Quotient ==
  ASSUME NEW n \in Nat, NEW d \in Nat \ {0}
  PROVE  n \div d \in Nat /\ d * (n \div d) <= n
<1> DEFINE q == n \div d
           r == n % d
<1>1. q \in Nat /\ r \in 0 .. d - 1 /\ n = d * q + r
  OBVIOUS
<1> HIDE DEF q, r
<1>2. d * q <= n
  BY <1>1
<1>3. QED
  BY <1>1, <1>2 DEF q

\* A quotient and its remainder.
LEMMA Division ==
  ASSUME NEW n \in Nat, NEW d \in Nat \ {0}
  PROVE  n \div d \in Nat /\ n % d \in 0 .. d - 1 /\ n = d * (n \div d) + (n % d)
<1> DEFINE q == n \div d
           r == n % d
<1>1. q \in Nat /\ r \in 0 .. d - 1 /\ n = d * q + r
  OBVIOUS
<1>2. QED
  BY <1>1

\* Products do not shrink.
LEMMA Monotone ==
  ASSUME NEW a \in Nat, NEW b \in Nat, NEW c \in Nat, a <= b
  PROVE  a * c <= b * c /\ a * c \in Nat /\ b * c \in Nat
<1>1. (b - a) * c >= 0 /\ (b - a) * c = b * c - a * c
  OBVIOUS
<1>2. QED
  BY <1>1

\* Products with a natural number are natural numbers.
LEMMA ProductType ==
  ASSUME NEW a \in Nat, NEW b \in Nat
  PROVE  a * b \in Nat
OBVIOUS

\* The number of units, and the share of a worker.
LEMMA UnitFacts ==
  ASSUME flags \in Flags
  PROVE  /\ TotalUnits \in Nat /\ Chunk \in Nat /\ Rounds \in Nat
         /\ \A w \in Workers : StartOf(w) \in Nat /\ UnitsOf(w) \in Nat /\ KeyBase(w) \in Nat
<1>1. /\ flags.workers \in Nat \ {0} /\ flags.count \in Nat \ {0}
      /\ flags.iterations \in Nat \ {0} /\ flags.pipe \in Nat \ {0}
      /\ flags.backend \in {"redis", "memcached"} /\ Workers = 0 .. flags.workers - 1
  BY FlagFacts
<1>2. TotalUnits \in Nat
  <2>1. RedisUnits \in Nat
    <3>1. flags.count \div flags.pipe \in Nat
      BY <1>1, Quotient
    <3>2. CASE flags.op = "set"
      BY <1>1, <3>2 DEF RedisUnits
    <3>3. CASE flags.op = "pipeline-set"
      BY <1>1, <3>1, <3>3 DEF RedisUnits
    <3>4. CASE flags.op \notin {"set", "pipeline-set"}
      BY <1>1, <3>4 DEF RedisUnits
    <3>5. QED
      BY <3>2, <3>3, <3>4
  <2>2. MemcachedUnits \in Nat
    <3>1. flags.iterations * flags.pipe \in Nat
      BY <1>1, ProductType
    <3>2. CASE flags.op \in {"set", "pipeline-set"}
      BY <1>1, <3>2 DEF MemcachedUnits
    <3>3. CASE flags.op = "get"
      BY <1>1, <3>3 DEF MemcachedUnits
    <3>4. CASE flags.op \notin {"set", "pipeline-set", "get"}
      BY <3>1, <3>4 DEF MemcachedUnits
    <3>5. QED
      BY <3>2, <3>3, <3>4
  <2>3. QED
    BY <2>1, <2>2 DEF TotalUnits
<1>3. TotalUnits \div flags.workers \in Nat /\ Rounds \in Nat
      /\ flags.count \div flags.workers \in Nat
  BY <1>1, <1>2, Quotient DEF Rounds
<1>4. Chunk \in Nat
  BY <1>3 DEF Chunk, RedisChunk, MemcachedChunk
<1>5. ASSUME NEW w \in Workers
      PROVE  StartOf(w) \in Nat /\ UnitsOf(w) \in Nat /\ KeyBase(w) \in Nat
  <2>1. w \in Nat
    BY <1>1
  <2>2. StartOf(w) \in Nat /\ KeyBase(w) \in Nat
    BY <1>3, <1>4, <2>1, ProductType DEF StartOf, KeyBase
  <2>3. EndOf(w) \in Nat
    BY <1>2, <1>4, <2>2 DEF EndOf
  <2>4. Rounds * flags.pipe \in Nat
    BY <1>1, <1>3, ProductType
  <2>5. CASE flags.op \in {"set", "pipeline-set"}
    BY <2>2, <2>3, <2>5 DEF UnitsOf
  <2>6. CASE flags.op \notin {"set", "pipeline-set"}
    <3> DEFINE m == Rounds * flags.pipe
    <3>1. m \in Nat
      BY <2>4
    <3>2. UnitsOf(w) = IF flags.backend = "memcached" /\ flags.op = "mixed" THEN m ELSE Rounds
      BY <2>6 DEF UnitsOf
    <3> HIDE DEF m
    <3>3. QED
      BY <1>3, <2>2, <3>1, <3>2
  <2>7. QED
    BY <2>2, <2>5, <2>6
<1>6. QED
  BY <1>2, <1>3, <1>4, <1>5

\* What depends on the command line only.
LEMMA LineKept ==
  ASSUME flags' = flags
  PROVE  /\ Workers' = Workers /\ TotalUnits' = TotalUnits /\ Last' = Last
         /\ Rounds' = Rounds /\ SetThreshold' = SetThreshold
         /\ IsSetOp' = IsSetOp /\ IsRedisMixed' = IsRedisMixed
         /\ \A w : StartOf(w)' = StartOf(w) /\ UnitsOf(w)' = UnitsOf(w)
                   /\ LowKey(w)' = LowKey(w)
<1>1. TotalUnits' = TotalUnits
  BY DEF TotalUnits, RedisUnits, MemcachedUnits
<1>2. Chunk' = Chunk
  BY <1>1 DEF Chunk, RedisChunk, MemcachedChunk
<1>3. Rounds' = Rounds /\ Workers' = Workers /\ Last' = Last
  BY DEF Rounds, Workers, Last
<1>4. \A w : StartOf(w)' = StartOf(w) /\ EndOf(w)' = EndOf(w) /\ KeyBase(w)' = KeyBase(w)
  BY <1>1, <1>2 DEF StartOf, EndOf, KeyBase
<1>5. \A w : UnitsOf(w)' = UnitsOf(w)
  BY <1>3, <1>4 DEF UnitsOf
<1>6. \A w : LowKey(w)' = LowKey(w)
  BY <1>4 DEF LowKey
<1>7. SetThreshold' = SetThreshold /\ IsSetOp' = IsSetOp /\ IsRedisMixed' = IsRedisMixed
  BY DEF SetThreshold, IsSetOp, IsRedisMixed
<1>8. QED
  BY <1>1, <1>3, <1>4, <1>5, <1>6, <1>7

\* The keys that the pipelines of a worker take are no more than an even share.
LEMMA ShareOfKeys ==
  ASSUME NEW n \in Nat, NEW p \in Nat \ {0}, NEW d \in Nat \ {0}
  PROVE  ((n \div p) \div d) * p <= n \div d
<1> DEFINE m == n \div p
           c == (n \div p) \div d
           b == n \div d
           r == n % d
<1>1. m \in Nat /\ p * m <= n
  BY Quotient
<1>2. c \in Nat /\ d * c <= m
  BY <1>1, Quotient
<1>3. b \in Nat /\ r \in 0 .. d - 1 /\ n = d * b + r
  OBVIOUS
<1> HIDE DEF m, c, b, r
<1>4. c * p \in Nat /\ d * (c * p) <= n
  <2>1. (d * c) * p <= m * p /\ d * c \in Nat
    BY <1>1, <1>2, Monotone, ProductType
  <2>2. (d * c) * p = d * (c * p) /\ m * p = p * m
    BY <1>1, <1>2
  <2>3. c * p \in Nat /\ d * (c * p) \in Nat /\ p * m \in Nat
    BY <1>1, <1>2, ProductType
  <2>4. QED
    BY <1>1, <2>1, <2>2, <2>3
<1> DEFINE x == c * p
<1>5. x \in Nat /\ d * x <= n
  BY <1>4
<1> HIDE DEF x
<1>6. ~(x >= b + 1)
  <2> SUFFICES ASSUME x >= b + 1 PROVE FALSE
    OBVIOUS
  <2>1. (b + 1) * d <= x * d
    BY <1>3, <1>5, Monotone
  <2>2. (b + 1) * d = d * b + d /\ x * d = d * x
    BY <1>3, <1>5
  <2>3. d * b \in Nat /\ d * x \in Nat
    BY <1>3, <1>5, ProductType
  <2>4. QED
    BY <1>3, <1>5, <2>1, <2>2, <2>3
<1>7. x <= b
  BY <1>3, <1>5, <1>6
<1>8. QED
  BY <1>7 DEF x, c, b, m

\* The keys of a unit lie in the worker's own range.
LEMMA KeyRange ==
  ASSUME flags \in Flags, NEW w \in Workers, NEW u \in Nat, u < UnitsOf(w),
         NEW k \in KeysOf(w, u)
  PROVE  /\ k \in Nat /\ LowKey(w) <= k /\ (w # Last => k < LowKey(w + 1))
         /\ flags.op = "set" => k = StartOf(w) + u
<1>1. /\ flags.workers \in Nat \ {0} /\ flags.count \in Nat \ {0} /\ flags.pipe \in Nat \ {0}
      /\ Workers = 0 .. flags.workers - 1 /\ Last = flags.workers - 1
  BY FlagFacts
<1>2. /\ TotalUnits \in Nat /\ Chunk \in Nat
      /\ StartOf(w) \in Nat /\ UnitsOf(w) \in Nat /\ KeyBase(w) \in Nat
  BY UnitFacts
<1>3. IsSetOp
  BY DEF KeysOf
<1>4. w # Last => UnitsOf(w) = Chunk
  <2>1. w # Last => EndOf(w) = StartOf(w) + Chunk
    BY DEF EndOf, Last
  <2>2. UnitsOf(w) = IF EndOf(w) > StartOf(w) THEN EndOf(w) - StartOf(w) ELSE 0
    BY <1>3 DEF UnitsOf, IsSetOp
  <2>3. QED
    BY <1>2, <2>1, <2>2
<1>5. CASE flags.backend = "redis" /\ flags.op = "pipeline-set"
  <2> DEFINE b == flags.count \div flags.workers
  <2>1. k \in KeyBase(w) + u * flags.pipe .. KeyBase(w) + (u + 1) * flags.pipe - 1
    BY <1>3, <1>5 DEF KeysOf
  <2>2. u * flags.pipe \in Nat /\ (u + 1) * flags.pipe \in Nat
    BY <1>1, ProductType
  <2>3. k \in Nat /\ KeyBase(w) <= k
    BY <1>2, <2>1, <2>2
  <2>4. ASSUME w # Last
        PROVE  k < KeyBase(w + 1)
    <3>1. b \in Nat /\ KeyBase(w) = w * b /\ KeyBase(w + 1) = (w + 1) * b
      BY <1>1, Quotient DEF KeyBase
    <3> HIDE DEF b
    <3>2. KeyBase(w + 1) = KeyBase(w) + b
      BY <1>1, <3>1
    <3>3. Chunk = (flags.count \div flags.pipe) \div flags.workers
      BY <1>5 DEF Chunk, RedisChunk, TotalUnits, RedisUnits
    <3>4. Chunk * flags.pipe <= b
      BY <1>1, <3>3, ShareOfKeys DEF b
    <3>5. (u + 1) * flags.pipe <= Chunk * flags.pipe
      <4>1. u + 1 \in Nat /\ u + 1 <= Chunk /\ flags.pipe \in Nat
        BY <1>1, <1>2, <1>4, <2>4
      <4>2. QED
        BY <1>2, <4>1, Monotone
    <3>6. Chunk * flags.pipe \in Nat
      BY <1>1, <1>2, ProductType
    <3>7. QED
      BY <1>2, <2>1, <2>2, <3>1, <3>2, <3>4, <3>5, <3>6
  <2>5. QED
    BY <1>5, <2>3, <2>4 DEF LowKey
<1>6. CASE ~(flags.backend = "redis" /\ flags.op = "pipeline-set")
  <2>1. k = StartOf(w) + u
    BY <1>3, <1>6 DEF KeysOf
  <2>2. LowKey(w) = StartOf(w) /\ LowKey(w + 1) = StartOf(w + 1)
    BY <1>6 DEF LowKey
  <2>3. StartOf(w + 1) = StartOf(w) + Chunk
    <3>1. (w + 1) * Chunk = w * Chunk + Chunk
      BY <1>1, <1>2
    <3>2. QED
      BY <3>1 DEF StartOf
  <2>4. QED
    BY <1>2, <1>4, <2>1, <2>2, <2>3
<1>7. QED
  BY <1>5, <1>6

-----------------------------------------------------------------------------
(* The pattern.                                                            *)

\* A fifth of a pipeline is no more than the pipeline.
LEMMA ThresholdFacts ==
  ASSUME flags \in Flags
  PROVE  SetThreshold \in Nat /\ SetThreshold <= flags.pipe
<1>1. flags.pipe * 20 \in Nat /\ flags.pipe \in Nat
  BY FlagFacts
<1>2. SetThreshold \in Nat /\ 100 * SetThreshold <= flags.pipe * 20
  BY <1>1, Quotient DEF SetThreshold
<1>3. QED
  BY <1>1, <1>2

\* The counter counts from 0 to pipe - 1 and starts again.
LEMMA CounterWraps ==
  ASSUME NEW n \in Nat, flags.pipe \in Nat \ {0}, n < flags.pipe
  PROVE  NextInPattern(n) = IF n + 1 = flags.pipe THEN 0 ELSE n + 1
<1>1. CASE n + 1 = flags.pipe
  BY <1>1 DEF NextInPattern
<1>2. CASE n + 1 # flags.pipe
  <2>1. n + 1 \in 0 .. flags.pipe - 1
    BY <1>2
  <2>2. QED
    BY <1>2, <2>1 DEF NextInPattern
<1>3. QED
  BY <1>1, <1>2

\* One more command.
LEMMA NextCommand ==
  ASSUME NEW total \in Nat, NEW k \in Nat, NEW p \in Nat \ {0}, NEW n \in 0 .. p - 1,
         NEW t \in Nat, t <= p, NEW s \in Nat, InPattern(total, k, p, n, t, s)
  PROVE  LET r == IF n < t THEN s + 1 ELSE s IN
           IF n + 1 = p THEN InPattern(total + 1, k + 1, p, 0, t, r)
           ELSE InPattern(total + 1, k, p, n + 1, t, r)
<1>1. k * p \in Nat /\ k * t \in Nat /\ (k + 1) * p = k * p + p /\ (k + 1) * t = k * t + t
  OBVIOUS
<1> DEFINE kp == k * p
           kt == k * t
           kkp == (k + 1) * p
           kkt == (k + 1) * t
<1>2. kp \in Nat /\ kt \in Nat /\ kkp = kp + p /\ kkt = kt + t
  BY <1>1
<1>3. total = kp + n /\ s = kt + IF n < t THEN n ELSE t
  BY DEF InPattern
<1>4. CASE n + 1 = p
  <2>1. total + 1 = kkp + 0 /\ (IF n < t THEN s + 1 ELSE s) = kkt + IF 0 < t THEN 0 ELSE t
    <3> HIDE DEF kp, kt, kkp, kkt
    <3>1. QED
      BY <1>2, <1>3, <1>4
  <2>2. QED
    BY <1>4, <2>1 DEF InPattern
<1>5. CASE n + 1 # p
  <2>1. total + 1 = kp + (n + 1)
        /\ (IF n < t THEN s + 1 ELSE s) = kt + IF n + 1 < t THEN n + 1 ELSE t
    <3> HIDE DEF kp, kt, kkp, kkt
    <3>1. QED
      BY <1>2, <1>3, <1>5
  <2>2. QED
    BY <1>5, <2>1 DEF InPattern
<1>6. QED
  BY <1>4, <1>5

\* A whole number of pipelines ends with the pattern.
LEMMA WholePattern ==
  ASSUME NEW m \in Nat, NEW k \in Nat, NEW p \in Nat \ {0}, NEW n \in 0 .. p - 1,
         NEW t \in Nat, NEW s \in Nat, InPattern(m * p, k, p, n, t, s)
  PROVE  s = m * t
<1>1. m * p = k * p + n
  BY DEF InPattern
<1>2. (m - k) * p = n
  BY <1>1
<1>3. ~(m - k >= 1)
  <2> SUFFICES ASSUME m - k >= 1 PROVE (m - k) * p >= p
    BY <1>2
  <2>1. QED
    OBVIOUS
<1>4. ~(m - k <= -1)
  <2> SUFFICES ASSUME m - k <= -1 PROVE (m - k) * p <= -p
    BY <1>2
  <2>1. QED
    OBVIOUS
<1>5. m = k
  BY <1>3, <1>4
<1>6. n = 0
  BY <1>2, <1>5
<1>7. s = k * t + IF 0 < t THEN 0 ELSE t
  BY <1>6 DEF InPattern
<1>8. k * t \in Nat
  BY ProductType
<1>9. QED
  BY <1>5, <1>7, <1>8

\* The invariant holds when runWorkers starts.
LEMMA InitHolds == Init => IInv
<1> SUFFICES ASSUME Init PROVE IInv
  OBVIOUS
<1>1. /\ flags \in Flags /\ flags.pipe \in Nat \ {0} /\ flags.workers \in Nat \ {0}
      /\ TotalUnits \in Nat
      /\ \A w \in Workers : UnitsOf(w) \in Nat
  BY FlagFacts, UnitFacts DEF Init
<1>2. \A w \in Workers : /\ pc[w] = "running" /\ unit[w] = 0 /\ built[w] = 0
                         /\ written[w] = {}
  BY DEF Init
<1>3. TypeOK
  <2>1. /\ pc \in [Workers -> {"running", "sending", "failed", "returned"}]
        /\ unit \in [Workers -> Nat] /\ written \in [Workers -> SUBSET Nat]
    BY DEF Init
  <2>2. built \in [Workers -> 0 .. flags.pipe]
    BY <1>1 DEF Init
  <2>3. setCounter \in 0 .. flags.pipe - 1 /\ durs \in 0 .. TotalUnits
        /\ errs \in 0 .. flags.workers /\ sets \in Nat
        /\ outcome \in [kind : {"none", "ok", "error"}, durs : Nat]
    BY <1>1 DEF Init
  <2>4. QED
    BY <1>1, <2>1, <2>2, <2>3 DEF TypeOK
<1>4. OwnKeys
  BY <1>2 DEF OwnKeys
<1>5. Kept /\ Units
  BY <1>1, <1>2 DEF Kept, Units
<1>6. Timed
  <2>1. UnitsDone = {}
    BY <1>2 DEF UnitsDone
  <2>2. QED
    BY <2>1, FS_EmptySet DEF Timed, Init
<1>7. Pattern
  <2>1. InPipes = {}
    BY <1>2 DEF InPipes
  <2>2. InPattern(0 * flags.pipe + 0, 0, flags.pipe, 0, SetThreshold, 0)
    BY <1>1, ThresholdFacts DEF InPattern
  <2>3. QED
    BY <2>1, <2>2, FS_EmptySet DEF Pattern, Init
<1>8. Returned
  BY DEF Returned, Init
<1>9. QED
  BY <1>3, <1>4, <1>5, <1>6, <1>7, <1>8 DEF IInv

-----------------------------------------------------------------------------
(* The steps.                                                              *)

\* The pipelines under construction hold finitely many commands.
LEMMA PipesFinite ==
  ASSUME flags \in Flags
  PROVE  IsFiniteSet(InPipes) /\ Cardinality(InPipes) \in Nat
<1> DEFINE top == flags.pipe - 1
           places == 0 .. top
<1>1. IsFiniteSet(Workers)
  <2>1. 0 \in Int /\ Last \in Int /\ Workers = 0 .. Last
    BY FlagFacts
  <2>2. QED
    BY <2>1, FS_Interval
<1>2. IsFiniteSet(places)
  <2>1. 0 \in Int /\ top \in Int
    BY FlagFacts
  <2> HIDE DEF top
  <2>2. QED
    BY <2>1, FS_Interval
<1>3. InPipes \in SUBSET (Workers \X places)
  BY DEF InPipes
<1> HIDE DEF places
<1>4. IsFiniteSet(Workers \X places)
  BY <1>1, <1>2, FS_Product
<1>5. IsFiniteSet(InPipes)
  BY <1>3, <1>4, FS_Subset
<1>6. QED
  BY <1>5, FS_CardinalityType

\* What a step that writes no key and finishes no unit leaves alone.
LEMMA KeysUntouched ==
  ASSUME OwnKeys, UNCHANGED <<flags, written>>
  PROVE  OwnKeys'
<1>1. /\ Workers' = Workers /\ Last' = Last /\ IsSetOp' = IsSetOp
      /\ \A w : StartOf(w)' = StartOf(w) /\ UnitsOf(w)' = UnitsOf(w)
                /\ LowKey(w)' = LowKey(w)
  BY LineKept
<1>2. \A w : LowKey(w + 1)' = LowKey(w + 1)
  BY <1>1
<1>3. QED
  BY <1>1, <1>2 DEF OwnKeys

\* A step that finishes no unit keeps the count of the durations.
LEMMA TimesUntouched ==
  ASSUME Timed, UNCHANGED <<flags, unit, durs>>
  PROVE  Timed'
<1>1. Workers' = Workers
  BY LineKept
<1>2. UnitsDone' = UnitsDone
  BY <1>1 DEF UnitsDone
<1>3. QED
  BY <1>2 DEF Timed

\* A step that builds and sends nothing keeps the position in the pattern.
LEMMA PatternUntouched ==
  ASSUME Pattern, UNCHANGED <<flags, durs, setCounter, built, sets>>
  PROVE  Pattern'
<1>1. Workers' = Workers /\ IsRedisMixed' = IsRedisMixed /\ SetThreshold' = SetThreshold
  BY LineKept
<1>2. InPipes' = InPipes
  BY <1>1 DEF InPipes
<1>3. QED
  BY <1>1, <1>2 DEF Pattern

\* A worker at work means that nothing has been collected.
LEMMA AtWork ==
  ASSUME Returned, NEW w \in Workers, pc[w] # "returned", UNCHANGED outcome
  PROVE  outcome.kind = "none" /\ Returned'
<1>1. outcome.kind = "none"
  BY DEF Returned, AllReturned
<1>2. QED
  BY <1>1 DEF Returned

\* One more command in a pipeline.
LEMMA BuildStep ==
  ASSUME IInv, NEW w \in Workers, BuildCommand(w)
  PROVE  IInv'
<1>1. /\ flags \in Flags /\ flags' = flags
      /\ flags.pipe \in Nat \ {0} /\ flags.workers \in Nat \ {0}
  BY FlagFacts DEF IInv, TypeOK, BuildCommand
<1>2. /\ Workers' = Workers /\ TotalUnits' = TotalUnits /\ IsRedisMixed' = IsRedisMixed
      /\ SetThreshold' = SetThreshold
      /\ \A v : StartOf(v)' = StartOf(v) /\ UnitsOf(v)' = UnitsOf(v)
  BY <1>1, LineKept
<1>3. /\ IsRedisMixed /\ pc[w] = "running" /\ unit[w] < UnitsOf(w)
      /\ built[w] < flags.pipe /\ built[w] \in Nat
      /\ setCounter \in Nat /\ setCounter < flags.pipe /\ sets \in Nat
      /\ built' = [built EXCEPT ![w] = @ + 1]
      /\ UNCHANGED <<pc, unit, written, durs, errs, outcome>>
  <2>1. built[w] \in 0 .. flags.pipe /\ setCounter \in 0 .. flags.pipe - 1 /\ sets \in Nat
    BY DEF IInv, TypeOK
  <2>2. QED
    BY <1>1, <2>1 DEF BuildCommand
<1>4. setCounter' = IF setCounter + 1 = flags.pipe THEN 0 ELSE setCounter + 1
  BY <1>1, <1>3, CounterWraps DEF BuildCommand
<1>5. sets' = IF setCounter < SetThreshold THEN sets + 1 ELSE sets
  BY DEF BuildCommand
<1>6. TypeOK'
  <2>1. built' \in [Workers -> 0 .. flags.pipe]
    <3>1. built \in [Workers -> 0 .. flags.pipe] /\ built[w] + 1 \in 0 .. flags.pipe
      BY <1>1, <1>3 DEF IInv, TypeOK
    <3>2. QED
      BY <1>3, <3>1
  <2>2. setCounter' \in 0 .. flags.pipe - 1 /\ sets' \in Nat
    BY <1>1, <1>3, <1>4, <1>5
  <2>3. QED
    BY <1>1, <1>2, <1>3, <2>1, <2>2 DEF IInv, TypeOK
<1>7. OwnKeys'
  BY <1>1, <1>3, KeysUntouched DEF IInv
<1>8. Kept'
  BY <1>1, <1>2, <1>3 DEF IInv, Kept
<1>9. Units'
  <2>1. built \in [Workers -> 0 .. flags.pipe]
    BY DEF IInv, TypeOK
  <2>2. \A v \in Workers : v # w => built'[v] = built[v]
    BY <1>3, <2>1
  <2>3. QED
    BY <1>1, <1>2, <1>3, <2>2 DEF IInv, Units
<1>10. Timed'
  BY <1>1, <1>3, TimesUntouched DEF IInv
<1>11. Pattern'
  <2>1. InPipes' = InPipes \cup {<<w, built[w]>>} /\ <<w, built[w]>> \notin InPipes
    <3>1. built \in [Workers -> 0 .. flags.pipe]
      BY DEF IInv, TypeOK
    <3>2. \A v \in Workers : built'[v] = IF v = w THEN built[w] + 1 ELSE built[v]
      BY <1>3, <3>1
    <3>3. \A v \in Workers, i \in 0 .. flags.pipe - 1 :
            i < built'[v] <=> i < built[v] \/ (v = w /\ i = built[w])
      BY <1>1, <1>3, <3>1, <3>2
    <3>4. InPipes' = {x \in Workers \X (0 .. flags.pipe - 1) : x[2] < built'[x[1]]}
      BY <1>1, <1>2 DEF InPipes
    <3>5. <<w, built[w]>> \in Workers \X (0 .. flags.pipe - 1)
      BY <1>1, <1>3
    <3>6. InPipes' = InPipes \cup {<<w, built[w]>>}
      BY <3>3, <3>4, <3>5 DEF InPipes
    <3>7. QED
      BY <1>3, <3>6 DEF InPipes
  <2>2. IsFiniteSet(InPipes) /\ Cardinality(InPipes) \in Nat
    BY <1>1, PipesFinite
  <2>3. Cardinality(InPipes') = Cardinality(InPipes) + 1
    BY <2>1, <2>2, FS_AddElement
  <2> DEFINE total == durs * flags.pipe + Cardinality(InPipes)
  <2>4. total \in Nat
    <3>1. durs \in Nat
      BY <1>1, UnitFacts DEF IInv, TypeOK
    <3>2. durs * flags.pipe \in Nat
      BY <1>1, <3>1, ProductType
    <3>3. QED
      BY <2>2, <3>2
  <2>5. PICK k \in Nat : InPattern(total, k, flags.pipe, setCounter, SetThreshold, sets)
    BY <1>3 DEF IInv, Pattern
  <2>6. SetThreshold \in Nat /\ SetThreshold <= flags.pipe
    BY <1>1, ThresholdFacts
  <2>7. durs' * flags'.pipe + Cardinality(InPipes') = total + 1
    <3>1. durs * flags.pipe \in Nat
      <4>1. durs \in Nat
        BY <1>1, UnitFacts DEF IInv, TypeOK
      <4>2. QED
        BY <1>1, <4>1, ProductType
    <3>2. QED
      BY <1>1, <1>3, <2>2, <2>3, <3>1
  <2> HIDE DEF total
  <2>8. IF setCounter + 1 = flags.pipe
        THEN InPattern(total + 1, k + 1, flags.pipe, 0, SetThreshold, sets')
        ELSE InPattern(total + 1, k, flags.pipe, setCounter + 1, SetThreshold, sets')
    <3>1. setCounter \in 0 .. flags.pipe - 1 /\ flags.pipe \in Nat \ {0}
      BY <1>1, <1>3
    <3>2. QED
      BY <1>3, <1>5, <2>4, <2>5, <2>6, <3>1, NextCommand
  <2>9. \E j \in Nat :
          InPattern(total + 1, j, flags.pipe, setCounter', SetThreshold, sets')
    <3>1. CASE setCounter + 1 = flags.pipe
      <4>1. InPattern(total + 1, k + 1, flags.pipe, setCounter', SetThreshold, sets')
        BY <1>4, <2>8, <3>1
      <4>2. QED
        BY <4>1
    <3>2. CASE setCounter + 1 # flags.pipe
      <4>1. InPattern(total + 1, k, flags.pipe, setCounter', SetThreshold, sets')
        BY <1>4, <2>8, <3>2
      <4>2. QED
        BY <4>1
    <3>3. QED
      BY <3>1, <3>2
  <2>10. QED
    BY <1>1, <1>2, <2>7, <2>9 DEF Pattern
<1>12. Returned'
  <2>1. pc[w] # "returned" /\ Returned
    BY <1>3 DEF IInv
  <2>2. QED
    BY <1>3, <2>1, AtWork
<1>13. QED
  BY <1>6, <1>7, <1>8, <1>9, <1>10, <1>11, <1>12 DEF IInv

\* The commands of a unit, answered or not.
LEMMA ExecuteStep ==
  ASSUME IInv, NEW w \in Workers, Execute(w)
  PROVE  IInv'
<1>1. /\ flags \in Flags /\ flags' = flags
      /\ flags.pipe \in Nat \ {0} /\ flags.workers \in Nat \ {0}
  BY FlagFacts DEF IInv, TypeOK, Execute
<1>2. /\ Workers' = Workers /\ TotalUnits' = TotalUnits /\ IsRedisMixed' = IsRedisMixed
      /\ IsSetOp' = IsSetOp /\ Last' = Last
      /\ \A v : /\ StartOf(v)' = StartOf(v) /\ UnitsOf(v)' = UnitsOf(v)
                /\ LowKey(v)' = LowKey(v)
  BY <1>1, LineKept
<1>3. /\ pc[w] = "running" /\ unit[w] < UnitsOf(w)
      /\ IsRedisMixed => built[w] = flags.pipe
      /\ UNCHANGED <<unit, durs, errs, setCounter, built, sets, outcome>>
  BY DEF Execute
<1>4. PICK S \in SUBSET KeysOf(w, unit[w]) :
        /\ written' = [written EXCEPT ![w] = @ \cup S]
        /\ \/ pc' = [pc EXCEPT ![w] = "sending"] /\ S = KeysOf(w, unit[w])
           \/ pc' = [pc EXCEPT ![w] = "failed"]
  <2>1. CASE pc' = [pc EXCEPT ![w] = "sending"]
             /\ written' = [written EXCEPT ![w] = @ \cup KeysOf(w, unit[w])]
    BY <2>1
  <2>2. CASE pc' = [pc EXCEPT ![w] = "failed"]
             /\ \E S \in SUBSET KeysOf(w, unit[w]) :
                   written' = [written EXCEPT ![w] = @ \cup S]
    BY <2>2
  <2>3. QED
    BY <2>1, <2>2 DEF Execute
<1>5. /\ pc \in [Workers -> {"running", "sending", "failed", "returned"}]
      /\ unit \in [Workers -> Nat] /\ written \in [Workers -> SUBSET Nat]
  BY DEF IInv, TypeOK
<1>6. \A k \in S : /\ k \in Nat /\ LowKey(w) <= k /\ (w # Last => k < LowKey(w + 1))
                   /\ flags.op = "set" => k = StartOf(w) + unit[w]
  BY <1>1, <1>3, <1>4, <1>5, KeyRange
<1>7. /\ \A v \in Workers : written'[v] = IF v = w THEN written[v] \cup S ELSE written[v]
      /\ \A v \in Workers : v # w => pc'[v] = pc[v]
      /\ (pc'[w] = "sending" /\ S = KeysOf(w, unit[w])) \/ pc'[w] = "failed"
  BY <1>4, <1>5
<1>8. TypeOK'
  <2>1. written' \in [Workers -> SUBSET Nat]
    <3>1. S \in SUBSET Nat
      BY <1>6
    <3>2. QED
      BY <1>4, <1>5, <3>1
  <2>2. pc' \in [Workers -> {"running", "sending", "failed", "returned"}]
    BY <1>4, <1>5
  <2>3. QED
    BY <1>1, <1>2, <1>3, <2>1, <2>2 DEF IInv, TypeOK
<1>9. OwnKeys'
  <2>1. \A v : LowKey(v + 1)' = LowKey(v + 1)
    BY <1>2
  <2>2. S # {} => IsSetOp
    BY <1>4 DEF KeysOf
  <2>3. \A k \in S : flags.op = "set" => k < StartOf(w) + UnitsOf(w)
    <3>1. StartOf(w) \in Nat /\ UnitsOf(w) \in Nat /\ unit[w] \in Nat
      BY <1>1, <1>5, UnitFacts
    <3>2. QED
      BY <1>3, <1>6, <3>1
  <2>4. ASSUME NEW v \in Workers
        PROVE  /\ written'[v] # {} => IsSetOp
               /\ \A k \in written'[v] :
                    LowKey(v) <= k /\ (v # Last => k < LowKey(v + 1))
               /\ flags.op = "set" => \A k \in written'[v] : k < StartOf(v) + UnitsOf(v)
    <3>1. /\ written[v] # {} => IsSetOp
          /\ \A k \in written[v] : LowKey(v) <= k /\ (v # Last => k < LowKey(v + 1))
          /\ flags.op = "set" => \A k \in written[v] : k < StartOf(v) + UnitsOf(v)
      BY DEF IInv, OwnKeys
    <3>2. CASE v = w
      BY <1>6, <1>7, <2>2, <2>3, <3>1, <3>2
    <3>3. CASE v # w
      BY <1>7, <3>1, <3>3
    <3>4. QED
      BY <3>2, <3>3
  <2>5. QED
    BY <1>1, <1>2, <2>1, <2>4 DEF OwnKeys
<1>10. Kept'
  <2>1. flags.op = "set" => KeysOf(w, unit[w]) = {StartOf(w) + unit[w]}
    BY DEF KeysOf, IsSetOp
  <2>2. ASSUME flags.op = "set", NEW v \in Workers
        PROVE  /\ \A u \in 0 .. unit[v] - 1 : StartOf(v) + u \in written'[v]
               /\ pc'[v] = "sending" => StartOf(v) + unit[v] \in written'[v]
    <3>1. /\ \A u \in 0 .. unit[v] - 1 : StartOf(v) + u \in written[v]
          /\ pc[v] = "sending" => StartOf(v) + unit[v] \in written[v]
      BY <2>2 DEF IInv, Kept
    <3>2. QED
      BY <1>7, <2>1, <2>2, <3>1
  <2>3. QED
    BY <1>1, <1>2, <1>3, <2>2 DEF Kept
<1>11. Units'
  <2>1. ASSUME NEW v \in Workers
        PROVE  /\ unit[v] <= UnitsOf(v)
               /\ pc'[v] = "sending" \/ built[v] > 0 => unit[v] < UnitsOf(v)
               /\ pc'[v] = "returned" => unit[v] = UnitsOf(v) \/ errs > 0
               /\ IF IsRedisMixed THEN pc'[v] = "sending" => built[v] = flags.pipe
                  ELSE built[v] = 0
    <3>1. CASE v = w
      BY <1>3, <1>7, <3>1 DEF IInv, Units
    <3>2. CASE v # w
      BY <1>7, <3>2 DEF IInv, Units
    <3>3. QED
      BY <3>1, <3>2
  <2>2. QED
    BY <1>1, <1>2, <1>3, <2>1 DEF Units
<1>12. Timed'
  BY <1>1, <1>3, TimesUntouched DEF IInv
<1>13. Pattern'
  BY <1>1, <1>3, PatternUntouched DEF IInv
<1>14. Returned'
  <2>1. pc[w] # "returned" /\ Returned
    BY <1>3 DEF IInv
  <2>2. QED
    BY <1>3, <2>1, AtWork
<1>15. QED
  BY <1>8, <1>9, <1>10, <1>11, <1>12, <1>13, <1>14 DEF IInv

\* A duration into the channel, and on to the next unit.
LEMMA SendStep ==
  ASSUME IInv, NEW w \in Workers, Send(w)
  PROVE  IInv'
<1>1. /\ flags \in Flags /\ flags' = flags
      /\ flags.pipe \in Nat \ {0} /\ flags.workers \in Nat \ {0}
  BY FlagFacts DEF IInv, TypeOK, Send
<1>2. /\ Workers' = Workers /\ TotalUnits' = TotalUnits /\ IsRedisMixed' = IsRedisMixed
      /\ SetThreshold' = SetThreshold
      /\ \A v : StartOf(v)' = StartOf(v) /\ UnitsOf(v)' = UnitsOf(v)
  BY <1>1, LineKept
<1>3. /\ pc[w] = "sending" /\ durs < TotalUnits /\ durs' = durs + 1
      /\ unit' = [unit EXCEPT ![w] = @ + 1]
      /\ pc' = [pc EXCEPT ![w] = "running"]
      /\ built' = [built EXCEPT ![w] = 0]
      /\ UNCHANGED <<written, errs, setCounter, sets, outcome>>
  BY DEF Send, DursCapacity
<1>4. /\ pc \in [Workers -> {"running", "sending", "failed", "returned"}]
      /\ unit \in [Workers -> Nat] /\ built \in [Workers -> 0 .. flags.pipe]
      /\ durs \in Nat /\ TotalUnits \in Nat
  BY <1>1, UnitFacts DEF IInv, TypeOK
<1>5. /\ \A v \in Workers : unit'[v] = IF v = w THEN unit[v] + 1 ELSE unit[v]
      /\ \A v \in Workers : pc'[v] = IF v = w THEN "running" ELSE pc[v]
      /\ \A v \in Workers : built'[v] = IF v = w THEN 0 ELSE built[v]
  BY <1>3, <1>4
<1>6. TypeOK'
  <2>1. unit' \in [Workers -> Nat] /\ built' \in [Workers -> 0 .. flags.pipe]
        /\ pc' \in [Workers -> {"running", "sending", "failed", "returned"}]
    BY <1>1, <1>3, <1>4
  <2>2. durs' \in 0 .. TotalUnits
    BY <1>3, <1>4
  <2>3. QED
    BY <1>1, <1>2, <1>3, <2>1, <2>2 DEF IInv, TypeOK
<1>7. OwnKeys'
  BY <1>1, <1>3, KeysUntouched DEF IInv
<1>8. Kept'
  <2>1. ASSUME flags.op = "set", NEW v \in Workers
        PROVE  /\ \A u \in 0 .. unit'[v] - 1 : StartOf(v) + u \in written[v]
               /\ pc'[v] = "sending" => StartOf(v) + unit'[v] \in written[v]
    <3>1. /\ \A u \in 0 .. unit[v] - 1 : StartOf(v) + u \in written[v]
          /\ pc[v] = "sending" => StartOf(v) + unit[v] \in written[v]
      BY <2>1 DEF IInv, Kept
    <3>2. unit[v] \in Nat
      BY <1>4
    <3>3. CASE v = w
      <4>1. \A u \in 0 .. unit'[v] - 1 : u \in 0 .. unit[v] - 1 \/ u = unit[v]
        BY <1>5, <3>2, <3>3
      <4>2. QED
        BY <1>3, <1>5, <3>1, <3>3, <4>1
    <3>4. CASE v # w
      BY <1>5, <3>1, <3>4
    <3>5. QED
      BY <3>3, <3>4
  <2>2. QED
    BY <1>1, <1>2, <1>3, <2>1 DEF Kept
<1>9. Units'
  <2>1. ASSUME NEW v \in Workers
        PROVE  /\ unit'[v] <= UnitsOf(v)
               /\ pc'[v] = "sending" \/ built'[v] > 0 => unit'[v] < UnitsOf(v)
               /\ pc'[v] = "returned" => unit'[v] = UnitsOf(v) \/ errs > 0
               /\ IF IsRedisMixed THEN pc'[v] = "sending" => built'[v] = flags.pipe
                  ELSE built'[v] = 0
    <3>1. CASE v = w
      <4>1. unit[w] < UnitsOf(w) /\ unit[w] \in Nat /\ UnitsOf(w) \in Nat
        BY <1>1, <1>3, <1>4, UnitFacts DEF IInv, Units
      <4>2. QED
        BY <1>5, <3>1, <4>1
    <3>2. CASE v # w
      BY <1>5, <3>2 DEF IInv, Units
    <3>3. QED
      BY <3>1, <3>2
  <2>2. QED
    BY <1>1, <1>2, <1>3, <2>1 DEF Units
<1>10. Timed'
  <2>1. UnitsDone' = {x \in Workers \X Nat : x[2] < unit'[x[1]]}
    BY <1>2 DEF UnitsDone
  <2>2. \A v \in Workers, i \in Nat :
          i < unit'[v] <=> i < unit[v] \/ (v = w /\ i = unit[w])
    BY <1>4, <1>5
  <2>3. <<w, unit[w]>> \in Workers \X Nat
    BY <1>4
  <2>4. UnitsDone' = UnitsDone \cup {<<w, unit[w]>>}
    BY <2>1, <2>2, <2>3 DEF UnitsDone
  <2>5. <<w, unit[w]>> \notin UnitsDone
    BY <1>4 DEF UnitsDone
  <2>6. IsFiniteSet(UnitsDone) /\ durs = Cardinality(UnitsDone)
    BY DEF IInv, Timed
  <2>7. IsFiniteSet(UnitsDone') /\ Cardinality(UnitsDone') = Cardinality(UnitsDone) + 1
    BY <2>4, <2>5, <2>6, FS_AddElement
  <2>8. QED
    BY <1>3, <2>6, <2>7 DEF Timed
<1>11. Pattern'
  <2> SUFFICES ASSUME IsRedisMixed PROVE Pattern'
    BY <1>2 DEF Pattern
  <2> DEFINE top  == flags.pipe - 1
             mine == {w} \X (0 .. top)
  <2>1. built[w] = flags.pipe
    BY <1>3 DEF IInv, Units
  <2>2. InPipes' = InPipes \ mine /\ InPipes \cap mine = mine
    <3>1. InPipes' = {x \in Workers \X (0 .. flags.pipe - 1) : x[2] < built'[x[1]]}
      BY <1>1, <1>2 DEF InPipes
    <3>2. \A v \in Workers, i \in 0 .. flags.pipe - 1 :
            i < built'[v] <=> i < built[v] /\ v # w
      BY <1>1, <1>4, <1>5
    <3>3. \A i \in 0 .. flags.pipe - 1 : i < built[w]
      BY <1>1, <2>1
    <3>4. InPipes' = InPipes \ mine
      BY <3>1, <3>2 DEF InPipes
    <3>5. mine \subseteq InPipes
      BY <3>3 DEF InPipes
    <3>6. QED
      BY <3>4, <3>5
  <2>3. IsFiniteSet(mine) /\ Cardinality(mine) = flags.pipe
    <3>1. 0 \in Int /\ top \in Int /\ ~(0 > top) /\ top - 0 + 1 = flags.pipe
      BY <1>1
    <3> HIDE DEF top
    <3>2. IsFiniteSet(0 .. top) /\ Cardinality(0 .. top) = flags.pipe
      BY <3>1, FS_Interval
    <3>3. IsFiniteSet({w}) /\ Cardinality({w}) = 1
      BY FS_Singleton
    <3> DEFINE one == {w}
               all == 0 .. top
    <3>4. IsFiniteSet(one \X all) /\ Cardinality(one \X all) = 1 * flags.pipe
      <4>1. IsFiniteSet(one) /\ IsFiniteSet(all)
        BY <3>2, <3>3
      <4>2. Cardinality(one) = 1 /\ Cardinality(all) = flags.pipe
        BY <3>2, <3>3
      <4> HIDE DEF one, all
      <4>3. IsFiniteSet(one \X all)
            /\ Cardinality(one \X all) = Cardinality(one) * Cardinality(all)
        BY <4>1, FS_Product
      <4>4. QED
        BY <4>2, <4>3
    <3>5. QED
      BY <1>1, <3>4
  <2> HIDE DEF mine
  <2>4. IsFiniteSet(InPipes) /\ Cardinality(InPipes) \in Nat
    BY <1>1, PipesFinite
  <2>5. Cardinality(InPipes') = Cardinality(InPipes) - flags.pipe
    <3>1. Cardinality(InPipes \ mine) = Cardinality(InPipes) - Cardinality(InPipes \cap mine)
      BY <2>4, FS_Difference
    <3>2. QED
      BY <2>2, <2>3, <3>1
  <2>6. durs' * flags'.pipe + Cardinality(InPipes')
          = durs * flags.pipe + Cardinality(InPipes)
    <3>1. durs' * flags'.pipe = durs * flags.pipe + flags.pipe /\ durs * flags.pipe \in Nat
      BY <1>1, <1>3, <1>4
    <3>2. QED
      BY <1>1, <2>4, <2>5, <3>1
  <2>7. PICK k \in Nat : InPattern(durs * flags.pipe + Cardinality(InPipes), k, flags.pipe,
                                   setCounter, SetThreshold, sets)
    BY DEF IInv, Pattern
  <2>8. QED
    BY <1>1, <1>2, <1>3, <2>6, <2>7 DEF Pattern
<1>12. Returned'
  <2>1. pc[w] # "returned" /\ Returned
    BY <1>3 DEF IInv
  <2>2. outcome.kind = "none" /\ outcome' = outcome
    BY <1>3, <2>1, AtWork
  <2>3. QED
    BY <2>2 DEF Returned
<1>13. QED
  BY <1>6, <1>7, <1>8, <1>9, <1>10, <1>11, <1>12 DEF IInv

\* An error is reported.
LEMMA PushErrorStep ==
  ASSUME IInv, NEW w \in Workers, PushError(w)
  PROVE  IInv'
<1>1. /\ flags \in Flags /\ flags' = flags /\ flags.workers \in Nat \ {0}
  BY FlagFacts DEF IInv, TypeOK, PushError
<1>2. /\ Workers' = Workers /\ TotalUnits' = TotalUnits /\ IsRedisMixed' = IsRedisMixed
      /\ \A v : StartOf(v)' = StartOf(v) /\ UnitsOf(v)' = UnitsOf(v)
  BY <1>1, LineKept
<1>3. /\ pc[w] = "failed" /\ errs < flags.workers /\ errs' = errs + 1
      /\ pc' = [pc EXCEPT ![w] = "returned"]
      /\ UNCHANGED <<unit, written, durs, setCounter, built, sets, outcome>>
  BY DEF PushError
<1>4. pc \in [Workers -> {"running", "sending", "failed", "returned"}] /\ errs \in Nat
  BY <1>1 DEF IInv, TypeOK
<1>5. /\ \A v \in Workers : pc'[v] = IF v = w THEN "returned" ELSE pc[v]
      /\ errs' > 0
  BY <1>3, <1>4
<1>6. TypeOK'
  <2>1. pc' \in [Workers -> {"running", "sending", "failed", "returned"}]
        /\ errs' \in 0 .. flags.workers
    BY <1>1, <1>3, <1>4
  <2>2. QED
    BY <1>1, <1>2, <1>3, <2>1 DEF IInv, TypeOK
<1>7. OwnKeys'
  BY <1>1, <1>3, KeysUntouched DEF IInv
<1>8. Kept'
  BY <1>1, <1>2, <1>3, <1>5 DEF IInv, Kept
<1>9. Units'
  BY <1>1, <1>2, <1>3, <1>5 DEF IInv, Units
<1>10. Timed'
  BY <1>1, <1>3, TimesUntouched DEF IInv
<1>11. Pattern'
  BY <1>1, <1>3, PatternUntouched DEF IInv
<1>12. Returned'
  <2>1. pc[w] # "returned" /\ Returned
    BY <1>3 DEF IInv
  <2>2. outcome.kind = "none" /\ outcome' = outcome
    BY <1>3, <2>1, AtWork
  <2>3. QED
    BY <2>2 DEF Returned
<1>13. QED
  BY <1>6, <1>7, <1>8, <1>9, <1>10, <1>11, <1>12 DEF IInv

\* A worker returns at the end of its range.
LEMMA ReturnStep ==
  ASSUME IInv, NEW w \in Workers, Return(w)
  PROVE  IInv'
<1>1. /\ flags \in Flags /\ flags' = flags
  BY DEF IInv, TypeOK, Return
<1>2. /\ Workers' = Workers /\ TotalUnits' = TotalUnits /\ IsRedisMixed' = IsRedisMixed
      /\ \A v : StartOf(v)' = StartOf(v) /\ UnitsOf(v)' = UnitsOf(v)
  BY <1>1, LineKept
<1>3. /\ pc[w] = "running" /\ unit[w] = UnitsOf(w)
      /\ pc' = [pc EXCEPT ![w] = "returned"]
      /\ UNCHANGED <<unit, written, durs, errs, setCounter, built, sets, outcome>>
  BY DEF Return
<1>4. pc \in [Workers -> {"running", "sending", "failed", "returned"}]
  BY DEF IInv, TypeOK
<1>5. \A v \in Workers : pc'[v] = IF v = w THEN "returned" ELSE pc[v]
  BY <1>3, <1>4
<1>6. TypeOK'
  <2>1. pc' \in [Workers -> {"running", "sending", "failed", "returned"}]
    BY <1>3, <1>4
  <2>2. QED
    BY <1>1, <1>2, <1>3, <2>1 DEF IInv, TypeOK
<1>7. OwnKeys'
  BY <1>1, <1>3, KeysUntouched DEF IInv
<1>8. Kept'
  BY <1>1, <1>2, <1>3, <1>5 DEF IInv, Kept
<1>9. Units'
  BY <1>1, <1>2, <1>3, <1>5 DEF IInv, Units
<1>10. Timed'
  BY <1>1, <1>3, TimesUntouched DEF IInv
<1>11. Pattern'
  BY <1>1, <1>3, PatternUntouched DEF IInv
<1>12. Returned'
  <2>1. pc[w] # "returned" /\ Returned
    BY <1>3 DEF IInv
  <2>2. outcome.kind = "none" /\ outcome' = outcome
    BY <1>3, <2>1, AtWork
  <2>3. QED
    BY <2>2 DEF Returned
<1>13. QED
  BY <1>6, <1>7, <1>8, <1>9, <1>10, <1>11, <1>12 DEF IInv

\* The results are drained from the channels.
LEMMA CollectStep ==
  ASSUME IInv, Collect
  PROVE  IInv'
<1>1. /\ flags \in Flags /\ flags' = flags
  BY DEF IInv, TypeOK, Collect
<1>2. /\ Workers' = Workers /\ TotalUnits' = TotalUnits /\ IsRedisMixed' = IsRedisMixed
      /\ \A v : StartOf(v)' = StartOf(v) /\ UnitsOf(v)' = UnitsOf(v)
  BY <1>1, LineKept
<1>3. /\ AllReturned
      /\ outcome' = [kind |-> IF errs > 0 THEN "error" ELSE "ok", durs |-> durs]
      /\ UNCHANGED <<pc, unit, written, durs, errs, setCounter, built, sets>>
  BY DEF Collect
<1>4. durs \in Nat /\ errs \in Nat
  BY <1>1, UnitFacts, FlagFacts DEF IInv, TypeOK
<1>5. TypeOK'
  <2>1. outcome' \in [kind : {"none", "ok", "error"}, durs : Nat]
    BY <1>3, <1>4
  <2>2. QED
    BY <1>1, <1>2, <1>3, <2>1 DEF IInv, TypeOK
<1>6. OwnKeys'
  BY <1>1, <1>3, KeysUntouched DEF IInv
<1>7. Kept'
  BY <1>1, <1>2, <1>3 DEF IInv, Kept
<1>8. Units'
  BY <1>1, <1>2, <1>3 DEF IInv, Units
<1>9. Timed'
  BY <1>1, <1>3, TimesUntouched DEF IInv
<1>10. Pattern'
  BY <1>1, <1>3, PatternUntouched DEF IInv
<1>11. Returned'
  <2>1. AllReturned'
    BY <1>2, <1>3 DEF AllReturned
  <2>2. outcome'.durs = durs' /\ (outcome'.kind = "ok" => errs' = 0)
    BY <1>3, <1>4
  <2>3. QED
    BY <2>1, <2>2 DEF Returned
<1>12. QED
  BY <1>5, <1>6, <1>7, <1>8, <1>9, <1>10, <1>11 DEF IInv

\* Nothing happens.
LEMMA IdleStep ==
  ASSUME IInv, UNCHANGED vars
  PROVE  IInv'
<1>1. flags' = flags /\ UNCHANGED <<pc, unit, written, durs, errs, setCounter, built,
                                   sets, outcome>>
  BY DEF vars
<1>2. /\ Workers' = Workers /\ TotalUnits' = TotalUnits /\ IsRedisMixed' = IsRedisMixed
      /\ \A v : StartOf(v)' = StartOf(v) /\ UnitsOf(v)' = UnitsOf(v)
  BY <1>1, LineKept
<1>3. TypeOK'
  BY <1>1, <1>2 DEF IInv, TypeOK
<1>4. OwnKeys' /\ Timed' /\ Pattern'
  BY <1>1, KeysUntouched, TimesUntouched, PatternUntouched DEF IInv
<1>5. Kept' /\ Units'
  BY <1>1, <1>2 DEF IInv, Kept, Units
<1>6. Returned'
  BY <1>1, <1>2 DEF IInv, Returned, AllReturned
<1>7. QED
  BY <1>3, <1>4, <1>5, <1>6 DEF IInv

\* The invariant holds in every reachable state.
LEMMA Inductive == Spec => []IInv
<1>1. Init => IInv
  BY InitHolds
<1>2. IInv /\ [Next]_vars => IInv'
  <2> SUFFICES ASSUME IInv, [Next]_vars PROVE IInv'
    OBVIOUS
  <2>1. ASSUME NEW w \in Workers, Work(w) PROVE IInv'
    <3>1. CASE BuildCommand(w)
      BY <3>1, BuildStep
    <3>2. CASE Execute(w)
      BY <3>2, ExecuteStep
    <3>3. CASE Send(w)
      BY <3>3, SendStep
    <3>4. CASE PushError(w)
      BY <3>4, PushErrorStep
    <3>5. CASE Return(w)
      BY <3>5, ReturnStep
    <3>6. QED
      BY <2>1, <3>1, <3>2, <3>3, <3>4, <3>5 DEF Work
  <2>2. CASE Collect
    BY <2>2, CollectStep
  <2>3. CASE Done
    BY <2>3, IdleStep DEF Done
  <2>4. CASE UNCHANGED vars
    BY <2>4, IdleStep
  <2>5. QED
    BY <2>1, <2>2, <2>3, <2>4 DEF Next
<1>3. QED
  BY <1>1, <1>2, PTL DEF Spec

-----------------------------------------------------------------------------
(* What follows from the invariant.                                        *)

\* When an operation succeeds, every worker has done its units, no pipeline is
\* under construction, and the durations are those of all units.
LEMMA WhenOk ==
  ASSUME IInv, outcome.kind = "ok"
  PROVE  /\ \A w \in Workers : unit[w] = UnitsOf(w) /\ built[w] = 0
         /\ outcome.durs = durs /\ UnitsDone = AllUnits
         /\ durs = Cardinality(AllUnits) /\ IsFiniteSet(AllUnits)
<1>1. AllReturned /\ outcome.durs = durs /\ errs = 0
  BY DEF IInv, Returned
<1>2. \A w \in Workers : unit[w] = UnitsOf(w)
  BY <1>1 DEF IInv, Units, AllReturned
<1>3. flags \in Flags /\ \A w \in Workers : UnitsOf(w) \in Nat
  BY UnitFacts DEF IInv, TypeOK
<1>4. \A w \in Workers : built[w] = 0
  <2>1. flags.pipe \in Nat /\ built \in [Workers -> 0 .. flags.pipe]
    BY <1>3, FlagFacts DEF IInv, TypeOK
  <2>2. \A w \in Workers : ~(built[w] > 0)
    BY <1>2, <1>3 DEF IInv, Units
  <2>3. QED
    BY <2>1, <2>2
<1>5. UnitsDone = AllUnits
  <2>1. \A w \in Workers, i \in Nat : i < unit[w] <=> i \in 0 .. UnitsOf(w) - 1
    BY <1>2, <1>3
  <2>2. \A w \in Workers : 0 .. UnitsOf(w) - 1 \subseteq Nat
    BY <1>3
  <2>3. ASSUME NEW x \in UnitsDone PROVE x \in AllUnits
    <3>1. x \in Workers \X Nat /\ x[2] < unit[x[1]]
      BY DEF UnitsDone
    <3>2. x[1] \in Workers /\ x[2] \in 0 .. UnitsOf(x[1]) - 1 /\ x = <<x[1], x[2]>>
      BY <2>1, <3>1
    <3>3. x \in {x[1]} \X (0 .. UnitsOf(x[1]) - 1)
      BY <3>2
    <3>4. QED
      BY <3>2, <3>3 DEF AllUnits
  <2>4. ASSUME NEW x \in AllUnits PROVE x \in UnitsDone
    <3>1. PICK w \in Workers : x \in {w} \X (0 .. UnitsOf(w) - 1)
      BY DEF AllUnits
    <3>2. x[1] = w /\ x[2] \in 0 .. UnitsOf(w) - 1 /\ x = <<x[1], x[2]>>
      BY <3>1
    <3>3. x[2] \in Nat /\ x[2] < unit[w]
      BY <2>1, <2>2, <3>2
    <3>4. QED
      BY <3>2, <3>3 DEF UnitsDone
  <2>5. QED
    BY <2>3, <2>4
<1>6. durs = Cardinality(UnitsDone) /\ IsFiniteSet(UnitsDone)
  BY DEF IInv, Timed
<1>7. QED
  BY <1>1, <1>2, <1>4, <1>5, <1>6

\* The ranges of the workers follow one another.
LEMMA RangesApart ==
  ASSUME flags \in Flags, NEW v \in Workers, NEW w \in Workers, v < w
  PROVE  LowKey(v + 1) <= LowKey(w) /\ LowKey(v + 1) \in Nat /\ LowKey(w) \in Nat
<1>1. v + 1 \in Nat /\ w \in Nat /\ v + 1 <= w
      /\ flags.count \in Nat /\ flags.workers \in Nat \ {0}
  BY FlagFacts
<1>2. Chunk \in Nat
  BY UnitFacts
<1> DEFINE b == flags.count \div flags.workers
<1>3. b \in Nat /\ KeyBase(v + 1) = (v + 1) * b /\ KeyBase(w) = w * b
  BY <1>1, Quotient DEF KeyBase
<1> HIDE DEF b
<1>4. KeyBase(v + 1) <= KeyBase(w) /\ KeyBase(v + 1) \in Nat /\ KeyBase(w) \in Nat
  <2>1. (v + 1) * b <= w * b /\ (v + 1) * b \in Nat /\ w * b \in Nat
    BY <1>1, <1>3, Monotone
  <2>2. QED
    BY <1>3, <2>1
<1>5. StartOf(v + 1) <= StartOf(w) /\ StartOf(v + 1) \in Nat /\ StartOf(w) \in Nat
  <2>1. (v + 1) * Chunk <= w * Chunk /\ (v + 1) * Chunk \in Nat /\ w * Chunk \in Nat
    BY <1>1, <1>2, Monotone
  <2>2. QED
    BY <2>1 DEF StartOf
<1>6. QED
  BY <1>4, <1>5 DEF LowKey

\* Two workers share no key.
LEMMA KeysApart == IInv => DistinctKeys
<1> SUFFICES ASSUME IInv PROVE DistinctKeys
  OBVIOUS
<1>1. flags \in Flags /\ Workers = 0 .. Last /\ Last \in Nat
  BY FlagFacts DEF IInv, TypeOK
<1>2. written \in [Workers -> SUBSET Nat]
  BY DEF IInv, TypeOK
<1>3. ASSUME NEW v \in Workers, NEW w \in Workers, v < w
      PROVE  written[v] \cap written[w] = {}
  <2> SUFFICES ASSUME NEW k \in written[v], k \in written[w]
               PROVE  FALSE
    OBVIOUS
  <2>1. v # Last
    BY <1>1, <1>3
  <2>2. k < LowKey(v + 1) /\ LowKey(w) <= k /\ k \in Nat
    BY <1>2, <2>1 DEF IInv, OwnKeys
  <2>3. LowKey(v + 1) <= LowKey(w) /\ LowKey(v + 1) \in Nat /\ LowKey(w) \in Nat
    BY <1>1, <1>3, RangesApart
  <2>4. QED
    BY <2>2, <2>3
<1>4. \A v, w \in Workers : v # w => v < w \/ w < v
  BY <1>1
<1>5. QED
  BY <1>3, <1>4 DEF DistinctKeys

\* A mixed run has built its rounds of whole pipelines, and the pattern with them.
LEMMA RatioKept == IInv => MixedRatio
<1> SUFFICES ASSUME IInv, outcome.kind = "ok", IsRedisMixed
             PROVE  sets = SetThreshold * Rounds * flags.workers
  BY DEF MixedRatio
<1>1. /\ flags \in Flags /\ flags.pipe \in Nat \ {0} /\ flags.workers \in Nat \ {0}
      /\ Rounds \in Nat /\ SetThreshold \in Nat
      /\ Workers = 0 .. Last /\ Last = flags.workers - 1
  BY FlagFacts, UnitFacts, ThresholdFacts DEF IInv, TypeOK
<1>2. /\ \A w \in Workers : built[w] = 0
      /\ durs = Cardinality(AllUnits)
  BY WhenOk
<1>3. Cardinality(InPipes) = 0
  <2>1. InPipes = {}
    BY <1>1, <1>2 DEF InPipes
  <2>2. QED
    BY <2>1, FS_EmptySet
<1> DEFINE top == Rounds - 1
<1>4. AllUnits = Workers \X (0 .. top)
  <2>1. \A w \in Workers : UnitsOf(w) = Rounds
    BY DEF UnitsOf, IsRedisMixed
  <2>2. AllUnits = UNION {{w} \X (0 .. top) : w \in Workers}
    BY <2>1 DEF AllUnits
  <2> HIDE DEF top
  <2>3. QED
    BY <2>2
<1>5. durs = flags.workers * Rounds
  <2>1. IsFiniteSet(Workers) /\ Cardinality(Workers) = flags.workers
    <3>1. 0 \in Int /\ Last \in Int /\ ~(0 > Last) /\ Last - 0 + 1 = flags.workers
      BY <1>1
    <3>2. QED
      BY <1>1, <3>1, FS_Interval
  <2>2. IsFiniteSet(0 .. top) /\ Cardinality(0 .. top) = Rounds
    <3>1. 0 \in Int /\ top \in Int /\ Rounds = IF 0 > top THEN 0 ELSE top - 0 + 1
      BY <1>1
    <3> HIDE DEF top
    <3>2. QED
      BY <3>1, FS_Interval
  <2> HIDE DEF top
  <2>3. Cardinality(Workers \X (0 .. top)) = Cardinality(Workers) * Cardinality(0 .. top)
    BY <2>1, <2>2, FS_Product
  <2>4. QED
    BY <1>2, <1>4, <2>1, <2>2, <2>3
<1> DEFINE m == flags.workers * Rounds
<1>6. m \in Nat /\ durs = m
  BY <1>1, <1>5, ProductType
<1> HIDE DEF m, top
<1>7. PICK k \in Nat : InPattern(durs * flags.pipe + Cardinality(InPipes), k, flags.pipe,
                                 setCounter, SetThreshold, sets)
  BY DEF IInv, Pattern
<1>8. durs * flags.pipe + Cardinality(InPipes) = m * flags.pipe
  <2>1. m * flags.pipe \in Nat
    BY <1>1, <1>6, ProductType
  <2>2. QED
    BY <1>3, <1>6, <2>1
<1>9. sets = m * SetThreshold
  <2>1. InPattern(m * flags.pipe, k, flags.pipe, setCounter, SetThreshold, sets)
    BY <1>7, <1>8
  <2>2. setCounter \in 0 .. flags.pipe - 1 /\ sets \in Nat
    BY DEF IInv, TypeOK
  <2>3. QED
    BY <1>1, <1>6, <2>1, <2>2, WholePattern
<1>10. m * SetThreshold = SetThreshold * Rounds * flags.workers
  <2>1. \A a, b, c \in Nat : (a * b) * c = c * b * a
    OBVIOUS
  <2>2. QED
    BY <1>1, <2>1 DEF m
<1>11. QED
  BY <1>9, <1>10

\* The even shares leave something for the last worker, or nothing, whenever a set
\* returns: the Memcached share of at least one key would otherwise have filled the
\* channel.
LEMMA SharesFit ==
  ASSUME IInv, outcome.kind = "ok", flags.op = "set"
  PROVE  TotalUnits = flags.count /\ StartOf(Last) <= flags.count
<1>1. /\ flags \in Flags /\ flags.workers \in Nat \ {0} /\ flags.count \in Nat \ {0}
      /\ Workers = 0 .. flags.workers - 1 /\ Last = flags.workers - 1 /\ Last \in Workers
      /\ Chunk \in Nat /\ \A w \in Workers : StartOf(w) \in Nat /\ UnitsOf(w) \in Nat
  BY FlagFacts, UnitFacts DEF IInv, TypeOK
<1>2. TotalUnits = flags.count
  BY DEF TotalUnits, RedisUnits, MemcachedUnits
<1> DEFINE q == flags.count \div flags.workers
<1>3. q \in Nat /\ flags.workers * q <= flags.count
  BY <1>1, Quotient
<1>4. Chunk = q \/ (Chunk = 1 /\ flags.backend # "redis" /\ q < 1)
  BY <1>2 DEF Chunk, RedisChunk, MemcachedChunk
<1> HIDE DEF q
<1>5. CASE Chunk = q
  <2>1. Last \in Nat /\ Last <= flags.workers /\ flags.workers \in Nat
    BY <1>1
  <2>2. Last * q <= flags.workers * q /\ Last * q \in Nat /\ flags.workers * q \in Nat
    BY <1>3, <2>1, Monotone
  <2>3. Last * q <= flags.count
    BY <1>1, <1>3, <2>2
  <2>4. QED
    BY <1>2, <1>5, <2>3 DEF StartOf
<1>6. CASE Chunk = 1
  <2> DEFINE top   == Last - 1
             firsts == (0 .. top) \X {0}
  <2>1. StartOf(Last) = Last
    BY <1>1, <1>6 DEF StartOf
  <2>2. \A w \in 0 .. top : w \in Workers /\ UnitsOf(w) = 1
    <3> SUFFICES ASSUME NEW w \in 0 .. top
                 PROVE  w \in Workers /\ UnitsOf(w) = 1
      OBVIOUS
    <3>1. w \in Workers /\ w # flags.workers - 1
      BY <1>1
    <3>2. EndOf(w) = StartOf(w) + 1 /\ StartOf(w) \in Nat
      BY <1>1, <1>6, <3>1 DEF EndOf
    <3>3. UnitsOf(w) = IF EndOf(w) > StartOf(w) THEN EndOf(w) - StartOf(w) ELSE 0
      BY DEF UnitsOf
    <3>4. QED
      BY <3>1, <3>2, <3>3
  <2>3. firsts \in SUBSET AllUnits
    <3>1. ASSUME NEW x \in firsts PROVE x \in AllUnits
      <4>1. x[1] \in 0 .. top /\ x[2] = 0 /\ x = <<x[1], x[2]>>
        BY <3>1
      <4>2. x[1] \in Workers /\ UnitsOf(x[1]) = 1
        BY <2>2, <4>1
      <4>3. 0 \in 0 .. UnitsOf(x[1]) - 1
        BY <4>2
      <4>4. x \in {x[1]} \X (0 .. UnitsOf(x[1]) - 1)
        BY <4>1, <4>3
      <4>5. QED
        BY <4>2, <4>4 DEF AllUnits
    <3>2. QED
      BY <3>1
  <2>4. IsFiniteSet(0 .. top) /\ Cardinality(0 .. top) = Last
    <3>1. 0 \in Int /\ top \in Int /\ Last = IF 0 > top THEN 0 ELSE top - 0 + 1
      BY <1>1
    <3> HIDE DEF top
    <3>2. QED
      BY <3>1, FS_Interval
  <2> HIDE DEF top
  <2>5. Cardinality(firsts) = Last
    <3>1. IsFiniteSet({0}) /\ Cardinality({0}) = 1
      BY FS_Singleton
    <3>2. Cardinality(firsts) = Cardinality(0 .. top) * Cardinality({0})
      BY <2>4, <3>1, FS_Product
    <3>3. QED
      BY <1>1, <2>4, <3>1, <3>2
  <2> HIDE DEF firsts
  <2>6. IsFiniteSet(AllUnits) /\ Cardinality(AllUnits) = durs
    BY WhenOk
  <2>7. Cardinality(firsts) <= Cardinality(AllUnits)
    BY <2>3, <2>6, FS_Subset
  <2>8. durs \in 0 .. TotalUnits
    BY DEF IInv, TypeOK
  <2>9. QED
    BY <1>1, <1>2, <2>1, <2>5, <2>6, <2>7, <2>8
<1>7. QED
  BY <1>4, <1>5, <1>6

\* Every key is somebody's.
LEMMA KeysCovered ==
  ASSUME flags \in Flags, flags.op = "set", TotalUnits = flags.count,
         StartOf(Last) <= flags.count, NEW k \in 0 .. flags.count - 1
  PROVE  \E w \in Workers : \E u \in 0 .. UnitsOf(w) - 1 : k = StartOf(w) + u
<1>1. /\ flags.workers \in Nat \ {0} /\ flags.count \in Nat \ {0} /\ k \in Nat
      /\ Workers = 0 .. flags.workers - 1 /\ Last = flags.workers - 1 /\ Last \in Workers
      /\ Chunk \in Nat /\ \A w \in Workers : StartOf(w) \in Nat /\ UnitsOf(w) \in Nat
  BY FlagFacts, UnitFacts
<1>2. \A w \in Workers :
        UnitsOf(w) = IF EndOf(w) > StartOf(w) THEN EndOf(w) - StartOf(w) ELSE 0
  BY DEF UnitsOf
<1>3. CASE k >= StartOf(Last)
  <2>1. EndOf(Last) = flags.count
    BY DEF EndOf, Last
  <2>2. StartOf(Last) \in Nat /\ k < flags.count
    BY <1>1
  <2>3. UnitsOf(Last) = flags.count - StartOf(Last)
    BY <1>1, <1>2, <1>3, <2>1, <2>2
  <2>4. k - StartOf(Last) \in 0 .. UnitsOf(Last) - 1
    BY <1>1, <1>3, <2>2, <2>3
  <2>5. k = StartOf(Last) + (k - StartOf(Last))
    BY <1>1, <2>2
  <2>6. QED
    BY <1>1, <2>4, <2>5
<1>4. CASE k < StartOf(Last)
  <2>1. Chunk \in Nat \ {0} /\ StartOf(Last) = Last * Chunk /\ Last \in Nat
    <3>1. StartOf(Last) = Last * Chunk /\ StartOf(Last) # 0
      BY <1>1, <1>4 DEF StartOf
    <3>2. QED
      BY <1>1, <3>1
  <2> DEFINE w == k \div Chunk
             r == k % Chunk
  <2>2. w \in Nat /\ r \in 0 .. Chunk - 1 /\ k = Chunk * w + r
    BY <1>1, <2>1, Division
  <2> HIDE DEF w, r
  <2>3. w < Last
    <3> SUFFICES ASSUME Last <= w PROVE FALSE
      BY <2>1, <2>2
    <3>1. Last * Chunk <= w * Chunk /\ w * Chunk \in Nat
      BY <2>1, <2>2, Monotone
    <3>2. w * Chunk = Chunk * w
      BY <2>1, <2>2
    <3>3. QED
      BY <1>1, <1>4, <2>1, <2>2, <3>1, <3>2
  <2>4. w \in Workers /\ StartOf(w) = Chunk * w
    <3>1. w \in Workers
      BY <1>1, <2>2, <2>3
    <3>2. w * Chunk = Chunk * w
      BY <2>1, <2>2
    <3>3. QED
      BY <3>1, <3>2 DEF StartOf
  <2>5. UnitsOf(w) = Chunk
    <3>1. EndOf(w) = StartOf(w) + Chunk
      BY <1>1, <2>2, <2>3 DEF EndOf
    <3>2. QED
      BY <1>1, <1>2, <2>1, <2>4, <3>1
  <2>6. r \in 0 .. UnitsOf(w) - 1 /\ k = StartOf(w) + r
    BY <2>2, <2>4, <2>5
  <2>7. QED
    BY <2>4, <2>6
<1>5. QED
  BY <1>1, <1>3, <1>4

\* A set that succeeds has written every key, and no other.
LEMMA AllKeysWritten == IInv => SetWritesAllKeys
<1> SUFFICES ASSUME IInv, outcome.kind = "ok", flags.op = "set"
             PROVE  UNION {written[w] : w \in Workers} = 0 .. flags.count - 1
  BY DEF SetWritesAllKeys
<1>1. /\ flags \in Flags /\ flags.workers \in Nat \ {0} /\ flags.count \in Nat \ {0}
      /\ Workers = 0 .. flags.workers - 1 /\ Last = flags.workers - 1 /\ Last \in Workers
      /\ Chunk \in Nat /\ \A w \in Workers : StartOf(w) \in Nat /\ UnitsOf(w) \in Nat
  BY FlagFacts, UnitFacts DEF IInv, TypeOK
<1>2. TotalUnits = flags.count /\ StartOf(Last) <= flags.count
  BY SharesFit
<1>3. \A w \in Workers : unit[w] = UnitsOf(w)
  BY WhenOk
<1>4. ASSUME NEW w \in Workers, NEW k \in written[w]
      PROVE  k \in 0 .. flags.count - 1
  <2>1. k \in Nat /\ k < StartOf(w) + UnitsOf(w) /\ StartOf(w) <= k
    <3>1. written \in [Workers -> SUBSET Nat]
      BY DEF IInv, TypeOK
    <3>2. LowKey(w) = StartOf(w)
      BY DEF LowKey
    <3>3. QED
      BY <3>1, <3>2 DEF IInv, OwnKeys
  <2>2. UnitsOf(w) = IF EndOf(w) > StartOf(w) THEN EndOf(w) - StartOf(w) ELSE 0
    BY DEF UnitsOf
  <2>3. EndOf(w) <= flags.count /\ EndOf(w) \in Nat
    <3>1. CASE w = Last
      BY <1>1, <1>2, <3>1 DEF EndOf
    <3>2. CASE w # Last
      <4>1. w + 1 \in Nat /\ w + 1 <= Last /\ Last \in Nat /\ w \in Nat
        BY <1>1, <3>2
      <4>2. (w + 1) * Chunk <= Last * Chunk /\ (w + 1) * Chunk \in Nat
            /\ Last * Chunk \in Nat
        BY <1>1, <4>1, Monotone
      <4>3. (w + 1) * Chunk = w * Chunk + Chunk
        BY <1>1, <4>1
      <4>4. EndOf(w) = (w + 1) * Chunk
        BY <1>1, <3>2, <4>3 DEF EndOf, StartOf
      <4>5. Last * Chunk <= flags.count
        BY <1>2 DEF StartOf
      <4> DEFINE e == (w + 1) * Chunk
                 l == Last * Chunk
      <4>6. e <= l /\ e \in Nat /\ l \in Nat /\ EndOf(w) = e /\ l <= flags.count
        BY <4>2, <4>4, <4>5
      <4> HIDE DEF e, l
      <4>7. QED
        BY <1>1, <4>6
    <3>3. QED
      BY <3>1, <3>2
  <2>4. StartOf(w) \in Nat /\ UnitsOf(w) \in Nat /\ flags.count \in Nat
    BY <1>1
  <2>5. k < EndOf(w)
    BY <2>1, <2>2, <2>3, <2>4
  <2>6. QED
    BY <2>1, <2>3, <2>4, <2>5
<1>5. ASSUME NEW k \in 0 .. flags.count - 1
      PROVE  \E w \in Workers : k \in written[w]
  <2>1. PICK w \in Workers : \E u \in 0 .. UnitsOf(w) - 1 : k = StartOf(w) + u
    BY <1>1, <1>2, KeysCovered
  <2>2. PICK u \in 0 .. unit[w] - 1 : k = StartOf(w) + u
    BY <1>3, <2>1
  <2>3. QED
    BY <2>2 DEF IInv, Kept
<1>6. QED
  BY <1>4, <1>5

-----------------------------------------------------------------------------
(* The theorems.                                                           *)

\* What the variables of a run of workers hold.
THEOREM CacheTypeOK == Spec => []TypeOK
<1>1. IInv => TypeOK
  BY DEF IInv
<1>2. QED
  BY <1>1, Inductive, PTL

\* However count, workers and pipe divide, no key is ever set by two workers: not
\* by the goroutines of set, nor by the pipelines that run over their unit.
THEOREM KeysNotShared == Spec => []DistinctKeys
<1>1. QED
  BY KeysApart, Inductive, PTL

\* However count divides by workers, a set that returns without an error has
\* written the keys 0 to count - 1; a Memcached set among more workers than it can
\* feed does not return at all.
THEOREM SetIsComplete == Spec => []SetWritesAllKeys
<1>1. QED
  BY AllKeysWritten, Inductive, PTL

\* Success means that all units were done, and timed once each.
THEOREM OkIsComplete == Spec => []OkMeansComplete
<1>1. IInv => OkMeansComplete
  <2> SUFFICES ASSUME IInv, outcome.kind = "ok" PROVE OkMeansComplete
    BY DEF OkMeansComplete
  <2>1. QED
    BY WhenOk DEF OkMeansComplete
<1>2. QED
  BY <1>1, Inductive, PTL

\* However the workers interleave on the shared counter, a mixed run sends the
\* rounded-down 20% of SETs over all of its pipelines.
THEOREM RatioHolds == Spec => []MixedRatio
<1>1. QED
  BY RatioKept, Inductive, PTL

=============================================================================
