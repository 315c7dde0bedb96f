---------------------------- MODULE CacheWorkers ----------------------------
(***************************************************************************)
(* The operations of benchmarks/loadgen-cache: every one of them hands     *)
(* runWorkers a function, runWorkers divides totalUnits over workers       *)
(* goroutines that write one duration per unit into a channel of           *)
(* totalUnits places, waits for all of them and only then drains it.       *)
(*                                                                         *)
(* Redis (with Valkey and Dragonfly) and Memcached each have their own     *)
(* copy of runWorkers and of the five operations; they differ in how units *)
(* are counted, in the smallest chunk and in which errors they report.     *)
(***************************************************************************)
EXTENDS Integers, FiniteSets

CONSTANT Flags  \* the command lines: see FlagType

FlagType ==
  [backend : {"redis", "memcached"},
   op : {"set", "get", "pipeline-set", "pipeline-get", "mixed"},
   workers : Nat, count : Nat, iterations : Nat, pipe : Nat]

\* validateConfig accepts positive numbers only.
ValidFlags(f) == f.workers >= 1 /\ f.count >= 1 /\ f.iterations >= 1 /\ f.pipe >= 1

ASSUME FlagsAssumption == Flags \subseteq FlagType /\ \A f \in Flags : ValidFlags(f)

VARIABLES
  flags,       \* the command line of this run
  pc,          \* per worker: "running", "sending", "failed", "returned"
  unit,        \* per worker: units finished
  written,     \* per worker: the keys it has set (set and pipeline-set)
  durs,        \* durations in the channel
  errs,        \* errors in the channel
  setCounter,  \* Redis mixed: position in the shared GET/SET pattern
  built,       \* per worker: commands in the pipeline being built (Redis mixed)
  sets,        \* SETs put into pipelines so far (Redis mixed)
  outcome      \* what the operation returned

vars == <<flags, pc, unit, written, durs, errs, setCounter, built, sets, outcome>>

Workers == 0 .. flags.workers - 1

-----------------------------------------------------------------------------
(* How an operation is cut into units.                                     *)

RedisUnits ==
  CASE flags.op = "set"          -> flags.count
    [] flags.op = "pipeline-set" -> flags.count \div flags.pipe
    [] OTHER                     -> flags.iterations

MemcachedUnits ==
  CASE flags.op \in {"set", "pipeline-set"} -> flags.count
    [] flags.op = "get"                     -> flags.iterations
    [] OTHER                                -> flags.iterations * flags.pipe

TotalUnits == IF flags.backend = "redis" THEN RedisUnits ELSE MemcachedUnits

\* durs is made with room for every unit, errs for one error per worker.
DursCapacityChunk == TotalUnits \div flags.workers  \* mutant: sized for one worker
DursCapacity      == TotalUnits

\* Only the Memcached copy gives every worker at least one unit.
RedisChunk     == TotalUnits \div flags.workers
MemcachedChunk == IF TotalUnits \div flags.workers < 1 THEN 1
                  ELSE TotalUnits \div flags.workers
Chunk == IF flags.backend = "redis" THEN RedisChunk ELSE MemcachedChunk

\* The last worker takes what the division leaves over.
StartOf(w) == w * Chunk
EvenEnd(w) == StartOf(w) + Chunk  \* mutant: the remainder is forgotten
EndOf(w)   == IF w = flags.workers - 1 THEN TotalUnits ELSE StartOf(w) + Chunk

\* set and pipeline-set work through their range, the others ignore it and do
\* iterations/workers rounds; a Memcached mixed round sends pipe durations.
Rounds == flags.iterations \div flags.workers
UnitsOf(w) ==
  CASE flags.op \in {"set", "pipeline-set"} ->
         IF EndOf(w) > StartOf(w) THEN EndOf(w) - StartOf(w) ELSE 0
    [] flags.backend = "memcached" /\ flags.op = "mixed" -> Rounds * flags.pipe
    [] OTHER -> Rounds

IsSetOp == flags.op \in {"set", "pipeline-set"}

\* The keys unit u of worker w writes.  A Redis pipeline takes the next pipe keys
\* from the worker's own base.
BaseOfUnits(w) == StartOf(w)  \* mutant: unit numbers taken for key numbers
KeyBase(w)     == w * (flags.count \div flags.workers)
KeysOf(w, u) ==
  IF ~IsSetOp THEN {}
  ELSE IF flags.backend = "redis" /\ flags.op = "pipeline-set"
  THEN KeyBase(w) + u * flags.pipe .. KeyBase(w) + (u + 1) * flags.pipe - 1
  ELSE {StartOf(w) + u}

\* Memcached reads ignore every error; all other commands report it.
ReportsErrors == flags.backend = "redis" \/ IsSetOp

-----------------------------------------------------------------------------
(* The pattern of a Redis mixed run: 20 of 100 commands, rounded down, are *)
(* SETs; one mutex-protected counter serves all workers.                   *)

SetThreshold == (flags.pipe * 20) \div 100
IsRedisMixed == flags.backend = "redis" /\ flags.op = "mixed"

Unbounded(n)     == n + 1  \* mutant: the counter is never wrapped
NextInPattern(n) == (n + 1) % flags.pipe

BuildCommand(w) ==
  /\ IsRedisMixed
  /\ pc[w] = "running"
  /\ unit[w] < UnitsOf(w)
  /\ built[w] < flags.pipe
  /\ sets' = IF setCounter < SetThreshold THEN sets + 1 ELSE sets
  /\ setCounter' = NextInPattern(setCounter)
  /\ built' = [built EXCEPT ![w] = @ + 1]
  /\ UNCHANGED <<flags, pc, unit, written, durs, errs, outcome>>

-----------------------------------------------------------------------------
(* The goroutines.                                                         *)

Execute(w) ==
  /\ pc[w] = "running"
  /\ unit[w] < UnitsOf(w)
  /\ IsRedisMixed => built[w] = flags.pipe
  /\ \/ /\ pc' = [pc EXCEPT ![w] = "sending"]
        /\ written' = [written EXCEPT ![w] = @ \cup KeysOf(w, unit[w])]
     \/ /\ ReportsErrors
        /\ pc' = [pc EXCEPT ![w] = "failed"]
        /\ \E S \in SUBSET KeysOf(w, unit[w]) :
             written' = [written EXCEPT ![w] = @ \cup S]
  /\ UNCHANGED <<flags, unit, durs, errs, setCounter, built, sets, outcome>>

\* durs <- time.Since(t) blocks while the channel is full.
Send(w) ==
  /\ pc[w] = "sending"
  /\ durs < DursCapacity
  /\ durs' = durs + 1
  /\ unit' = [unit EXCEPT ![w] = @ + 1]
  /\ pc' = [pc EXCEPT ![w] = "running"]
  /\ built' = [built EXCEPT ![w] = 0]
  /\ UNCHANGED <<flags, written, errs, setCounter, sets, outcome>>

\* errs <- err, in a channel of workers places.
PushError(w) ==
  /\ pc[w] = "failed"
  /\ errs < flags.workers
  /\ errs' = errs + 1
  /\ pc' = [pc EXCEPT ![w] = "returned"]
  /\ UNCHANGED <<flags, unit, written, durs, setCounter, built, sets, outcome>>

Return(w) ==
  /\ pc[w] = "running"
  /\ unit[w] = UnitsOf(w)
  /\ pc' = [pc EXCEPT ![w] = "returned"]
  /\ UNCHANGED <<flags, unit, written, durs, errs, setCounter, built, sets, outcome>>

\* wg.Wait, close, and drain: the durations and the first error are returned.
NotSending  == \A w \in Workers : pc[w] # "sending"   \* mutant: no wg.Wait
AllReturned == \A w \in Workers : pc[w] = "returned"

Collect ==
  /\ outcome.kind = "none"
  /\ AllReturned
  /\ outcome' = [kind |-> IF errs > 0 THEN "error" ELSE "ok", durs |-> durs]
  /\ UNCHANGED <<flags, pc, unit, written, durs, errs, setCounter, built, sets>>

Done == outcome.kind # "none" /\ UNCHANGED vars

Init ==
  /\ flags \in Flags
  /\ pc = [w \in Workers |-> "running"]
  /\ unit = [w \in Workers |-> 0]
  /\ written = [w \in Workers |-> {}]
  /\ durs = 0
  /\ errs = 0
  /\ setCounter = 0
  /\ built = [w \in Workers |-> 0]
  /\ sets = 0
  /\ outcome = [kind |-> "none", durs |-> 0]

Work(w) == BuildCommand(w) \/ Execute(w) \/ Send(w) \/ PushError(w) \/ Return(w)

Next ==
  \/ \E w \in Workers : Work(w)
  \/ Collect
  \/ Done

Spec == Init /\ [][Next]_vars

\* Commands have client timeouts, so every goroutine that can run goes on.
FairSpec == Spec /\ WF_vars(\E w \in Workers : Work(w)) /\ WF_vars(Collect)

-----------------------------------------------------------------------------
(* Properties.                                                             *)

TypeOK ==
  /\ flags \in Flags
  /\ pc \in [Workers -> {"running", "sending", "failed", "returned"}]
  /\ unit \in [Workers -> Nat]
  /\ written \in [Workers -> SUBSET Nat]
  /\ durs \in 0 .. TotalUnits
  /\ errs \in 0 .. flags.workers
  /\ setCounter \in 0 .. flags.pipe - 1
  /\ built \in [Workers -> 0 .. flags.pipe]
  /\ sets \in Nat
  /\ outcome \in [kind : {"none", "ok", "error"}, durs : Nat]

\* No two workers of a set or pipeline-set ever write the same key: "each
\* worker owns a distinct key range to avoid duplication".
DistinctKeys ==
  \A v, w \in Workers : v # w => written[v] \cap written[w] = {}

\* A set that succeeds has written exactly the keys 0 to count - 1, however the
\* count divides by the workers.
SetWritesAllKeys ==
  outcome.kind = "ok" /\ flags.op = "set" =>
    UNION {written[w] : w \in Workers} = 0 .. flags.count - 1

\* The units of all workers.
AllUnits == UNION {{w} \X (0 .. UnitsOf(w) - 1) : w \in Workers}

\* Success means that every worker did all of its units, and that one duration
\* of each was collected.
OkMeansComplete ==
  outcome.kind = "ok" =>
    /\ \A w \in Workers : unit[w] = UnitsOf(w)
    /\ outcome.durs = Cardinality(AllUnits)

\* Over a whole Redis mixed run the SETs are the rounded-down 20% of every
\* pipeline, although single pipelines of concurrent workers may deviate.
MixedRatio ==
  outcome.kind = "ok" /\ IsRedisMixed => sets = SetThreshold * Rounds * flags.workers

\* Every send finds room in the channel, so the operation returns.
Completes == <>(outcome.kind # "none")

-----------------------------------------------------------------------------
(* What comments say, and the code does not do.                            *)

\* "Set runs count individual SET commands across workers goroutines."
\* (internal/client/memcached.go): it does so and returns.
MemcachedSetReturns == <>(outcome.kind # "none")

=============================================================================
