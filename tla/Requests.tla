------------------------------ MODULE Requests ------------------------------
(***************************************************************************)
(* Load generators that send independent requests: loadgen-kv (etcd and    *)
(* Consul), loadgen-http (REST, gRPC and GraphQL) and the data plane of    *)
(* loadgen-mesh.  main makes one call after the other; in a call a pool of *)
(* goroutines takes the indices 0 to count - 1 from a channel.             *)
(*                                                                         *)
(* runParallel of loadgen-kv and RunOp of loadgen-http fill and close the  *)
(* channel first, Run of loadgen-mesh sends while the goroutines work.     *)
(* They differ in what a failed request does: in loadgen-kv it ends its    *)
(* goroutine and then the process, elsewhere it is counted.  Watch and     *)
(* Election of loadgen-kv have no goroutines.                              *)
(***************************************************************************)
EXTENDS Integers, Sequences, FiniteSets

CONSTANT Flags  \* the command lines

KVStores  == {"etcd", "consul"}
Protocols == {"rest", "grpc", "graphql"}
Tools     == KVStores \union Protocols \union {"mesh"}

KVOps    == {"write", "read", "mixed", "watch", "election"}
HttpOps  == {"echo", "get-user", "create-order", "unknown"}
CallType == KVOps \union HttpOps \union {"seed", "data-plane"}

\* loadgen-kv validates --db and --op only, loadgen-http --proto only: count and
\* workers may be 0, and an "unknown" operation is one whose every request fails.
\* samples is --watch-count and --election-count.
FlagType ==
  [tool : Tools, op : CallType \union {"all"}, count : Nat, workers : Nat, samples : Nat]

ValidFlags(f) ==
  CASE f.tool \in KVStores  -> f.op \in KVOps \union {"all"}
    [] f.tool \in Protocols -> f.op \in HttpOps \union {"all"}
    [] f.tool = "mesh"      -> f.op = "data-plane" /\ f.count >= 1 /\ f.workers >= 1

ASSUME FlagsAssumption == Flags \subseteq FlagType /\ \A f \in Flags : ValidFlags(f)

VARIABLES
  flags,
  calls,     \* the calls still to make, the current one first
  running,   \* whether a call is in progress
  sent,      \* how many indices have been put into the jobs channel
  next,      \* the next index in the channel, or the next sample
  pc,        \* per worker: "idle", "working", "failed", "gone"
  job,       \* per worker: the index it works on
  durs,      \* the indices whose duration has been recorded
  errs,      \* errors counted (loadgen-http and loadgen-mesh)
  errCh,     \* errors in errCh (loadgen-kv)
  failures,  \* the indices whose request has failed (history)
  keys,      \* the indices i whose key bench:write:i exists
  missed,    \* whether some Get found no key (history)
  results,   \* what has been reported of each call
  exit       \* "none", "ok" or "fatal"

pool     == <<sent, next, pc, job>>
measured == <<durs, errs, errCh, failures>>
store    == <<keys, missed>>
vars     == <<flags, calls, running, pool, measured, store, results, exit>>

Workers == 1 .. flags.workers
Indices == 0 .. flags.count - 1

IsKV   == flags.tool \in KVStores
IsMesh == flags.tool = "mesh"

-----------------------------------------------------------------------------
(* The calls.                                                              *)

Wants(o) == flags.op \in {o, "all"}
Call(o)  == IF Wants(o) THEN <<o>> ELSE <<>>

NoSeed == <<>>  \* mutant: reads without the seed write
Seed   == IF Wants("read") \/ Wants("mixed") THEN <<"seed">> ELSE <<>>

KVPlan ==
  Seed \o Call("write") \o Call("read") \o Call("mixed") \o Call("watch") \o Call("election")

HttpPlan ==
  IF flags.op = "all" THEN <<"echo", "get-user", "create-order">> ELSE <<flags.op>>

Plan ==
  CASE IsKV   -> KVPlan
    [] IsMesh -> <<"data-plane">>
    [] OTHER  -> HttpPlan

Sequential == calls[1] \in {"watch", "election"}

\* Only loadgen-mesh sends its jobs after the goroutines have been started.
Begin ==
  /\ exit = "none"
  /\ ~running
  /\ calls # <<>>
  /\ running' = TRUE
  /\ sent' = IF IsMesh THEN 0 ELSE flags.count
  /\ next' = 0
  /\ pc' = [w \in Workers |-> IF Sequential THEN "gone" ELSE "idle"]
  /\ durs' = {} /\ errs' = 0 /\ errCh' = 0 /\ failures' = {}
  /\ UNCHANGED <<flags, calls, job, store, results, exit>>

\* The target does not answer loadgen-mesh within 30 seconds.
ProbeFails ==
  /\ exit = "none"
  /\ IsMesh /\ ~running /\ calls # <<>>
  /\ exit' = "fatal"
  /\ UNCHANGED <<flags, calls, running, pool, measured, store, results>>

\* jobs <- struct{}{} blocks while the channel is full.
Send ==
  /\ running
  /\ sent < flags.count
  /\ sent - next < 2 * flags.workers
  /\ sent' = sent + 1
  /\ UNCHANGED <<flags, calls, running, next, pc, job, measured, store, results, exit>>

\* loadgen-kv deletes the benchmark keys, an error is only logged.
Cleanup ==
  /\ exit = "none"
  /\ calls = <<>>
  /\ exit' = "ok"
  /\ keys' \in IF IsKV THEN {{}, keys} ELSE {keys}
  /\ UNCHANGED <<flags, calls, running, pool, measured, missed, results>>

-----------------------------------------------------------------------------
(* Watch and Election: count times put and wait for the event, or open a   *)
(* session, win its lock and close it.  Errors in closing are ignored, any *)
(* other error ends the process.                                           *)

Sample(o) ==
  /\ exit = "none"
  /\ running
  /\ calls[1] = o
  /\ next < flags.samples
  /\ \/ durs' = durs \union {next} /\ next' = next + 1 /\ UNCHANGED exit
     \/ exit' = "fatal" /\ UNCHANGED <<durs, next>>
  /\ UNCHANGED <<flags, calls, running, sent, pc, job, errs, errCh, failures, store, results>>

EtcdWatch      == flags.tool = "etcd" /\ Sample("watch")
ConsulWatch    == flags.tool = "consul" /\ Sample("watch")
EtcdElection   == flags.tool = "etcd" /\ Sample("election")
ConsulElection == flags.tool = "consul" /\ Sample("election")

-----------------------------------------------------------------------------
(* The goroutines.                                                         *)

Fetch(w) ==
  /\ running
  /\ pc[w] = "idle"
  /\ next < sent
  /\ pc' = [pc EXCEPT ![w] = "working"]
  /\ job' = [job EXCEPT ![w] = next]
  /\ next' = next + 1
  /\ UNCHANGED <<flags, calls, running, sent, measured, store, results, exit>>

NeverClosed == FALSE               \* mutant: close(jobs) forgotten
RangeEnds   == next = flags.count  \* the closed channel is empty

Leave(w) ==
  /\ running
  /\ pc[w] = "idle"
  /\ RangeEnds
  /\ pc' = [pc EXCEPT ![w] = "gone"]
  /\ UNCHANGED <<flags, calls, running, sent, next, job, measured, store, results, exit>>

\* One index in five of a mixed run is a Put, the others are Gets.
IsPut(o, i) == o \in {"seed", "write"} \/ (o = "mixed" /\ i % 5 = 0)
IsGet(o, i) == o = "read" \/ (o = "mixed" /\ i % 5 # 0)

\* Indices are smaller than count, so i % count is i.
EtcdKey(i)   == i % flags.count
ConsulKey(i) == i % flags.count
KeyOf(i)     == IF flags.tool = "etcd" THEN EtcdKey(i) ELSE ConsulKey(i)

Written(w) == IF IsPut(calls[1], job[w]) THEN keys \union {KeyOf(job[w])} ELSE keys

\* The request is answered without an error, and its duration is recorded.
Succeed(w) ==
  /\ running
  /\ pc[w] = "working"
  /\ calls[1] # "unknown"
  /\ keys' = Written(w)
  /\ missed' = (missed \/ (IsGet(calls[1], job[w]) /\ KeyOf(job[w]) \notin keys))
  /\ durs' = durs \union {job[w]}
  /\ pc' = [pc EXCEPT ![w] = "idle"]
  /\ UNCHANGED <<flags, calls, running, sent, next, job, errs, errCh, failures, results, exit>>

\* A request that fails may have been served.
Fail(w) ==
  /\ running
  /\ pc[w] = "working"
  /\ keys' \in {keys, Written(w)}
  /\ pc' = [pc EXCEPT ![w] = "failed"]
  /\ failures' = failures \union {job[w]}
  /\ UNCHANGED <<flags, calls, running, sent, next, job, durs, errs, errCh, missed, results, exit>>

\* loadgen-kv: select { case errCh <- err: default: } never blocks; errCh has a
\* place for every goroutine.
Unbuffered == 0  \* mutant: make(chan error)
ErrChCap   == flags.workers

OfferError(w) ==
  /\ IsKV
  /\ pc[w] = "failed"
  /\ errCh' = IF errCh < ErrChCap THEN errCh + 1 ELSE errCh
  /\ pc' = [pc EXCEPT ![w] = "gone"]
  /\ UNCHANGED <<flags, calls, running, sent, next, job, durs, errs, failures, store, results, exit>>

\* loadgen-http counts an error and records the time it took all the same;
\* loadgen-mesh counts it in the place of a duration.
CountError(w) ==
  /\ ~IsKV
  /\ pc[w] = "failed"
  /\ errs' = errs + 1
  /\ durs' = IF IsMesh THEN durs ELSE durs \union {job[w]}
  /\ pc' = [pc EXCEPT ![w] = "idle"]
  /\ UNCHANGED <<flags, calls, running, sent, next, job, errCh, failures, store, results, exit>>

\* wg.Wait and, in loadgen-kv, the select on errCh; main then reports the call
\* or dies.
AllGone == \A w \in Workers : pc[w] = "gone"

CallOver == IF Sequential THEN next = flags.samples ELSE AllGone

Finish ==
  /\ running
  /\ exit = "none"
  /\ CallOver
  /\ running' = FALSE
  /\ IF errCh > 0
     THEN exit' = "fatal" /\ UNCHANGED <<calls, results>>
     ELSE /\ calls' = Tail(calls)
          /\ results' = Append(results, [op |-> calls[1], durs |-> durs, errs |-> errs,
                                         failures |-> failures])
          /\ UNCHANGED exit
  /\ UNCHANGED <<flags, pool, measured, store>>

Done == exit # "none" /\ UNCHANGED vars

Init ==
  /\ flags \in Flags
  /\ calls = Plan
  /\ running = FALSE
  /\ sent = 0
  /\ next = 0
  /\ pc = [w \in Workers |-> "gone"]
  /\ job = [w \in Workers |-> 0]
  /\ durs = {}
  /\ errs = 0
  /\ errCh = 0
  /\ failures = {}
  /\ keys = {}
  /\ missed = FALSE
  /\ results = <<>>
  /\ exit = "none"

Work(w) == Fetch(w) \/ Leave(w) \/ Succeed(w) \/ Fail(w) \/ OfferError(w) \/ CountError(w)

Samples == EtcdWatch \/ ConsulWatch \/ EtcdElection \/ ConsulElection

Main == Begin \/ ProbeFails \/ Send \/ Samples \/ Finish \/ Cleanup

Next ==
  \/ \E w \in Workers : Work(w)
  \/ Main
  \/ Done

Spec == Init /\ [][Next]_vars

\* Requests return and runnable goroutines run.
FairSpec == Spec /\ WF_vars(Main) /\ WF_vars(\E w \in Workers : Work(w))

-----------------------------------------------------------------------------
(* Properties.                                                             *)

TypeOK ==
  /\ flags \in Flags
  /\ calls \in Seq(CallType)
  /\ running \in BOOLEAN
  /\ sent \in 0 .. flags.count /\ next \in 0 .. flags.count + flags.samples
  /\ pc \in [Workers -> {"idle", "working", "failed", "gone"}]
  /\ job \in [Workers -> Nat]
  /\ durs \subseteq 0 .. flags.count + flags.samples
  /\ errs \in 0 .. flags.count /\ errCh \in 0 .. flags.workers
  /\ failures \subseteq Indices /\ keys \subseteq Indices
  /\ missed \in BOOLEAN
  /\ \A k \in DOMAIN results : results[k].op \in CallType
  /\ exit \in {"none", "ok", "fatal"}

\* What a call reports is what it did: loadgen-kv reports a call only if it has
\* measured every index, so that a zero in durs is never a lost failure;
\* loadgen-http has a duration for every request and counts those that failed;
\* loadgen-mesh has one for every request that did not fail and counts the rest.
ReportedIsMeasured ==
  \A k \in DOMAIN results :
    LET r == results[k] IN
      IF r.op \in {"watch", "election"} THEN r.durs = 0 .. flags.samples - 1
      ELSE flags.workers > 0 =>
             /\ r.durs = IF IsMesh THEN Indices \ r.failures ELSE Indices
             /\ r.errs = Cardinality(r.failures)

\* Every Get of a read or mixed run finds the key it asks for, because the seed
\* write succeeded for all of them before the first Get.
GetsFindKeys == ~missed

\* The process ends: no goroutine waits for a channel forever, and none blocks on
\* an error nobody reads.
Ends == <>(exit # "none")

=============================================================================
