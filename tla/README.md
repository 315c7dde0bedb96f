# Verification of the comparison lab

The repository measures technologies against each other: `experiments/*/*/run.sh` starts a
stack, builds one of the load generators under `benchmarks/`, runs it against each candidate
and merges the results.  A number in the results table is only worth something if the load
generator did what it was asked to, once, and reported it only then.  This project models the
load generators, and the benchmark server `apps/bench-api` that one of them is pointed at, in
TLA+, checks them with TLC on small instances and proves the main results for every instance
with TLAPS.

## 1. Inventory

`bench-api` is one process with three interfaces to the same handlers: REST and GraphQL on one
port, gRPC on another.  Every request has a goroutine; all that they share is the metrics.
Every load generator is one Go process.  `main` parses flags, connects, runs one or all
operations, computes a report (`internal/report`) and exits; any error is `log.Fatalf`.
The concurrency is inside the operations: pools of goroutines that share a channel, a mutex,
an atomic counter, a wait group or a context, and the systems under test that answer, drop,
delay or repeat what they are sent.

| part | state | operations | hard behaviour | what makes it correct | module |
|---|---|---|---|---|---|
| `loadgen-msg` consume | per-consumer counters, `totalConsumed`, shared context, `errCh`, client prefetch, broker subscriptions | `Consume` on Kafka, RabbitMQ, NATS, Pulsar | interleaving of add, check and cancel; failing readers; readers blocked without a context; commits and acknowledgements that are lost | bounded overshoot, report = what was received, cancellation releases all, no message read twice unless the broker hands it out again | `Consume`, `CompetingConsumers` |
| `loadgen-msg` produce | writer, confirm channel, wait group, `firstErr` | `Produce` on the four | retries of the program and, within them, of the library, both of which duplicate; a lost connection; callbacks in any order | a recorded batch is stored, copies are bounded by the tries, one writer open, always returns | `Produce` |
| `loadgen-cache` | durations and errors channels, shared GET/SET position | set, get, pipeline-set, pipeline-get, mixed on Redis and Memcached | integer division, more workers than units, a channel drained after `wg.Wait` | disjoint and complete key ranges, 80/20 mix, returns | `CacheWorkers` |
| `loadgen-db`, `loadgen-analytics` Insert | jobs channel, mutex, `durs`, `firstErr` | `Insert` on seven databases | partial batches, workers that go on after an error, a full channel | nothing lost, nil error = everything stored, returns | `Insert`, `AllOrError` |
| `loadgen-kv`, `loadgen-http`, data plane of `loadgen-mesh` | jobs channel, `durs`, error counter or `errCh`, keys in the store | seed, write, read, mixed, watch, election, cleanup on etcd and Consul; `RunOp` on REST, gRPC, GraphQL; `dataplane.Run` | failing goroutines, a bounded channel, calls that depend on earlier calls | reported = measured, reads find their keys, ends | `Requests` |
| `loadgen-scheduler`, `loadgen-k8s`, rollouts of `loadgen-mesh`, `loadgen-gitops` | what a poll has read, the round, the clock of the round, the orchestrator's wanted and running instances, the manifests in Gitea | cleanup, deploy, scale, recover, inject, footprint on Kubernetes, Nomad and Docker Swarm; sync-latency, reconcile, bulk through Argo CD and Flux | an orchestrator that works on its own, status that is older than the change it is asked about, leftovers of earlier rounds, rounds that time out | "ready" was true, a recovery was one, every round starts clean, every wait ends | `Rollouts`, `Cluster` |
| `bench-api` | listeners of the two ports, stage and answer of each request, in-flight gauge, request counter, duration histogram | listen, decode, echo, get-user, create-order, instrument, scrape | two listeners of which either may fail, three ways to decode a number, clients that give up, panics that end one connection (HTTP) or everything (gRPC), counters read while requests run | one answer whatever the protocol, exact meters, answers are metered before they arrive, never half alive | `Handlers`, `BenchApi`, `Service` |
| API experiment (`run.sh`, `loadgen-http`, `bench-api`) | the probe, and the above | probe, load, visits, scrape | the server may fail or be killed at any time; only one of its ports is probed; statuses nobody looks at | what is reported was served | `ApiExperiment` |
| `loadgen-observability`, `-monitoring`, `-logs`, `-tracing` | jobs channel, Zabbix items and configuration cache, Elasticsearch index, volumes kept between runs | provision, push, flush, verify, rerun | cache reloaded at any time, half stored bulks, lost replies, reruns | what is reported is queryable, runs are not mixed, every run ends | `Ingest` |

`experiments/*/run.sh` and `scripts/` are sequential shell programs around these;
`deployments/` and the workflows are configuration.  `PROJECT.json` lists all components with their status, the
hazards of the code line by line, and the map from each definition to the lines it models.

Interactions: `run.sh` starts processes one after another on volumes that it keeps between
the smoke test and the full run or not (modelled in `Ingest` by `StartStack`); `main` calls
operations in a fixed order, which matters where one needs what another wrote (`Requests`)
or removed (`Rollouts`); `loadgen-http` calls `bench-api`, which `run.sh` has started and
probed (`ApiExperiment`);
inside an operation the goroutines meet at channels and counters (all modules).

## 2. Modules and how they correspond to the code

An action is one step of one goroutine between two points where another may interleave:
receiving from a channel, a request to the system under test, an atomic add, a section under
the mutex.  Deferred calls belong to the action that returns.  Requests are external: they
succeed or fail, and where the program could not tell the difference they also succeed
with the reply lost.  `history` in a comment marks a variable that only properties read.

* **`Consume`** - `Open` (dial, channel, subscription), `Loop` (receive, per-consumer add,
  total add, cancel: four actions, because another goroutine may act between any two) and
  `Collect`.  `Deliver` is the broker, moving a message from a subscription to a client that
  buffers up to `Prefetch`; a client that closes gives its messages back or, where the
  broker may not yet know of the failure, keeps them.  But for RabbitMQ's auto-ack the brokers
  deliver at least once.  `ReadMessage` of kafka-go fetches a message and then commits it: a
  rebalance, or a reader that fails in between, makes the group go on from an older offset; NATS and
  Pulsar acknowledge without waiting for an answer, and a client that reconnects by itself loses
  what is under way.  `Redeliver` hands such a message out again, read or not, at any time until the
  caller is answered; `CommitUnread` is the opposite loss, a message whose commit was made by a reader that
  then returned an error instead of it.  `received` counts receptions and `read` the messages; both
  are histories.  Rabbit, NATS, Kafka
  and Pulsar differ in subscriptions, in how they are cancelled (NATS through a helper
  goroutine that stops the iterator) and in whether a receive error reaches the caller
  (Pulsar only).
* **`CompetingConsumers`** - what a caller may rely on: a goroutine that finds the quota met
  never counts again, and the caller is answered once, after the last goroutine.
  `Consume` implements it with the refinement mapping `CC`.
* **`Produce`** - the batch loop with one action per client library: `writeBatch` with
  up to `MaxAttempts` tries and a new writer for each, publish and wait for as many confirms,
  synchronous publishes, asynchronous sends with a count of callbacks.  `newWriter` leaves
  kafka-go's own number of tries at its default, and a Pulsar producer sends again what is pending
  when it has reconnected (no deduplication is set up): one write or send may store a message up to
  `LibraryAttempts` times (`Resent`), at least once when it succeeds, perhaps also when it fails.
  `BrokerClose` loses RabbitMQ's
  connection at any time, with any of the unconfirmed publishes stored.
* **`CacheWorkers`** - `runWorkers` (two copies in the code) and the units, key bases and
  pipelines of the ten operations.  A worker's unit and its send to the channel are two
  actions, since the channel has `totalUnits` places and is drained after `wg.Wait`.
* **`Insert`** - the bounded pool: the caller cuts and closes, workers take a batch, write it
  as their package does (one statement, row by row, a transaction, an append and send) and
  record a time or an error.  The channel has `PerWorker` places per worker (2 in the code).  A failed
  batch leaves any part of it behind where the database stores documents or partitions one by one
  (`Stores`: MongoDB without order, a ClickHouse block over several months).  **`AllOrError`** is the promise: success only when every item is
  written, an error only when something broke.
* **`Requests`** - `main` as a plan of calls, one after the other, and in each call the pool
  of `runParallel`, `RunOp` or `dataplane.Run`.  The three differ in how the channel is filled
  (before the goroutines or by `Send`) and in what a failed request does: end its goroutine and
  then the process (`OfferError`), or be counted (`CountError`) with or without a duration.
  `keys` is the store as far as a later Get depends on it.
* **`Cluster`** - the orchestrators as the load generators use them: what is wanted, the
  instances that are started, become ready, are killed by a recovery test (they do not fail by
  themselves) and are replaced, the status that
  trails them, the namespace that terminates.  External, except for what each platform's
  client reads and writes.
* **`Rollouts`** - each tool's `main` as a script of steps (change, kill, wait until a
  condition holds, remove), with what an error in the step means: the process ends, the round
  is skipped, or nothing.  A wait ends with a poll that sees its condition (polls that do
  not are stutters) or with its deadline, which may pass at any time; what follows a deadline or
  a failed request depends on the step's `onError`.  `errors` is a history of these.
  `loadgen-gitops` has many resources that never touch each other, so the script of a command line
  follows one of them: `name` says whether it is `bench-init` (pushed by `setup`, deleted
  by every `benchReconcile` round) or one that `sync-latency` or `bulk` pushes, `workload`
  what the wait looks at (`mixed` waits for its Deployment, and is `deployment` here), and a
  step "elsewhere" is what happens to the others and may end the program.  `manifest` is the
  way of that resource from the push to the controller, whose `Fetch` and `Reapply` are
  external: every 10 seconds it creates what the repository has and the cluster lacks.  Both
  controllers are set up to prune (`run.sh:323-326` and `388-396`).  On a cluster that
  `--keep-cluster` has kept, a newly installed Argo CD knows the resources of the earlier run by their
  label and may remove them until it has fetched the push that names them again; a new Flux
  Kustomization begins with an empty inventory and leaves them.  `Prune`, which need not happen, covers
  both.  `bench-init` is pushed before there is a controller, and is not pruned.
* **`Ingest`** - `Provision` (login, items in chunks, probe), the pool with the push of each
  backend, flush and verification, and `StartStack`, which starts the next process on kept or
  fresh volumes.  `RefreshCache` is the Zabbix server reloading its configuration cache.

* **`Handlers`** - the pure part of `bench-api`: which operation a request names, what becomes
  of its arguments, and the answer.  REST ignores the error of `strconv.Atoi` (the nearest int,
  or 0), gRPC decodes JSON into ints or refuses, GraphQL turns float64 into int, which is inexact
  from 2^53 on and machine dependent beyond the ints: there the answer is any of a set.
  The width of int and of float64's mantissa are constants.  Messages are "", "hello" and "long"
  (longer than net/http's buffers); names and countries are indices, the panic of an index
  below 0 is `Panics`.
* **`BenchApi`** - the process.  A request is received, enters (`Inc`), is handled, counted,
  observed, departs (the deferred `Dec`) and is flushed; another goroutine, a client that gives
  up, a scrape or the end of the process may come between any two.  gRPC requests that cannot be
  decoded, and unknown paths and methods, `Bypass` the instrumentation.  An answer that overflows
  the buffers may leave as soon as it is written (`FlushEarly`).  `Listen` and `ListenFails`
  are the two servers' starts, of which a failure is `log.Fatalf` for both.
* **`Service`** - what the experiments rely on: a plain request (arguments passed as the load
  generators mean them, numbers that every protocol can carry and every result can hold) has one
  answer, a function of its arguments that does not mention the protocol, and it is metered before
  a short answer arrives.  Nothing is promised about other requests but that they get one
  answer.  `BenchApi` implements it with the mapping `Promise`.
* **`ApiExperiment`** - `Requests` and `BenchApi` together: `Probe` is the curl loop of `run.sh`,
  `LoadFetch`, `LoadSucceed` and `LoadFail` bind a goroutine's job to a request of the
  server, `Visit` is anything else that asks the server meanwhile.  It touches the server only by
  `Submit`, `BeginScrape` and `ServerStep`, which are the steps of `ServerNext`.

Modules named `MC...` give values to the constants.  In the other modules an operator whose
comment begins with "mutant" is a wrong variant of the definition that follows it; the
`mutants` of `PROJECT.json` substitute it to show that the property it is listed with is able
to fail.

## 3. Runs

| run | question | bounds |
|---|---|---|
| `consume` | Do two consumers of each broker, either of which may lose its connection anywhere, count, report and stop as they should, and as the abstract pool does? | 2 consumers, Count 2, up to 3 messages in the backlog, prefetch 2, one message handed out again (any number of times) |
| `consume_nats` | Are messages distributed over NATS consumers? No: finding | same |
| `produce_batches` | Is a recorded batch stored, and does Produce return, whatever the broker does? | 5 messages, batches of 2, 3 Kafka tries, each of up to 2 tries of the library (10 in kafka-go) |
| `cache_workers` | Are keys divided right and does every operation end? | 1-3 workers, up to 7 keys, pipelines of 1-3 (5 for a SET in the mix) |
| `cache_crowded` | Does a Memcached set return with more workers than keys? No: finding | 4 workers, 2 keys |
| `insert_pool` | Does Insert lose documents, does nil mean stored, does the caller ever stay blocked on the channel? | 2 workers, 9 documents, batches of 2, one place per worker in the channel: 5 batches, 2 in the channel and 2 with the workers, so that the caller finds it full |
| `api_experiment` | Does a load report only what was measured, and `bench-api` served and counted, whatever happens to either? Do the three protocols answer alike, are the meters exact, does everything end? On etcd, Consul and the mesh: do reads find their keys? | 0-2 workers, 0-2 requests per operation over each protocol, every operation in turn with one worker; next to the server's probe one visitor with any odd request, and a scrape of one of two labels; int of 25 and float64 of 20 bits, for 64 and 53; 6 requests for a second Put and for a full channel in `loadgen-mesh`; 0-2 samples |
| `ingest_runs` | Is a reported write queryable, timed and unmixed, however requests fail and runs follow each other? | up to 5 units in 3 chunks of items and 5 batches, 1-2 workers |
| `rollouts` | When a round is timed, was the platform as ready as reported, was a recovery one, did the round start clean and is nothing left? Does every wait end? | 19 command lines: 1-3 replicas, 1-2 rounds, at most 6 instances, first scale step 2 in place of 5; for GitOps both workloads and both names, on a new and on a kept cluster |
| `rollouts_kept` | Does `sync-latency` or `bulk` on a kept cluster measure a sync? No: finding | 1 resource pushed, 1 left |
| `rollouts_down` | Does a scale-down on Kubernetes measure the scaling? No: finding | 3 replicas, 4 instances |
| `ingest_active` | Are all Zabbix items active after Provision? No: finding | 3 series in 2 chunks |

25 bits hold every result that `loadgen-http`'s ids (up to 10000) lead to without an overflow,
while the largest of the odd inputs do wrap around in a score, and have ints beyond 2^20 that float64 rounds; -1, the largest int and a
number below all ints are among the inputs.  One visitor is enough for a second request under
each label; the theorems on `BenchApi` hold for any number and any width.

The bounds let every case of interest happen: a short last batch, a full channel (more
batches than the channel and the workers hold), a second worker to interleave with, an
item chunk created after the probe's, a count that neither workers nor pipeline divide.
More workers repeat what two do, because they meet only at the shared channel, counter
or mutex; the theorems of section 5 lift the safety properties of every run to any
number.  Unbounded data is bounded by `Messages`, `Count` and the flags, never by a
constraint.

`consume` is checked without deadlock detection: a failing consumer may keep the messages it
had prefetched, and then the others wait for ever - so does the program.  `cache_crowded`
is too, since it is about a deadlock, and `consume_nats` for the reason of `consume`.  All
other runs check deadlock; a finished process stutters explicitly or is started again.

### Findings

1. `consume_nats`: every NATS goroutine creates a consumer of its own; the messages are
   copied to each, not distributed, as the experiment's README says.
2. `cache_crowded`: the Memcached copy of `runWorkers` raises the chunk to 1, so workers in
   the middle get ranges past the end; the last range is then negative and the workers send
   more durations than the channel holds: the program hangs.
3. `ingest_active`: `waitItemsActive` probes item 0 only; items of later chunks may not be in
   the configuration cache when the load starts.
4. `rollouts_down`: `waitDeployReady` of `loadgen-k8s` waits for `ReadyReplicas >= replicas`
   and never looks at `ObservedGeneration`: after a scale-down the status of before fulfils it
   at once, and the time reported is that of the first poll.
5. `rollouts_kept`: `run.sh --keep-cluster` of `argocd-vs-fluxcd` keeps the namespaces but always
   removes Gitea's volumes (`down -v`, line 205), and no resource of `sync-latency` and `bulk` is ever
   deleted.  The next run pushes the same names to an empty repository and waits for resources of
   these names, which are there (with Flux always, with Argo CD until it prunes them): the
   "Time from git push to resource ready in k8s" of the README is then that of one request.
   Reconcile, which deletes first, measures right on a kept cluster too (`RecoveryMeasures`).

Each module has one type invariant.  `consume` and `insert_pool` check it; in `Produce`,
`CacheWorkers`, `Requests`, `Ingest`, `Rollouts` and `BenchApi` it documents the variables and no
run lists it, since the properties there are about more than types.

Seen while modelling, without a run of its own: the GraphQL echo of `loadgen-http` writes its message
into the query (`loadgen-http/internal/graphql/bench.go:100`) and `bench-api` reads variables only,
so the answer is an empty message, while `experiments/api/graphql-vs-rest/README.md:21` says that
GraphQL uses variables (the model has it: `EchoRequest` and `Message`); `pipeline-set` writes whole pipelines
per worker, so a later `pipeline-get` may miss keys; `--workers 0` reports zero durations in
`loadgen-kv` and `loadgen-http`; REST and GraphQL operations do not look at the status of an
answer (`ReportedIsServed` shows that with `bench-api` every answer they time is OK all the same);
etcd's watch reads a channel that its client has closed as an event and counts a sample
(`etcd.go:92`); spans and samples are sent in whole traces and series, and counted as
written; the log check before the report counts whatever the index holds for one service, an
earlier run's entries too; `doScale` of `loadgen-k8s` does not retry an update conflict, which
then fails the run; with two replicas on Kubernetes the killed pod's entry in the status cannot be told
from its replacement's, which `ReadyMeansServing` therefore leaves out.

## 4. Fairness

Liveness is checked under weak fairness of the program's own steps: the Go scheduler runs
every runnable goroutine, requests carry timeouts or come back with an error, and polls have
deadlines.  Nothing is assumed of the failures: no run needs one to happen or to stop
happening, except `Drains` and `WaitsEnd`, which say so in their premises.  A broker is assumed to deliver
what it holds to a client that reads (`Deliver` in `Consume`).  `RefreshCache`, `Redeliver` and `Prune` are not fair.
In `ApiExperiment` the goroutines and listeners of the server are fair (`Progress`), a connection
to a process that has ended breaks, and `run.sh` and the load generator go on; no timeout, visit, scrape,
kill or failing listener is ever forced.  In `Rollouts` the orchestrator is fair (`Environment`) and so are the client's steps that
neither fail nor time out, because `WaitsEnd` is about exactly those behaviours: its premise
is that no request fails and no deadline passes.

## 5. Proofs

Every safety invariant and action property of a passing run, and each of the three refinements,
is a theorem of its specification: for every number of workers, consumers, documents, requests,
rounds, replicas and instances, any batch and chunk size, and any selection of backends and command
lines.  The theorems rest on the ASSUMEs of the modules only: positive sizes, finite sets, command lines
that `main` accepts, inputs that are `WellFormed`.  `ApiExperiment` adds `RequestsAssumption`: the
requests that the load and the probe send are among those the constants provide.

In each module the argument is an inductive invariant, `IInv` or as named below, which contains
the type invariant.  One lemma per action, or per part of it, shows that the action keeps it.

`Consume_proofs`
* `TypeCorrect`, and `Overshoot`: fewer than `Count + NConsumers` messages are counted.  The bound
  is not inductive: the strengthening `SurplusPaidFor` says that once Count is reached, the
  surplus is smaller than the number of goroutines that have left the loop, and
  an add costs exactly one of these.
* `Refinement`: `Spec => Implements`.  `SubscribingFirst` is the additional
  invariant: while a Pulsar subscription is being made no goroutine runs, so that an early
  error is the abstract `Abort`.
* `ReadOnce`: where consumers share a subscription, a message that the broker has not handed out
  again is in the subscription's queue, or in the buffer of one client, or read by one loop
  (`Apart`), and a client that gives its buffer back gives back what it has not read; a loop has
  received such a message once (`ReceivedOnce`).  What two goroutines read in common is thus never
  the program's doing, as it would be with a group or subscription per goroutine.
* `ReportCorrect` and `ShortReport`, from `ReportInv`: what a loop has received, repetitions
  included, is what it has added to its counter, and all counters together are ahead of the total by the goroutines between their
  two adds (`Tallied`); a goroutine has left because of the quota, a cancellation, or a
  lost connection that Pulsar has put into `errCh` (`LeftForAReason`).  The sum over consumers is
  the fold of the community modules; `FoldIsSum` and `FoldAdd` are the facts about it, and rest on
  `SetInduction`, which takes a smallest counterexample instead of an induction over data.

`Produce_proofs`
* `RecordedIsStored`, `CopiesAreBounded`, `WriterAlone`, `ProduceTypeOK`.  `Batched` ties the durations
  to the messages done when the last batch is short; `Kept` says what has been stored by the time
  it is counted as done.  Each library needs a part of its own: for RabbitMQ `InOrder` (the confirms
  that Produce has not read are those of the next messages, and what is in flight comes after
  them), for Pulsar `Awaited` (the wait group counts what is in flight and not yet sent, and
  what is neither in flight nor stored has left `firstErr`), for Kafka `Writers` and
  `FewCopies` (every try writes with a new writer, and one write stores a message at most
  `LibraryAttempts` times).  `NothingAhead` says of all four that no message behind the current batch is
  stored; it is an invariant beside `IInv`, since a batch begins with messages that have no copy.

`CacheWorkers_proofs`
* `KeysNotShared`, `SetIsComplete`: the keys of a worker lie between `LowKey` of it and of the
  next one.  The arithmetic of `Quotient`, `Division` and `KeyRange` shows that the ranges
  neither overlap nor leave a gap, whatever the remainders.  Where the Memcached share of at least one
  key would reach past the end, the set does not return (`SharesFit`).
* `OkIsComplete`, `CacheTypeOK`: the durations are as many as the pairs of a worker and a unit
  done (`Timed`), which fit into the channel.
* `RatioHolds`: the shared position goes through the pattern in whatever order the workers
  take it, so that the SETs sent and under construction follow from their number (`Pattern`).

`Insert_proofs`
* `TypeCorrect`, `NoDocumentLost`: every document is uncut, queued, held by a
  worker, stored, or covered by an error.  It needs `Settled`: a worker that left saw the
  closed channel empty, and only a worker at a batch holds documents.
* `OneTimeEach`: the batches that are not timed, not with a worker and not in the channel are as many
  as the documents left fill, the last one perhaps in part (`OneEach`).
* `Refinement`: `Insert` implements `AllOrError`.

`Ingest_proofs`
* `WritesQueryable`: unless a push has failed, a unit that has been cut is in the channel, with a
  goroutine, or stored (`NothingLost`), and after pool and flush it is visible (`Stored`).
* `FirstItemsStored`, `RunsApart`: item 0 is in the database and in the configuration cache together
  with its chunk, or not at all (`Together`); a volume with another run's values has
  an item 0, which a second `item.create` cannot make again (`Leftovers`).
* `IngestTypeOK` needs `Counted`: every batch that has been begun is at most once in the
  channel, with a goroutine, or timed.

`BenchApi_proofs`, for any finite set of requests and any widths
* `SurvivesAlways`: whatever decoding makes of a number it is an integer
  (`DecodedIsInt`), the clamp makes it positive (`UserHarmless`), hence no answer panics
  (`ReplyFacts`), and the branch of `Handle` for a panic is never taken (`HandleFacts`).
* `MetersAlwaysAgree`: `ServerInv` says where each request is relative to its client and its
  answer; in particular only instrumented requests are inside the gauge.  Each set that
  `MetersAgree` counts then changes by the request that takes the step, or not at all
  (`Unmetered`).
* `ScrapeAlwaysShows`: requests with a short answer have been counted
  (`AnsweredAreCounted`, from the two invariants before), and a counter never falls
  (`TotalGrows`).
* `Implements`: `ServerSpec => ServerImplements`.  `PlainFacts` shows that a plain
  request has exactly the promised answer over each protocol, by way of the decodings
  (`SmallDecoded`) and of arithmetic that does not wrap (`WrapIdentity`); `AnswerStep` is
  the moment at which an answer leaves the server.

`ApiExperiment_proofs`
* `MeasuredOnly`, `GetsAreHits`, `RequestsTypeOK` are theorems of `Requests` alone: no two
  goroutines have the same index (`Apart`), each index taken has a duration, has failed or is in
  work (`Accounted`), a failure stays in `errCh` or in the counter (`FailuresKept`), and no plan
  reads before its seed write (`SeedFirst`).
* `ServedAsReported`: the invariant of the composition joins the one of the generator, the two of the
  server and `Linked`, which says that an index with a duration and without a failure is a request of the
  server that it has answered.  `LoadAnswered` is the bridge: such an answer can only be OK, and has been
  counted.
* `LoadInExperiment`, `ServerInExperiment`: generator and server keep in the composition what
  they promise by themselves, since each step of it is a step of one, of the other, or of both.

`Rollouts_proofs` is an argument in the manner of Hoare.  A script may be of any length, so that its
steps are not followed one by one.
* `Triple` says which label may stand before and after a step; `LeadsBoth` and `LeadsTimes`
  compose labelled scripts and repeat them, and `MainOutline` labels the script of every command line.
* `Holds` gives each label an assertion: for example, while a workload grows (`IsGrowing`)
  the status lags behind the ReplicaSet's count, which lags behind the pods, so that a status that
  says n is true; while it shrinks, the status may still be one of the recovery before, and
  `Telling` says what can be concluded from it when there are three replicas or more.
  `HoldsEnv` shows that the orchestrators do not make the assertion of the current place false, and
  `SchedulerMove`, `PlainMove` and `GitOpsMove` that each step makes the next one true.
* From this follow `ReadyServes`, `RecoveriesMeasured` (with `Numbered`: the incarnation of a
  resource of `loadgen-gitops` is the number of its deletions, but for what an earlier run has left under
  a name that is pushed again; `PruneStep` is the step that may take that away), `SlateIsClean`, `LeavesNothing` (with
  `Ended`, about the last cleanup) and `RolloutsTypeOK`.

Only model-checked: liveness (`Drains`, `CancelReleasesAll`, `ProduceReturns`, `Completes`,
`InsertReturns`, `Ends`, `ServesBoth`, `RunEnds`, `WaitsEnd`), because the prover does not do fairness.

## 6. Not modelled

Queries (one request each, their result is the database's); the clients' own reconnection as a
sequence of steps (only what it repeats or loses is there: `Resent`, `Redeliver`); timing and percentiles
(durations of `bench-api` are counted, not measured; the
catalogue of its names and the wording of its answers are indices); what a GitOps controller that is
kept with `--keep-tools` prunes when Gitea is new, `bench-init` included; the goroutine of amqp091 that would
block if RabbitMQ's channel of confirms were too small for a batch (in the model a confirm waits for a
place); shell scripts
other than the restart in `zabbix-vs-prometheus` and the start of `bench-api` in `grpc-vs-rest`;
deployments and CI.

Assumed of the systems under test: a push to Prometheus or VictoriaMetrics (`remote_write`) is stored as a
whole or not at all, and can be queried as soon as it is answered (`Ingest`).  A request to an
orchestrator that failed has been applied by the time the program sees the error, or never is: one
that takes effect late, after the last deletion, is left out, and would undo `NothingLeft`.  In
`CacheWorkers` the iterations that `--count` loses when it does not divide by the pipeline or the workers
are not part of what `OkMeansComplete` calls complete.  `ApiExperiment` is about `loadgen-http`
pointed at `bench-api` itself; the experiments that put a proxy between them add failures of their own.
A pool that has to wait for messages that never come does wait for ever (`Consume` has no deadline):
`Drains` is about backlogs that hold enough.

## 7. Plan

1. `loadgen-msg/main.go`: the Kafka topic life cycle around runs (asynchronous delete,
   idempotent create), with `Consume` and `Produce` as its calls.
2. `main.go` of the database load generators: the order of insert, query, update and drop.
3. `run.sh`: which process sees which volumes, merge of results.
4. Proofs: the safety properties of what the items above add.
