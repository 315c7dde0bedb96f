------------------------------- MODULE Insert -------------------------------
(***************************************************************************)
(* Insert of loadgen-db (PostgreSQL, MySQL, CockroachDB, MongoDB,          *)
(* Cassandra and ScyllaDB) and of loadgen-analytics (ClickHouse,           *)
(* PostgreSQL): the caller cuts count documents into batches, puts them    *)
(* into a channel of 2*workers places, closes it and waits; every worker   *)
(* ranges over the channel and goes on after a failed batch.  A mutex      *)
(* guards the durations and the first error.                               *)
(*                                                                         *)
(* The skeleton is the same code in every package; what a worker does      *)
(* with a batch differs and has an action per package.                     *)
(***************************************************************************)
EXTENDS Integers, Sequences, FiniteSets

CONSTANTS
  Workers,    \* the goroutines
  Count,      \* --count
  BatchSize,  \* --batch
  PerWorker,  \* places of the channel for each worker (2 in the code)
  Backends    \* the packages to look at

AllBackends == {"postgres", "mysql", "cockroachdb", "mongo", "cassandra",
                "copy", "clickhouse"}

ASSUME WorkersAssumption  == IsFiniteSet(Workers) /\ Workers # {}
ASSUME SizesAssumption    == Count \in Nat \ {0} /\ BatchSize \in Nat \ {0}
ASSUME PlacesAssumption   == PerWorker \in Nat \ {0}
ASSUME BackendsAssumption == Backends \subseteq AllBackends

Docs == 1 .. Count  \* gen.Batch makes a new document with an id of its own each time

VARIABLES
  backend,
  remaining,  \* documents not yet cut into a batch
  jobs,       \* the channel: a sequence of sets of documents
  closed,     \* whether it is closed
  phase,      \* per worker: where it is in its loop
  batch,      \* per worker: the documents of its batch it still has to write
  stored,     \* the documents the database holds
  durs,       \* durations appended
  failed,     \* firstErr # nil
  answer      \* what Insert returned

vars == <<backend, remaining, jobs, closed, phase, batch, stored, durs, failed, answer>>

Phases == {"idle", "writing", "sending", "stored", "failed", "rowFailed",
           "appendFailed", "gone"}

-----------------------------------------------------------------------------
(* The caller: cutting batches.                                            *)

ChanCap == PerWorker * Cardinality(Workers)

FullBatch == BatchSize  \* mutant: the last batch is not cut short
BatchLen  == IF remaining < BatchSize THEN remaining ELSE BatchSize

NextDocs == Count - remaining + 1 .. Count - remaining + BatchLen

\* jobs <- job{...} blocks while the channel is full.
Cut ==
  /\ remaining > 0
  /\ Len(jobs) < ChanCap
  /\ jobs' = Append(jobs, NextDocs)
  /\ remaining' = remaining - BatchLen
  /\ UNCHANGED <<backend, closed, phase, batch, stored, durs, failed, answer>>

Close ==
  /\ remaining <= 0
  /\ ~closed
  /\ closed' = TRUE
  /\ UNCHANGED <<backend, remaining, jobs, phase, batch, stored, durs, failed, answer>>

-----------------------------------------------------------------------------
(* A worker: for j := range jobs.                                          *)

Take(w) ==
  /\ phase[w] = "idle"
  /\ jobs # <<>>
  /\ batch' = [batch EXCEPT ![w] = Head(jobs)]
  /\ jobs' = Tail(jobs)
  /\ phase' = [phase EXCEPT ![w] = "writing"]
  /\ UNCHANGED <<backend, remaining, closed, stored, durs, failed, answer>>

Leave(w) ==
  /\ phase[w] = "idle"
  /\ closed
  /\ jobs = <<>>
  /\ phase' = [phase EXCEPT ![w] = "gone"]
  /\ UNCHANGED <<backend, remaining, jobs, closed, batch, stored, durs, failed, answer>>

\* The lock, append, unlock after a batch that was written.
RecordTime(w) ==
  /\ phase[w] = "stored"
  /\ durs' = durs + 1
  /\ phase' = [phase EXCEPT ![w] = "idle"]
  /\ UNCHANGED <<backend, remaining, jobs, closed, batch, stored, failed, answer>>

\* Where a worker is after it has recorded an error: most continue with the
\* next batch; Cassandra breaks out of the rows and appends a duration all the
\* same, ClickHouse breaks out of the rows and sends what it has.
StopWorker(p) == "gone"  \* mutant: return in the place of continue
AfterError(p) ==
  CASE p = "rowFailed"    -> "stored"
    [] p = "appendFailed" -> "sending"
    [] OTHER              -> "idle"

KeepNil == failed  \* mutant: the error is logged and forgotten
SetErr  == TRUE

RecordError(w) ==
  /\ phase[w] \in {"failed", "rowFailed", "appendFailed"}
  /\ failed' = SetErr
  /\ phase' = [phase EXCEPT ![w] = AfterError(phase[w])]
  /\ UNCHANGED <<backend, remaining, jobs, closed, batch, stored, durs, answer>>

-----------------------------------------------------------------------------
(* What the packages do with a batch.                                      *)

Skeleton == <<backend, remaining, jobs, closed, durs, failed, answer>>

To(w, p) == phase' = [phase EXCEPT ![w] = p]

\* The batch is over, and S of its documents have got into the database.
Finish(w, p, S) ==
  /\ To(w, p)
  /\ batch' = [batch EXCEPT ![w] = {}]
  /\ stored' = stored \cup S
  /\ UNCHANGED Skeleton

\* One atomic statement; an error may hide a commit whose answer was lost.
AllOrNothing(w) ==
  \/ Finish(w, "stored", batch[w])
  \/ \E S \in {{}, batch[w]} : Finish(w, "failed", S)

\* A pipelined pgx batch is one implicit transaction.
PostgresBatch(w)  == backend = "postgres"    /\ phase[w] = "writing" /\ AllOrNothing(w)
CockroachBatch(w) == backend = "cockroachdb" /\ phase[w] = "writing" /\ AllOrNothing(w)
\* One multi-row INSERT IGNORE.
MySQLBatch(w)     == backend = "mysql"       /\ phase[w] = "writing" /\ AllOrNothing(w)
\* CopyFrom, of loadgen-analytics.
CopyBatch(w)      == backend = "copy"        /\ phase[w] = "writing" /\ AllOrNothing(w)

\* An error may leave any documents out.
Stores(w) ==
  \/ Finish(w, "stored", batch[w])
  \/ \E S \in SUBSET batch[w] : Finish(w, "failed", S)

\* InsertMany with SetOrdered(false).
MongoBatch(w) == backend = "mongo" /\ phase[w] = "writing" /\ Stores(w)

\* Cassandra writes row after row and breaks at the first error.
CassandraRow(w) ==
  /\ backend = "cassandra"
  /\ phase[w] = "writing"
  /\ \E d \in batch[w] :
       /\ \A e \in batch[w] : d <= e
       /\ \/ /\ stored' = stored \cup {d}
             /\ batch' = [batch EXCEPT ![w] = @ \ {d}]
             /\ UNCHANGED <<phase, Skeleton>>
          \/ \E S \in {{}, {d}} : Finish(w, "rowFailed", S)

CassandraBatchEnd(w) ==
  /\ backend = "cassandra"
  /\ phase[w] = "writing"
  /\ batch[w] = {}
  /\ Finish(w, "stored", {})

\* PrepareBatch, then Append for every row.  A row that cannot be appended ends
\* the loop over the rows, and the rows before it are sent.
ClickHouseAppend(w) ==
  /\ backend = "clickhouse"
  /\ phase[w] = "writing"
  /\ \/ Finish(w, "failed", {})
     \/ To(w, "sending") /\ UNCHANGED <<batch, stored, Skeleton>>
     \/ \E d \in batch[w] :
          /\ To(w, "appendFailed")
          /\ batch' = [batch EXCEPT ![w] = {e \in @ : e < d}]
          /\ UNCHANGED <<stored, Skeleton>>

\* The rows of a batch fall into monthly partitions, each of which gets a part
\* of its own: a Send that fails may have stored some of them.
ClickHouseSend(w) ==
  /\ backend = "clickhouse"
  /\ phase[w] = "sending"
  /\ Stores(w)

WriteBatch(w) ==
  \/ PostgresBatch(w)
  \/ CockroachBatch(w)
  \/ MySQLBatch(w)
  \/ CopyBatch(w)
  \/ MongoBatch(w)
  \/ CassandraRow(w)
  \/ CassandraBatchEnd(w)
  \/ ClickHouseAppend(w)
  \/ ClickHouseSend(w)

-----------------------------------------------------------------------------
(* wg.Wait, and the answer.                                                *)

QueueEmpty == jobs = <<>>  \* mutant: no wg.Wait
AllGone    == \A w \in Workers : phase[w] = "gone"

Return ==
  /\ answer = "none"
  /\ closed
  /\ AllGone
  /\ answer' = IF failed THEN "error" ELSE "ok"
  /\ UNCHANGED <<backend, remaining, jobs, closed, phase, batch, stored, durs, failed>>

Done == answer # "none" /\ UNCHANGED vars

Init ==
  /\ backend \in Backends
  /\ remaining = Count
  /\ jobs = <<>>
  /\ closed = FALSE
  /\ phase = [w \in Workers |-> "idle"]
  /\ batch = [w \in Workers |-> {}]
  /\ stored = {}
  /\ durs = 0
  /\ failed = FALSE
  /\ answer = "none"

Work(w) == Take(w) \/ Leave(w) \/ RecordTime(w) \/ RecordError(w) \/ WriteBatch(w)

Caller == Cut \/ Close \/ Return

Next ==
  \/ \E w \in Workers : Work(w)
  \/ Caller
  \/ Done

Spec == Init /\ [][Next]_vars

\* Go schedules every goroutine that can run, and every driver call returns.
FairSpec == Spec /\ WF_vars(Caller) /\ WF_vars(\E w \in Workers : Work(w))

-----------------------------------------------------------------------------
(* Properties.                                                             *)

TypeOK ==
  /\ backend \in Backends
  /\ remaining \in 0 .. Count
  /\ jobs \in Seq(SUBSET Docs)
  /\ closed \in BOOLEAN
  /\ phase \in [Workers -> Phases]
  /\ batch \in [Workers -> SUBSET Docs]
  /\ stored \subseteq Docs
  /\ durs \in Nat
  /\ failed \in BOOLEAN
  /\ answer \in {"none", "ok", "error"}

Uncut   == Count - remaining + 1 .. Count
Queued  == UNION {jobs[i] : i \in 1 .. Len(jobs)}
Held    == UNION {batch[w] : w \in Workers}
Failing == \E w \in Workers : phase[w] \in {"failed", "rowFailed", "appendFailed"}

\* As long as no error is recorded or about to be, every document is in the
\* database or still on its way: none slips out between the caller's loop, the
\* channel and the workers.
NothingLost ==
  ~failed /\ ~Failing => Docs \subseteq stored \cup Uncut \cup Queued \cup Held

TotalBatches ==
  Count \div BatchSize + (IF Count % BatchSize # 0 THEN 1 ELSE 0)

\* A successful Insert returns one duration for each of the batches it made
\* room for: percentiles are computed over all of them.
OneTimePerBatch == answer = "ok" => durs = TotalBatches

\* Success is answered only when every document is stored, an error only after
\* one was recorded: the promise of AllOrError.
Promise == INSTANCE AllOrError WITH Items <- Docs, written <- stored, broken <- failed
Implements == Promise!Spec

\* Whatever fails, the caller is never left blocked on the full channel.
InsertReturns == <>(answer # "none")

=============================================================================
