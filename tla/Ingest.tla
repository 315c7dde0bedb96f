------------------------------- MODULE Ingest -------------------------------
(***************************************************************************)
(* The write phase of the four ingest load generators: loadgen-            *)
(* observability (Prometheus, VictoriaMetrics) and loadgen-monitoring      *)
(* (Prometheus, Zabbix) push series of samples, loadgen-logs (Loki,        *)
(* Elasticsearch) log entries, loadgen-tracing (Jaeger, Zipkin) traces.    *)
(*                                                                         *)
(* main prepares the backend, hands ranges of units to a pool of workers,  *)
(* waits for them, checks what a query finds (logs only) and reports.  Any *)
(* error is log.Fatalf.  A run may follow another one on the same volumes. *)
(*                                                                         *)
(* Zabbix needs an item for every series: Provision creates them in chunks *)
(* and probes item 0, while the server copies its database into the        *)
(* configuration cache, from which it decides what values to take, in its  *)
(* own time.                                                               *)
(***************************************************************************)
EXTENDS Integers, Sequences, FiniteSets

CONSTANTS
  Flags,         \* the command lines: see FlagType
  ItemChunk,     \* items created per item.create call
  SpansPerTrace

SeriesBackends == {"remotewrite", "zabbix"}
LogBackends    == {"loki", "elasticsearch"}
Backends       == SeriesBackends \cup LogBackends \cup {"spans"}

\* names is --series or --services.
FlagType == [backend : Backends, count : Nat, names : Nat, batch : Nat, workers : Nat]
ValidFlags(f) == f.count >= 1 /\ f.names >= 1 /\ f.batch >= 1 /\ f.workers >= 1

ASSUME FlagsAssumption == Flags \subseteq FlagType /\ \A f \in Flags : ValidFlags(f)
ASSUME SizesAssumption == ItemChunk \in Nat \ {0} /\ SpansPerTrace \in Nat \ {0}

VARIABLES
  flags,      \* the command line
  pc,         \* where main is
  created,    \* Zabbix: series whose item.create call has returned
  db,         \* Zabbix: the items in the server's database
  live,       \* Zabbix: the items in the server's configuration cache
  next,       \* the next unit to be cut into a batch
  jobs,       \* the channel of batches (sets of units)
  phase,      \* per worker: "idle", "pushing", "accepted", "refused", "gone"
  batch,      \* per worker: the units it pushes
  stored,     \* the units of this run that the backend has stored
  refreshed,  \* Elasticsearch: those stored when the index was last refreshed
  old,        \* the units that earlier runs have left on the volumes
  durs,       \* durations appended
  failed      \* firstErr # nil

pool    == <<next, jobs, phase, batch, durs, failed>>
server  == <<db, live, stored, refreshed, old>>
vars    == <<flags, pc, created, pool, server>>

PCs == {"login", "creating", "cutting", "waiting", "flushing", "verifying",
        "reported", "fatal"}

-----------------------------------------------------------------------------
(* How a command line is cut into units and batches.                       *)

AtLeastOne(n) == IF n < 1 THEN 1 ELSE n

SamplesPerSeries == AtLeastOne(flags.count \div flags.names)

NUnits ==
  CASE flags.backend \in SeriesBackends -> flags.names
    [] flags.backend \in LogBackends    -> flags.count
    [] flags.backend = "spans"          -> AtLeastOne(flags.count \div SpansPerTrace)

UnitsPerBatch ==
  CASE flags.backend \in SeriesBackends -> AtLeastOne(flags.batch \div SamplesPerSeries)
    [] flags.backend \in LogBackends    -> flags.batch
    [] flags.backend = "spans"          -> AtLeastOne(flags.batch \div SpansPerTrace)

Units   == 0 .. NUnits - 1
Workers == 1 .. flags.workers

\* The units from one up to, but not including, another or the end.
UnitsFrom(start, n) == {u \in Units : start <= u /\ u < start + n}

BatchStarts == {u \in Units : u % UnitsPerBatch = 0}

-----------------------------------------------------------------------------
(* Preparing the backend.                                                  *)

IsZabbix == flags.backend = "zabbix"

\* Elasticsearch's index may exist already; the others need nothing.
Setup ==
  /\ ~IsZabbix
  /\ pc = "login"
  /\ pc' \in {"cutting"} \cup (IF flags.backend = "elasticsearch" THEN {"fatal"} ELSE {})
  /\ UNCHANGED <<flags, created, pool, server>>

\* loginWithRetry has a deadline; host group and host are created if absent.
Login ==
  /\ IsZabbix
  /\ pc = "login"
  /\ pc' \in {"creating", "fatal"}
  /\ UNCHANGED <<flags, created, pool, server>>

\* item.create is all or nothing, and refuses a key that exists.
AlwaysCreatable(items) == TRUE  \* mutant: a key that exists is taken for created
Creatable(items)       == items \cap db = {}

ItemsEnd(start) == IF start + ItemChunk < NUnits THEN start + ItemChunk ELSE NUnits

ItemsShort(start) == UnitsFrom(start, ItemChunk - 1)  \* mutant: the slice ends one early
ItemsOf(start)    == UnitsFrom(start, ItemChunk)

CreateItems ==
  /\ IsZabbix
  /\ pc = "creating"
  /\ created < NUnits
  /\ LET items == ItemsOf(created) IN
       \/ /\ Creatable(items)
          /\ db' = db \cup items
          /\ \/ created' = ItemsEnd(created) /\ UNCHANGED pc
             \/ pc' = "fatal" /\ UNCHANGED created  \* the reply is lost
       \/ /\ pc' = "fatal"
          /\ UNCHANGED <<db, created>>
  /\ UNCHANGED <<flags, pool, live, stored, refreshed, old>>

\* waitItemsActive sends a value for item 0 until it is processed, or until
\* the deadline; a refused probe changes nothing.
Probe ==
  /\ IsZabbix
  /\ pc = "creating"
  /\ created = NUnits
  /\ \/ 0 \in live /\ pc' = "cutting"
     \/ pc' = "fatal"
  /\ UNCHANGED <<flags, created, pool, server>>

\* The server reloads its configuration cache.
RefreshCache ==
  /\ IsZabbix
  /\ live' = db
  /\ UNCHANGED <<flags, pc, created, pool, db, stored, refreshed, old>>

-----------------------------------------------------------------------------
(* The pool.                                                               *)

Cut ==
  /\ pc = "cutting"
  /\ next < NUnits
  /\ Len(jobs) < 2 * flags.workers
  /\ jobs' = Append(jobs, UnitsFrom(next, UnitsPerBatch))
  /\ next' = next + UnitsPerBatch
  /\ UNCHANGED <<flags, pc, created, phase, batch, durs, failed, server>>

Close ==
  /\ pc = "cutting"
  /\ next >= NUnits
  /\ pc' = "waiting"
  /\ UNCHANGED <<flags, created, pool, server>>

Take(w) ==
  /\ phase[w] = "idle"
  /\ jobs # <<>>
  /\ batch' = [batch EXCEPT ![w] = Head(jobs)]
  /\ jobs' = Tail(jobs)
  /\ phase' = [phase EXCEPT ![w] = "pushing"]
  /\ UNCHANGED <<flags, pc, created, next, durs, failed, server>>

\* The backend has kept some units of the batch, and Push returns nil or an
\* error; the reply to a request that was served may be lost on the way.
Pushed(w, kept, answers) ==
  /\ phase[w] = "pushing"
  /\ stored' = stored \cup kept
  /\ \E a \in answers : phase' = [phase EXCEPT ![w] = a]
  /\ UNCHANGED <<flags, pc, created, next, jobs, batch, durs, failed, db, live,
                 refreshed, old>>

\* remote_write is all or nothing.
PushSeries(w) ==
  /\ flags.backend = "remotewrite"
  /\ \/ Pushed(w, batch[w], {"accepted", "refused"})
     \/ Pushed(w, {}, {"refused"})

\* The trapper skips the values of items it does not know and counts the
\* others; only a count of zero is an error.
NoneProcessed(units) == units = {}

PushValues(w) ==
  /\ IsZabbix
  /\ LET kept == batch[w] \cap live IN
       \/ Pushed(w, kept, IF NoneProcessed(kept) THEN {"refused"}
                          ELSE {"accepted", "refused"})
       \/ Pushed(w, {}, {"refused"})

\* A bulk request may store some entries and not others, and says so.
StatusOnly(units, kept)      == TRUE  \* mutant: resp.Errors is not looked at
AllItemsCreated(units, kept) == kept = units

PushEntries(w) ==
  /\ flags.backend \in LogBackends
  /\ \E kept \in SUBSET batch[w] :
       Pushed(w, kept, IF AllItemsCreated(batch[w], kept) THEN {"accepted", "refused"}
                       ELSE {"refused"})

\* Collectors answer before they store, and may drop what they have accepted.
PushSpans(w) ==
  /\ flags.backend = "spans"
  /\ \E kept \in SUBSET batch[w] : Pushed(w, kept, {"accepted", "refused"})

RecordTime(w) ==
  /\ phase[w] = "accepted"
  /\ durs' = durs + 1
  /\ phase' = [phase EXCEPT ![w] = "idle"]
  /\ UNCHANGED <<flags, pc, created, next, jobs, batch, failed, server>>

StopWorker == "gone"  \* mutant: return instead of continue
AfterError == "idle"

RecordError(w) ==
  /\ phase[w] = "refused"
  /\ failed' = TRUE
  /\ phase' = [phase EXCEPT ![w] = AfterError]
  /\ UNCHANGED <<flags, pc, created, next, jobs, batch, durs, server>>

Leave(w) ==
  /\ phase[w] = "idle"
  /\ jobs = <<>>
  /\ pc = "waiting"
  /\ phase' = [phase EXCEPT ![w] = "gone"]
  /\ UNCHANGED <<flags, pc, created, next, jobs, batch, durs, failed, server>>

AllGone    == \A w \in Workers : phase[w] = "gone"

Wait ==
  /\ pc = "waiting"
  /\ AllGone
  /\ pc' = IF failed THEN "fatal"
           ELSE IF flags.backend \in LogBackends THEN "flushing"
           ELSE "reported"
  /\ UNCHANGED <<flags, created, pool, server>>

-----------------------------------------------------------------------------
(* Logs: making the entries queryable and looking for one.                 *)

\* Elasticsearch's index is refreshed by request only.
Visible == IF flags.backend = "elasticsearch" THEN refreshed ELSE stored

Flush ==
  /\ pc = "flushing"
  /\ \/ /\ pc' = "verifying"
        /\ refreshed' = IF flags.backend = "elasticsearch" THEN stored ELSE refreshed
     \/ /\ flags.backend = "elasticsearch"
        /\ pc' = "fatal"
        /\ UNCHANGED refreshed
  /\ UNCHANGED <<flags, created, pool, db, live, stored, old>>

\* Indexed counts the entries of the first service, whichever run wrote them.
Indexed == {u \in Visible \cup old : u % flags.names = 0}

Verify ==
  /\ pc = "verifying"
  /\ \/ Indexed # {} /\ pc' = "reported"
     \/ pc' = "fatal"
  /\ UNCHANGED <<flags, created, pool, server>>

-----------------------------------------------------------------------------

Init ==
  /\ flags \in Flags
  /\ db = {}
  /\ live = {}
  /\ old = {}
  /\ pc = "login"
  /\ created = 0
  /\ next = 0
  /\ jobs = <<>>
  /\ phase = [w \in Workers |-> "idle"]
  /\ batch = [w \in Workers |-> {}]
  /\ stored = {}
  /\ refreshed = {}
  /\ durs = 0
  /\ failed = FALSE

\* run.sh starts the program again, on the same volumes or on fresh ones.
StartStack ==
  /\ pc \in {"reported", "fatal"}
  /\ \/ old' = old \cup stored /\ UNCHANGED <<db, live>>
     \/ old' = {} /\ db' = {} /\ live' = {}
  /\ pc' = "login"
  /\ created' = 0
  /\ next' = 0
  /\ jobs' = <<>>
  /\ phase' = [w \in Workers |-> "idle"]
  /\ batch' = [w \in Workers |-> {}]
  /\ stored' = {}
  /\ refreshed' = {}
  /\ durs' = 0
  /\ failed' = FALSE
  /\ UNCHANGED flags

Provision == Setup \/ Login \/ CreateItems \/ Probe
Main      == Provision \/ Cut \/ Close \/ Wait \/ Flush \/ Verify
Push(w)   == PushSeries(w) \/ PushValues(w) \/ PushEntries(w) \/ PushSpans(w)
Work(w)   == Take(w) \/ Push(w) \/ RecordTime(w) \/ RecordError(w) \/ Leave(w)

Next ==
  \/ Main
  \/ \E w \in Workers : Work(w)
  \/ RefreshCache
  \/ StartStack

Spec == Init /\ [][Next]_vars

\* Requests have timeouts and polls have deadlines.
FairSpec == Spec /\ WF_vars(Main) /\ WF_vars(\E w \in Workers : Work(w))

-----------------------------------------------------------------------------
(* Properties.                                                             *)

TypeOK ==
  /\ flags \in Flags
  /\ pc \in PCs
  /\ created \in 0 .. NUnits
  /\ db \subseteq Units /\ live \subseteq Units
  /\ next \in Nat
  /\ Len(jobs) <= 2 * flags.workers
  /\ \A i \in DOMAIN jobs : jobs[i] \subseteq Units /\ jobs[i] # {}
  /\ phase \in [Workers -> {"idle", "pushing", "accepted", "refused", "gone"}]
  /\ batch \in [Workers -> SUBSET Units]
  /\ stored \subseteq Units /\ old \subseteq Units /\ refreshed \subseteq stored
  /\ durs \in 0 .. Cardinality(BatchStarts)
  /\ failed \in BOOLEAN

\* A write that is reported has all of its series or log entries in a place
\* where queries find them, also when a bulk request stored only some of them.
ReportedIsQueryable ==
  pc = "reported" /\ flags.backend \in {"remotewrite", "loki", "elasticsearch"} =>
    Visible = Units

\* Zabbix: the items created together with item 0 are live when it is, so a
\* reported write has lost no value of theirs; with no more series than
\* itemChunk it has lost none at all.
FirstChunkStored ==
  pc = "reported" /\ IsZabbix => UnitsFrom(0, ItemChunk) \subseteq stored

\* Zabbix: a run on volumes that hold another run's data is never reported,
\* "so the full run's data isn't mixed with the smoke-test data".
RunsNotMixed == pc = "reported" /\ IsZabbix => old = {}

\* Whatever fails, every run comes to an end.
RunEnds == []<>(pc \in {"reported", "fatal"})

-----------------------------------------------------------------------------
(* What a comment says, and the code does not do.                          *)

\* Provision "creates seriesN trapper items, and waits until the server's
\* config cache has picked them up (so the trapper will accept values)".
ItemsActive == IsZabbix /\ pc \in {"cutting", "waiting", "reported"} => Units \subseteq live

=============================================================================
