---------------------------- MODULE Insert_proofs ----------------------------
(***************************************************************************)
(* Insert keeps the promise of AllOrError for any number of workers,       *)
(* documents and batch size.                                               *)
(***************************************************************************)
EXTENDS Insert, FiniteSetTheorems, TLAPS

\* The channel neither loses nor invents documents.
LEMMA AppendKeeps ==
  ASSUME NEW S, NEW s \in Seq(SUBSET S), NEW x \in SUBSET S
  PROVE  /\ Append(s, x) \in Seq(SUBSET S)
         /\ (UNION {s[i] : i \in 1 .. Len(s)}) \cup x
              \subseteq UNION {Append(s, x)[i] : i \in 1 .. Len(Append(s, x))}
<1> DEFINE t == Append(s, x)
<1>1. t \in Seq(SUBSET S) /\ Len(t) = Len(s) + 1
  OBVIOUS
<1>2. \A i \in 1 .. Len(s) : t[i] = s[i]
  OBVIOUS
<1>3. t[Len(s) + 1] = x
  OBVIOUS
<1>4. Len(s) \in Nat
  OBVIOUS
<1> HIDE DEF t
<1>5. \A i \in 1 .. Len(s) : s[i] \subseteq UNION {t[j] : j \in 1 .. Len(t)}
  BY <1>1, <1>2, <1>4
<1>6. x \subseteq UNION {t[j] : j \in 1 .. Len(t)}
  BY <1>1, <1>3, <1>4
<1>7. QED
  BY <1>1, <1>5, <1>6 DEF t

\* Taking the head leaves the rest.
LEMMA TailKeeps ==
  ASSUME NEW S, NEW s \in Seq(SUBSET S), s # <<>>
  PROVE  /\ Head(s) \in SUBSET S
         /\ Tail(s) \in Seq(SUBSET S)
         /\ UNION {s[i] : i \in 1 .. Len(s)}
              \subseteq Head(s) \cup UNION {Tail(s)[i] : i \in 1 .. Len(Tail(s))}
<1> DEFINE t == Tail(s)
<1>1. Head(s) \in SUBSET S /\ t \in Seq(SUBSET S) /\ Len(t) = Len(s) - 1 /\ Len(s) \in Nat
  OBVIOUS
<1>2. s[1] = Head(s)
  OBVIOUS
<1>3. \A i \in 1 .. Len(t) : t[i] = s[i + 1]
  OBVIOUS
<1> HIDE DEF t
<1>4. ASSUME NEW i \in 1 .. Len(s)
      PROVE  s[i] \subseteq Head(s) \cup UNION {t[j] : j \in 1 .. Len(t)}
  <2>1. CASE i = 1
    BY <2>1, <1>2
  <2>2. CASE i # 1
    <3>1. i - 1 \in 1 .. Len(t) /\ t[i - 1] = s[i]
      BY <2>2, <1>1, <1>3
    <3>2. QED
      BY <3>1
  <2>3. QED
    BY <2>1, <2>2
<1>5. QED
  BY <1>1, <1>4 DEF t

-----------------------------------------------------------------------------

\* What the workers leave behind: only a worker at a batch has documents left to
\* write, one that has gone saw the closed channel empty, and the answer comes
\* after all of them.
Settled ==
  /\ closed => remaining = 0
  /\ \A w \in Workers :
       /\ phase[w] = "gone" => closed /\ jobs = <<>>
       /\ phase[w] \notin {"writing", "sending", "appendFailed"} => batch[w] = {}
  /\ answer # "none" => AllGone

IInv == TypeOK /\ NothingLost /\ Settled

\* The invariant holds when Insert starts.
LEMMA InitIInv == Init => IInv
<1> SUFFICES ASSUME Init PROVE IInv
  OBVIOUS
<1> USE SizesAssumption DEF Init
<1>1. TypeOK
  <2>1. jobs \in Seq(SUBSET Docs)
    BY DEF Docs
  <2>2. phase \in [Workers -> Phases] /\ batch \in [Workers -> SUBSET Docs]
    BY DEF Phases, Docs
  <2>3. remaining \in 0 .. Count /\ stored \subseteq Docs
    OBVIOUS
  <2>4. QED
    BY <2>1, <2>2, <2>3 DEF TypeOK
<1>2. NothingLost
  BY DEF NothingLost, Uncut, Docs
<1>3. Settled
  BY DEF Settled
<1>4. QED
  BY <1>1, <1>2, <1>3 DEF IInv

\* The caller's next batch consists of documents nobody had before, and cutting
\* it leaves exactly the others.
LEMMA CutFacts ==
  ASSUME TypeOK, Cut
  PROVE  /\ NextDocs \subseteq Docs
         /\ remaining' \in 0 .. Count
         /\ Uncut \subseteq NextDocs \cup Uncut'
<1> USE SizesAssumption DEF TypeOK, Cut, NextDocs, Docs, Uncut, BatchLen
<1>1. CASE remaining < BatchSize
  BY <1>1
<1>2. CASE ~(remaining < BatchSize)
  BY <1>2
<1>3. QED
  BY <1>1, <1>2

\* A step at a batch concerns one worker and none of the shared bookkeeping.
LEMMA WriteFrame ==
  ASSUME TypeOK, NEW w \in Workers, WriteBatch(w)
  PROVE  /\ phase[w] \in {"writing", "sending"}
         /\ phase'[w] \in Phases \ {"idle", "gone"}
         /\ phase' = [phase EXCEPT ![w] = phase'[w]]
         /\ batch' = [batch EXCEPT ![w] = batch'[w]]
         /\ batch'[w] \subseteq batch[w]
         /\ phase'[w] \notin {"writing", "sending", "appendFailed"} => batch'[w] = {}
         /\ stored \subseteq stored' /\ stored' \subseteq stored \cup batch[w]
         /\ UNCHANGED Skeleton
<1> USE DEF Finish, To, AllOrNothing, Stores, TypeOK, Phases
<1>1. CASE PostgresBatch(w) \/ CockroachBatch(w) \/ MySQLBatch(w) \/ CopyBatch(w)
  BY <1>1 DEF PostgresBatch, CockroachBatch, MySQLBatch, CopyBatch
<1>2. CASE MongoBatch(w)
  BY <1>2 DEF MongoBatch
<1>3. CASE CassandraRow(w)
  BY <1>3 DEF CassandraRow
<1>4. CASE CassandraBatchEnd(w)
  BY <1>4 DEF CassandraBatchEnd
<1>5. CASE ClickHouseAppend(w)
  BY <1>5 DEF ClickHouseAppend
<1>6. CASE ClickHouseSend(w)
  BY <1>6 DEF ClickHouseSend
<1>7. QED
  BY <1>1, <1>2, <1>3, <1>4, <1>5, <1>6 DEF WriteBatch

\* Unless the worker is left with an error to record, the documents of its batch
\* are stored or still with it.
LEMMA WriteKeeps ==
  ASSUME TypeOK, NEW w \in Workers, WriteBatch(w), ~Failing'
  PROVE  stored \cup batch[w] \subseteq stored' \cup batch'[w]
<1>1. phase'[w] \notin {"failed", "rowFailed", "appendFailed"}
  BY DEF Failing
<1> USE <1>1 DEF Finish, To, AllOrNothing, Stores, TypeOK
<1>2. CASE PostgresBatch(w) \/ CockroachBatch(w) \/ MySQLBatch(w) \/ CopyBatch(w)
  BY <1>2 DEF PostgresBatch, CockroachBatch, MySQLBatch, CopyBatch
<1>3. CASE MongoBatch(w)
  BY <1>3 DEF MongoBatch
<1>4. CASE CassandraRow(w)
  BY <1>4 DEF CassandraRow
<1>5. CASE CassandraBatchEnd(w)
  BY <1>5 DEF CassandraBatchEnd
<1>6. CASE ClickHouseAppend(w)
  BY <1>6 DEF ClickHouseAppend
<1>7. CASE ClickHouseSend(w)
  BY <1>7 DEF ClickHouseSend
<1>8. QED
  BY <1>2, <1>3, <1>4, <1>5, <1>6, <1>7 DEF WriteBatch

\* Every step keeps the types.
LEMMA TypeStep == TypeOK /\ [Next]_vars => TypeOK'
<1> SUFFICES ASSUME TypeOK, [Next]_vars PROVE TypeOK'
  OBVIOUS
<1> USE DEF TypeOK, Phases
<1>1. CASE UNCHANGED vars
  BY <1>1 DEF vars
<1>2. CASE Cut
  BY <1>2, CutFacts, AppendKeeps DEF Cut
<1>3. CASE Close
  BY <1>3 DEF Close
<1>4. CASE Return
  BY <1>4 DEF Return
<1>5. ASSUME NEW w \in Workers, Take(w) PROVE TypeOK'
  BY <1>5, TailKeeps DEF Take
<1>6. ASSUME NEW w \in Workers, Leave(w) PROVE TypeOK'
  BY <1>6 DEF Leave
<1>7. ASSUME NEW w \in Workers, RecordTime(w) PROVE TypeOK'
  BY <1>7 DEF RecordTime
<1>8. ASSUME NEW w \in Workers, RecordError(w) PROVE TypeOK'
  BY <1>8 DEF RecordError, AfterError, SetErr
<1>9. ASSUME NEW w \in Workers, WriteBatch(w) PROVE TypeOK'
  BY <1>9, WriteFrame DEF Skeleton
<1>10. QED
  BY <1>1, <1>2, <1>3, <1>4, <1>5, <1>6, <1>7, <1>8, <1>9 DEF Next, Work, Caller, Done

\* Every document is in the database, on its way, or covered by an error.
LEMMA NothingLostStep ==
  TypeOK /\ NothingLost /\ Settled /\ [Next]_vars => NothingLost'
<1> SUFFICES ASSUME TypeOK, NothingLost, Settled, [Next]_vars,
                    ~failed', ~Failing'
             PROVE  Docs \subseteq stored' \cup Uncut' \cup Queued' \cup Held'
  BY DEF NothingLost
<1>1. CASE UNCHANGED vars
  BY <1>1 DEF vars, NothingLost, Uncut, Queued, Held, Failing
<1>2. CASE Cut
  <2>1. Queued \cup NextDocs \subseteq Queued'
    BY <1>2, CutFacts, AppendKeeps DEF Cut, Queued, TypeOK
  <2>2. Uncut \subseteq NextDocs \cup Uncut'
    BY <1>2, CutFacts
  <2>3. UNCHANGED <<stored, Held, Failing, failed>>
    BY <1>2 DEF Cut, Held, Failing
  <2>4. QED
    BY <2>1, <2>2, <2>3 DEF NothingLost
<1>3. CASE Close
  BY <1>3 DEF Close, NothingLost, Uncut, Queued, Held, Failing
<1>4. CASE Return
  BY <1>4 DEF Return, NothingLost, Uncut, Queued, Held, Failing
<1>5. ASSUME NEW w \in Workers, Take(w)
      PROVE  Docs \subseteq stored' \cup Uncut' \cup Queued' \cup Held'
  <2>1. Queued \subseteq Head(jobs) \cup Queued'
    <3>1. jobs \in Seq(SUBSET Docs) /\ jobs # <<>> /\ jobs' = Tail(jobs)
      BY <1>5 DEF Take, TypeOK
    <3>2. QED
      BY <3>1, TailKeeps DEF Queued
  <2>2. Head(jobs) \subseteq Held'
    BY <1>5 DEF Take, Held, TypeOK
  <2>3. Held \subseteq Held'
    BY <1>5 DEF Take, Held, TypeOK, Settled
  <2>4. UNCHANGED <<stored, Uncut, failed>> /\ ~Failing
    BY <1>5 DEF Take, Uncut, Failing, TypeOK
  <2>5. QED
    BY <2>1, <2>2, <2>3, <2>4 DEF NothingLost
<1>6. ASSUME NEW w \in Workers, Leave(w) \/ RecordTime(w)
      PROVE  Docs \subseteq stored' \cup Uncut' \cup Queued' \cup Held'
  <2>1. UNCHANGED <<stored, Uncut, Queued, Held, failed>> /\ ~Failing
    BY <1>6 DEF Leave, RecordTime, Uncut, Queued, Held, Failing, TypeOK
  <2>2. QED
    BY <2>1 DEF NothingLost
<1>7. ASSUME NEW w \in Workers, RecordError(w)
      PROVE  Docs \subseteq stored' \cup Uncut' \cup Queued' \cup Held'
  BY <1>7 DEF RecordError, SetErr
<1>8. ASSUME NEW w \in Workers, WriteBatch(w)
      PROVE  Docs \subseteq stored' \cup Uncut' \cup Queued' \cup Held'
  <2>0. \A v \in Workers \ {w} : phase'[v] = phase[v] /\ batch'[v] = batch[v]
    BY <1>8, WriteFrame DEF TypeOK
  <2>1. stored \cup batch[w] \subseteq stored' \cup batch'[w]
    BY <1>8, WriteKeeps
  <2>2. Held \subseteq batch[w] \cup Held'
    BY <1>8, <2>0 DEF Held
  <2>3. UNCHANGED <<Uncut, Queued, failed>> /\ ~Failing
    <3>1. UNCHANGED <<remaining, jobs, failed>>
      BY <1>8, WriteFrame DEF Skeleton
    <3>2. phase[w] \notin {"failed", "rowFailed", "appendFailed"}
      BY <1>8, WriteFrame
    <3>3. QED
      BY <2>0, <3>1, <3>2 DEF Uncut, Queued, Failing
  <2>4. batch'[w] \subseteq Held'
    BY DEF Held
  <2>5. QED
    BY <2>1, <2>2, <2>3, <2>4 DEF NothingLost
<1>9. QED
  BY <1>1, <1>2, <1>3, <1>4, <1>5, <1>6, <1>7, <1>8 DEF Next, Work, Caller, Done

\* Workers leave only when the channel is closed and empty, and the caller after them.
LEMMA SettledStep == TypeOK /\ Settled /\ [Next]_vars => Settled'
<1> SUFFICES ASSUME TypeOK, Settled, [Next]_vars PROVE Settled'
  OBVIOUS
<1> USE DEF Settled, AllGone, TypeOK
<1>1. CASE UNCHANGED vars
  BY <1>1 DEF vars
<1>2. CASE Cut
  <2>1. ~closed
    BY <1>2 DEF Cut
  <2>2. QED
    BY <1>2, <2>1, WorkersAssumption DEF Cut
<1>3. CASE Close
  <2>1. \A w \in Workers : phase[w] # "gone"
    BY <1>3 DEF Close
  <2>2. QED
    BY <1>3, <2>1, WorkersAssumption DEF Close
<1>4. CASE Return
  BY <1>4 DEF Return
<1>5. ASSUME NEW w \in Workers, Work(w) PROVE Settled'
  <2>1. answer = "none"
    BY <1>5 DEF Work, Take, Leave, RecordTime, RecordError, WriteBatch,
       PostgresBatch, CockroachBatch, MySQLBatch, CopyBatch, MongoBatch, Stores,
       CassandraRow, CassandraBatchEnd, ClickHouseAppend, ClickHouseSend
  <2>2. CASE Take(w)
    <3>1. \A v \in Workers : phase[v] # "gone"
      BY <2>2 DEF Take
    <3>2. \A v \in Workers : phase'[v] # "gone"
      BY <2>2, <3>1 DEF Take
    <3>3. \A v \in Workers :
             phase'[v] \notin {"writing", "sending", "appendFailed"} => batch'[v] = {}
      BY <2>2 DEF Take
    <3>4. QED
      BY <2>1, <2>2, <3>2, <3>3 DEF Take
  <2>3. CASE Leave(w)
    BY <2>1, <2>3 DEF Leave
  <2>4. CASE RecordTime(w)
    BY <2>1, <2>4 DEF RecordTime
  <2>5. CASE RecordError(w)
    BY <2>1, <2>5 DEF RecordError, AfterError, Phases
  <2>6. CASE WriteBatch(w)
    <3>1. \A v \in Workers \ {w} : phase'[v] = phase[v] /\ batch'[v] = batch[v]
      BY <2>6, WriteFrame
    <3>2. UNCHANGED <<remaining, jobs, closed, answer>>
      BY <2>6, WriteFrame DEF Skeleton
    <3>3. /\ phase'[w] # "gone"
          /\ phase'[w] \notin {"writing", "sending", "appendFailed"} => batch'[w] = {}
      BY <2>6, WriteFrame
    <3>4. QED
      BY <2>1, <3>1, <3>2, <3>3
  <2>7. QED
    BY <1>5, <2>2, <2>3, <2>4, <2>5, <2>6 DEF Work
<1>6. QED
  BY <1>1, <1>2, <1>3, <1>4, <1>5 DEF Next, Caller, Done

\* Types, documents and the end of the workers make one invariant.
LEMMA Inductive == Spec => []IInv
<1>1. IInv /\ [Next]_vars => IInv'
  BY TypeStep, NothingLostStep, SettledStep DEF IInv
<1>2. QED
  BY InitIInv, <1>1, PTL DEF Spec

-----------------------------------------------------------------------------

\* The type invariant of Insert: channel, batches and counters keep their shape
\* whatever the backend does with a batch.
THEOREM TypeCorrect == Spec => []TypeOK
BY Inductive, PTL DEF IInv

\* No document slips out between the caller's loop, the channel and the workers:
\* as long as nothing failed it is stored or still on its way.
THEOREM NoDocumentLost == Spec => []NothingLost
BY Inductive, PTL DEF IInv

\* When wg.Wait returns and no error was kept, every document is stored.
LEMMA OkMeansStored ==
  ASSUME IInv, Return, ~failed
  PROVE  stored = Docs
<1>1. closed /\ AllGone
  BY DEF Return
<1>2. remaining = 0 /\ jobs = <<>> /\ \A w \in Workers : batch[w] = {}
  BY <1>1, WorkersAssumption DEF IInv, Settled, AllGone
<1>3. ~Failing
  BY <1>1 DEF AllGone, Failing
<1>4. Uncut = {}
  BY <1>2, SizesAssumption DEF Uncut
<1>5. Queued = {} /\ Held = {}
  BY <1>2 DEF Queued, Held
<1>6. QED
  BY <1>3, <1>4, <1>5 DEF IInv, NothingLost, TypeOK

\* Every step of Insert is a step of AllOrError on what the caller can see.
LEMMA StepSimulated ==
  ASSUME IInv, [Next]_vars
  PROVE  [Promise!Next]_(Promise!vars)
<1> USE DEF Promise!Next, Promise!vars
<1>1. CASE UNCHANGED vars
  BY <1>1 DEF vars
<1>2. CASE Cut \/ Close
  BY <1>2 DEF Cut, Close
<1>3. CASE Return
  <2>1. Promise!Answer
    BY <1>3, OkMeansStored DEF Return, Promise!Answer, IInv, TypeOK
  <2>2. QED
    BY <2>1
<1>4. ASSUME NEW w \in Workers, Take(w) \/ Leave(w) \/ RecordTime(w)
      PROVE  [Promise!Next]_(Promise!vars)
  BY <1>4 DEF Take, Leave, RecordTime
<1>5. ASSUME NEW w \in Workers, RecordError(w)
      PROVE  [Promise!Next]_(Promise!vars)
  <2>1. answer = "none"
    BY <1>5 DEF RecordError, IInv, Settled, AllGone
  <2>2. Promise!Break
    BY <1>5, <2>1 DEF RecordError, SetErr, Promise!Break
  <2>3. QED
    BY <2>2
<1>6. ASSUME NEW w \in Workers, WriteBatch(w)
      PROVE  [Promise!Next]_(Promise!vars)
  <2>1. /\ phase[w] # "gone"
        /\ stored \subseteq stored' /\ stored' \subseteq Docs
        /\ UNCHANGED <<failed, answer>>
    BY <1>6, WriteFrame DEF IInv, TypeOK, Skeleton
  <2>2. answer = "none"
    BY <2>1 DEF IInv, Settled, AllGone
  <2>3. Promise!Write(stored')
    BY <2>1, <2>2 DEF Promise!Write
  <2>4. stored' \in SUBSET Docs
    BY <2>1
  <2>5. QED
    BY <2>3, <2>4
<1>7. QED
  BY <1>1, <1>2, <1>3, <1>4, <1>5, <1>6 DEF Next, Work, Caller, Done

\* Insert implements AllOrError: it answers "ok" only when every document is
\* stored and "error" only after recording one, for every backend.
THEOREM Refinement == Spec => Implements
<1>1. Init => Promise!Init
  BY DEF Init, Promise!Init
<1>2. IInv /\ [Next]_vars => [Promise!Next]_(Promise!vars)
  BY StepSimulated
<1>3. QED
  BY <1>1, <1>2, Inductive, PTL DEF Spec, Implements, Promise!Spec

-----------------------------------------------------------------------------
(* One duration for each batch.                                            *)

\* The workers whose batch is under way, without an error.
Busy == {w \in Workers : phase[w] \in {"writing", "sending", "stored"}}

\* Batches neither timed, nor with a worker, nor in the channel.
Pending == TotalBatches - durs - Len(jobs) - Cardinality(Busy)

\* Those are as many as the documents that are not cut yet fill, the last one
\* perhaps in part.
OneEach ==
  ~failed /\ ~Failing =>
    Pending * BatchSize >= remaining /\ (Pending - 1) * BatchSize < remaining

OkClean == answer = "ok" => ~failed

\* TotalBatches is Count / BatchSize, rounded up.
LEMMA TotalRoundsUp ==
  /\ TotalBatches \in Nat
  /\ TotalBatches * BatchSize >= Count
  /\ (TotalBatches - 1) * BatchSize < Count
<1> DEFINE q == Count \div BatchSize
           r == Count % BatchSize
<1>1. q \in Nat /\ r \in 0 .. BatchSize - 1 /\ Count = BatchSize * q + r
  BY SizesAssumption
<1>2. TotalBatches = q + IF r # 0 THEN 1 ELSE 0
  BY DEF TotalBatches
<1> HIDE DEF q, r
<1>3. CASE r = 0 BY <1>1, <1>2, <1>3, SizesAssumption
<1>4. CASE r # 0
  <2>1. (q + 1) * BatchSize = BatchSize * q + BatchSize
    BY <1>1, SizesAssumption
  <2> QED BY <1>1, <1>2, <1>4, <2>1, SizesAssumption
<1> QED BY <1>3, <1>4

\* The pending batches after one has been cut off.
LEMMA OneLess ==
  ASSUME NEW k \in Int, NEW r \in Nat, NEW b \in Nat \ {0}, r > 0,
         k * b >= r, (k - 1) * b < r
  PROVE  LET n == IF r < b THEN 0 ELSE r - b IN
           (k - 1) * b >= n /\ (k - 2) * b < n
<1>1. (k - 1) * b = k * b - b /\ (k - 2) * b = k * b - 2 * b
  OBVIOUS
<1>2. CASE r >= b BY <1>1, <1>2
<1>3. CASE r < b
  <2>1. k > 0
    <3> SUFFICES ASSUME k <= 0 PROVE k * b <= 0
      OBVIOUS
    <3> QED OBVIOUS
  <2>2. k < 2
    <3> SUFFICES ASSUME k - 1 >= 1 PROVE (k - 1) * b >= b
      BY <1>3
    <3> QED OBVIOUS
  <2>3. k = 1
    BY <2>1, <2>2
  <2> QED BY <1>3, <2>3
<1> QED BY <1>2, <1>3

\* Busy workers can be counted.
LEMMA BusyFinite == IsFiniteSet(Busy) /\ Cardinality(Busy) \in Nat
BY WorkersAssumption, FS_Subset, FS_CardinalityType DEF Busy

\* An error that is noticed stays noticed.
LEMMA ErrorsStay ==
  ASSUME TypeOK, [Next]_vars, ~failed', ~Failing'
  PROVE  ~failed /\ ~Failing
<1> USE DEF TypeOK, Failing
<1>1. CASE UNCHANGED vars BY <1>1 DEF vars
<1>2. CASE Caller BY <1>2 DEF Caller, Cut, Close, Return
<1>3. ASSUME NEW w \in Workers, Take(w) \/ Leave(w) \/ RecordTime(w) PROVE ~failed /\ ~Failing
  BY <1>3 DEF Take, Leave, RecordTime
<1>4. ASSUME NEW w \in Workers, RecordError(w) PROVE FALSE
  BY <1>4 DEF RecordError, SetErr
<1>5. ASSUME NEW w \in Workers, WriteBatch(w) PROVE ~failed /\ ~Failing
  BY <1>5, WriteFrame DEF Skeleton
<1> QED BY <1>1, <1>2, <1>3, <1>4, <1>5 DEF Next, Work, Done

\* A batch is pending, queued, with a worker, or timed.
LEMMA OneEachStep == TypeOK /\ OneEach /\ [Next]_vars => OneEach'
<1> SUFFICES ASSUME TypeOK, OneEach, [Next]_vars, ~failed', ~Failing'
             PROVE  /\ Pending' * BatchSize >= remaining'
                    /\ (Pending' - 1) * BatchSize < remaining'
  BY DEF OneEach
<1>1. Pending * BatchSize >= remaining /\ (Pending - 1) * BatchSize < remaining
  BY ErrorsStay DEF OneEach
<1>2. /\ TotalBatches \in Nat /\ TotalBatches' = TotalBatches
      /\ Len(jobs) \in Nat /\ durs \in Nat /\ Cardinality(Busy) \in Nat
  BY TotalRoundsUp, BusyFinite DEF TypeOK, TotalBatches
<1>3. ASSUME remaining' = remaining, Pending' = Pending
      PROVE  Pending' * BatchSize >= remaining' /\ (Pending' - 1) * BatchSize < remaining'
  BY <1>1, <1>3
<1>4. CASE UNCHANGED vars BY <1>3, <1>4, <1>2 DEF vars, Pending, Busy
<1>5. CASE Close \/ Return BY <1>2, <1>3, <1>5 DEF Close, Return, Pending, Busy
<1>6. CASE Cut
  <2>1. remaining \in Nat /\ remaining > 0 /\ Pending \in Int /\ BatchSize \in Nat \ {0}
    BY <1>2, <1>6, SizesAssumption DEF Cut, TypeOK, Pending
  <2>2. remaining' = IF remaining < BatchSize THEN 0 ELSE remaining - BatchSize
    BY <1>6, <2>1 DEF Cut, BatchLen
  <2>3. Busy' = Busy /\ Len(jobs') = Len(jobs) + 1 /\ durs' = durs
    BY <1>6 DEF Cut, Busy, TypeOK
  <2>4. Pending' = Pending - 1
    BY <1>2, <2>3 DEF Pending
  <2>5. (Pending - 1) * BatchSize >= remaining' /\ (Pending - 2) * BatchSize < remaining'
    BY <1>1, <2>1, <2>2, OneLess
  <2> QED BY <2>1, <2>4, <2>5
<1>7. ASSUME NEW w \in Workers, Take(w) PROVE Pending' = Pending /\ remaining' = remaining
  <2>1. Busy' = Busy \cup {w} /\ w \notin Busy
    BY <1>7 DEF Take, Busy, TypeOK
  <2>2. Cardinality(Busy') = Cardinality(Busy) + 1
    BY <2>1, BusyFinite, FS_AddElement
  <2>3. Len(jobs') = Len(jobs) - 1
    BY <1>7 DEF Take, TypeOK
  <2> QED BY <1>2, <1>7, <2>2, <2>3 DEF Take, Pending
<1>8. ASSUME NEW w \in Workers, Leave(w) PROVE Pending' = Pending /\ remaining' = remaining
  <2>1. Busy' = Busy
    BY <1>8 DEF Leave, Busy, TypeOK
  <2> QED BY <1>2, <1>8, <2>1 DEF Leave, Pending
<1>9. ASSUME NEW w \in Workers, RecordTime(w)
      PROVE  Pending' = Pending /\ remaining' = remaining
  <2>1. Busy' = Busy \ {w} /\ w \in Busy
    BY <1>9 DEF RecordTime, Busy, TypeOK
  <2>2. Cardinality(Busy') = Cardinality(Busy) - 1
    BY <2>1, BusyFinite, FS_RemoveElement
  <2> QED BY <1>2, <1>9, <2>2 DEF RecordTime, Pending
<1>10. ASSUME NEW w \in Workers, RecordError(w) PROVE FALSE
  BY <1>10 DEF RecordError, SetErr
<1>11. ASSUME NEW w \in Workers, WriteBatch(w)
       PROVE  Pending' = Pending /\ remaining' = remaining
  <2>1. phase'[w] \notin {"failed", "rowFailed", "appendFailed", "idle", "gone"}
    BY <1>11, WriteFrame DEF Failing
  <2>2. /\ phase[w] \in {"writing", "sending"}
        /\ phase'[w] \in {"writing", "sending", "stored"}
        /\ phase' = [phase EXCEPT ![w] = phase'[w]]
        /\ UNCHANGED <<remaining, jobs, durs>>
    BY <1>11, <2>1, WriteFrame DEF Phases, Skeleton
  <2>3. Busy' = Busy
    BY <2>2 DEF Busy, TypeOK
  <2> QED BY <1>2, <2>2, <2>3 DEF Pending
<1> QED
  BY <1>3, <1>4, <1>5, <1>6, <1>7, <1>8, <1>9, <1>10, <1>11 DEF Next, Work, Caller, Done

\* Success is answered when no error is kept, and none can come afterwards.
LEMMA OkCleanStep == TypeOK /\ Settled /\ OkClean /\ [Next]_vars => OkClean'
<1> SUFFICES ASSUME TypeOK, Settled, OkClean, [Next]_vars PROVE OkClean'
  OBVIOUS
<1> USE DEF OkClean
<1>1. CASE UNCHANGED vars BY <1>1 DEF vars
<1>2. CASE Caller BY <1>2 DEF Caller, Cut, Close, Return
<1>3. ASSUME NEW w \in Workers, Take(w) \/ Leave(w) \/ RecordTime(w) PROVE OkClean'
  BY <1>3 DEF Take, Leave, RecordTime
<1>4. ASSUME NEW w \in Workers, RecordError(w) PROVE OkClean'
  BY <1>4 DEF RecordError, Settled, AllGone
<1>5. ASSUME NEW w \in Workers, WriteBatch(w) PROVE OkClean'
  BY <1>5, WriteFrame DEF Skeleton
<1> QED BY <1>1, <1>2, <1>3, <1>4, <1>5 DEF Next, Work, Done

\* A successful Insert has timed each of its batches once, for any number of
\* workers and whatever count and batch size, those that do not divide included.
THEOREM OneTimeEach == Spec => []OneTimePerBatch
<1>1. Init => OneEach /\ OkClean
  <2> SUFFICES ASSUME Init PROVE OneEach /\ OkClean
    OBVIOUS
  <2>1. Busy = {} /\ Len(jobs) = 0 /\ durs = 0
    BY DEF Init, Busy
  <2>2. Pending = TotalBatches
    BY <2>1, FS_EmptySet, TotalRoundsUp DEF Pending
  <2> QED BY <2>2, TotalRoundsUp DEF Init, OneEach, OkClean
<1>2. IInv /\ OneEach /\ OkClean => OneTimePerBatch
  <2> SUFFICES ASSUME IInv, OneEach, OkClean, answer = "ok" PROVE durs = TotalBatches
    BY DEF OneTimePerBatch
  <2>1. AllGone /\ remaining = 0 /\ jobs = <<>>
    BY WorkersAssumption DEF IInv, Settled, AllGone
  <2>2. Busy = {} /\ ~Failing /\ ~failed
    BY <2>1 DEF Busy, AllGone, Failing, OkClean
  <2>3. Pending * BatchSize >= 0 /\ (Pending - 1) * BatchSize < 0
    BY <2>1, <2>2 DEF OneEach
  <2>4. Pending = TotalBatches - durs /\ TotalBatches \in Nat /\ durs \in Nat
    BY <2>1, <2>2, FS_EmptySet, TotalRoundsUp DEF Pending, IInv, TypeOK
  <2>5. Pending \in Int /\ BatchSize \in Nat \ {0}
    BY <2>4, SizesAssumption
  <2> HIDE DEF Pending
  <2>6. Pending >= 0
    <3> SUFFICES ASSUME Pending <= -1 PROVE Pending * BatchSize < 0
      BY <2>3, <2>5
    <3> QED BY <2>5
  <2>7. Pending < 1
    <3> SUFFICES ASSUME Pending - 1 >= 0 PROVE (Pending - 1) * BatchSize >= 0
      BY <2>3, <2>5
    <3> QED BY <2>5
  <2> QED BY <2>4, <2>5, <2>6, <2>7
<1>3. IInv /\ OneEach /\ OkClean /\ [Next]_vars => (OneEach /\ OkClean)'
  BY OneEachStep, OkCleanStep DEF IInv
<1> QED BY <1>1, <1>2, <1>3, Inductive, PTL DEF Spec

=============================================================================
