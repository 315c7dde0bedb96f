--------------------------- MODULE Produce_proofs ---------------------------
(***************************************************************************)
(* What holds of Produce for every Count, every batch size, every number   *)
(* of tries and each of the four brokers.                                  *)
(***************************************************************************)
EXTENDS Produce, FiniteSetTheorems, TLAPS

-----------------------------------------------------------------------------
(* The inductive invariant.                                                *)

\* Where each broker's Produce can be, and how much of a batch it has sent there.
Located ==
  /\ pc = "backoff" => broker = "kafka"
  /\ pc = "confirming" => broker = "rabbitmq"
  /\ pc = "waiting" => broker = "pulsar"
  /\ pc = "open" => broker \in {"rabbitmq", "pulsar"} /\ done = 0 /\ sent = 0
  /\ pc = "loop" => sent = 0 \/ sent < Size
  /\ pc = "confirming" => done < Count /\ sent \in 1 .. Size
  /\ pc = "waiting" => done < Count /\ sent = Size
  /\ broker = "kafka" => sent = 0 /\ inflight = {}
  /\ broker \notin {"rabbitmq", "pulsar"} => inflight = {}
  /\ outcome = "ok" => pc = "returned" /\ done = Count

\* All recorded batches but the last were full.
Batched ==
  /\ durs * BatchSize >= done
  /\ (durs - 1) * BatchSize < done
  /\ done < Count => done = durs * BatchSize

\* The writers of a Kafka batch: one while it is tried, none while Produce waits, and
\* a new one after each failed try.
Writers ==
  /\ pc # "returned" => attempt < MaxAttempts
  /\ pc = "backoff" => open = {}
  /\ open \subseteq {writer}
  /\ broker = "kafka" => attempt < writer

\* Messages from here on have not been handed to the client library.
Given == IF pc = "confirming" THEN done + Size ELSE done + sent

\* A message RabbitMQ has not answered for is not stored, one that is not sent to any
\* broker even less; of a Kafka batch no more can be stored than by the tries it has
\* had.
FewCopies ==
  /\ broker = "kafka" =>
       \A i \in Ids :
         /\ copies[i] <= writer * LibraryAttempts
         /\ copies[i] <= MaxAttempts * LibraryAttempts
         /\ pc = "loop" /\ i >= done => copies[i] <= attempt * LibraryAttempts
         /\ pc = "backoff" /\ i >= done => copies[i] <= (attempt + 1) * LibraryAttempts
  /\ broker \in {"rabbitmq", "nats"} =>
       \A i \in Ids :
         /\ copies[i] <= 1
         /\ i \in inflight => copies[i] = 0
  /\ broker # "kafka" =>
       \A i \in Ids :
         pc # "returned" /\ i >= Given => copies[i] = 0 /\ i \notin inflight

\* Behind the current batch nothing is stored, and nothing on its way.
NothingAhead == \A i \in Ids : i >= done + Size => copies[i] = 0 /\ i \notin inflight

\* Confirms of the current batch that Produce has read.
Confirmed == IF pc = "confirming" THEN Size - sent ELSE 0

\* What has been recorded is stored; of the current batch, what a NATS publish or
\* a confirm has answered for.
Kept ==
  /\ \A i \in Ids : i < done => copies[i] >= 1
  /\ broker = "nats" /\ pc # "returned" =>
       \A i \in Ids : i < done + sent => copies[i] >= 1
  /\ broker = "rabbitmq" /\ pc # "returned" =>
       \A i \in Ids : i < done + Confirmed => copies[i] >= 1

\* The confirms that are not read yet belong to the messages that follow, in order,
\* and what is in flight comes after them.
InOrder ==
  broker = "rabbitmq" /\ pc # "returned" =>
    LET next == done + Confirmed IN
    /\ next + Len(confirms) <= Given
    /\ \A k \in 1 .. Len(confirms) : confirms[k] => copies[next + k - 1] >= 1
    /\ ~closed => inflight = next + Len(confirms) .. Given - 1

\* The wait group counts the callbacks to come and the sends to do, and every message
\* sent is in flight or stored, unless an error is noted.
Awaited ==
  broker = "pulsar" =>
    /\ pc = "returned" => inflight = {}
    /\ pc # "returned" =>
         /\ inflight \subseteq done .. done + sent - 1
         /\ wg = IF sent = 0 THEN 0 ELSE Cardinality(inflight) + Size - sent
         /\ \A i \in done .. done + sent - 1 : i \in inflight \/ copies[i] >= 1 \/ firstErr

IInv == TypeOK /\ Located /\ Batched /\ Writers /\ FewCopies /\ Kept /\ InOrder /\ Awaited

-----------------------------------------------------------------------------
(* Facts used by several actions.                                          *)

\* The current batch lies within Count, is not empty, and only the last is short.
LEMMA SizeFacts ==
  ASSUME TypeOK
  PROVE  /\ Size \in 0 .. BatchSize
         /\ done + Size <= Count
         /\ done < Count => Size >= 1
         /\ Size = BatchSize \/ done + Size = Count
BY CountAssumption, BatchAssumption DEF TypeOK, Size

\* Storing S gives every message of S one more copy.
LEMMA StoredFacts ==
  ASSUME TypeOK, NEW S, Stored(S)
  PROVE  /\ copies' \in [Ids -> Nat]
         /\ \A i \in Ids : copies'[i] = IF i \in S THEN copies[i] + 1 ELSE copies[i]
         /\ \A i \in Ids : copies'[i] >= copies[i]
BY DEF TypeOK, Stored

\* What the library resends has at least, and at most, so many copies more.
LEMMA ResentFacts ==
  ASSUME TypeOK, NEW S, NEW least \in Nat, Resent(S, least)
  PROVE  /\ copies' \in [Ids -> Nat]
         /\ \A i \in Ids : i \notin S => copies'[i] = copies[i]
         /\ \A i \in Ids : i \in S => /\ copies'[i] >= copies[i] + least
                                    /\ copies'[i] <= copies[i] + LibraryAttempts
         /\ \A i \in Ids : copies'[i] >= copies[i]
<1>1. PICK times \in [S -> least .. LibraryAttempts] :
        copies' = [i \in Ids |-> IF i \in S THEN copies[i] + times[i] ELSE copies[i]]
  BY DEF Resent
<1>2. \A i \in S : times[i] \in Nat /\ least <= times[i] /\ times[i] <= LibraryAttempts
  BY <1>1, LibraryAssumption
<1>3. copies \in [Ids -> Nat]
  BY DEF TypeOK
<1>4. ASSUME NEW i \in Ids
      PROVE  /\ copies'[i] \in Nat
             /\ i \notin S => copies'[i] = copies[i]
             /\ i \in S => /\ copies'[i] >= copies[i] + least
                           /\ copies'[i] <= copies[i] + LibraryAttempts
             /\ copies'[i] >= copies[i]
  <2>1. CASE i \in S
    <3>1. copies'[i] = copies[i] + times[i]
      BY <1>1, <2>1
    <3> QED BY <1>2, <1>3, <2>1, <3>1, LibraryAssumption
  <2>2. CASE i \notin S
    BY <1>1, <1>3, <2>2
  <2> QED BY <2>1, <2>2
<1>5. copies' \in [Ids -> Nat]
  BY <1>1, <1>4
<1> QED BY <1>4, <1>5

\* One try more is one times LibraryAttempts more.
LEMMA Product ==
  ASSUME NEW n \in Nat
  PROVE  /\ n * LibraryAttempts \in Nat
         /\ (n + 1) * LibraryAttempts = n * LibraryAttempts + LibraryAttempts
         /\ \A m \in Nat : n <= m => n * LibraryAttempts <= m * LibraryAttempts
<1>1. LibraryAttempts \in Nat
  BY LibraryAssumption
<1>2. n * LibraryAttempts \in Nat /\ (n + 1) * LibraryAttempts = n * LibraryAttempts + LibraryAttempts
  BY <1>1
<1>3. ASSUME NEW m \in Nat, n <= m PROVE n * LibraryAttempts <= m * LibraryAttempts
  <2>1. PICK k \in Nat : m = n + k
    <3>1. m - n \in Nat /\ m = n + (m - n)
      BY <1>3
    <3> QED BY <3>1
  <2>2. m * LibraryAttempts = n * LibraryAttempts + k * LibraryAttempts
    BY <1>1, <2>1
  <2>3. k * LibraryAttempts \in Nat
    BY <1>1
  <2> QED BY <1>2, <2>2, <2>3
<1> QED BY <1>2, <1>3

\* A recorded batch moves done to the end of the batch and keeps Batched.
LEMMA RecordFacts ==
  ASSUME TypeOK, Batched, done < Count, Record
  PROVE  /\ done' \in 0 .. Count /\ done' = done + Size /\ done' > done
         /\ durs' \in Nat
         /\ Batched'
<1>1. done' = done + Size /\ durs' = durs + 1
  BY DEF Record
<1>2. done' \in 0 .. Count /\ done' > done
  BY <1>1, SizeFacts, CountAssumption, BatchAssumption DEF TypeOK
<1>3. done = durs * BatchSize
  BY DEF Batched
<1>4. (durs + 1) * BatchSize = done + BatchSize
  BY <1>3, BatchAssumption DEF TypeOK
<1>5. (durs' - 1) * BatchSize = done /\ durs' * BatchSize = done + BatchSize
  BY <1>1, <1>3, <1>4 DEF TypeOK
<1>6. Batched'
  BY <1>1, <1>2, <1>5, SizeFacts, BatchAssumption, CountAssumption DEF Batched, TypeOK
<1> QED BY <1>1, <1>2, <1>6 DEF TypeOK

-----------------------------------------------------------------------------
(* Kafka.                                                                  *)

\* A try of a Kafka batch adds at most LibraryAttempts copies of each of its messages,
\* and records the batch only when it stored them all.
LEMMA KafkaWriteStep == IInv /\ NothingAhead /\ KafkaWrite => IInv'
<1> SUFFICES ASSUME IInv, NothingAhead, KafkaWrite PROVE IInv'
  OBVIOUS
<1> USE DEF kafkaVars, rabbitVars, pulsarVars
<1>1. TypeOK /\ broker = "kafka" /\ pc = "loop" /\ done < Count
  BY DEF IInv, KafkaWrite
<1>2. \A i \in Batch : i \in Ids /\ i >= done
  BY <1>1, SizeFacts, CountAssumption DEF TypeOK, Batch, Ids
<1>3. PICK least \in {0, 1} : Resent(Batch, least)
  BY DEF KafkaWrite
<1>4. /\ copies' \in [Ids -> Nat]
      /\ \A i \in Ids : copies'[i] >= copies[i]
      /\ \A i \in Ids : i \notin Batch => copies'[i] = copies[i]
      /\ \A i \in Ids : i \in Batch => copies'[i] <= (attempt + 1) * LibraryAttempts
      /\ \A i \in Ids : /\ copies'[i] <= writer * LibraryAttempts
                        /\ copies'[i] <= MaxAttempts * LibraryAttempts
  <2>0. least \in Nat
    OBVIOUS
  <2>1. /\ copies' \in [Ids -> Nat]
        /\ \A i \in Ids : copies'[i] >= copies[i]
        /\ \A i \in Ids : i \notin Batch => copies'[i] = copies[i]
        /\ \A i \in Ids : i \in Batch => copies'[i] <= copies[i] + LibraryAttempts
    BY <1>1, <1>3, <2>0, ResentFacts
  <2>2. /\ attempt \in Nat /\ writer \in Nat /\ MaxAttempts \in Nat
        /\ attempt + 1 <= writer /\ attempt + 1 <= MaxAttempts
    BY <1>1, AttemptsAssumption DEF IInv, Writers, TypeOK
  <2> DEFINE c == attempt * LibraryAttempts
             d == (attempt + 1) * LibraryAttempts
  <2>3. /\ c \in Nat /\ d = c + LibraryAttempts
        /\ d <= writer * LibraryAttempts /\ d <= MaxAttempts * LibraryAttempts
        /\ d \in Nat /\ writer * LibraryAttempts \in Nat /\ MaxAttempts * LibraryAttempts \in Nat
    <3>1. c \in Nat /\ d = c + LibraryAttempts
      BY <2>2, Product
    <3>2. attempt + 1 \in Nat
      BY <2>2
    <3>3. d <= writer * LibraryAttempts /\ d <= MaxAttempts * LibraryAttempts
      BY <2>2, <3>2, Product
    <3>4. d \in Nat /\ writer * LibraryAttempts \in Nat /\ MaxAttempts * LibraryAttempts \in Nat
      BY <2>2, <3>2, Product
    <3> QED BY <3>1, <3>3, <3>4
  <2>4. ASSUME NEW i \in Ids
        PROVE  /\ copies[i] \in Nat /\ copies'[i] \in Nat
               /\ i \in Batch => copies[i] <= c
               /\ copies[i] <= writer * LibraryAttempts
               /\ copies[i] <= MaxAttempts * LibraryAttempts
    BY <1>1, <1>2, <2>1 DEF IInv, FewCopies, TypeOK
  <2>9. d = (attempt + 1) * LibraryAttempts
    OBVIOUS
  <2> DEFINE w == writer * LibraryAttempts
             x == MaxAttempts * LibraryAttempts
  <2>10. w = writer * LibraryAttempts /\ x = MaxAttempts * LibraryAttempts
    OBVIOUS
  <2>5. /\ c \in Nat /\ d \in Nat /\ w \in Nat /\ x \in Nat
        /\ d = c + LibraryAttempts /\ d <= w /\ d <= x
    BY <2>3
  <2>6. \A i \in Ids : /\ copies[i] \in Nat /\ copies'[i] \in Nat
                       /\ i \in Batch => copies[i] <= c
                       /\ copies[i] <= w /\ copies[i] <= x
    BY <2>4
  <2> HIDE DEF c, d, w, x
  <2>7. \A i \in Ids : i \in Batch => copies'[i] <= d
    BY <2>1, <2>5, <2>6, LibraryAssumption
  <2>8. \A i \in Ids : copies'[i] <= w /\ copies'[i] <= x
    <3> SUFFICES ASSUME NEW i \in Ids PROVE copies'[i] <= w /\ copies'[i] <= x
      OBVIOUS
    <3>1. CASE i \in Batch BY <2>5, <2>6, <2>7, <3>1
    <3>2. CASE i \notin Batch BY <2>1, <2>6, <3>2
    <3> QED BY <3>1, <3>2
  <2> QED BY <2>1, <2>7, <2>8, <2>9, <2>10
<1>5. UNCHANGED <<broker, writer, inflight, confirms, closed, wg, firstErr>>
  BY DEF KafkaWrite
<1>6. CASE Resent(Batch, 1) /\ Record /\ attempt' = 0 /\ UNCHANGED open
  <2>1. /\ done' \in 0 .. Count /\ done' = done + Size /\ done' > done
        /\ durs' \in Nat /\ Batched'
    BY <1>1, <1>6, RecordFacts DEF IInv
  <2>2. pc' = "loop" /\ sent' = 0 /\ outcome' = outcome
    BY <1>6 DEF Record
  <2>3. TypeOK'
    BY <1>1, <1>4, <1>5, <1>6, <2>1, <2>2, AttemptsAssumption, BatchAssumption DEF TypeOK
  <2>4. Located' /\ Writers'
    BY <1>1, <1>5, <1>6, <2>1, <2>2, AttemptsAssumption DEF IInv, Located, Writers, TypeOK
  <2>5. FewCopies'
    <3>1. \A i \in Ids : i >= done' => copies'[i] = 0
      <4>1. \A i \in Ids : i >= done' => i \notin Batch
        BY <1>1, <2>1, SizeFacts DEF Batch, Ids, TypeOK
      <4> QED BY <1>4, <2>1, <4>1 DEF NothingAhead
    <3>2. attempt' * LibraryAttempts = 0
      BY <1>6, LibraryAssumption
    <3> QED BY <1>1, <1>4, <1>5, <2>2, <3>1, <3>2 DEF FewCopies
  <2>6. Kept'
    <3>1. \A i \in Ids : i < done' => i < done \/ i \in Batch
      BY <1>1, <2>1, SizeFacts DEF Batch, Ids, TypeOK
    <3>2. \A i \in Batch : copies'[i] >= 1
      BY <1>1, <1>2, <1>6, ResentFacts DEF TypeOK
    <3>3. \A i \in Ids : i < done => copies'[i] >= 1
      BY <1>1, <1>4 DEF IInv, Kept, TypeOK
    <3> QED BY <1>1, <1>5, <3>1, <3>2, <3>3 DEF Kept
  <2> QED BY <1>1, <1>5, <2>1, <2>3, <2>4, <2>5, <2>6 DEF IInv, InOrder, Awaited
<1>7. CASE \/ /\ pc' = "backoff" /\ open' = ClosedWriter(writer)
              /\ UNCHANGED <<done, durs, sent, attempt, outcome>>
           \/ Fail /\ CloseFirst /\ UNCHANGED attempt
  <2>1. UNCHANGED <<done, durs, sent, attempt>> /\ pc' \in {"backoff", "returned"}
    BY <1>7 DEF Fail
  <2>2. pc' = "backoff" => open' = {}
    BY <1>7 DEF IInv, Writers, ClosedWriter, Fail
  <2>3. open' \subseteq {writer} /\ open' \subseteq 0 .. writer
    BY <1>1, <1>7 DEF IInv, Writers, ClosedWriter, CloseFirst, TypeOK
  <2>4. outcome' \in {outcome, "error"}
    BY <1>7 DEF Fail
  <2>5. TypeOK'
    BY <1>1, <1>4, <1>5, <2>1, <2>3, <2>4 DEF TypeOK
  <2>6. Located' /\ Batched' /\ Writers'
    BY <1>1, <1>5, <2>1, <2>2, <2>3, <2>4 DEF IInv, Located, Batched, Writers
  <2>7. FewCopies'
    <3>1. \A i \in Ids : i >= done /\ i \notin Batch => copies'[i] = 0
      <4>1. \A i \in Ids : i >= done /\ i \notin Batch => i >= done + Size
        BY <1>1, SizeFacts DEF Batch, Ids, TypeOK
      <4> QED BY <1>4, <4>1 DEF NothingAhead
    <3>2. 0 <= (attempt + 1) * LibraryAttempts
      BY <1>1, LibraryAssumption, Product DEF TypeOK
    <3>3. \A i \in Ids : i >= done => copies'[i] <= (attempt + 1) * LibraryAttempts
      BY <1>4, <3>1, <3>2
    <3> QED BY <1>1, <1>4, <1>5, <2>1, <3>3 DEF FewCopies
  <2>8. Kept'
    BY <1>1, <1>4, <1>5, <2>1 DEF IInv, Kept, TypeOK
  <2> QED BY <1>1, <1>5, <2>5, <2>6, <2>7, <2>8 DEF IInv, InOrder, Awaited
<1> QED BY <1>6, <1>7 DEF KafkaWrite

\* The new writer pays for one more copy, and takes the place of the closed one.
LEMMA KafkaRetryStep == IInv /\ KafkaRetry => IInv'
<1> SUFFICES ASSUME IInv, KafkaRetry PROVE IInv'
  OBVIOUS
<1> USE DEF kafkaVars, rabbitVars, pulsarVars
<1>1. TypeOK /\ broker = "kafka" /\ pc = "backoff" /\ sent = 0 /\ open = {}
  BY DEF IInv, KafkaRetry, Located, Writers
<1>2. /\ UNCHANGED <<broker, copies, inflight, confirms, closed, wg, firstErr>>
      /\ UNCHANGED <<done, durs, sent>>
      /\ attempt' = attempt + 1 /\ writer' = writer + 1
  BY DEF KafkaRetry, Fail
<1>3. /\ pc' \in {"loop", "returned"} /\ outcome' \in {outcome, "error"}
      /\ pc' = "loop" => attempt' < MaxAttempts
      /\ open' \subseteq {writer'}
  BY <1>1 DEF KafkaRetry, Fail, TriesLeft
<1>4. attempt < MaxAttempts
  BY <1>1 DEF IInv, Writers
<1>5. TypeOK'
  BY <1>1, <1>2, <1>3, <1>4, AttemptsAssumption DEF TypeOK
<1>6. Located' /\ Batched' /\ Writers'
  BY <1>1, <1>2, <1>3 DEF IInv, Located, Batched, Writers, TypeOK
<1>7. FewCopies'
  <2>1. writer * LibraryAttempts <= writer' * LibraryAttempts
    <3>1. writer \in Nat /\ writer' \in Nat /\ writer <= writer'
      BY <1>1, <1>2 DEF TypeOK
    <3> QED BY <3>1, Product
  <2> DEFINE v == writer * LibraryAttempts
             w == writer' * LibraryAttempts
             d == (attempt + 1) * LibraryAttempts
  <2>2. v \in Nat /\ w \in Nat /\ v <= w
    BY <1>1, <1>2, <2>1, Product DEF TypeOK
  <2>3. \A i \in Ids : /\ copies[i] \in Nat /\ copies[i] <= v
                       /\ copies[i] <= MaxAttempts * LibraryAttempts
                       /\ i >= done => copies[i] <= d
    BY <1>1 DEF IInv, FewCopies, TypeOK
  <2>4. d = attempt' * LibraryAttempts /\ w = writer' * LibraryAttempts
    BY <1>2
  <2> HIDE DEF v, w, d
  <2>5. \A i \in Ids : copies[i] <= w
    BY <2>2, <2>3
  <2> QED BY <1>1, <1>2, <1>3, <2>3, <2>4, <2>5 DEF FewCopies
<1>8. Kept'
  BY <1>1, <1>2 DEF IInv, Kept, TypeOK
<1> QED BY <1>1, <1>2, <1>5, <1>6, <1>7, <1>8 DEF IInv, InOrder, Awaited

-----------------------------------------------------------------------------
(* RabbitMQ.                                                               *)

\* Opening a channel or a producer, and giving up at once when that fails.
LEMMA OpenStep == IInv /\ (RabbitOpen \/ PulsarOpen) => IInv'
<1> SUFFICES ASSUME IInv, RabbitOpen \/ PulsarOpen PROVE IInv'
  OBVIOUS
<1> USE DEF kafkaVars, rabbitVars, pulsarVars, RabbitOpen, PulsarOpen, Fail
<1>1. /\ TypeOK /\ broker \in {"rabbitmq", "pulsar"}
      /\ pc = "open" /\ done = 0 /\ sent = 0
  BY DEF IInv, Located
<1>2. /\ UNCHANGED <<broker, copies, attempt, writer, open, inflight, confirms, closed>>
      /\ UNCHANGED <<wg, firstErr, done, durs, sent>>
      /\ pc' \in {"loop", "returned"} /\ outcome' \in {outcome, "error"}
  OBVIOUS
<1>3. TypeOK' BY <1>1, <1>2 DEF TypeOK
<1>4. Located' /\ Batched' /\ Writers'
  BY <1>1, <1>2 DEF IInv, Located, Batched, Writers
<1>5. FewCopies' /\ Kept'
  BY <1>1, <1>2 DEF IInv, FewCopies, Kept, Given, Confirmed
<1>6. InOrder'
  BY <1>1, <1>2 DEF IInv, InOrder, Given, Confirmed
<1>7. Awaited'
  <2>1. broker = "pulsar" => inflight = {}
    BY <1>1 DEF IInv, Awaited
  <2> QED BY <1>1, <1>2, <2>1 DEF IInv, Awaited
<1> QED BY <1>3, <1>4, <1>5, <1>6, <1>7 DEF IInv

\* Whatever else happens, Produce that fails leaves what is stored as it is.
LEMMA FailKeeps ==
  ASSUME IInv, Fail, broker # "kafka",
         UNCHANGED <<broker, copies, attempt, writer, open, closed, wg, firstErr>>,
         inflight' = inflight, confirms' \in Seq(BOOLEAN),
         broker = "pulsar" => inflight = {}
  PROVE  IInv'
<1> USE DEF IInv, Fail
<1>1. TypeOK' BY DEF TypeOK
<1>2. Located' /\ Batched' /\ Writers' BY DEF Located, Batched, Writers
<1>3. FewCopies' /\ Kept' BY DEF FewCopies, Kept
<1>4. InOrder' /\ Awaited' BY DEF InOrder, Awaited
<1> QED BY <1>1, <1>2, <1>3, <1>4

\* A publish puts the next message at the end of what is in flight.
LEMMA RabbitPublishStep == IInv /\ RabbitPublish => IInv'
<1> SUFFICES ASSUME IInv, RabbitPublish PROVE IInv'
  OBVIOUS
<1> USE DEF kafkaVars, rabbitVars, pulsarVars
<1>1. TypeOK /\ broker = "rabbitmq" /\ pc = "loop" /\ done < Count /\ sent < Size
  BY DEF IInv, RabbitPublish
<1>2. UNCHANGED <<broker, copies, attempt, writer, open, confirms, closed, wg, firstErr>>
  BY DEF RabbitPublish
<1>3. CASE Fail /\ UNCHANGED inflight
  BY <1>1, <1>2, <1>3, FailKeeps DEF TypeOK
<1>4. ASSUME ~closed, sent' = sent + 1, inflight' = inflight \cup {NextId},
             pc' = IF sent' = Size THEN "confirming" ELSE "loop",
             UNCHANGED <<done, durs, outcome>>
      PROVE  IInv'
  <2>1. Size \in 1 .. BatchSize /\ Size' = Size /\ done + Size <= Count
    BY <1>1, <1>4, SizeFacts DEF Size, TypeOK
  <2>2. NextId \in Ids /\ NextId = Given
    BY <1>1, <2>1, CountAssumption DEF NextId, Ids, Given, TypeOK
  <2>3. /\ Given = done + sent /\ Given' = Given + 1
        /\ Confirmed = 0 /\ Confirmed' = 0
    BY <1>1, <1>4, <2>1 DEF Given, Confirmed, TypeOK
  <2>4. TypeOK'
    <3>1. sent' \in 0 .. BatchSize
      BY <1>1, <1>4, <2>1, BatchAssumption DEF TypeOK
    <3>2. pc' \in {"confirming", "loop"} /\ inflight' \subseteq Ids
      BY <1>1, <1>4, <2>2 DEF TypeOK
    <3> QED BY <1>1, <1>2, <1>4, <3>1, <3>2 DEF TypeOK
  <2>5. Located' /\ Batched' /\ Writers'
    BY <1>1, <1>2, <1>4, <2>1 DEF IInv, Located, Batched, Writers, TypeOK
  <2>6. FewCopies'
    BY <1>1, <1>2, <1>4, <2>1, <2>2, <2>3 DEF IInv, FewCopies, TypeOK, Ids
  <2>7. Kept'
    BY <1>1, <1>2, <1>4, <2>3 DEF IInv, Kept
  <2>8. InOrder'
    <3>1. inflight = done + Len(confirms) .. Given - 1 /\ done + Len(confirms) <= Given
      BY <1>1, <1>4, <2>3 DEF IInv, InOrder, TypeOK
    <3>2. Len(confirms) \in Nat
      BY <1>1 DEF TypeOK
    <3>3. ASSUME NEW a \in Int, NEW b \in Int, a <= b PROVE (a .. b - 1) \cup {b} = a .. b
      BY <3>3
    <3>4. done + Len(confirms) \in Int /\ Given \in Int
      BY <1>1, <2>3, <3>2 DEF TypeOK
    <3>5. inflight' = done + Len(confirms) .. Given
      BY <1>4, <2>2, <3>1, <3>3, <3>4
    <3> QED BY <1>1, <1>2, <1>4, <2>3, <3>1, <3>4, <3>5 DEF IInv, InOrder, TypeOK
  <2> QED BY <1>1, <1>2, <2>4, <2>5, <2>6, <2>7, <2>8 DEF IInv, Awaited
<1> QED BY <1>3, <1>4 DEF RabbitPublish

\* The broker confirms the oldest message in flight: the one that follows those whose
\* confirms are in the channel.
LEMMA BrokerConfirmStep == IInv /\ BrokerConfirm => IInv'
<1> SUFFICES ASSUME IInv, BrokerConfirm PROVE IInv'
  OBVIOUS
<1> USE DEF kafkaVars, rabbitVars, pulsarVars
<1>1. TypeOK /\ broker = "rabbitmq" /\ ~closed
  BY DEF IInv, BrokerConfirm
<1>2. UNCHANGED <<broker, pc, done, sent, durs, attempt, writer, open, closed, wg, firstErr, outcome>>
  BY DEF BrokerConfirm
<1>3. PICK i \in inflight, ack \in BOOLEAN :
        /\ \A j \in inflight : i <= j
        /\ inflight' = inflight \ {i}
        /\ confirms' = Append(confirms, ack)
        /\ Stored(IF ack THEN {i} ELSE {})
  BY DEF BrokerConfirm
<1>4. /\ copies' \in [Ids -> Nat] /\ i \in Ids
      /\ \A j \in Ids : j # i => copies'[j] = copies[j]
      /\ copies'[i] = IF ack THEN copies[i] + 1 ELSE copies[i]
      /\ \A j \in Ids : copies'[j] >= copies[j]
  BY <1>1, <1>3, StoredFacts DEF TypeOK
<1>5. Given' = Given /\ Confirmed' = Confirmed
  BY <1>2 DEF Given, Confirmed, Size
<1>6. TypeOK'
  BY <1>1, <1>2, <1>3, <1>4 DEF TypeOK
<1>7. Located' /\ Batched' /\ Writers'
  BY <1>1, <1>2 DEF IInv, Located, Batched, Writers, Size
<1>8. FewCopies'
  BY <1>1, <1>2, <1>3, <1>4, <1>5 DEF IInv, FewCopies, TypeOK
<1>9. Kept'
  BY <1>1, <1>2, <1>4, <1>5 DEF IInv, Kept, TypeOK
<1>10. InOrder'
  <2> SUFFICES ASSUME pc # "returned" PROVE InOrder'
    BY <1>2 DEF InOrder
  <2> DEFINE next == done + Confirmed
  <2>1. /\ next + Len(confirms) <= Given
        /\ \A k \in 1 .. Len(confirms) : confirms[k] => copies[next + k - 1] >= 1
        /\ inflight = next + Len(confirms) .. Given - 1
    BY <1>1 DEF IInv, InOrder
  <2>2. Len(confirms) \in Nat /\ next \in Nat /\ Given \in Nat
    BY <1>1, SizeFacts DEF IInv, TypeOK, Given, Confirmed, Located
  <2> HIDE DEF next
  <2>3. i = next + Len(confirms) /\ next + Len(confirms) \in inflight
    BY <1>3, <2>1, <2>2
  <2>4. inflight' = next + Len(confirms) + 1 .. Given - 1 /\ next + Len(confirms) + 1 <= Given
    BY <1>3, <2>1, <2>2, <2>3
  <2>5. Len(confirms') = Len(confirms) + 1
    BY <1>1, <1>3 DEF TypeOK
  <2>6. ASSUME NEW k \in 1 .. Len(confirms'), confirms'[k]
        PROVE  copies'[next + k - 1] >= 1
    <3>1. CASE k = Len(confirms) + 1
      <4>1. confirms'[k] = ack
        BY <1>1, <1>3, <3>1 DEF TypeOK
      <4> QED BY <1>1, <1>4, <2>2, <2>3, <2>6, <3>1, <4>1 DEF TypeOK
    <3>2. CASE k # Len(confirms) + 1
      <4>1. k \in 1 .. Len(confirms) /\ confirms'[k] = confirms[k]
        BY <1>1, <1>3, <2>2, <2>5, <3>2 DEF TypeOK
      <4>2. copies[next + k - 1] >= 1
        BY <2>1, <2>6, <4>1
      <4>3. next + k - 1 # i
        BY <2>2, <2>3, <4>1
      <4>4. next + k - 1 \in Ids
        <5>1. next + k - 1 \in Nat /\ next + k - 1 < i
          BY <2>2, <2>3, <4>1
        <5> QED BY <1>4, <5>1, CountAssumption DEF Ids
      <4> QED BY <1>4, <4>2, <4>3, <4>4
    <3> QED BY <3>1, <3>2
  <2>7. next + Len(confirms') <= Given /\ inflight' = next + Len(confirms') .. Given - 1
    BY <2>2, <2>4, <2>5
  <2> QED BY <1>1, <1>2, <1>5, <2>6, <2>7 DEF InOrder, next
<1> QED BY <1>1, <1>2, <1>6, <1>7, <1>8, <1>9, <1>10 DEF IInv, Awaited

\* A lost connection may have stored messages, but confirms none.
LEMMA BrokerCloseStep == IInv /\ BrokerClose => IInv'
<1> SUFFICES ASSUME IInv, BrokerClose PROVE IInv'
  OBVIOUS
<1> USE DEF kafkaVars, rabbitVars, pulsarVars
<1>1. TypeOK /\ broker = "rabbitmq"
  BY DEF IInv, BrokerClose
<1>2. /\ UNCHANGED <<broker, pc, done, sent, durs, attempt, writer, open, confirms, wg, firstErr, outcome>>
      /\ closed' = TRUE /\ inflight' = {}
  BY DEF BrokerClose
<1>3. PICK S \in SUBSET inflight : Stored(S)
  BY DEF BrokerClose
<1>4. /\ copies' \in [Ids -> Nat]
      /\ \A i \in Ids : copies'[i] >= copies[i]
      /\ \A i \in Ids : copies'[i] = IF i \in S THEN copies[i] + 1 ELSE copies[i]
  BY <1>1, <1>3, StoredFacts
<1>5. Given' = Given /\ Confirmed' = Confirmed
  BY <1>2 DEF Given, Confirmed, Size
<1>6. TypeOK'
  BY <1>1, <1>2, <1>4 DEF TypeOK
<1>7. Located' /\ Batched' /\ Writers'
  BY <1>1, <1>2 DEF IInv, Located, Batched, Writers, Size
<1>8. FewCopies'
  BY <1>1, <1>2, <1>3, <1>4, <1>5 DEF IInv, FewCopies, TypeOK
<1>9. Kept'
  BY <1>1, <1>2, <1>4, <1>5 DEF IInv, Kept, TypeOK
<1>10. InOrder'
  <2> SUFFICES ASSUME pc # "returned" PROVE InOrder'
    BY <1>2 DEF InOrder
  <2> DEFINE next == done + Confirmed
  <2>1. /\ next + Len(confirms) <= Given
        /\ \A k \in 1 .. Len(confirms) : confirms[k] => copies[next + k - 1] >= 1
    BY <1>1 DEF IInv, InOrder
  <2>2. Len(confirms) \in Nat /\ next \in Nat /\ Given \in 0 .. Count
    BY <1>1, SizeFacts, CountAssumption DEF IInv, TypeOK, Given, Confirmed, Located
  <2> HIDE DEF next
  <2>3. \A k \in 1 .. Len(confirms) : next + k - 1 \in Ids
    BY <2>1, <2>2, CountAssumption DEF Ids
  <2>4. \A k \in 1 .. Len(confirms) : confirms[k] => copies'[next + k - 1] >= 1
    BY <1>1, <1>4, <2>1, <2>3 DEF TypeOK
  <2> QED BY <1>2, <1>5, <2>1, <2>4 DEF InOrder, next
<1> QED BY <1>1, <1>2, <1>6, <1>7, <1>8, <1>9, <1>10 DEF IInv, Awaited

\* The confirm that is read is that of the first message not yet known to be stored,
\* so the last ack of a batch completes it.
LEMMA RabbitAwaitStep == IInv /\ RabbitAwait => IInv'
<1> SUFFICES ASSUME IInv, RabbitAwait PROVE IInv'
  OBVIOUS
<1> USE DEF kafkaVars, rabbitVars, pulsarVars
<1>1. /\ TypeOK /\ pc = "confirming" /\ broker = "rabbitmq" /\ done < Count
      /\ sent \in 1 .. Size /\ Size \in 1 .. BatchSize /\ done + Size <= Count
  <2>1. TypeOK /\ pc = "confirming" /\ broker = "rabbitmq" /\ done < Count /\ sent \in 1 .. Size
    BY DEF IInv, Located, RabbitAwait
  <2> QED BY <2>1, SizeFacts, BatchAssumption DEF TypeOK
<1>2. UNCHANGED <<broker, copies, attempt, writer, open, inflight, closed, wg, firstErr>>
  BY DEF RabbitAwait
<1>3. CASE Fail
  <2>1. confirms \in Seq(BOOLEAN)
    BY <1>1 DEF TypeOK
  <2>2. confirms # <<>> => Tail(confirms) \in Seq(BOOLEAN)
    BY <2>1
  <2>3. confirms' \in Seq(BOOLEAN)
    BY <2>1, <2>2 DEF RabbitAwait
  <2> QED BY <1>1, <1>2, <1>3, <2>3, FailKeeps
<1>4. ASSUME confirms # <<>>, confirms' = Tail(confirms), Head(confirms),
             \/ sent = 1 /\ Record
             \/ sent # 1 /\ sent' = sent - 1 /\ UNCHANGED <<pc, done, durs, outcome>>
      PROVE  IInv'
  <2> DEFINE next == done + Size - sent
  <2>1. /\ next \in Nat /\ next < Count
        /\ Given = done + Size /\ Confirmed = Size - sent
        /\ done + Confirmed = next
    BY <1>1, CountAssumption, BatchAssumption DEF Given, Confirmed, TypeOK
  <2>2. /\ next + Len(confirms) <= Given
        /\ \A k \in 1 .. Len(confirms) : confirms[k] => copies[next + k - 1] >= 1
        /\ ~closed => inflight = next + Len(confirms) .. Given - 1
    BY <1>1, <2>1 DEF IInv, InOrder
  <2>3. /\ Len(confirms) \in Nat /\ Len(confirms) >= 1 /\ confirms[1]
        /\ confirms' \in Seq(BOOLEAN) /\ Len(confirms') = Len(confirms) - 1
        /\ \A k \in 1 .. Len(confirms') : confirms'[k] = confirms[k + 1]
    <3>1. confirms \in Seq(BOOLEAN) /\ confirms # <<>>
      BY <1>1, <1>4 DEF TypeOK
    <3>2. /\ Len(confirms) \in Nat /\ Len(confirms) >= 1
          /\ Tail(confirms) \in Seq(BOOLEAN) /\ Len(Tail(confirms)) = Len(confirms) - 1
          /\ \A k \in 1 .. Len(Tail(confirms)) : Tail(confirms)[k] = confirms[k + 1]
      BY <3>1
    <3>3. confirms[1]
      <4>1. Head(confirms) = confirms[1]
        BY <3>1
      <4> QED BY <1>4, <4>1, Zenon
    <3> QED BY <1>4, <3>2, <3>3
  <2>4. next \in Ids /\ copies[next] >= 1
    BY <2>1, <2>2, <2>3, CountAssumption DEF Ids
  <2>5. /\ TypeOK' /\ Located' /\ Batched'
        /\ Given' = Given
        /\ done' + Confirmed' = next + 1
        /\ done' <= next + 1
        /\ pc' # "returned"
    <3>1. CASE sent = 1 /\ Record
      <4>1. /\ done' \in 0 .. Count /\ done' = done + Size /\ durs' \in Nat /\ Batched'
            /\ pc' = "loop" /\ sent' = 0 /\ outcome' = outcome
        BY <1>1, <3>1, RecordFacts DEF IInv, Record
      <4>2. TypeOK'
        BY <1>1, <1>2, <2>3, <4>1, BatchAssumption DEF TypeOK
      <4>3. Located'
        BY <1>1, <1>2, <4>1 DEF IInv, Located
      <4>4. Given' = Given /\ Confirmed' = 0 /\ done' = next + 1
        BY <1>1, <2>1, <3>1, <4>1, BatchAssumption DEF Given, Confirmed, TypeOK
      <4> QED BY <4>1, <4>2, <4>3, <4>4 DEF TypeOK
    <3>2. CASE sent # 1 /\ sent' = sent - 1 /\ UNCHANGED <<pc, done, durs, outcome>>
      <4>1. Size' = Size
        BY <3>2 DEF Size
      <4>2. sent' \in 1 .. Size /\ sent' \in 0 .. BatchSize
        BY <1>1, <3>2, BatchAssumption DEF TypeOK
      <4>3. TypeOK'
        BY <1>1, <1>2, <2>3, <3>2, <4>2 DEF TypeOK
      <4>4. Located' /\ Batched'
        BY <1>1, <1>2, <3>2, <4>1, <4>2 DEF IInv, Located, Batched
      <4>5. Given' = Given /\ Confirmed' = Size - sent + 1
        BY <1>1, <3>2, <4>1, BatchAssumption DEF Given, Confirmed, TypeOK
      <4>6. done' + Confirmed' = next + 1 /\ done' <= next + 1
        BY <1>1, <3>2, <4>5, BatchAssumption, CountAssumption DEF TypeOK
      <4> QED BY <1>1, <3>2, <4>3, <4>4, <4>5, <4>6
    <3> QED BY <1>4, <3>1, <3>2
  <2> HIDE DEF next
  <2>6. Writers'
    <3>1. pc' # "backoff"
      BY <1>1, <1>4 DEF Record
    <3> QED BY <1>1, <1>2, <3>1 DEF IInv, Writers
  <2>7. FewCopies'
    BY <1>1, <1>2, <2>5 DEF IInv, FewCopies
  <2>8. Kept'
    <3>1. \A i \in Ids : i < next + 1 => copies[i] >= 1
      <4>1. \A i \in Ids : i < next + 1 => i < next \/ i = next
        BY <2>1 DEF Ids
      <4> QED BY <1>1, <2>1, <2>4, <4>1 DEF IInv, Kept
    <3>2. \A i \in Ids : i < done' => i < next + 1
      BY <2>1, <2>5 DEF Ids, TypeOK
    <3> QED BY <1>1, <1>2, <2>5, <3>1, <3>2 DEF Kept
  <2>9. InOrder'
    <3>1. next + 1 + Len(confirms') = next + Len(confirms)
      BY <2>1, <2>3
    <3>2. ASSUME NEW k \in 1 .. Len(confirms'), confirms'[k]
          PROVE  copies'[next + 1 + k - 1] >= 1
      <4>1. k + 1 \in 1 .. Len(confirms) /\ confirms[k + 1]
        BY <2>3, <3>2
      <4>2. copies[next + (k + 1) - 1] >= 1
        BY <2>2, <4>1
      <4>3. next + (k + 1) - 1 = next + 1 + k - 1
        BY <2>1, <2>3
      <4> QED BY <1>2, <4>2, <4>3
    <3> QED BY <1>1, <1>2, <2>2, <2>5, <3>1, <3>2 DEF InOrder
  <2> QED BY <1>1, <1>2, <2>5, <2>6, <2>7, <2>8, <2>9 DEF IInv, Awaited
<1> QED BY <1>3, <1>4 DEF RabbitAwait

-----------------------------------------------------------------------------
(* NATS.                                                                   *)

\* A synchronous publish stores its message before the next one is sent.
LEMMA NatsPublishStep == IInv /\ NatsPublish => IInv'
<1> SUFFICES ASSUME IInv, NatsPublish PROVE IInv'
  OBVIOUS
<1> USE DEF kafkaVars, rabbitVars, pulsarVars
<1>1. /\ TypeOK /\ pc = "loop" /\ broker = "nats" /\ done < Count /\ inflight = {}
      /\ sent < Size /\ Size \in 1 .. BatchSize /\ done + Size <= Count
  BY SizeFacts DEF IInv, Located, NatsPublish, TypeOK
<1>2. UNCHANGED <<broker, attempt, writer, open, inflight, confirms, closed, wg, firstErr>>
  BY DEF NatsPublish
<1>3. NextId \in Ids /\ NextId = done + sent /\ Given = done + sent
  BY <1>1, CountAssumption, BatchAssumption DEF NextId, Ids, Given, TypeOK
<1>4. PICK S \in {{}, {NextId}} : Stored(S)
  BY DEF NatsPublish
<1>5. /\ copies' \in [Ids -> Nat]
      /\ \A i \in Ids : copies'[i] = IF i \in S THEN copies[i] + 1 ELSE copies[i]
      /\ \A i \in Ids : copies'[i] >= copies[i]
  BY <1>1, <1>4, StoredFacts
<1>6. \A i \in Ids : copies'[i] <= 1 /\ (i > done + sent => copies'[i] = 0)
  <2>1. \A i \in Ids : copies[i] <= 1 /\ (i >= done + sent => copies[i] = 0)
    BY <1>1, <1>3 DEF IInv, FewCopies
  <2>2. \A i \in Ids : i > done + sent => i >= done + sent /\ i # NextId
    BY <1>1, <1>3 DEF Ids, TypeOK
  <2> QED BY <1>1, <1>3, <1>4, <1>5, <2>1, <2>2 DEF TypeOK
<1>7. CASE Fail
  <2>1. /\ pc' = "returned" /\ outcome' = "error" /\ UNCHANGED <<done, durs, sent>>
    BY <1>7 DEF Fail
  <2>2. TypeOK' BY <1>1, <1>2, <1>5, <2>1 DEF TypeOK
  <2>3. Located' /\ Batched' /\ Writers'
    BY <1>1, <1>2, <2>1 DEF IInv, Located, Batched, Writers
  <2>4. FewCopies' BY <1>1, <1>2, <1>6, <2>1 DEF FewCopies
  <2>5. Kept' BY <1>1, <1>2, <1>5, <2>1 DEF IInv, Kept, TypeOK
  <2> QED BY <1>1, <1>2, <2>2, <2>3, <2>4, <2>5 DEF IInv, InOrder, Awaited
<1>8. ASSUME Stored({NextId}),
             \/ sent + 1 = Size /\ Record
             \/ sent + 1 # Size /\ sent' = sent + 1 /\ UNCHANGED <<pc, done, durs, outcome>>
      PROVE  IInv'
  <2>1. /\ TypeOK' /\ Located' /\ Batched'
        /\ pc' = "loop"
        /\ done' + sent' = done + sent + 1
        /\ done' <= done + sent + 1
    <3>1. CASE sent + 1 = Size /\ Record
      <4>1. /\ done' \in 0 .. Count /\ done' = done + Size /\ durs' \in Nat /\ Batched'
            /\ pc' = "loop" /\ sent' = 0 /\ outcome' = outcome
        BY <1>1, <3>1, RecordFacts DEF IInv, Record
      <4>2. TypeOK'
        BY <1>1, <1>2, <1>5, <4>1, BatchAssumption DEF TypeOK
      <4>3. Located'
        BY <1>1, <1>2, <4>1 DEF IInv, Located
      <4> QED BY <1>1, <3>1, <4>1, <4>2, <4>3 DEF TypeOK
    <3>2. CASE sent + 1 # Size /\ sent' = sent + 1 /\ UNCHANGED <<pc, done, durs, outcome>>
      <4>1. Size' = Size /\ sent' < Size /\ sent' \in 0 .. BatchSize
        BY <1>1, <3>2, BatchAssumption DEF Size, TypeOK
      <4>2. TypeOK'
        BY <1>1, <1>2, <1>5, <3>2, <4>1 DEF TypeOK
      <4>3. Located' /\ Batched'
        BY <1>1, <1>2, <3>2, <4>1 DEF IInv, Located, Batched
      <4> QED BY <1>1, <3>2, <4>2, <4>3 DEF TypeOK
    <3> QED BY <1>8, <3>1, <3>2
  <2>2. Writers'
    BY <1>1, <1>2, <2>1 DEF IInv, Writers
  <2>3. FewCopies'
    <3>1. \A i \in Ids : i >= done + sent + 1 => i > done + sent
      BY <1>1 DEF Ids, TypeOK
    <3>2. Given' = done + sent + 1
      BY <2>1 DEF Given
    <3> QED BY <1>1, <1>2, <1>6, <2>1, <3>1, <3>2 DEF FewCopies
  <2>4. Kept'
    <3>1. copies'[NextId] >= 1
      BY <1>1, <1>3, <1>8, StoredFacts DEF TypeOK
    <3>2. \A i \in Ids : i < done + sent + 1 => copies'[i] >= 1
      <4>1. \A i \in Ids : i < done + sent + 1 => i < done + sent \/ i = NextId
        BY <1>1, <1>3 DEF Ids, TypeOK
      <4>2. \A i \in Ids : i < done + sent => copies[i] >= 1
        BY <1>1 DEF IInv, Kept
      <4> QED BY <1>1, <1>5, <3>1, <4>1, <4>2 DEF TypeOK
    <3>3. \A i \in Ids : i < done' => i < done + sent + 1
      BY <1>1, <2>1 DEF Ids, TypeOK
    <3> QED BY <1>1, <1>2, <2>1, <3>2, <3>3 DEF Kept
  <2> QED BY <1>1, <1>2, <2>1, <2>2, <2>3, <2>4 DEF IInv, InOrder, Awaited
<1> QED BY <1>7, <1>8 DEF NatsPublish

-----------------------------------------------------------------------------
(* Pulsar.                                                                 *)

\* What is in flight is a finite set.
LEMMA InflightFinite ==
  ASSUME TypeOK
  PROVE  IsFiniteSet(inflight) /\ Cardinality(inflight) \in Nat
<1>1. IsFiniteSet(Ids)
  BY FS_Interval, CountAssumption DEF Ids
<1> QED BY <1>1, FS_Subset, FS_CardinalityType DEF TypeOK

\* A send is counted by the wait group from the start of its batch.
LEMMA PulsarSendStep == IInv /\ PulsarSend => IInv'
<1> SUFFICES ASSUME IInv, PulsarSend PROVE IInv'
  OBVIOUS
<1> USE DEF kafkaVars, rabbitVars, pulsarVars
<1>1. /\ TypeOK /\ pc = "loop" /\ broker = "pulsar" /\ done < Count
      /\ sent < Size /\ Size \in 1 .. BatchSize /\ done + Size <= Count
  BY SizeFacts DEF IInv, Located, PulsarSend, TypeOK
<1>2. /\ UNCHANGED <<broker, copies, done, durs, attempt, writer, open>>
      /\ UNCHANGED <<confirms, closed, firstErr, outcome>>
      /\ sent' = sent + 1
      /\ inflight' = inflight \cup {NextId}
      /\ pc' = IF sent' = Size THEN "waiting" ELSE "loop"
      /\ wg' = IF sent = 0 THEN Size ELSE wg
  BY DEF PulsarSend
<1>3. /\ NextId \in Ids /\ NextId = done + sent
      /\ Given = done + sent /\ Given' = done + sent + 1 /\ Size' = Size
  BY <1>1, <1>2, CountAssumption, BatchAssumption DEF NextId, Ids, Given, Size, TypeOK
<1>4. /\ inflight \subseteq done .. done + sent - 1
      /\ wg = IF sent = 0 THEN 0 ELSE Cardinality(inflight) + Size - sent
      /\ \A i \in done .. done + sent - 1 : i \in inflight \/ copies[i] >= 1 \/ firstErr
  BY <1>1 DEF IInv, Awaited
<1>5. TypeOK'
  <2>1. sent' \in 0 .. BatchSize /\ wg' \in 0 .. BatchSize
    BY <1>1, <1>2, BatchAssumption DEF TypeOK
  <2>2. pc' \in {"waiting", "loop"} /\ inflight' \subseteq Ids
    BY <1>1, <1>2, <1>3 DEF TypeOK
  <2> QED BY <1>1, <1>2, <2>1, <2>2 DEF TypeOK
<1>6. Located' /\ Batched' /\ Writers'
  <2>1. sent' \in 1 .. Size /\ (sent' = Size \/ sent' < Size)
    BY <1>1, <1>2 DEF TypeOK
  <2>2. pc' \in {"loop", "waiting"} /\ (pc' = "loop" => sent' < Size) /\ (pc' = "waiting" => sent' = Size)
    BY <1>1, <1>2, <2>1
  <2>3. Located'
    BY <1>1, <1>2, <1>3, <2>2 DEF IInv, Located
  <2> QED BY <1>1, <1>2, <2>2, <2>3 DEF IInv, Batched, Writers
<1>7. FewCopies'
  <2>3. \A i \in Ids : i >= Given' => i >= Given /\ i # NextId
    BY <1>1, <1>3 DEF Ids, TypeOK
  <2>4. \A i \in Ids : i >= Given' => copies[i] = 0 /\ i \notin inflight'
    BY <1>1, <1>2, <2>3 DEF IInv, FewCopies
  <2> QED BY <1>1, <1>2, <2>4 DEF FewCopies
<1>8. Kept'
  BY <1>1, <1>2 DEF IInv, Kept
<1>9. Awaited'
  <2>1. NextId \notin inflight
    BY <1>1, <1>3, <1>4 DEF TypeOK
  <2>2. Cardinality(inflight') = Cardinality(inflight) + 1 /\ Cardinality(inflight) \in Nat
    BY <1>1, <1>2, <2>1, InflightFinite, FS_AddElement
  <2>3. sent = 0 => Cardinality(inflight) = 0
    <3>1. sent = 0 => inflight = {}
      BY <1>1, <1>4 DEF TypeOK
    <3> QED BY <3>1, FS_EmptySet
  <2>4. sent' # 0 /\ wg' = Cardinality(inflight') + Size' - sent'
    <3>1. sent \in Nat /\ sent' = sent + 1 /\ Size \in Nat
      BY <1>1, <1>2 DEF TypeOK
    <3>2. CASE sent = 0 BY <1>2, <1>3, <2>2, <2>3, <3>1, <3>2
    <3>3. CASE sent # 0 BY <1>2, <1>3, <1>4, <2>2, <3>1, <3>3
    <3> QED BY <3>2, <3>3
  <2>5. \A i \in done .. done + sent : i \in done .. done + sent - 1 \/ i = NextId
    BY <1>1, <1>3 DEF TypeOK
  <2>6. inflight' \subseteq done .. done + sent
    BY <1>1, <1>2, <1>3, <1>4 DEF TypeOK
  <2>7. \A i \in done .. done + sent : i \in inflight' \/ copies[i] >= 1 \/ firstErr
    BY <1>2, <1>4, <2>5
  <2>8. done' + sent' - 1 = done + sent /\ pc' # "returned"
    BY <1>1, <1>2 DEF TypeOK
  <2> QED BY <1>2, <2>4, <2>6, <2>7, <2>8 DEF Awaited
<1> QED BY <1>1, <1>2, <1>5, <1>6, <1>7, <1>8, <1>9 DEF IInv, InOrder

\* A callback answers for one message, by storing it or by noting an error.
LEMMA PulsarCallbackStep == IInv /\ PulsarCallback => IInv'
<1> SUFFICES ASSUME IInv, PulsarCallback PROVE IInv'
  OBVIOUS
<1> USE DEF kafkaVars, rabbitVars, pulsarVars
<1>1. TypeOK /\ broker = "pulsar"
  BY DEF IInv, PulsarCallback
<1>2. /\ UNCHANGED <<broker, pc, done, sent, durs, attempt, writer, open>>
      /\ UNCHANGED <<confirms, closed, outcome>>
  BY DEF PulsarCallback
<1>3. PICK i \in inflight, err \in BOOLEAN :
        /\ inflight' = inflight \ {i}
        /\ Resent({i}, IF err THEN 0 ELSE 1)
        /\ firstErr' = (firstErr \/ err)
        /\ wg' = wg - 1
  BY DEF PulsarCallback, Countdown
<1>4. PICK least \in Nat : Resent({i}, least) /\ (err \/ least = 1)
  BY <1>3
<1>5. /\ copies' \in [Ids -> Nat] /\ i \in Ids
      /\ \A j \in Ids : j # i => copies'[j] = copies[j]
      /\ \A j \in Ids : copies'[j] >= copies[j]
      /\ copies'[i] >= 1 \/ err
  <2>1. i \in Ids
    BY <1>1 DEF TypeOK
  <2>2. /\ copies' \in [Ids -> Nat]
        /\ \A j \in Ids : j \notin {i} => copies'[j] = copies[j]
        /\ \A j \in Ids : j \in {i} => copies'[j] >= copies[j] + least
        /\ \A j \in Ids : copies'[j] >= copies[j]
    BY <1>1, <1>4, ResentFacts
  <2>3. copies'[i] >= copies[i] + least /\ copies[i] \in Nat /\ copies'[i] \in Nat
    BY <1>1, <2>1, <2>2 DEF TypeOK
  <2>4. copies'[i] >= 1 \/ err
    BY <1>4, <2>3
  <2> QED BY <2>1, <2>2, <2>4
<1>6. pc # "returned"
  BY <1>1, <1>3 DEF IInv, Awaited
<1>7. /\ inflight \subseteq done .. done + sent - 1
      /\ wg = IF sent = 0 THEN 0 ELSE Cardinality(inflight) + Size - sent
      /\ \A j \in done .. done + sent - 1 : j \in inflight \/ copies[j] >= 1 \/ firstErr
  BY <1>1, <1>6 DEF IInv, Awaited
<1>8. /\ Cardinality(inflight') = Cardinality(inflight) - 1
      /\ Cardinality(inflight) \in Nat /\ Cardinality(inflight') \in Nat
  <2>1. IsFiniteSet(inflight) /\ Cardinality(inflight) \in Nat
    BY <1>1, InflightFinite
  <2>2. IsFiniteSet(inflight') /\ Cardinality(inflight') = Cardinality(inflight) - 1
    BY <1>3, <2>1, FS_RemoveElement
  <2> QED BY <2>1, <2>2, FS_CardinalityType
<1>9. sent # 0 /\ sent <= Size /\ Size \in Nat
  <2>1. sent # 0
    BY <1>1, <1>3, <1>7 DEF TypeOK
  <2>2. pc \in {"loop", "waiting"} /\ sent <= Size
    <3>1. pc \in {"open", "loop", "backoff", "confirming", "waiting"}
      BY <1>1, <1>6 DEF TypeOK
    <3>2. pc \in {"loop", "waiting"}
      BY <1>1, <2>1, <3>1 DEF IInv, Located
    <3>3. sent <= Size
      BY <1>1, <2>1, <3>2, SizeFacts DEF IInv, Located, TypeOK
    <3> QED BY <3>2, <3>3
  <2> QED BY <1>1, <2>1, <2>2, SizeFacts DEF TypeOK
<1>10. wg' \in 0 .. BatchSize /\ wg' = Cardinality(inflight') + Size - sent
  BY <1>1, <1>3, <1>7, <1>8, <1>9, BatchAssumption DEF TypeOK
<1>11. TypeOK'
  BY <1>1, <1>2, <1>3, <1>5, <1>10 DEF TypeOK
<1>12. Located' /\ Batched' /\ Writers'
  BY <1>1, <1>2 DEF IInv, Located, Batched, Writers, Size
<1>13. FewCopies' /\ Kept'
  <2>1. Given' = Given
    BY <1>2 DEF Given, Size
  <2>3. i < Given
    <3>1. Given \in Int /\ i \in Int
      BY <1>1, <1>5, SizeFacts DEF Given, Ids, TypeOK
    <3>2. ~(i >= Given)
      BY <1>1, <1>3, <1>5, <1>6 DEF IInv, FewCopies
    <3> QED BY <3>1, <3>2
  <2>4. FewCopies'
    BY <1>1, <1>2, <1>3, <1>5, <2>1, <2>3 DEF IInv, FewCopies, TypeOK
  <2> QED BY <1>1, <1>2, <1>5, <2>4 DEF IInv, Kept, TypeOK
<1>14. Awaited'
  <2>1. ASSUME NEW j \in done .. done + sent - 1
        PROVE  j \in inflight' \/ copies'[j] >= 1 \/ firstErr'
    <3>1. CASE j = i BY <1>1, <1>3, <1>5, <3>1 DEF TypeOK
    <3>2. CASE j # i
      <4>1. CASE j \in inflight BY <1>3, <3>2, <4>1
      <4>2. CASE firstErr BY <1>3, <4>2
      <4>3. CASE copies[j] >= 1 /\ j \notin inflight
        <5>1. j \in Ids
          <6>1. /\ done \in Nat /\ sent \in Nat /\ Size \in Nat /\ sent <= Size
                /\ done + Size <= Count
            BY <1>1, <1>9, SizeFacts DEF TypeOK
          <6> QED BY <6>1, CountAssumption DEF Ids
        <5> QED BY <1>1, <1>5, <3>2, <4>3, <5>1 DEF TypeOK
      <4> QED BY <1>7, <4>1, <4>2, <4>3
    <3> QED BY <3>1, <3>2
  <2>2. Size' = Size /\ inflight' \subseteq done .. done + sent - 1
    BY <1>2, <1>3, <1>7 DEF Size
  <2> QED BY <1>2, <1>6, <1>9, <1>10, <2>1, <2>2 DEF Awaited
<1> QED BY <1>1, <1>2, <1>11, <1>12, <1>13, <1>14 DEF IInv, InOrder

\* When the wait group is at zero nothing is in flight, so that without an error all of
\* the batch is stored.
LEMMA PulsarWaitStep == IInv /\ PulsarWait => IInv'
<1> SUFFICES ASSUME IInv, PulsarWait PROVE IInv'
  OBVIOUS
<1> USE DEF kafkaVars, rabbitVars, pulsarVars
<1>1. /\ TypeOK /\ pc = "waiting" /\ broker = "pulsar" /\ done < Count
      /\ sent = Size /\ Size \in 1 .. BatchSize /\ done + Size <= Count /\ wg = 0
  <2>1. TypeOK /\ pc = "waiting" /\ broker = "pulsar" /\ done < Count /\ sent = Size /\ wg = 0
    BY DEF IInv, Located, PulsarWait, AllAnswered
  <2> QED BY <2>1, SizeFacts, BatchAssumption DEF TypeOK
<1>2. UNCHANGED <<broker, copies, attempt, writer, open, inflight, confirms, closed, wg, firstErr>>
  BY DEF PulsarWait
<1>3. inflight = {} /\ \A i \in done .. done + Size - 1 : copies[i] >= 1 \/ firstErr
  <2>1. wg = Cardinality(inflight) + Size - sent
    BY <1>1 DEF IInv, Awaited
  <2>2. Cardinality(inflight) = 0
    BY <1>1, <2>1, InflightFinite
  <2>3. inflight = {}
    BY <1>1, <2>2, InflightFinite, FS_EmptySet
  <2> QED BY <1>1, <2>3 DEF IInv, Awaited
<1>4. CASE Fail
  BY <1>1, <1>2, <1>3, <1>4, FailKeeps DEF TypeOK
<1>5. CASE ~firstErr /\ Record
  <2>1. /\ done' \in 0 .. Count /\ done' = done + Size /\ done' > done
        /\ durs' \in Nat /\ Batched'
        /\ pc' = "loop" /\ sent' = 0 /\ outcome' = outcome
    BY <1>1, <1>5, RecordFacts DEF IInv, Record
  <2>2. TypeOK'
    BY <1>1, <1>2, <2>1, BatchAssumption DEF TypeOK
  <2>3. Located' /\ Writers'
    BY <1>1, <1>2, <2>1 DEF IInv, Located, Writers
  <2>4. FewCopies'
    <3>1. Given = done + Size /\ Given' = done + Size
      BY <1>1, <2>1 DEF Given, TypeOK
    <3> QED BY <1>1, <1>2, <2>1, <3>1 DEF IInv, FewCopies
  <2>5. Kept'
    <3>1. \A i \in Ids : i < done' => i < done \/ i \in done .. done + Size - 1
      BY <1>1, <2>1 DEF Ids, TypeOK
    <3>2. \A i \in Ids : i < done' => copies[i] >= 1
      BY <1>3, <1>5, <3>1 DEF IInv, Kept
    <3> QED BY <1>1, <1>2, <3>2 DEF Kept
  <2>6. Awaited'
    BY <1>1, <1>2, <1>3, <2>1 DEF Awaited, TypeOK
  <2> QED BY <1>1, <1>2, <2>1, <2>2, <2>3, <2>4, <2>5, <2>6 DEF IInv, InOrder
<1> QED BY <1>4, <1>5 DEF PulsarWait

-----------------------------------------------------------------------------
(* The theorems.                                                           *)

\* Produce returns without an error only from the top of its loop, with nothing in flight.
LEMMA FinishStep == IInv /\ Finish => IInv'
<1> SUFFICES ASSUME IInv, Finish PROVE IInv'
  OBVIOUS
<1> USE DEF kafkaVars, rabbitVars, pulsarVars
<1>1. TypeOK /\ pc = "loop" /\ done = Count
  BY DEF IInv, Finish
<1>2. /\ UNCHANGED <<broker, done, sent, copies, durs, attempt, writer, inflight>>
      /\ UNCHANGED <<confirms, closed, wg, firstErr>>
      /\ pc' = "returned" /\ outcome' = "ok" /\ open' = open \ {1}
  BY DEF Finish, CloseFirst
<1>3. TypeOK' BY <1>1, <1>2 DEF TypeOK
<1>4. Located' /\ Batched' /\ Writers'
  BY <1>1, <1>2 DEF IInv, Located, Batched, Writers
<1>5. FewCopies' /\ Kept' /\ InOrder'
  BY <1>1, <1>2 DEF IInv, FewCopies, Kept, InOrder
<1>6. Awaited'
  <2> SUFFICES ASSUME broker = "pulsar" PROVE inflight = {}
    BY <1>2 DEF Awaited
  <2>1. sent = 0
    BY <1>1, SizeFacts DEF IInv, Located, TypeOK
  <2> QED BY <1>1, <2>1 DEF IInv, Awaited, TypeOK
<1> QED BY <1>3, <1>4, <1>5, <1>6 DEF IInv

\* A step stores, and sends, messages of the current batch only, and a batch that is
\* recorded leaves less ahead.
LEMMA NothingAheadStep == IInv /\ NothingAhead /\ [Next]_vars => NothingAhead'
<1> SUFFICES ASSUME IInv, NothingAhead, [Next]_vars PROVE NothingAhead'
  OBVIOUS
<1> USE DEF kafkaVars, rabbitVars, pulsarVars
<1> DEFINE Same(i) == copies'[i] = copies[i] /\ (i \in inflight' => i \in inflight)
           Far(i) == i >= done + Size
<1>1. TypeOK /\ Located
  BY DEF IInv
<1>2. /\ done \in Nat /\ Size \in Nat /\ done + Size <= Count
      /\ done < Count => Size >= 1
  BY <1>1, SizeFacts DEF TypeOK
<1>3. done' \in {done, done + Size}
  BY DEF Next, Kafka, Rabbit, Pulsar, Environment, KafkaWrite, KafkaRetry, RabbitOpen,
         RabbitPublish, RabbitAwait, BrokerConfirm, BrokerClose, NatsPublish, PulsarOpen,
         PulsarSend, PulsarCallback, PulsarWait, Finish, Done, Record, Fail, vars
<1>4. \A i \in Ids : i >= done' + Size' => Far(i)
  <2>1. CASE done' = done BY <2>1 DEF Size
  <2>2. CASE done' = done + Size
    <3>1. PICK d \in Nat : d = done' /\ d <= Count
      BY <1>2, <2>2
    <3>2. Size' = IF Count - d < BatchSize THEN Count - d ELSE BatchSize
      BY <3>1 DEF Size
    <3>3. PICK n \in Nat : n = Size'
      <4>1. d <= Count /\ Count \in Nat /\ BatchSize \in Nat
        BY <3>1, CountAssumption, BatchAssumption
      <4>2. Count - d \in Nat
        BY <4>1
      <4> QED BY <3>2, <4>1, <4>2
    <3>4. \A i \in Ids : i >= done' + Size' => i >= done'
      <4>1. \A i \in Ids : i >= d + n => i >= d
        BY CountAssumption DEF Ids
      <4> QED BY <3>1, <3>3, <4>1
    <3> QED BY <2>2, <3>4
  <2> QED BY <1>3, <2>1, <2>2
<1>5. ASSUME KafkaWrite PROVE \A i \in Ids : Far(i) => Same(i)
  <2>1. PICK least \in {0, 1} : Resent(Batch, least)
    BY <1>5 DEF KafkaWrite
  <2>2. \A i \in Ids : Far(i) => i \notin Batch
    BY <1>2 DEF Batch, Ids
  <2>3. \A i \in Ids : i \notin Batch => copies'[i] = copies[i]
    BY <1>1, <2>1, ResentFacts
  <2> QED BY <1>5, <2>2, <2>3 DEF KafkaWrite
<1>6. ASSUME BrokerConfirm PROVE \A i \in Ids : Far(i) => Same(i)
  BY <1>1, <1>6, StoredFacts DEF BrokerConfirm, NothingAhead
<1>7. ASSUME BrokerClose PROVE \A i \in Ids : Far(i) => Same(i)
  BY <1>1, <1>7, StoredFacts DEF BrokerClose, NothingAhead
<1>8. \A i \in Ids : Far(i) /\ sent < Size => i # NextId
  BY <1>1, <1>2 DEF NextId, Ids, TypeOK
<1>9. ASSUME NatsPublish PROVE \A i \in Ids : Far(i) => Same(i)
  <2>1. sent < Size
    BY <1>1, <1>2, <1>9 DEF NatsPublish, Located, TypeOK
  <2>2. \E S \in {{}, {NextId}} : Stored(S)
    BY <1>9 DEF NatsPublish
  <2>3. UNCHANGED inflight
    BY <1>9 DEF NatsPublish
  <2> QED BY <1>1, <1>8, <2>1, <2>2, <2>3, StoredFacts
<1>10. ASSUME PulsarSend PROVE \A i \in Ids : Far(i) => Same(i)
  <2>1. sent < Size
    BY <1>1, <1>2, <1>10 DEF PulsarSend, Located, TypeOK
  <2> QED BY <1>8, <1>10, <2>1 DEF PulsarSend
<1>11. ASSUME RabbitPublish PROVE \A i \in Ids : Far(i) => Same(i)
  BY <1>8, <1>11 DEF RabbitPublish
<1>12. ASSUME PulsarCallback PROVE \A i \in Ids : Far(i) => Same(i)
  <2>1. PICK j \in inflight, least \in Nat : Resent({j}, least) /\ inflight' = inflight \ {j}
    BY <1>12 DEF PulsarCallback
  <2>2. \A i \in Ids : i \notin {j} => copies'[i] = copies[i]
    BY <1>1, <2>1, ResentFacts
  <2> QED BY <2>1, <2>2 DEF NothingAhead
<1>13. ASSUME \/ KafkaRetry \/ RabbitOpen \/ RabbitAwait \/ PulsarOpen \/ PulsarWait
              \/ Finish \/ UNCHANGED vars
       PROVE  UNCHANGED <<copies, inflight>>
  BY <1>13 DEF KafkaRetry, RabbitOpen, RabbitAwait, PulsarOpen, PulsarWait, Finish, vars
<1>14. \A i \in Ids : Far(i) => Same(i)
  <2> HIDE DEF Far
  <2> QED BY <1>5, <1>6, <1>7, <1>9, <1>10, <1>11, <1>12, <1>13
          DEF Next, Kafka, Rabbit, Pulsar, Environment, Done
<1> QED BY <1>4, <1>14 DEF NothingAhead

\* The invariant holds of every broker's Produce.
LEMMA Invariance == Spec => [](IInv /\ NothingAhead)
<1>1. Init => IInv /\ NothingAhead
  <2> SUFFICES ASSUME Init PROVE IInv /\ NothingAhead
    OBVIOUS
  <2> USE CountAssumption, BatchAssumption, AttemptsAssumption DEF Init
  <2>1. TypeOK
    <3>1. /\ copies \in [Ids -> Nat] /\ open \subseteq 0 .. writer /\ writer \in Nat
          /\ inflight \subseteq Ids /\ confirms \in Seq(BOOLEAN)
      OBVIOUS
    <3>2. done \in 0 .. Count /\ sent \in 0 .. BatchSize /\ attempt \in 0 .. MaxAttempts
      OBVIOUS
    <3>3. wg \in 0 .. BatchSize /\ durs \in Nat
      OBVIOUS
    <3> QED BY <3>1, <3>2, <3>3 DEF TypeOK
  <2>2. Located /\ Batched /\ Writers BY DEF Located, Batched, Writers
  <2>3. FewCopies
    <3>1. writer \in Nat /\ attempt = 0 /\ (broker = "kafka" => pc = "loop")
      OBVIOUS
    <3>2. /\ writer * LibraryAttempts \in Nat /\ MaxAttempts * LibraryAttempts \in Nat
          /\ attempt * LibraryAttempts = 0
      BY <3>1, LibraryAssumption
    <3>3. \A i \in Ids : copies[i] = 0 /\ i \notin inflight
      OBVIOUS
    <3> QED BY <3>1, <3>2, <3>3 DEF FewCopies
  <2>4. Kept BY DEF Kept, Confirmed, Ids
  <2>5. InOrder BY DEF InOrder, Confirmed, Given
  <2>6. Awaited BY DEF Awaited
  <2>7. NothingAhead BY DEF NothingAhead
  <2> QED BY <2>1, <2>2, <2>3, <2>4, <2>5, <2>6, <2>7 DEF IInv
<1>2. IInv /\ UNCHANGED vars => IInv'
  BY DEF vars, kafkaVars, rabbitVars, pulsarVars, IInv, TypeOK, Located, Batched, Writers,
         FewCopies, Kept, InOrder, Awaited, Given, Confirmed, Size
<1>3. IInv /\ NothingAhead /\ [Next]_vars => IInv'
  BY <1>2, KafkaWriteStep, KafkaRetryStep, OpenStep, RabbitPublishStep, RabbitAwaitStep,
     BrokerConfirmStep, BrokerCloseStep, NatsPublishStep, PulsarSendStep, PulsarCallbackStep,
     PulsarWaitStep, FinishStep
  DEF Next, Kafka, Rabbit, Pulsar, Environment, Done
<1> QED BY <1>1, <1>3, NothingAheadStep, PTL DEF Spec

\* The type invariant of Produce.
THEOREM ProduceTypeOK == Spec => []TypeOK
<1>1. IInv => TypeOK
  BY DEF IInv
<1> QED BY <1>1, Invariance, PTL

\* A recorded batch is stored, and Produce returns without an error only when all
\* Count messages are, whatever the broker fails, delays or repeats.
THEOREM RecordedIsStored == Spec => []RecordedMeansStored
<1>1. IInv => RecordedMeansStored
  BY DEF IInv, Kept, Located, Batched, RecordedMeansStored
<1> QED BY <1>1, Invariance, PTL

\* However writers, connections and libraries try again, RabbitMQ and NATS store a
\* message at most once, Kafka as often as the tries of a batch and of the library
\* allow, and none of the four anything behind the current batch.
THEOREM CopiesAreBounded == Spec => []CopiesBounded
<1>1. IInv /\ NothingAhead => CopiesBounded
  BY DEF IInv, FewCopies, NothingAhead, CopiesBounded
<1> QED BY <1>1, Invariance, PTL

\* The retries of a Kafka batch never leave two writers open.
THEOREM WriterAlone == Spec => []OneWriterOpen
<1>1. IInv => OneWriterOpen
  <2> SUFFICES ASSUME IInv PROVE Cardinality(open) <= 1
    BY DEF OneWriterOpen
  <2>1. open = {} \/ open = {writer}
    BY DEF IInv, Writers
  <2>2. Cardinality({writer}) = 1
    BY FS_Singleton
  <2>3. Cardinality({}) = 0
    BY FS_EmptySet
  <2> QED BY <2>1, <2>2, <2>3
<1> QED BY <1>1, Invariance, PTL

=============================================================================
