------------------------------ MODULE Produce -------------------------------
(***************************************************************************)
(* The Produce operation of benchmarks/loadgen-msg for its four brokers.   *)
(* One goroutine sends Count messages in batches and waits, batch by       *)
(* batch, for the broker to take responsibility for them: Kafka rewrites a *)
(* whole batch through a new writer on transient errors, RabbitMQ counts   *)
(* publisher confirms, NATS publishes synchronously and Pulsar waits for   *)
(* the callbacks of asynchronous sends.                                    *)
(*                                                                         *)
(* Two of the client libraries try again by themselves: a kafka.Writer, of *)
(* which newWriter leaves MaxAttempts at its default, within one call, and *)
(* a Pulsar producer, which has no deduplication, what is pending when it  *)
(* reconnects.  amqp091 and a JetStream publish do not.                    *)
(*                                                                         *)
(* main passes context.Background(), so the ctx.Done branches are dead.    *)
(***************************************************************************)
EXTENDS Integers, FiniteSets, Sequences

CONSTANTS
  Count,        \* --count
  BatchSize,    \* --batch
  MaxAttempts,  \* tries of one Kafka batch (10 in the code)
  LibraryAttempts,  \* tries within one call: 10 of kafka-go's, and as many as
                    \* the send timeout allows of Pulsar's (bounds the model)
  Brokers       \* the brokers this instance covers

ASSUME CountAssumption    == Count \in Nat \ {0}
ASSUME BatchAssumption    == BatchSize \in Nat \ {0}
ASSUME AttemptsAssumption == MaxAttempts \in Nat \ {0}
ASSUME LibraryAssumption  == LibraryAttempts \in Nat \ {0}

VARIABLES
  broker,    \* the --db flag
  pc,        \* where Produce is in its loop
  done,      \* messages of the batches whose duration is recorded
  sent,      \* messages of the current batch handed to the client library
  copies,    \* per message: how often the broker has stored it
  durs,      \* number of recorded batch durations
  attempt,   \* failed tries of the current Kafka batch
  writer,    \* number of Kafka writers made so far
  open,      \* the Kafka writers that are not closed
  inflight,  \* sent messages the broker has not answered for
  confirms,  \* the confirms channel: TRUE for ack, FALSE for nack (RabbitMQ)
  closed,    \* the broker has closed the channel (RabbitMQ)
  wg,        \* the wait group: callbacks of the batch still to come (Pulsar)
  firstErr,  \* a callback of the current batch saw an error (Pulsar)
  outcome    \* "none" while Produce runs, then "ok" or "error"

kafkaVars  == <<attempt, writer, open>>
rabbitVars == <<confirms, closed>>
pulsarVars == <<wg, firstErr>>
vars == <<broker, pc, done, sent, copies, durs, kafkaVars, inflight, rabbitVars, pulsarVars, outcome>>

Ids == 0 .. Count - 1

\* The size of the current batch and the ids its messages carry.
Size  == IF Count - done < BatchSize THEN Count - done ELSE BatchSize
Batch == done .. done + Size - 1

\* The id makeMsg is given for the next message of the batch.
StuckId == done  \* mutant: msgID is not advanced within a batch
NextId  == done + sent

Stored(S) == copies' = [i \in Ids |-> IF i \in S THEN copies[i] + 1 ELSE copies[i]]

\* The library has sent S one or more times by itself, and every message of S has
\* been stored by at least so many of these.
Resent(S, least) ==
  \E times \in [S -> least .. LibraryAttempts] :
    copies' = [i \in Ids |-> IF i \in S THEN copies[i] + times[i] ELSE copies[i]]

\* The batch is answered for: its duration is recorded and the loop goes on.
Record ==
  /\ pc' = "loop"
  /\ done' = done + Size
  /\ durs' = durs + 1
  /\ sent' = 0
  /\ UNCHANGED outcome

\* Produce returns an error; what was recorded is returned with it.
Fail ==
  /\ pc' = "returned"
  /\ outcome' = "error"
  /\ UNCHANGED <<done, durs, sent>>

\* The deferred w.Close() is bound to the writer made first: that one is closed
\* when Produce returns, and any later one stays open.
CloseFirst == open' = open \ {1}

-----------------------------------------------------------------------------
(* Kafka.                                                                  *)

LeftOpen(w)     == open        \* mutant: the writer is not closed before a retry
ClosedWriter(w) == open \ {w}

\* Every try writes the whole batch, once or more; a failed one may have stored
\* part of it.
\* After a transient error the writer is closed, after any other Produce
\* returns.
KafkaWrite ==
  /\ broker = "kafka"
  /\ pc = "loop"
  /\ done < Count
  /\ \/ /\ Resent(Batch, 1)
        /\ Record
        /\ attempt' = 0
        /\ UNCHANGED open
     \/ /\ Resent(Batch, 0)
        /\ pc' = "backoff"
        /\ open' = ClosedWriter(writer)
        /\ UNCHANGED <<done, durs, sent, attempt, outcome>>
     \/ /\ Resent(Batch, 0)
        /\ Fail
        /\ CloseFirst
        /\ UNCHANGED attempt
  /\ UNCHANGED <<broker, writer, inflight, rabbitVars, pulsarVars>>

TriesLeft(a)  == a < MaxAttempts

\* A second later a new writer is made, also when the tries are used up.
KafkaRetry ==
  /\ pc = "backoff"
  /\ attempt' = attempt + 1
  /\ writer' = writer + 1
  /\ IF TriesLeft(attempt')
     THEN /\ pc' = "loop"
          /\ open' = open \cup {writer'}
          /\ UNCHANGED <<done, durs, sent, outcome>>
     ELSE /\ Fail
          /\ open' = (open \cup {writer'}) \ {1}
  /\ UNCHANGED <<broker, copies, inflight, rabbitVars, pulsarVars>>

-----------------------------------------------------------------------------
(* RabbitMQ.                                                               *)

\* A channel in confirm mode, with a notification channel of BatchSize places.
RabbitOpen ==
  /\ broker = "rabbitmq"
  /\ pc = "open"
  /\ \/ pc' = "loop" /\ UNCHANGED <<done, durs, sent, outcome>>
     \/ Fail
  /\ UNCHANGED <<broker, copies, kafkaVars, inflight, rabbitVars, pulsarVars>>

RabbitPublish ==
  /\ broker = "rabbitmq"
  /\ pc = "loop"
  /\ done < Count
  /\ sent < Size
  /\ \/ /\ ~closed
        /\ sent' = sent + 1
        /\ inflight' = inflight \cup {NextId}
        /\ pc' = IF sent' = Size THEN "confirming" ELSE "loop"
        /\ UNCHANGED <<done, durs, outcome>>
     \/ /\ Fail
        /\ UNCHANGED inflight
  /\ UNCHANGED <<broker, copies, kafkaVars, rabbitVars, pulsarVars>>

\* Confirms arrive in the order of the delivery tags.  The notification channel
\* must have room: a full one blocks the reader of the whole connection.
ConfirmCapacity == BatchSize

BrokerConfirm ==
  /\ broker = "rabbitmq"
  /\ ~closed
  /\ Len(confirms) < ConfirmCapacity
  /\ \E i \in inflight :
       /\ \A j \in inflight : i <= j
       /\ inflight' = inflight \ {i}
       /\ \E ack \in BOOLEAN :
            /\ confirms' = Append(confirms, ack)
            /\ Stored(IF ack THEN {i} ELSE {})
  /\ UNCHANGED <<broker, pc, done, sent, durs, kafkaVars, closed, pulsarVars, outcome>>

\* The connection is lost; publishes not yet confirmed never will be, whether
\* or not they have been stored.
BrokerClose ==
  /\ broker = "rabbitmq"
  /\ pc \in {"loop", "confirming"}
  /\ ~closed
  /\ closed' = TRUE
  /\ inflight' = {}
  /\ \E S \in SUBSET inflight : Stored(S)
  /\ UNCHANGED <<broker, pc, done, sent, durs, kafkaVars, confirms, pulsarVars, outcome>>

\* sent counts down the confirms of the batch that are still awaited.
RabbitAwait ==
  /\ pc = "confirming"
  /\ \/ /\ confirms # <<>>
        /\ confirms' = Tail(confirms)
        /\ \/ /\ Head(confirms)
              /\ IF sent = 1
                 THEN Record
                 ELSE sent' = sent - 1 /\ UNCHANGED <<pc, done, durs, outcome>>
           \/ /\ ~Head(confirms)
              /\ Fail
     \/ /\ confirms = <<>>
        /\ closed
        /\ Fail
        /\ UNCHANGED confirms
  /\ UNCHANGED <<broker, copies, kafkaVars, inflight, closed, pulsarVars>>

-----------------------------------------------------------------------------
(* NATS.                                                                   *)

\* js.Publish returns when the stream has stored the message; a publish that
\* fails may have been stored all the same.
NatsPublish ==
  /\ broker = "nats"
  /\ pc = "loop"
  /\ done < Count
  /\ \/ /\ Stored({NextId})
        /\ IF sent + 1 = Size
           THEN Record
           ELSE sent' = sent + 1 /\ UNCHANGED <<pc, done, durs, outcome>>
     \/ /\ \E S \in {{}, {NextId}} : Stored(S)
        /\ Fail
  /\ UNCHANGED <<broker, kafkaVars, inflight, rabbitVars, pulsarVars>>

-----------------------------------------------------------------------------
(* Pulsar.                                                                 *)

PulsarOpen ==
  /\ broker = "pulsar"
  /\ pc = "open"
  /\ \/ pc' = "loop" /\ UNCHANGED <<done, durs, sent, outcome>>
     \/ Fail
  /\ UNCHANGED <<broker, copies, kafkaVars, inflight, rabbitVars, pulsarVars>>

\* The wait group is raised by the size of the batch before its first send.
PulsarSend ==
  /\ broker = "pulsar"
  /\ pc = "loop"
  /\ done < Count
  /\ wg' = IF sent = 0 THEN Size ELSE wg
  /\ sent' = sent + 1
  /\ inflight' = inflight \cup {NextId}
  /\ pc' = IF sent' = Size THEN "waiting" ELSE "loop"
  /\ UNCHANGED <<broker, done, copies, durs, kafkaVars, rabbitVars, firstErr, outcome>>

\* The callback of one send, which may have been repeated, records the first error
\* and, in any case, counts the wait group down by one.
CountdownOnSuccess(err) == IF err THEN 0 ELSE 1  \* mutant: no deferred Done
Countdown(err)          == 1

PulsarCallback ==
  /\ broker = "pulsar"
  /\ \E i \in inflight, err \in BOOLEAN :
       /\ inflight' = inflight \ {i}
       /\ Resent({i}, IF err THEN 0 ELSE 1)
       /\ firstErr' = (firstErr \/ err)
       /\ wg' = wg - Countdown(err)
  /\ UNCHANGED <<broker, pc, done, sent, durs, kafkaVars, rabbitVars, outcome>>

\* firstErr is read after wg.Wait, when the last callback is done.
AllSent     == TRUE      \* mutant: no wg.Wait
AllAnswered == wg = 0
PulsarWait ==
  /\ pc = "waiting"
  /\ AllAnswered
  /\ IF firstErr THEN Fail ELSE Record
  /\ UNCHANGED <<broker, copies, kafkaVars, inflight, rabbitVars, pulsarVars>>

-----------------------------------------------------------------------------

Finish ==
  /\ pc = "loop"
  /\ done = Count
  /\ pc' = "returned"
  /\ outcome' = "ok"
  /\ CloseFirst
  /\ UNCHANGED <<broker, done, sent, copies, durs, attempt, writer, inflight, rabbitVars, pulsarVars>>

Done == pc = "returned" /\ UNCHANGED vars

Init ==
  /\ broker \in Brokers
  /\ pc = IF broker \in {"rabbitmq", "pulsar"} THEN "open" ELSE "loop"
  /\ done = 0
  /\ sent = 0
  /\ copies = [i \in Ids |-> 0]
  /\ durs = 0
  /\ attempt = 0
  /\ writer = IF broker = "kafka" THEN 1 ELSE 0
  /\ open = IF broker = "kafka" THEN {1} ELSE {}
  /\ inflight = {}
  /\ confirms = <<>>
  /\ closed = FALSE
  /\ wg = 0
  /\ firstErr = FALSE
  /\ outcome = "none"

Kafka  == KafkaWrite \/ KafkaRetry
Rabbit == RabbitOpen \/ RabbitPublish \/ RabbitAwait
Pulsar == PulsarOpen \/ PulsarSend \/ PulsarWait
Environment == BrokerConfirm \/ PulsarCallback

Next ==
  \/ Kafka \/ Rabbit \/ NatsPublish \/ Pulsar
  \/ Environment
  \/ BrokerClose
  \/ Finish
  \/ Done

Spec == Init /\ [][Next]_vars

\* The goroutine runs, every publish is answered and every callback called
\* (RabbitMQ confirms or closes, Pulsar has a send timeout).
Fairness ==
  /\ WF_vars(Kafka \/ Rabbit \/ NatsPublish \/ Pulsar \/ Finish)
  /\ WF_vars(Environment)

FairSpec == Spec /\ Fairness

-----------------------------------------------------------------------------
(* Properties.                                                             *)

TypeOK ==
  /\ broker \in Brokers
  /\ pc \in {"open", "loop", "backoff", "confirming", "waiting", "returned"}
  /\ done \in 0 .. Count
  /\ sent \in 0 .. BatchSize
  /\ copies \in [Ids -> Nat]
  /\ durs \in Nat
  /\ attempt \in 0 .. MaxAttempts
  /\ writer \in Nat
  /\ open \subseteq 0 .. writer
  /\ inflight \subseteq Ids
  /\ confirms \in Seq(BOOLEAN)
  /\ closed \in BOOLEAN
  /\ wg \in 0 .. BatchSize
  /\ firstErr \in BOOLEAN
  /\ outcome \in {"none", "ok", "error"}

\* A recorded batch duration stands for a batch every message of which the
\* broker has stored; "ok" therefore means that all Count messages are there.
RecordedMeansStored ==
  /\ \A i \in Ids : i < done => copies[i] >= 1
  /\ outcome = "ok" => done = Count
  /\ durs * BatchSize >= done /\ (durs - 1) * BatchSize < done

\* The tries of Produce and those of the library within each multiply, and no
\* more: a message that Kafka has stored more often than one call may store it has
\* cost a transient error and a new writer, and there are at most MaxAttempts for
\* a batch.  RabbitMQ and NATS store it once, and whatever the order of answers and
\* repetitions, nothing behind the current batch is stored by any of the four.
CopiesBounded ==
  \A i \in Ids :
    /\ broker = "kafka" => /\ copies[i] <= writer * LibraryAttempts
                           /\ copies[i] <= MaxAttempts * LibraryAttempts
    /\ broker \in {"rabbitmq", "nats"} => copies[i] <= 1
    /\ i >= done + Size => copies[i] = 0

\* One Kafka writer is open at a time, also across the retries of a batch.
OneWriterOpen == Cardinality(open) <= 1

\* Produce returns, however often the broker fails it.
ProduceReturns == <>(outcome # "none")

=============================================================================
