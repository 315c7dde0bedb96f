------------------------------ MODULE Consume -------------------------------
(***************************************************************************)
(* The Consume operation of benchmarks/loadgen-msg for its four brokers:   *)
(* a pool of goroutines reads messages until together they have counted    *)
(* Count of them, the one that reaches Count cancels the shared context,   *)
(* and the caller collects the per-consumer counters once all are gone.    *)
(*                                                                         *)
(* A loop iteration is receive, perConsumer[id].Add, totalConsumed.Add and *)
(* cancel: actions of their own, because goroutines interleave between     *)
(* them.  The broker is external: it moves messages from a subscription to *)
(* the client that reads it, decides what becomes of the messages a closed *)
(* client had prefetched, and, but for RabbitMQ's auto-ack, delivers at    *)
(* least once: a message whose commit or acknowledgement it has not seen   *)
(* it hands out again.                                                     *)
(***************************************************************************)
EXTENDS Integers, FiniteSets, Functions

CONSTANTS
  NConsumers,  \* --consumers
  Count,       \* the number of messages Consume is asked for
  Messages,    \* what a topic, queue or stream may hold when Consume starts
  Prefetch,    \* messages a client buffers ahead of its loop (bounds the model)
  MaxRedelivered,  \* how many messages are ever handed out again (bounds the model)
  Brokers,     \* the brokers this instance covers
  Faulty       \* the consumers whose connection may fail

Consumers  == 0 .. NConsumers - 1
AllBrokers == {"kafka", "rabbitmq", "nats", "pulsar"}

ASSUME ConsumersAssumption == NConsumers \in Nat \ {0}
ASSUME CountAssumption     == Count \in Nat \ {0}
ASSUME PrefetchAssumption  == Prefetch \in Nat \ {0}
ASSUME BrokersAssumption   == Brokers \subseteq AllBrokers

VARIABLES
  broker,       \* the --db flag
  queue,        \* per subscription: messages not yet handed to a client
  inbox,        \* per consumer: messages its client has prefetched
  read,         \* per consumer: messages its loop has received (history)
  received,     \* per consumer: how often it has received one (history)
  redelivered,  \* messages the broker has handed out again (history)
  pc,           \* per consumer: where its goroutine is
  perConsumer,  \* the per-consumer counters
  total,        \* totalConsumed
  cancelled,    \* the shared context has been cancelled
  failed,       \* the consumers whose connection has failed (history)
  errCh,        \* the consumers that pushed a receive error (Pulsar)
  outcome       \* what Consume returned

clients  == <<broker, queue, inbox, read, received, redelivered>>
counters == <<perConsumer, total, cancelled>>
vars == <<clients, pc, counters, failed, errCh, outcome>>

PCs == {"subscribing", "opening", "receiving", "tallying", "counting",
        "cancelling", "erring", "returned"}

None      == [kind |-> "none",  total |-> 0]
Error     == [kind |-> "error", total |-> 0]
Totals(t) == [kind |-> "stats", total |-> t]

\* Subscriptions are numbered.  Kafka readers share one group, RabbitMQ
\* channels one queue, Pulsar consumers one Shared subscription; every NATS
\* goroutine creates a consumer of its own, which is sent the whole stream.
GroupPerGoroutine(c)  == c  \* mutant: the group id made inside the goroutine
KafkaGroup(c)         == 0
RabbitQueue(c)        == 0
PulsarSubscription(c) == 0
NatsConsumer(c)       == c

Sub(c) ==
  CASE broker = "kafka"    -> KafkaGroup(c)
    [] broker = "rabbitmq" -> RabbitQueue(c)
    [] broker = "pulsar"   -> PulsarSubscription(c)
    [] broker = "nats"     -> NatsConsumer(c)

Goto(c, label) == pc' = [pc EXCEPT ![c] = label]

\* The goroutine returns and its deferred calls run: a closed Kafka reader
\* leaves what it had fetched to the group, but for what is lost; a closed
\* auto-ack RabbitMQ channel and a deleted NATS consumer drop it, and a Pulsar
\* consumer stays open, with its buffer, until Consume itself returns.
ReturnLosing(c, lost) ==
  /\ Goto(c, "returned")
  /\ queue' = IF broker = "kafka"
              THEN [queue EXCEPT ![Sub(c)] = @ \cup (inbox[c] \ lost)]
              ELSE queue
  /\ inbox' = IF broker = "pulsar" THEN inbox ELSE [inbox EXCEPT ![c] = {}]
  /\ UNCHANGED <<broker, read, received, redelivered>>

Return(c) == ReturnLosing(c, {})

-----------------------------------------------------------------------------
(* The broker and the client libraries.                                    *)

ClientOpen(c) ==
  IF broker = "pulsar"
  THEN pc[c] # "subscribing" /\ outcome = None
  ELSE pc[c] \in {"receiving", "tallying", "counting", "cancelling"}

\* The broker pushes, or the client fetches, one more message.
Deliver(c) ==
  /\ ClientOpen(c)
  /\ Cardinality(inbox[c]) < Prefetch
  /\ \E m \in queue[Sub(c)] :
       /\ queue' = [queue EXCEPT ![Sub(c)] = @ \ {m}]
       /\ inbox' = [inbox EXCEPT ![c] = @ \cup {m}]
  /\ UNCHANGED <<broker, read, received, redelivered, pc, counters, failed, errCh, outcome>>

\* A message that a client holds or its loop has received is handed out again.
\* Kafka's group is rebalanced when a reader joins, leaves or is slow, and goes
\* on from the last offset it knows: a message fetched before may be committed,
\* and read, by two readers.  NATS and Pulsar repeat what they have seen no
\* acknowledgement of: it is sent without waiting for an answer, and a client
\* that reconnects by itself loses it.  RabbitMQ has nothing to wait for.
AtLeastOnce == {"kafka", "nats", "pulsar"}
Redeliver(c) ==
  /\ broker \in AtLeastOnce
  /\ outcome = None
  /\ \E m \in inbox[c] \cup read[c] :
       /\ queue' = [queue EXCEPT ![Sub(c)] = @ \cup {m}]
       /\ redelivered' = redelivered \cup {m}
       /\ Cardinality(redelivered') <= MaxRedelivered
  /\ UNCHANGED <<broker, inbox, read, received, pc, counters, failed, errCh, outcome>>

-----------------------------------------------------------------------------
(* Opening the clients.                                                    *)

OpenKafka(c) ==
  /\ broker = "kafka"
  /\ pc[c] = "opening"
  /\ Goto(c, "receiving")
  /\ UNCHANGED <<clients, counters, failed, errCh, outcome>>

\* A RabbitMQ goroutine that cannot open its channel returns without a word.
OpenRabbit(c) ==
  /\ broker = "rabbitmq"
  /\ pc[c] = "opening"
  /\ \/ /\ Goto(c, "receiving")
        /\ UNCHANGED <<clients, failed>>
     \/ /\ c \in Faulty
        /\ Return(c)
        /\ failed' = failed \cup {c}
  /\ UNCHANGED <<counters, errCh, outcome>>

\* CreateConsumer is given the shared context, so it also fails once that has
\* been cancelled.
OpenNats(c) ==
  /\ broker = "nats"
  /\ pc[c] = "opening"
  /\ \/ /\ Goto(c, "receiving")
        /\ UNCHANGED <<clients, failed>>
     \/ /\ c \in Faulty
        /\ Return(c)
        /\ failed' = failed \cup {c}
     \/ /\ cancelled
        /\ Return(c)
        /\ UNCHANGED failed
  /\ UNCHANGED <<counters, errCh, outcome>>

\* Pulsar consumers are subscribed one after the other by the caller; when one
\* cannot be, those already open are closed and Consume fails.
SubscribePulsar(c) ==
  /\ pc[c] = "subscribing"
  /\ \A d \in Consumers : d < c => pc[d] # "subscribing"
  /\ \/ /\ Goto(c, "opening")
        /\ UNCHANGED <<failed, outcome>>
     \/ /\ c \in Faulty
        /\ pc' = [d \in Consumers |-> "returned"]
        /\ failed' = failed \cup {c}
        /\ outcome' = Error
  /\ UNCHANGED <<clients, counters, errCh>>

\* The goroutines are started only when every consumer is subscribed.
StartPulsar(c) ==
  /\ broker = "pulsar"
  /\ pc[c] = "opening"
  /\ \A d \in Consumers : pc[d] # "subscribing"
  /\ Goto(c, "receiving")
  /\ UNCHANGED <<clients, counters, failed, errCh, outcome>>

-----------------------------------------------------------------------------
(* The loop of a goroutine.                                                *)

\* A buffered message is handed to the loop.  A cancelled context does not
\* rule this out: receiving and ctx.Done race in a select.
TakeMessage(c) ==
  /\ \E m \in inbox[c] :
       /\ inbox' = [inbox EXCEPT ![c] = @ \ {m}]
       /\ read' = [read EXCEPT ![c] = @ \cup {m}]
  /\ received' = [received EXCEPT ![c] = @ + 1]
  /\ Goto(c, "tallying")
  /\ UNCHANGED <<broker, queue, redelivered, failed>>

LeaveWhenCancelled(c) ==
  /\ cancelled
  /\ Return(c)
  /\ UNCHANGED failed

FailSilently(c) ==
  /\ c \in Faulty
  /\ Return(c)
  /\ failed' = failed \cup {c}

\* ReadMessage fetches a message and commits its offset.  When it fails in
\* between, the commit may have been made, and nobody reads the message.
CommitUnread(c) ==
  /\ \E m \in inbox[c] : ReturnLosing(c, {m})
  /\ \/ cancelled /\ UNCHANGED failed
     \/ c \in Faulty /\ failed' = failed \cup {c}

KafkaReceive(c) ==
  /\ broker = "kafka"
  /\ pc[c] = "receiving"
  /\ \/ TakeMessage(c)
     \/ LeaveWhenCancelled(c)
     \/ FailSilently(c)
     \/ CommitUnread(c)
  /\ UNCHANGED <<counters, errCh, outcome>>

RabbitReceive(c) ==
  /\ broker = "rabbitmq"
  /\ pc[c] = "receiving"
  /\ TakeMessage(c) \/ LeaveWhenCancelled(c) \/ FailSilently(c)
  /\ UNCHANGED <<counters, errCh, outcome>>

\* Next takes no context: on cancellation a helper goroutine stops the
\* iterator, which makes Next fail.
NoHelper        == FALSE  \* mutant: no goroutine waits for the cancellation
IteratorStopped == cancelled
NatsReceive(c) ==
  /\ broker = "nats"
  /\ pc[c] = "receiving"
  /\ \/ TakeMessage(c)
     \/ IteratorStopped /\ LeaveWhenCancelled(c)
     \/ FailSilently(c)
  /\ UNCHANGED <<counters, errCh, outcome>>

\* Pulsar tells a receive error from a cancellation, but only afterwards.
PulsarReceive(c) ==
  /\ broker = "pulsar"
  /\ pc[c] = "receiving"
  /\ \/ TakeMessage(c)
     \/ LeaveWhenCancelled(c)
     \/ /\ c \in Faulty
        /\ Goto(c, "erring")
        /\ failed' = failed \cup {c}
        /\ UNCHANGED clients
  /\ UNCHANGED <<counters, errCh, outcome>>

PushWhenCancelled == cancelled  \* mutant: the test of ctx.Err() inverted
PushesError       == ~cancelled
PulsarReport(c) ==
  /\ pc[c] = "erring"
  /\ errCh' = IF PushesError THEN errCh \cup {c} ELSE errCh
  /\ Return(c)
  /\ UNCHANGED <<counters, failed, outcome>>

Uncounted(n) == n - 1  \* mutant: the counter runs the wrong way
Counted(n)   == n + 1
PerConsumerAdd(c) ==
  /\ pc[c] = "tallying"
  /\ perConsumer' = [perConsumer EXCEPT ![c] = Counted(@)]
  /\ Goto(c, "counting")
  /\ UNCHANGED <<clients, total, cancelled, failed, errCh, outcome>>

CountExceeded(t) == t > Count  \* mutant: off by one
CountReached(t)  == t >= Count
TotalAdd(c) ==
  /\ pc[c] = "counting"
  /\ total' = total + 1
  /\ Goto(c, IF CountReached(total') THEN "cancelling" ELSE "receiving")
  /\ UNCHANGED <<clients, perConsumer, cancelled, failed, errCh, outcome>>

Cancel(c) ==
  /\ pc[c] = "cancelling"
  /\ cancelled' = TRUE
  /\ Return(c)
  /\ UNCHANGED <<perConsumer, total, failed, errCh, outcome>>

-----------------------------------------------------------------------------
(* The caller.                                                             *)

\* wg.Wait returns, and the report sums the counters; Pulsar first looks for
\* an error in its channel and, if there is one, returns no stats.
NoneReceiving == \A c \in Consumers : pc[c] # "receiving"  \* mutant: Done too early
AllReturned   == \A c \in Consumers : pc[c] = "returned"

Collect ==
  /\ outcome = None
  /\ AllReturned
  /\ outcome' = IF errCh # {} THEN Error
                ELSE Totals(FoldFunction(+, 0, perConsumer))
  /\ UNCHANGED <<clients, pc, counters, failed, errCh>>

\* Consume has returned; the environment adds nothing.
Done == outcome # None /\ UNCHANGED vars

Init ==
  /\ broker \in Brokers
  /\ \E backlog \in SUBSET Messages : queue = [s \in Consumers |-> backlog]
  /\ inbox = [c \in Consumers |-> {}]
  /\ read = [c \in Consumers |-> {}]
  /\ received = [c \in Consumers |-> 0]
  /\ redelivered = {}
  /\ pc = [c \in Consumers |-> IF broker = "pulsar" THEN "subscribing" ELSE "opening"]
  /\ perConsumer = [c \in Consumers |-> 0]
  /\ total = 0
  /\ cancelled = FALSE
  /\ failed = {}
  /\ errCh = {}
  /\ outcome = None

\* What a goroutine does on its own, once started.
Loop(c) ==
  \/ KafkaReceive(c)
  \/ RabbitReceive(c)
  \/ NatsReceive(c)
  \/ PulsarReceive(c)
  \/ PulsarReport(c)
  \/ PerConsumerAdd(c)
  \/ TotalAdd(c)
  \/ Cancel(c)

Open(c) ==
  \/ OpenKafka(c)
  \/ OpenRabbit(c)
  \/ OpenNats(c)
  \/ SubscribePulsar(c)
  \/ StartPulsar(c)

Next ==
  \/ \E c \in Consumers : Deliver(c) \/ Redeliver(c) \/ Open(c) \/ Loop(c)
  \/ Collect
  \/ Done

Spec == Init /\ [][Next]_vars

\* The Go scheduler runs every goroutine that can run, and a broker that has a
\* message for an open client with room in its buffer sends it.  No connection
\* has to fail: a goroutine that waits for a message may wait for ever.
Fairness ==
  /\ \A c \in Consumers :
       /\ WF_vars(Deliver(c))
       /\ WF_vars(Open(c) /\ UNCHANGED failed)
       /\ WF_vars(Loop(c) /\ UNCHANGED failed)
  /\ WF_vars(Collect)

FairSpec == Spec /\ Fairness
-----------------------------------------------------------------------------
(* Properties.                                                             *)

TypeOK ==
  /\ broker \in Brokers
  /\ queue \in [Consumers -> SUBSET Messages]
  /\ inbox \in [Consumers -> SUBSET Messages]
  /\ read \in [Consumers -> SUBSET Messages]
  /\ received \in [Consumers -> Nat]
  /\ redelivered \subseteq Messages
  /\ pc \in [Consumers -> PCs]
  /\ perConsumer \in [Consumers -> Nat]
  /\ total \in Nat
  /\ cancelled \in BOOLEAN
  /\ failed \subseteq Consumers
  /\ errCh \subseteq Consumers
  /\ outcome.kind \in {"none", "error", "stats"}

\* Goroutines that can still add to totalConsumed.
ActiveConsumers == {c \in Consumers : pc[c] \notin {"cancelling", "returned"}}

\* However the goroutines interleave with the cancellation, the pool counts at
\* most one message per consumer beyond Count, less one: whoever adds once
\* totalConsumed has reached Count leaves its loop (loadgen-msg bench.go).
OvershootBounded == total < Count + NConsumers

\* The inductive form: the surplus is paid for by goroutines that have left.
SurplusPaidFor ==
  total >= Count => total - Count < Cardinality(Consumers \ ActiveConsumers)

\* The total a caller is told is the sum over the consumers of how often their
\* loops received a message, redelivered ones included, and it is final: no
\* goroutine counts after wg.Wait.
ReportFaithful ==
  outcome.kind = "stats" =>
    /\ outcome.total = total
    /\ outcome.total = FoldFunction(+, 0, received)

\* Kafka, RabbitMQ and Pulsar consumers compete: they share one group, queue or
\* Shared subscription, so two of them read the same message only if the broker
\* has handed it out again, which RabbitMQ never does; and no consumer counts a
\* message twice but for that reason.  In particular the messages that a closed
\* reader gives back unread are counted once.
CompetingBrokers == {"kafka", "rabbitmq", "pulsar"}
ReadTwiceOnlyIfRedelivered ==
  /\ broker \in CompetingBrokers =>
       \A c, d \in Consumers : c # d => read[c] \cap read[d] \subseteq redelivered
  /\ \A c \in Consumers :
       read[c] \cap redelivered = {} => received[c] = Cardinality(read[c])
  /\ broker = "rabbitmq" => redelivered = {}

\* A report that falls short of Count is possible only when every consumer has
\* lost its connection, and never from Pulsar, whose receive errors reach the
\* caller unless the context had been cancelled, that is, Count been met.
ShortOnlyIfAllFailed ==
  outcome.kind = "stats" /\ outcome.total < Count =>
    broker # "pulsar" /\ failed = Consumers

\* The cancellation reaches every goroutine, wherever it is blocked, so once
\* Count is met Consume returns, whatever fails afterwards.
CancelReleasesAll == cancelled ~> outcome # None

\* The subscriptions hold enough for Count to be met without anybody's failing.
Backlogged == \A s \in Consumers : Cardinality(queue[s]) >= Count

\* Started on enough messages, and as long as no connection fails, Consume
\* reports at least Count messages.
Drains ==
  Backlogged /\ [](failed = {}) => <>(outcome.kind = "stats" /\ outcome.total >= Count)

\* Consume implements the promise of CompetingConsumers.
CC == INSTANCE CompetingConsumers WITH
        Workers <- Consumers, Quota <- Count, tally <- total,
        active <- ActiveConsumers, outcome <- outcome.kind

Implements == CC!Spec

-----------------------------------------------------------------------------
(* What comments and READMEs say, and the code does not do.                *)

\* "3 independent pull consumers on the same stream - messages are distributed
\* across consumers" (experiments/messaging/nats-vs-kafka/README.md).
MessagesDistributed ==
  \A c, d \in Consumers : c # d => read[c] \cap read[d] = {}

=============================================================================
