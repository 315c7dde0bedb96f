--------------------------- MODULE Consume_proofs ---------------------------
(***************************************************************************)
(* What holds of Consume for every number of consumers, every Count, every *)
(* backlog and every broker, and that it implements CompetingConsumers.    *)
(***************************************************************************)
EXTENDS Consume, FiniteSetTheorems, WellFoundedInduction, TLAPS

\* The consumers are a finite, nonempty set of NConsumers goroutines.
LEMMA ConsumersFinite ==
  /\ IsFiniteSet(Consumers)
  /\ Cardinality(Consumers) = NConsumers
  /\ Consumers # {}
<1>1. 0 \in Int /\ NConsumers - 1 \in Int
  BY ConsumersAssumption
<1>2. IsFiniteSet(Consumers) /\ Cardinality(Consumers) = NConsumers
  BY <1>1, FS_Interval, ConsumersAssumption DEF Consumers
<1> QED
  BY <1>2, ConsumersAssumption DEF Consumers

-----------------------------------------------------------------------------
(* Type correctness.                                                       *)

\* Wherever a goroutine returns, its deferred close leaves queue and inbox
\* well typed.
LEMMA ReturnType ==
  ASSUME TypeOK, NEW c \in Consumers, NEW lost, ReturnLosing(c, lost)
  PROVE  /\ pc' = [pc EXCEPT ![c] = "returned"]
         /\ pc' \in [Consumers -> PCs]
         /\ queue' \in [Consumers -> SUBSET Messages]
         /\ inbox' \in [Consumers -> SUBSET Messages]
         /\ UNCHANGED <<broker, read, received, redelivered>>
BY DEF TypeOK, ReturnLosing, Goto, PCs, Sub, KafkaGroup, Consumers

\* A consumer reads one of the subscriptions, whatever the broker.
LEMMA SubType ==
  ASSUME TypeOK, NEW c \in Consumers
  PROVE  Sub(c) \in Consumers
BY ConsumersFinite, ConsumersAssumption, BrokersAssumption
DEF TypeOK, Sub, Consumers, AllBrokers, KafkaGroup, RabbitQueue, PulsarSubscription,
    NatsConsumer

\* The type invariant of Consume: every variable keeps its shape under every
\* action of the goroutines, the brokers and the caller.
THEOREM TypeCorrect == Spec => []TypeOK
<1>1. Init => TypeOK
  <2> SUFFICES ASSUME Init PROVE TypeOK
    OBVIOUS
  <2>1. pc \in [Consumers -> PCs]
    BY DEF Init, PCs
  <2>2. outcome.kind \in {"none", "error", "stats"}
    BY DEF Init, None
  <2>3. perConsumer \in [Consumers -> Nat] /\ total \in Nat
    BY DEF Init
  <2>4. /\ queue \in [Consumers -> SUBSET Messages]
        /\ inbox \in [Consumers -> SUBSET Messages]
        /\ read \in [Consumers -> SUBSET Messages]
        /\ received \in [Consumers -> Nat]
        /\ redelivered \subseteq Messages
    BY DEF Init
  <2> QED BY <2>1, <2>2, <2>3, <2>4 DEF Init, TypeOK
<1>2. TypeOK /\ [Next]_vars => TypeOK'
  <2> SUFFICES ASSUME TypeOK, [Next]_vars PROVE TypeOK'
    OBVIOUS
  <2> USE DEF clients, counters, Goto
  <2>1. ASSUME NEW c \in Consumers, Deliver(c) PROVE TypeOK'
    BY <2>1, SubType DEF Deliver, TypeOK
  <2>7. ASSUME NEW c \in Consumers, Redeliver(c) PROVE TypeOK'
    BY <2>7, SubType DEF Redeliver, TypeOK
  <2>2. ASSUME NEW c \in Consumers, Open(c) PROVE TypeOK'
    <3>1. CASE OpenKafka(c) BY <3>1 DEF OpenKafka, TypeOK, PCs
    <3>2. CASE OpenRabbit(c) BY <3>2, ReturnType DEF Return, OpenRabbit, TypeOK, PCs
    <3>3. CASE OpenNats(c) BY <3>3, ReturnType DEF Return, OpenNats, TypeOK, PCs
    <3>4. CASE SubscribePulsar(c)
      BY <3>4 DEF SubscribePulsar, TypeOK, PCs, Error
    <3>5. CASE StartPulsar(c) BY <3>5 DEF StartPulsar, TypeOK, PCs
    <3> QED BY <2>2, <3>1, <3>2, <3>3, <3>4, <3>5 DEF Open
  <2>3. ASSUME NEW c \in Consumers, TakeMessage(c) \/ LeaveWhenCancelled(c) \/ FailSilently(c),
               UNCHANGED <<counters, errCh, outcome>>
        PROVE  TypeOK'
    <3>1. CASE TakeMessage(c) BY <2>3, <3>1 DEF TakeMessage, TypeOK, PCs
    <3>2. CASE LeaveWhenCancelled(c)
      BY <2>3, <3>2, ReturnType DEF LeaveWhenCancelled, Return, TypeOK
    <3>3. CASE FailSilently(c)
      BY <2>3, <3>3, ReturnType DEF FailSilently, Return, TypeOK
    <3> QED BY <2>3, <3>1, <3>2, <3>3
  <2>4. ASSUME NEW c \in Consumers, Loop(c) PROVE TypeOK'
    <3>1. CASE KafkaReceive(c)
      <4>1. CASE CommitUnread(c)
        BY <3>1, <4>1, ReturnType DEF KafkaReceive, CommitUnread, TypeOK
      <4>2. CASE ~CommitUnread(c) BY <3>1, <4>2, <2>3 DEF KafkaReceive
      <4> QED BY <4>1, <4>2
    <3>2. CASE RabbitReceive(c) BY <3>2, <2>3 DEF RabbitReceive
    <3>3. CASE NatsReceive(c) BY <3>3, <2>3 DEF NatsReceive
    <3>4. CASE PulsarReceive(c)
      <4>1. CASE TakeMessage(c) \/ LeaveWhenCancelled(c)
        BY <3>4, <4>1, <2>3 DEF PulsarReceive
      <4>2. CASE ~(TakeMessage(c) \/ LeaveWhenCancelled(c))
        BY <3>4, <4>2 DEF PulsarReceive, TypeOK, PCs
      <4> QED BY <4>1, <4>2
    <3>5. CASE PulsarReport(c) BY <3>5, ReturnType DEF PulsarReport, Return, TypeOK
    <3>6. CASE PerConsumerAdd(c) BY <3>6 DEF PerConsumerAdd, Counted, TypeOK, PCs
    <3>7. CASE TotalAdd(c) BY <3>7 DEF TotalAdd, TypeOK, PCs
    <3>8. CASE Cancel(c) BY <3>8, ReturnType DEF Cancel, Return, TypeOK
    <3> QED BY <2>4, <3>1, <3>2, <3>3, <3>4, <3>5, <3>6, <3>7, <3>8 DEF Loop
  <2>5. CASE Collect BY <2>5 DEF Collect, TypeOK, Error, Totals
  <2>6. CASE UNCHANGED vars BY <2>6 DEF vars, TypeOK
  <2> QED BY <2>1, <2>2, <2>4, <2>5, <2>6, <2>7 DEF Next, Done
<1> QED BY <1>1, <1>2, PTL DEF Spec

-----------------------------------------------------------------------------
(* Consume implements CompetingConsumers.                                  *)

\* While a Pulsar consumer is still to be subscribed no goroutine has started,
\* so a failing subscription aborts a call that has counted nothing.
SubscribingFirst ==
  (\E c \in Consumers : pc[c] = "subscribing") =>
    /\ broker = "pulsar"
    /\ total = 0
    /\ outcome.kind = "none"
    /\ \A d \in Consumers : pc[d] \in {"subscribing", "opening"}

\* Goroutines start only once all Pulsar consumers are subscribed.
LEMMA SubscribingStep == TypeOK /\ SubscribingFirst /\ [Next]_vars => SubscribingFirst'
<1> SUFFICES ASSUME TypeOK, SubscribingFirst, [Next]_vars,
                    \E c \in Consumers : pc'[c] = "subscribing"
             PROVE  SubscribingFirst'
  BY DEF SubscribingFirst
<1> USE DEF clients, counters, Goto, Return, ReturnLosing
<1>1. ASSUME NEW c \in Consumers, Deliver(c) \/ Redeliver(c) PROVE SubscribingFirst'
  BY <1>1 DEF Deliver, Redeliver, SubscribingFirst
<1>2. ASSUME NEW c \in Consumers, Open(c) PROVE SubscribingFirst'
  <2>1. CASE OpenKafka(c) BY <2>1 DEF OpenKafka, SubscribingFirst, TypeOK
  <2>2. CASE OpenRabbit(c) BY <2>2 DEF OpenRabbit, SubscribingFirst, TypeOK
  <2>3. CASE OpenNats(c) BY <2>3 DEF OpenNats, SubscribingFirst, TypeOK
  <2>4. CASE SubscribePulsar(c) BY <2>4 DEF SubscribePulsar, SubscribingFirst, TypeOK
  <2>5. CASE StartPulsar(c) BY <2>5 DEF StartPulsar, SubscribingFirst, TypeOK
  <2> QED BY <1>2, <2>1, <2>2, <2>3, <2>4, <2>5 DEF Open
<1>3. ASSUME NEW c \in Consumers, Loop(c) PROVE SubscribingFirst'
  <2>1. pc[c] \notin {"subscribing", "opening"}
    BY <1>3 DEF Loop, KafkaReceive, RabbitReceive, NatsReceive, PulsarReceive,
                PulsarReport, PerConsumerAdd, TotalAdd, Cancel
  <2>2. \A d \in Consumers : pc'[d] = "subscribing" => pc[d] = "subscribing"
    BY <1>3 DEF Loop, KafkaReceive, RabbitReceive, NatsReceive, PulsarReceive,
                PulsarReport, PerConsumerAdd, TotalAdd, Cancel, TakeMessage,
                LeaveWhenCancelled, FailSilently, CommitUnread, TypeOK
  <2> QED BY <2>1, <2>2 DEF SubscribingFirst
<1>4. CASE Collect BY <1>4, ConsumersFinite DEF Collect, AllReturned, SubscribingFirst
<1>5. CASE UNCHANGED vars BY <1>5 DEF vars, SubscribingFirst
<1> QED BY <1>1, <1>2, <1>3, <1>4, <1>5 DEF Next, Done

\* A goroutine that moves on stays active unless it moves to a label of no
\* return.
LEMMA ActiveAfterGoto ==
  ASSUME TypeOK, NEW c \in Consumers, NEW l \in PCs, Goto(c, l)
  PROVE  ActiveConsumers' = IF l \in {"cancelling", "returned"}
                            THEN ActiveConsumers \ {c}
                            ELSE ActiveConsumers \cup {c}
BY DEF TypeOK, Goto, ActiveConsumers

\* An active goroutine that returns is a worker that leaves.
LEMMA ReturnLeaves ==
  ASSUME TypeOK, NEW c \in Consumers, NEW lost, ReturnLosing(c, lost),
         UNCHANGED <<total, outcome>>,
         pc[c] \notin {"cancelling", "returned"}
  PROVE  CC!Leave(c)
<1>1. ActiveConsumers' = ActiveConsumers \ {c}
  BY ActiveAfterGoto DEF ReturnLosing, PCs
<1>2. c \in ActiveConsumers
  BY DEF ActiveConsumers
<1> QED BY <1>1, <1>2 DEF CC!Leave

\* An active goroutine that moves on to another label of the loop is a stutter.
LEMMA GotoStutters ==
  ASSUME TypeOK, NEW c \in Consumers, NEW l \in PCs, Goto(c, l),
         UNCHANGED <<total, outcome>>,
         pc[c] \notin {"cancelling", "returned"},
         l \notin {"cancelling", "returned"}
  PROVE  UNCHANGED CC!vars
<1>1. ActiveConsumers' = ActiveConsumers \cup {c}
  BY ActiveAfterGoto
<1>2. c \in ActiveConsumers
  BY DEF ActiveConsumers
<1> QED BY <1>1, <1>2 DEF CC!vars

\* Every step of Consume is a step of the abstract pool, or changes nothing
\* the abstract pool can see.
LEMMA StepSimulated ==
  TypeOK /\ SubscribingFirst /\ [Next]_vars => [CC!Next]_(CC!vars)
<1> SUFFICES ASSUME TypeOK, SubscribingFirst, [Next]_vars
             PROVE CC!Next \/ UNCHANGED CC!vars
  OBVIOUS
<1> USE DEF clients, counters, PCs
<1>1. ASSUME NEW c \in Consumers, Deliver(c) \/ Redeliver(c) PROVE UNCHANGED CC!vars
  BY <1>1 DEF Deliver, Redeliver, CC!vars, ActiveConsumers
<1>2. ASSUME NEW c \in Consumers, Open(c) PROVE CC!Next \/ UNCHANGED CC!vars
  <2>1. CASE OpenKafka(c) BY <2>1, GotoStutters DEF OpenKafka
  <2>2. CASE OpenRabbit(c)
    BY <2>2, GotoStutters, ReturnLeaves DEF OpenRabbit, Return, CC!Next
  <2>3. CASE OpenNats(c)
    BY <2>3, GotoStutters, ReturnLeaves DEF OpenNats, Return, CC!Next
  <2>4. CASE SubscribePulsar(c)
    <3>1. CASE Goto(c, "opening") /\ UNCHANGED outcome
      BY <2>4, <3>1, GotoStutters DEF SubscribePulsar
    <3>2. CASE pc' = [d \in Consumers |-> "returned"] /\ outcome' = Error
      BY <2>4, <3>2 DEF SubscribePulsar, SubscribingFirst, CC!Abort, CC!Next,
                        ActiveConsumers, Error
    <3> QED BY <2>4, <3>1, <3>2 DEF SubscribePulsar
  <2>5. CASE StartPulsar(c) BY <2>5, GotoStutters DEF StartPulsar
  <2> QED BY <1>2, <2>1, <2>2, <2>3, <2>4, <2>5 DEF Open
<1>3. ASSUME NEW c \in Consumers, Loop(c) PROVE CC!Next \/ UNCHANGED CC!vars
  <2>1. ASSUME pc[c] = "receiving", UNCHANGED <<total, outcome>>,
               TakeMessage(c) \/ LeaveWhenCancelled(c) \/ FailSilently(c)
        PROVE  CC!Next \/ UNCHANGED CC!vars
    BY <2>1, GotoStutters, ReturnLeaves
    DEF TakeMessage, LeaveWhenCancelled, FailSilently, Return, CC!Next
  <2>2. CASE KafkaReceive(c)
    <3>1. CASE CommitUnread(c)
      BY <2>2, <3>1, ReturnLeaves DEF KafkaReceive, CommitUnread, CC!Next
    <3>2. CASE ~CommitUnread(c) BY <2>1, <2>2, <3>2 DEF KafkaReceive
    <3> QED BY <3>1, <3>2
  <2>3. CASE RabbitReceive(c) BY <2>1, <2>3 DEF RabbitReceive
  <2>4. CASE NatsReceive(c) BY <2>1, <2>4 DEF NatsReceive
  <2>5. CASE PulsarReceive(c)
    <3>1. CASE TakeMessage(c) \/ LeaveWhenCancelled(c)
      BY <2>1, <2>5, <3>1 DEF PulsarReceive
    <3>2. CASE Goto(c, "erring")
      BY <2>5, <3>2, GotoStutters DEF PulsarReceive
    <3> QED BY <2>5, <3>1, <3>2 DEF PulsarReceive
  <2>6. CASE PulsarReport(c) BY <2>6, ReturnLeaves DEF PulsarReport, Return, CC!Next
  <2>7. CASE PerConsumerAdd(c) BY <2>7, GotoStutters DEF PerConsumerAdd
  <2>8. CASE TotalAdd(c)
    <3>1. c \in ActiveConsumers /\ total' = total + 1 /\ UNCHANGED outcome
      BY <2>8 DEF TotalAdd, ActiveConsumers
    <3>2. CASE total' >= Count
      <4>1. Goto(c, "cancelling")
        BY <2>8, <3>2 DEF TotalAdd, CountReached
      <4>2. ActiveConsumers' = ActiveConsumers \ {c}
        BY <4>1, ActiveAfterGoto
      <4> QED BY <3>1, <3>2, <4>2 DEF CC!CountOne, CC!QuotaMet, CC!Next
    <3>3. CASE ~(total' >= Count)
      <4>1. Goto(c, "receiving")
        BY <2>8, <3>3 DEF TotalAdd, CountReached
      <4>2. ActiveConsumers' = ActiveConsumers
        BY <3>1, <4>1, ActiveAfterGoto
      <4> QED BY <3>1, <3>3, <4>2 DEF CC!CountOne, CC!QuotaMet, CC!Next
    <3> QED BY <3>2, <3>3
  <2>9. CASE Cancel(c)
    <3>1. ActiveConsumers' = ActiveConsumers \ {c} /\ c \notin ActiveConsumers
      BY <2>9, ActiveAfterGoto DEF Cancel, Return, ReturnLosing, ActiveConsumers
    <3> QED BY <2>9, <3>1 DEF Cancel, CC!vars
  <2> QED BY <1>3, <2>2, <2>3, <2>4, <2>5, <2>6, <2>7, <2>8, <2>9 DEF Loop
<1>4. CASE Collect
  <2>1. ActiveConsumers = {} /\ ActiveConsumers' = ActiveConsumers
    BY <1>4 DEF Collect, AllReturned, ActiveConsumers
  <2> QED BY <1>4, <2>1 DEF Collect, CC!Answer, CC!Next, None, Error, Totals
<1>5. CASE UNCHANGED vars BY <1>5 DEF vars, CC!vars, ActiveConsumers
<1> QED BY <1>1, <1>2, <1>3, <1>4, <1>5 DEF Next, Done

\* Consume of every broker implements the abstract pool of workers.
THEOREM Refinement == Spec => Implements
<1>1. Init => CC!Init
  BY DEF Init, CC!Init, ActiveConsumers, None
<1>2. Init => SubscribingFirst
  BY DEF Init, SubscribingFirst, None
<1> QED
  BY <1>1, <1>2, TypeCorrect, SubscribingStep, StepSimulated, PTL
  DEF Spec, CC!Spec, Implements

-----------------------------------------------------------------------------
(* The overshoot bound.                                                    *)

\* A goroutine that leaves the active ones adds one to those that are gone.
LEMMA GoneGrows ==
  ASSUME NEW A \in SUBSET Consumers, NEW B \in SUBSET A
  PROVE  /\ Cardinality(Consumers \ A) \in Nat
         /\ Cardinality(Consumers \ A) <= NConsumers
         /\ Cardinality(Consumers \ A) <= Cardinality(Consumers \ B)
         /\ \A c \in A : B = A \ {c} =>
              Cardinality(Consumers \ B) = Cardinality(Consumers \ A) + 1
<1>1. /\ (Consumers \ A) \in SUBSET (Consumers \ B)
      /\ (Consumers \ B) \in SUBSET Consumers
      /\ (Consumers \ A) \in SUBSET Consumers
  OBVIOUS
<1>2. IsFiniteSet(Consumers \ A) /\ IsFiniteSet(Consumers \ B)
  BY <1>1, FS_Subset, ConsumersFinite
<1>3. /\ Cardinality(Consumers \ A) \in Nat
      /\ Cardinality(Consumers \ A) <= NConsumers
      /\ Cardinality(Consumers \ A) <= Cardinality(Consumers \ B)
  BY <1>1, <1>2, FS_Subset, FS_CardinalityType, ConsumersFinite
<1>4. ASSUME NEW c \in A, B = A \ {c}
      PROVE  Cardinality(Consumers \ B) = Cardinality(Consumers \ A) + 1
  <2>1. Consumers \ B = (Consumers \ A) \cup {c} /\ c \notin Consumers \ A
    BY <1>4
  <2> QED BY <1>2, <2>1, FS_AddElement
<1> QED BY <1>3, <1>4

\* A step keeps the surplus paid for, because the abstract step it maps to
\* adds to the tally only while retiring a worker once Count is reached.
LEMMA SurplusStep ==
  TypeOK /\ SubscribingFirst /\ SurplusPaidFor /\ [Next]_vars => SurplusPaidFor'
<1> SUFFICES ASSUME TypeOK, SurplusPaidFor, [CC!Next]_(CC!vars)
             PROVE  SurplusPaidFor'
  BY StepSimulated
<1> USE CountAssumption
<1>1. ActiveConsumers \in SUBSET Consumers
  BY DEF ActiveConsumers
<1>2. ASSUME NEW c \in Consumers, CC!CountOne(c) PROVE SurplusPaidFor'
  <2>1. CASE total' >= Count
    <3>1. c \in ActiveConsumers /\ ActiveConsumers' = ActiveConsumers \ {c}
      BY <1>2, <2>1 DEF CC!CountOne, CC!QuotaMet
    <3>2. /\ Cardinality(Consumers \ ActiveConsumers) \in Nat
          /\ Cardinality(Consumers \ ActiveConsumers') =
               Cardinality(Consumers \ ActiveConsumers) + 1
      BY <1>1, <3>1, GoneGrows
    <3>3. Consumers' = Consumers
      BY DEF Consumers
    <3> QED BY <1>2, <2>1, <3>2, <3>3 DEF CC!CountOne, CC!QuotaMet, SurplusPaidFor, TypeOK
  <2>2. CASE ~(total' >= Count) BY <2>2 DEF SurplusPaidFor
  <2> QED BY <2>1, <2>2
<1>3. ASSUME total' = total, ActiveConsumers' \in SUBSET ActiveConsumers
      PROVE  SurplusPaidFor'
  <2>1. /\ Cardinality(Consumers \ ActiveConsumers) \in Nat
        /\ Cardinality(Consumers \ ActiveConsumers') \in Nat
        /\ Cardinality(Consumers \ ActiveConsumers) <=
             Cardinality(Consumers \ ActiveConsumers')
    BY <1>1, <1>3, GoneGrows
  <2>2. Consumers' = Consumers
    BY DEF Consumers
  <2> QED BY <1>3, <2>1, <2>2 DEF SurplusPaidFor, TypeOK
<1>4. CASE \E c \in Consumers : CC!Leave(c) BY <1>3, <1>4 DEF CC!Leave
<1>5. CASE CC!Answer BY <1>3, <1>5 DEF CC!Answer
<1>6. CASE CC!Abort BY <1>3, <1>6 DEF CC!Abort
<1>7. CASE UNCHANGED CC!vars BY <1>3, <1>7 DEF CC!vars
<1> QED BY <1>2, <1>4, <1>5, <1>6, <1>7 DEF CC!Next

\* However many consumers there are and however their loops interleave with
\* the cancellation, Consume counts fewer than Count + NConsumers messages.
THEOREM Overshoot == Spec => []OvershootBounded
<1>1. Init => SubscribingFirst /\ SurplusPaidFor
  BY CountAssumption DEF Init, SubscribingFirst, SurplusPaidFor, None
<1>2. TypeOK /\ SurplusPaidFor => OvershootBounded
  <2> SUFFICES ASSUME TypeOK, SurplusPaidFor PROVE OvershootBounded
    OBVIOUS
  <2>1. ActiveConsumers \in SUBSET Consumers
    BY DEF ActiveConsumers
  <2>2. /\ Cardinality(Consumers \ ActiveConsumers) \in Nat
        /\ Cardinality(Consumers \ ActiveConsumers) <= NConsumers
    BY <2>1, GoneGrows
  <2> QED
    BY <2>2, CountAssumption, ConsumersAssumption
    DEF SurplusPaidFor, OvershootBounded, TypeOK
<1> QED
  BY <1>1, <1>2, TypeCorrect, SubscribingStep, SurplusStep, PTL DEF Spec

-----------------------------------------------------------------------------
(* Sums: FoldFunction is defined by recursion over subsets, so what it does *)
(* to a counter that grows needs induction over their size.                 *)


\* Induction over the natural numbers, for a set in the place of a predicate.
LEMMA SetInduction ==
  ASSUME NEW T \in SUBSET Nat, 0 \in T, \A n \in T : n + 1 \in T
  PROVE  T = Nat
<1> SUFFICES ASSUME Nat \ T # {} PROVE FALSE
  OBVIOUS
<1>1. PICK n \in Nat \ T : \A m \in Nat \ T : <<m, n>> \notin OpToRel(<, Nat)
  BY NatLessThanWellFounded, WFMin
<1>2. n - 1 \in T
  <2>1. n - 1 \in Nat
    OBVIOUS
  <2>2. <<n - 1, n>> \in OpToRel(<, Nat)
    BY <2>1 DEF OpToRel
  <2> QED BY <1>1, <2>1, <2>2
<1>3. (n - 1) + 1 \in T
  BY <1>2
<1> QED BY <1>3

Pick(s) == CHOOSE x \in s : TRUE

\* h sums f over all subsets of S that have at most n elements.
Sums(f, S, n, h) ==
  h = [s \in {t \in SUBSET S : Cardinality(t) <= n} |->
         IF s = {} THEN 0 ELSE f[Pick(s)] + h[s \ {Pick(s)}]]

\* Taking out an element leaves a set that is smaller by one.
LEMMA Picked ==
  ASSUME NEW s, IsFiniteSet(s), s # {}
  PROVE  /\ Pick(s) \in s
         /\ IsFiniteSet(s \ {Pick(s)})
         /\ Cardinality(s \ {Pick(s)}) \in Nat
         /\ Cardinality(s) = Cardinality(s \ {Pick(s)}) + 1
<1>1. Pick(s) \in s
  BY DEF Pick
<1> DEFINE p == Pick(s)
<1> HIDE DEF p
<1>2. IsFiniteSet(s \ {p}) /\ Cardinality(s \ {p}) = Cardinality(s) - 1
  <2>1. p \in s
    BY <1>1 DEF p
  <2> QED BY <2>1, FS_RemoveElement
<1>3. Cardinality(s) \in Nat /\ Cardinality(s \ {p}) \in Nat
  BY <1>2, FS_CardinalityType
<1>4. Cardinality(s) = Cardinality(s \ {p}) + 1
  BY <1>2, <1>3
<1> QED BY <1>1, <1>2, <1>3, <1>4 DEF p

\* The recursion that FoldFunction is defined by has a solution.
LEMMA SumsExist ==
  ASSUME NEW f, NEW S, IsFiniteSet(S), NEW n \in Nat
  PROVE  \E h : Sums(f, S, n, h)
<1> DEFINE T == {k \in Nat : \E h : Sums(f, S, k, h)}
<1>1. 0 \in T
  <2> DEFINE h == [s \in {t \in SUBSET S : Cardinality(t) <= 0} |-> 0]
  <2>1. ASSUME NEW s \in SUBSET S, Cardinality(s) <= 0 PROVE s = {}
    BY <2>1, FS_Subset, FS_EmptySet, FS_CardinalityType
  <2>2. Sums(f, S, 0, h)
    BY <2>1 DEF Sums
  <2> QED BY <2>2
<1>2. ASSUME NEW k \in T PROVE k + 1 \in T
  <2>1. PICK h : Sums(f, S, k, h)
    OBVIOUS
  <2> DEFINE D(m) == {t \in SUBSET S : Cardinality(t) <= m}
             Step(g, s) == IF s = {} THEN 0 ELSE f[Pick(s)] + g[s \ {Pick(s)}]
             g == [s \in D(k + 1) |-> Step(h, s)]
  <2>2. ASSUME NEW s \in D(k + 1), s # {} PROVE s \ {Pick(s)} \in D(k)
    BY <2>2, Picked, FS_Subset
  <2>3. ASSUME NEW t \in D(k) PROVE h[t] = g[t]
    <3>1. Cardinality(t) \in Nat
      BY FS_Subset, FS_CardinalityType
    <3>2. t \in D(k + 1)
      BY <3>1
    <3>3. h[t] = Step(h, t)
      BY <2>1 DEF Sums
    <3> QED BY <3>2, <3>3
  <2>4. \A s \in D(k + 1) : Step(h, s) = Step(g, s)
    BY <2>2, <2>3
  <2>5. Sums(f, S, k + 1, g)
    BY <2>4 DEF Sums
  <2> QED BY <2>5
<1>3. T = Nat
  <2> HIDE DEF T
  <2>1. T \in SUBSET Nat
    BY DEF T
  <2> QED BY <1>1, <1>2, <2>1, SetInduction
<1> QED BY <1>3

\* The sum of f over a subset s of S.
SumOver(f, S) ==
  CHOOSE h : h = [s \in SUBSET S |-> IF s = {} THEN 0 ELSE f[Pick(s)] + h[s \ {Pick(s)}]]

Unfolds(f, h, s) == h[s] = IF s = {} THEN 0 ELSE f[Pick(s)] + h[s \ {Pick(s)}]

\* That recursion is what SumOver obeys.
LEMMA SumUnfolds ==
  ASSUME NEW f, NEW S, IsFiniteSet(S), NEW s \in SUBSET S
  PROVE  Unfolds(f, SumOver(f, S), s)
<1>1. {t \in SUBSET S : Cardinality(t) <= Cardinality(S)} = SUBSET S
  BY FS_Subset
<1>2. \E h : h = [t \in SUBSET S |-> IF t = {} THEN 0 ELSE f[Pick(t)] + h[t \ {Pick(t)}]]
  <2>1. Cardinality(S) \in Nat
    BY FS_CardinalityType
  <2>2. PICK h : Sums(f, S, Cardinality(S), h)
    BY <2>1, SumsExist
  <2>3. h = [t \in SUBSET S |-> IF t = {} THEN 0 ELSE f[Pick(t)] + h[t \ {Pick(t)}]]
    BY <1>1, <2>2 DEF Sums
  <2> QED BY <2>3
<1>3. SumOver(f, S) = [t \in SUBSET S |->
                     IF t = {} THEN 0 ELSE f[Pick(t)] + SumOver(f, S)[t \ {Pick(t)}]]
  BY <1>2 DEF SumOver
<1> QED BY <1>3 DEF Unfolds

\* The sum that is reported.
SumAll(f) == FoldFunction(+, 0, f)

\* FoldFunction of addition is such a sum, over the whole domain.
LEMMA FoldIsSum ==
  ASSUME NEW f
  PROVE  SumAll(f) = SumOver(f, DOMAIN f)[DOMAIN f]
BY DEF SumAll, FoldFunction, FoldFunctionOnSet, MapThenFoldSet, SumOver, Pick

Grown(f, g, c, d, S, s) ==
  /\ SumOver(f, S)[s] \in Nat
  /\ SumOver(g, S)[s] = SumOver(f, S)[s] + IF c \in s THEN d ELSE 0

\* Two functions that differ by d at c have sums that differ by d.
LEMMA SumOverSubsets ==
  ASSUME NEW S, IsFiniteSet(S), NEW f \in [S -> Nat], NEW c \in S, NEW d \in Nat,
         NEW g \in [S -> Nat], g = [f EXCEPT ![c] = @ + d],
         NEW s \in SUBSET S
  PROVE  Grown(f, g, c, d, S, s)
<1> DEFINE Good(t) == /\ SumOver(f, S)[t] \in Nat
                      /\ SumOver(g, S)[t] = SumOver(f, S)[t] + IF c \in t THEN d ELSE 0
           T == {n \in Nat : \A t \in SUBSET S : Cardinality(t) = n => Good(t)}
<1>1. 0 \in T
  <2>1. ASSUME NEW t \in SUBSET S, Cardinality(t) = 0 PROVE t = {}
    BY <2>1, FS_Subset, FS_EmptySet
  <2>2. SumOver(f, S)[{}] = 0 /\ SumOver(g, S)[{}] = 0
    <3>1. Unfolds(f, SumOver(f, S), {}) /\ Unfolds(g, SumOver(g, S), {})
      BY SumUnfolds
    <3> QED BY <3>1 DEF Unfolds
  <2>3. Good({})
    BY <2>2
  <2> HIDE DEF Good
  <2> QED BY <2>1, <2>3
<1>2. ASSUME NEW n \in T, NEW t \in SUBSET S, Cardinality(t) = n + 1 PROVE Good(t)
  <2>1. IsFiniteSet(t) /\ t # {}
    BY <1>2, FS_Subset, FS_EmptySet
  <2> DEFINE p == Pick(t)
             u == t \ {p}
  <2>2. p \in t /\ Cardinality(u) = n
    <3>1. p \in t /\ Cardinality(u) \in Nat /\ n + 1 = Cardinality(u) + 1
      BY <1>2, <2>1, Picked
    <3> QED BY <3>1
  <2>3. Good(u)
    BY <2>2
  <2>4. /\ SumOver(f, S)[t] = f[p] + SumOver(f, S)[u]
        /\ SumOver(g, S)[t] = g[p] + SumOver(g, S)[u]
    <3> HIDE DEF Good, T
    <3>1. Unfolds(f, SumOver(f, S), t) /\ Unfolds(g, SumOver(g, S), t)
      BY SumUnfolds
    <3> QED BY <2>1, <3>1 DEF Unfolds
  <2>5. f[p] \in Nat /\ g[p] = f[p] + IF p = c THEN d ELSE 0
    BY <2>2
  <2> HIDE DEF p
  <2>6. c \in t <=> c \in u \/ p = c
    BY <2>2
  <2>7. ~(c \in u /\ p = c)
    OBVIOUS
  <2> HIDE DEF u
  <2>8. CASE p = c BY <2>3, <2>4, <2>5, <2>6, <2>7, <2>8
  <2>9. CASE p # c BY <2>3, <2>4, <2>5, <2>6, <2>9
  <2> QED BY <2>8, <2>9
<1>3. T = Nat
  <2>1. T \in SUBSET Nat /\ \A n \in T : n + 1 \in T
    <3> HIDE DEF Good
    <3> QED BY <1>2
  <2> HIDE DEF T
  <2> QED BY <1>1, <2>1, SetInduction
<1>4. Cardinality(s) \in Nat
  BY FS_Subset, FS_CardinalityType
<1> HIDE DEF Good
<1>5. Good(s)
  BY <1>3, <1>4
<1> QED BY <1>5 DEF Good, Grown

SumGrown(f, g, c, d, S) == SumAll(f) \in Nat /\ SumAll(g) = SumAll(f) + d

\* A counter that grows by d makes the sum of all counters grow by d.
LEMMA FoldAdd ==
  ASSUME NEW S, IsFiniteSet(S), NEW f \in [S -> Nat], NEW c \in S, NEW d \in Nat
  PROVE  SumGrown(f, [f EXCEPT ![c] = @ + d], c, d, S)
<1> DEFINE g == [f EXCEPT ![c] = @ + d]
<1>1. g \in [S -> Nat] /\ DOMAIN f = S /\ DOMAIN g = S
  OBVIOUS
<1>2. SumAll(f) = SumOver(f, S)[S] /\ SumAll(g) = SumOver(g, S)[S]
  <2> HIDE DEF g
  <2> QED BY <1>1, FoldIsSum
<1>3. SumOver(f, S)[S] \in Nat /\ SumOver(g, S)[S] = SumOver(f, S)[S] + d
  <2>1. g = [f EXCEPT ![c] = @ + d]
    OBVIOUS
  <2>2. S \in SUBSET S /\ g \in [S -> Nat]
    BY <1>1
  <2> HIDE DEF g
  <2>3. Grown(f, g, c, d, S, S)
    BY <2>1, <2>2, SumOverSubsets
  <2> QED BY <2>3 DEF Grown
<1>4. SumAll(f) \in Nat /\ SumAll(g) = SumAll(f) + d
  <2> HIDE DEF g
  <2> QED BY <1>2, <1>3
<1> QED BY <1>4 DEF SumGrown

\* Counters that have not been touched add up to nothing.
LEMMA FoldZero ==
  ASSUME NEW S, IsFiniteSet(S)
  PROVE  SumAll([c \in S |-> 0]) = 0
<1> DEFINE z == [c \in S |-> 0]
           T == {n \in Nat : \A t \in SUBSET S : Cardinality(t) = n => SumOver(z, S)[t] = 0}
<1>1. 0 \in T
  <2>1. ASSUME NEW t \in SUBSET S, Cardinality(t) = 0 PROVE t = {}
    BY <2>1, FS_Subset, FS_EmptySet
  <2> HIDE DEF z
  <2>2. Unfolds(z, SumOver(z, S), {})
    BY SumUnfolds
  <2> QED BY <2>1, <2>2 DEF Unfolds
<1>2. ASSUME NEW n \in T, NEW t \in SUBSET S, Cardinality(t) = n + 1
      PROVE  SumOver(z, S)[t] = 0
  <2>1. IsFiniteSet(t) /\ t # {}
    BY <1>2, FS_Subset, FS_EmptySet
  <2>2. Pick(t) \in t /\ Cardinality(t \ {Pick(t)}) = n
    <3> HIDE DEF z, T
    <3>1. /\ Pick(t) \in t /\ Cardinality(t \ {Pick(t)}) \in Nat
          /\ n + 1 = Cardinality(t \ {Pick(t)}) + 1
      BY <1>2, <2>1, Picked
    <3>2. n \in Nat
      BY DEF T
    <3> QED BY <3>1, <3>2
  <2>3. SumOver(z, S)[t] = z[Pick(t)] + SumOver(z, S)[t \ {Pick(t)}]
    <3> HIDE DEF z
    <3>1. Unfolds(z, SumOver(z, S), t)
      BY SumUnfolds
    <3> QED BY <2>1, <3>1 DEF Unfolds
  <2>4. z[Pick(t)] = 0
    BY <2>2
  <2>5. SumOver(z, S)[t \ {Pick(t)}] = 0
    <3> HIDE DEF z
    <3> QED BY <2>2
  <2> HIDE DEF z
  <2> QED BY <2>3, <2>4, <2>5
<1>3. T = Nat
  <2>1. T \in SUBSET Nat /\ \A n \in T : n + 1 \in T
    BY <1>2
  <2> HIDE DEF T
  <2> QED BY <1>1, <2>1, SetInduction
<1>4. SumOver(z, S)[S] = 0
  <2> HIDE DEF z
  <2> QED BY <1>3, FS_CardinalityType
<1>5. DOMAIN z = S
  OBVIOUS
<1> HIDE DEF z
<1> QED BY <1>4, <1>5, FoldIsSum DEF z

-----------------------------------------------------------------------------
(* What is reported, and who has read what.                                *)

\* Within a subscription every message that has not been handed out again is in
\* one place: still queued, in the buffer of one client, or read by one loop.
Apart ==
  /\ \A c \in Consumers :
       /\ queue[Sub(c)] \cap inbox[c] \subseteq redelivered
       /\ queue[Sub(c)] \cap read[c] \subseteq redelivered
       /\ inbox[c] \cap read[c] \subseteq redelivered
       /\ \A d \in Consumers : d # c /\ Sub(d) = Sub(c) =>
            (inbox[c] \cup read[c]) \cap (inbox[d] \cup read[d]) \subseteq redelivered
  /\ broker = "rabbitmq" => redelivered = {}

\* So a consumer that has read none of those has received each message once.
ReceivedOnce ==
  \A c \in Consumers :
    /\ IsFiniteSet(read[c])
    /\ read[c] \cap redelivered = {} => received[c] = Cardinality(read[c])

\* A message that has been received is counted, or about to be: by the counter of
\* the consumer, and by the total.
Counting == {c \in Consumers : pc[c] = "counting"}

Tallied ==
  /\ \A c \in Consumers :
       received[c] = perConsumer[c] + IF pc[c] = "tallying" THEN 1 ELSE 0
  /\ SumAll(perConsumer) = total + Cardinality(Counting)

\* Only a total of at least Count cancels, and whoever has returned saw the
\* cancellation or lost its connection, which Pulsar has reported.
LeftForAReason ==
  /\ cancelled => total >= Count
  /\ \A c \in Consumers :
       /\ pc[c] = "cancelling" => total >= Count
       /\ pc[c] = "erring" => c \in failed
       /\ pc[c] = "returned" =>
            \/ cancelled
            \/ outcome = Error
            \/ c \in failed /\ (broker = "pulsar" => c \in errCh)

Answered ==
  outcome.kind = "stats" =>
    /\ AllReturned
    /\ outcome.total = SumAll(perConsumer)
    /\ errCh = {}

ReportInv == TypeOK /\ SubscribingFirst /\ Tallied /\ LeftForAReason /\ Answered

\* What a goroutine does to the clients when it returns.
Leaves(c) == \E lost \in SUBSET inbox[c] : ReturnLosing(c, lost)

\* What a step does to the clients: nothing, a delivery, one more delivery, a
\* return, or a receive.
LEMMA WhatMoves ==
  ASSUME TypeOK, [Next]_vars
  PROVE  \/ UNCHANGED clients
         \/ \E c \in Consumers : Deliver(c) \/ Redeliver(c) \/ Leaves(c) \/ TakeMessage(c)
<1>0. ASSUME NEW c \in Consumers, Return(c) PROVE Leaves(c)
  BY <1>0 DEF Return, Leaves
<1>1. ASSUME NEW c \in Consumers, Open(c)
      PROVE  UNCHANGED clients \/ Leaves(c)
  BY <1>0, <1>1 DEF Open, OpenKafka, OpenRabbit, OpenNats, SubscribePulsar, StartPulsar
<1>2. ASSUME NEW c \in Consumers, Loop(c)
      PROVE  UNCHANGED clients \/ Leaves(c) \/ TakeMessage(c)
  <2>1. CommitUnread(c) => Leaves(c)
    BY DEF CommitUnread, Leaves
  <2> QED
    BY <1>0, <1>2, <2>1
    DEF Loop, KafkaReceive, RabbitReceive, NatsReceive, PulsarReceive, PulsarReport,
        PerConsumerAdd, TotalAdd, Cancel, LeaveWhenCancelled, FailSilently
<1>3. CASE Collect BY <1>3 DEF Collect
<1>4. CASE UNCHANGED vars BY <1>4 DEF vars
<1> QED BY <1>1, <1>2, <1>3, <1>4 DEF Next, Done

\* The broker of a call does not change, so neither does who shares what.
LEMMA SubFixed ==
  ASSUME TypeOK, [Next]_vars
  PROVE  broker' = broker /\ \A c : Sub(c)' = Sub(c)
<1>1. broker' = broker
  BY WhatMoves DEF clients, Deliver, Redeliver, Leaves, ReturnLosing, TakeMessage
<1> QED BY <1>1 DEF Sub

\* Messages only change places: from the queue to one client, from its buffer to
\* its loop, and back to the queue when a Kafka reader is closed.  One that is
\* handed out again is remembered.
LEMMA ApartStep == TypeOK /\ Apart /\ [Next]_vars => Apart'
<1> SUFFICES ASSUME TypeOK, Apart, [Next]_vars PROVE Apart'
  OBVIOUS
<1>1. \A c \in Consumers : Sub(c) \in Consumers
  BY SubType
<1>3. broker' = broker /\ \A c : Sub(c)' = Sub(c)
  BY SubFixed
<1>4. CASE UNCHANGED clients BY <1>3, <1>4 DEF Apart, clients
<1>5. ASSUME NEW c \in Consumers, Deliver(c) PROVE Apart'
  <2>1. PICK m \in queue[Sub(c)] :
          /\ queue' = [queue EXCEPT ![Sub(c)] = @ \ {m}]
          /\ inbox' = [inbox EXCEPT ![c] = @ \cup {m}]
    BY <1>5 DEF Deliver
  <2>2. read' = read /\ redelivered' = redelivered
    BY <1>5 DEF Deliver
  <2> QED BY <2>1, <2>2, <1>1, <1>3 DEF Apart, TypeOK
<1>6. ASSUME NEW c \in Consumers, Leaves(c) PROVE Apart'
  <2>0. PICK lost \in SUBSET inbox[c] : ReturnLosing(c, lost)
    BY <1>6 DEF Leaves
  <2>1. CASE broker = "kafka"
    <3>1. /\ queue' = [queue EXCEPT ![Sub(c)] = @ \cup (inbox[c] \ lost)]
          /\ inbox' = [inbox EXCEPT ![c] = {}]
          /\ read' = read /\ redelivered' = redelivered
      BY <2>0, <2>1 DEF ReturnLosing
    <3>2. \A d \in Consumers : Sub(d) = Sub(c)
      BY <2>1 DEF Sub, KafkaGroup
    <3> QED BY <3>1, <3>2, <1>1, <1>3 DEF Apart, TypeOK
  <2>2. CASE broker # "kafka"
    <3>1. /\ queue' = queue /\ read' = read /\ redelivered' = redelivered
          /\ inbox' = inbox \/ inbox' = [inbox EXCEPT ![c] = {}]
      BY <2>0, <2>2 DEF ReturnLosing
    <3> QED BY <3>1, <1>3 DEF Apart, TypeOK
  <2> QED BY <2>1, <2>2
<1>7. ASSUME NEW c \in Consumers, TakeMessage(c) PROVE Apart'
  <2>1. PICK m \in inbox[c] :
          /\ inbox' = [inbox EXCEPT ![c] = @ \ {m}]
          /\ read' = [read EXCEPT ![c] = @ \cup {m}]
    BY <1>7 DEF TakeMessage
  <2>2. queue' = queue /\ redelivered' = redelivered
    BY <1>7 DEF TakeMessage
  <2> QED BY <2>1, <2>2, <1>1, <1>3 DEF Apart, TypeOK
<1>8. ASSUME NEW c \in Consumers, Redeliver(c) PROVE Apart'
  <2>1. PICK m \in inbox[c] \cup read[c] :
          /\ queue' = [queue EXCEPT ![Sub(c)] = @ \cup {m}]
          /\ redelivered' = redelivered \cup {m}
    BY <1>8 DEF Redeliver
  <2>2. read' = read /\ inbox' = inbox /\ broker # "rabbitmq"
    BY <1>8 DEF Redeliver, AtLeastOnce
  <2> QED BY <2>1, <2>2, <1>1, <1>3 DEF Apart, TypeOK
<1> QED BY WhatMoves, <1>4, <1>5, <1>6, <1>7, <1>8

\* A consumer receives a message again only if that has been handed out again.
LEMMA ReceivedOnceStep == TypeOK /\ Apart /\ ReceivedOnce /\ [Next]_vars => ReceivedOnce'
<1> SUFFICES ASSUME TypeOK, Apart, ReceivedOnce, [Next]_vars PROVE ReceivedOnce'
  OBVIOUS
<1>1. CASE UNCHANGED <<read, received>> /\ redelivered \subseteq redelivered'
  <2> SUFFICES ASSUME NEW c \in Consumers
               PROVE  /\ IsFiniteSet(read'[c])
                      /\ read'[c] \cap redelivered' = {} => received'[c] = Cardinality(read'[c])
    BY DEF ReceivedOnce
  <2>1. read'[c] \cap redelivered' = {} => read[c] \cap redelivered = {}
    BY <1>1
  <2> QED BY <1>1, <2>1 DEF ReceivedOnce
<1>2. ASSUME NEW c \in Consumers, TakeMessage(c) PROVE ReceivedOnce'
  <2>1. PICK m \in inbox[c] : read' = [read EXCEPT ![c] = @ \cup {m}]
    BY <1>2 DEF TakeMessage
  <2>2. received' = [received EXCEPT ![c] = @ + 1] /\ redelivered' = redelivered
    BY <1>2 DEF TakeMessage
  <2>3. /\ IsFiniteSet(read[c] \cup {m})
        /\ m \notin read[c] => Cardinality(read[c] \cup {m}) = Cardinality(read[c]) + 1
    BY FS_AddElement DEF ReceivedOnce
  <2>4. m \in read[c] => m \in redelivered
    BY DEF Apart
  <2>5. read'[c] = read[c] \cup {m} /\ received'[c] = received[c] + 1
    BY <2>1, <2>2 DEF TypeOK
  <2>6. /\ IsFiniteSet(read'[c])
        /\ read'[c] \cap redelivered' = {} => received'[c] = Cardinality(read'[c])
    <3>1. CASE read'[c] \cap redelivered' = {}
      <4>1. m \notin read[c] /\ read[c] \cap redelivered = {}
        BY <2>2, <2>4, <2>5, <3>1
      <4> QED BY <2>3, <2>5, <4>1 DEF ReceivedOnce
    <3>2. CASE read'[c] \cap redelivered' # {} BY <2>3, <2>5, <3>2
    <3> QED BY <3>1, <3>2
  <2>7. ASSUME NEW d \in Consumers, d # c
        PROVE  read'[d] = read[d] /\ received'[d] = received[d]
    BY <2>1, <2>2, <2>7 DEF TypeOK
  <2> QED BY <2>2, <2>6, <2>7 DEF ReceivedOnce
<1>3. ASSUME NEW c \in Consumers, Deliver(c) \/ Redeliver(c) \/ Leaves(c)
      PROVE  UNCHANGED <<read, received>> /\ redelivered \subseteq redelivered'
  BY <1>3 DEF Deliver, Redeliver, Leaves, ReturnLosing
<1>4. CASE UNCHANGED clients BY <1>1, <1>4 DEF clients
<1> QED BY WhatMoves, <1>1, <1>2, <1>3, <1>4

\* One group, queue or subscription hands a message to one loop only, unless the
\* broker repeats it, however many consumers there are and whichever of them
\* fail; RabbitMQ, which expects no acknowledgement, never does.
THEOREM ReadOnce == Spec => []ReadTwiceOnlyIfRedelivered
<1>1. Init => Apart /\ ReceivedOnce
  BY FS_EmptySet DEF Init, Apart, ReceivedOnce
<1>2. TypeOK /\ Apart /\ ReceivedOnce => ReadTwiceOnlyIfRedelivered
  <2> SUFFICES ASSUME TypeOK, Apart, ReceivedOnce PROVE ReadTwiceOnlyIfRedelivered
    OBVIOUS
  <2>1. ASSUME broker \in CompetingBrokers, NEW c \in Consumers, NEW d \in Consumers, c # d
        PROVE  read[c] \cap read[d] \subseteq redelivered
    <3>1. Sub(c) = Sub(d)
      BY <2>1 DEF Sub, CompetingBrokers, KafkaGroup, RabbitQueue, PulsarSubscription
    <3> QED BY <2>1, <3>1 DEF Apart
  <2>2. /\ \A c \in Consumers :
             read[c] \cap redelivered = {} => received[c] = Cardinality(read[c])
        /\ broker = "rabbitmq" => redelivered = {}
    BY DEF Apart, ReceivedOnce
  <2> QED BY <2>1, <2>2 DEF ReadTwiceOnlyIfRedelivered
<1> QED BY <1>1, <1>2, TypeCorrect, ApartStep, ReceivedOnceStep, PTL DEF Spec

\* Steps that count nothing: nobody starts or ends the adding of a message.
CountsNothing ==
  /\ UNCHANGED <<received, perConsumer, total>>
  /\ \A c \in Consumers, l \in {"tallying", "counting"} : pc'[c] = l <=> pc[c] = l

\* A step receives, adds to one of the two counters, or counts nothing.
LEMMA WhatCounts ==
  ASSUME TypeOK, SubscribingFirst, [Next]_vars
  PROVE  \/ CountsNothing
         \/ \E c \in Consumers :
              \/ /\ TakeMessage(c)
                 /\ pc[c] = "receiving"
                 /\ UNCHANGED <<perConsumer, total>>
              \/ PerConsumerAdd(c)
              \/ TotalAdd(c)
<1> USE DEF clients, counters, Goto, Return, ReturnLosing
<1>1. ASSUME NEW c \in Consumers, Deliver(c) \/ Redeliver(c) PROVE CountsNothing
  BY <1>1 DEF Deliver, Redeliver, CountsNothing
<1>2. ASSUME NEW c \in Consumers, Open(c) PROVE CountsNothing
  <2>1. CASE OpenKafka(c) BY <2>1 DEF OpenKafka, CountsNothing, TypeOK
  <2>2. CASE OpenRabbit(c) BY <2>2 DEF OpenRabbit, CountsNothing, TypeOK
  <2>3. CASE OpenNats(c) BY <2>3 DEF OpenNats, CountsNothing, TypeOK
  <2>4. CASE SubscribePulsar(c)
    <3>1. \A d \in Consumers : pc[d] \in {"subscribing", "opening"}
      BY <2>4 DEF SubscribePulsar, SubscribingFirst
    <3>2. \A d \in Consumers : pc'[d] \in {"subscribing", "opening", "returned"}
      BY <2>4, <3>1 DEF SubscribePulsar, TypeOK
    <3> QED BY <2>4, <3>1, <3>2 DEF SubscribePulsar, CountsNothing
  <2>5. CASE StartPulsar(c) BY <2>5 DEF StartPulsar, CountsNothing, TypeOK
  <2> QED BY <1>2, <2>1, <2>2, <2>3, <2>4, <2>5 DEF Open
<1>3. ASSUME NEW c \in Consumers, Loop(c)
      PROVE  \/ CountsNothing
             \/ TakeMessage(c) /\ pc[c] = "receiving" /\ UNCHANGED <<perConsumer, total>>
             \/ PerConsumerAdd(c)
             \/ TotalAdd(c)
  <2>1. ASSUME LeaveWhenCancelled(c) \/ FailSilently(c) \/ CommitUnread(c),
               pc[c] = "receiving", UNCHANGED counters
        PROVE  CountsNothing
    BY <2>1 DEF LeaveWhenCancelled, FailSilently, CommitUnread, CountsNothing, TypeOK
  <2>2. CASE KafkaReceive(c) BY <2>1, <2>2 DEF KafkaReceive
  <2>3. CASE RabbitReceive(c) BY <2>1, <2>3 DEF RabbitReceive
  <2>4. CASE NatsReceive(c) BY <2>1, <2>4 DEF NatsReceive
  <2>5. CASE PulsarReceive(c)
    <3>1. ASSUME Goto(c, "erring"), UNCHANGED <<clients, counters>>, pc[c] = "receiving"
          PROVE  CountsNothing
      BY <3>1 DEF CountsNothing, TypeOK
    <3> QED BY <2>1, <2>5, <3>1 DEF PulsarReceive
  <2>6. CASE PulsarReport(c) BY <2>6 DEF PulsarReport, CountsNothing, TypeOK
  <2>7. CASE Cancel(c) BY <2>7 DEF Cancel, CountsNothing, TypeOK
  <2> QED BY <1>3, <2>2, <2>3, <2>4, <2>5, <2>6, <2>7 DEF Loop
<1>4. CASE Collect BY <1>4 DEF Collect, CountsNothing
<1>5. CASE UNCHANGED vars BY <1>5 DEF vars, CountsNothing
<1> QED BY <1>1, <1>2, <1>3, <1>4, <1>5 DEF Next, Done

\* A message is read before the counter of its consumer counts it, and that
\* before the total does.
LEMMA TalliedStep == TypeOK /\ SubscribingFirst /\ Tallied /\ [Next]_vars => Tallied'
<1> SUFFICES ASSUME TypeOK, SubscribingFirst, Tallied, [Next]_vars PROVE Tallied'
  OBVIOUS
<1> USE DEF Goto
<1>0. IsFiniteSet(Counting) /\ Cardinality(Counting) \in Nat
  BY ConsumersFinite, FS_Subset, FS_CardinalityType DEF Counting
<1>1. CASE CountsNothing
  <2>1. Counting' = Counting
    BY <1>1 DEF CountsNothing, Counting
  <2> QED BY <1>1, <2>1 DEF CountsNothing, Tallied
<1>2. ASSUME NEW c \in Consumers, TakeMessage(c), pc[c] = "receiving",
             UNCHANGED <<perConsumer, total>>
      PROVE  Tallied'
  <2>1. received' = [received EXCEPT ![c] = @ + 1] /\ pc' = [pc EXCEPT ![c] = "tallying"]
    BY <1>2 DEF TakeMessage
  <2>2. Counting' = Counting
    BY <1>2, <2>1 DEF Counting, TypeOK
  <2>3. ASSUME NEW d \in Consumers
        PROVE  received'[d] = perConsumer'[d] + IF pc'[d] = "tallying" THEN 1 ELSE 0
    <3>1. CASE d = c BY <1>2, <2>1, <3>1 DEF Tallied, TypeOK
    <3>2. CASE d # c BY <1>2, <2>1, <3>2 DEF Tallied, TypeOK
    <3> QED BY <3>1, <3>2
  <2> QED BY <1>2, <2>2, <2>3 DEF Tallied
<1>3. ASSUME NEW c \in Consumers, PerConsumerAdd(c) PROVE Tallied'
  <2>1. /\ perConsumer' = [perConsumer EXCEPT ![c] = @ + 1]
        /\ pc[c] = "tallying" /\ pc' = [pc EXCEPT ![c] = "counting"]
        /\ UNCHANGED <<received, total>>
    BY <1>3 DEF PerConsumerAdd, Counted, clients
  <2>2. /\ SumAll(perConsumer) \in Nat
        /\ SumAll(perConsumer') = SumAll(perConsumer) + 1
    <3>1. IsFiniteSet(Consumers) /\ perConsumer \in [Consumers -> Nat] /\ 1 \in Nat
      BY ConsumersFinite DEF TypeOK
    <3>2. SumGrown(perConsumer, [perConsumer EXCEPT ![c] = @ + 1], c, 1, Consumers)
      BY <3>1, FoldAdd
    <3> QED BY <2>1, <3>2 DEF SumGrown
  <2>3. Counting' = Counting \cup {c} /\ c \notin Counting
    BY <2>1 DEF Counting, TypeOK
  <2>4. Cardinality(Counting') = Cardinality(Counting) + 1
    BY <1>0, <2>3, FS_AddElement
  <2>5. \A d \in Consumers :
          received'[d] = perConsumer'[d] + IF pc'[d] = "tallying" THEN 1 ELSE 0
    BY <2>1 DEF Tallied, TypeOK
  <2> QED BY <1>0, <2>1, <2>2, <2>4, <2>5 DEF Tallied, TypeOK
<1>4. ASSUME NEW c \in Consumers, TotalAdd(c) PROVE Tallied'
  <2>1. /\ total' = total + 1
        /\ pc[c] = "counting"
        /\ \E l \in {"cancelling", "receiving"} : pc' = [pc EXCEPT ![c] = l]
        /\ UNCHANGED <<received, perConsumer>>
    BY <1>4 DEF TotalAdd, clients
  <2>2. Counting' = Counting \ {c} /\ c \in Counting
    BY <2>1 DEF Counting, TypeOK
  <2>3. Cardinality(Counting') = Cardinality(Counting) - 1
    BY <1>0, <2>2, FS_RemoveElement
  <2>4. \A d \in Consumers : pc'[d] = "tallying" <=> pc[d] = "tallying"
    BY <2>1 DEF TypeOK
  <2> QED BY <1>0, <2>1, <2>3, <2>4 DEF Tallied, TypeOK
<1> QED BY WhatCounts, <1>1, <1>2, <1>3, <1>4

\* The answer of the caller, and that it touches nothing else.
LEMMA Collected ==
  ASSUME Collect
  PROVE  /\ outcome = None /\ AllReturned
         /\ outcome' = IF errCh # {} THEN Error ELSE Totals(SumAll(perConsumer))
         /\ UNCHANGED <<clients, pc, perConsumer, total, cancelled, failed, errCh>>
BY DEF Collect, SumAll, clients, counters

\* What is true of a call stays true: nothing is uncounted, un-cancelled or
\* forgotten, and an error is final.
LEMMA OnlyGrows ==
  ASSUME TypeOK, [Next]_vars
  PROVE  /\ broker' = broker
         /\ total' \in Nat /\ total' >= total
         /\ cancelled => cancelled'
         /\ failed \subseteq failed'
         /\ errCh \subseteq errCh'
         /\ outcome = Error => outcome' = Error
<1> USE DEF clients, counters, Return, ReturnLosing, TypeOK
<1>1. ASSUME NEW c \in Consumers, Deliver(c) \/ Redeliver(c)
      PROVE  UNCHANGED <<broker, counters, failed, errCh, outcome>>
  BY <1>1 DEF Deliver, Redeliver
<1>2. ASSUME NEW c \in Consumers, Open(c)
      PROVE  /\ UNCHANGED <<broker, counters, errCh>>
             /\ failed \subseteq failed'
             /\ outcome' \in {outcome, Error}
  BY <1>2 DEF Open, OpenKafka, OpenRabbit, OpenNats, SubscribePulsar, StartPulsar
<1>3. ASSUME NEW c \in Consumers, Loop(c)
      PROVE  /\ UNCHANGED <<broker, outcome>>
             /\ total' \in {total, total + 1}
             /\ cancelled => cancelled'
             /\ failed \subseteq failed'
             /\ errCh \subseteq errCh'
  <2> USE DEF TakeMessage, LeaveWhenCancelled, FailSilently, CommitUnread
  <2>1. CASE KafkaReceive(c) BY <2>1 DEF KafkaReceive
  <2>2. CASE RabbitReceive(c) BY <2>2 DEF RabbitReceive
  <2>3. CASE NatsReceive(c) BY <2>3 DEF NatsReceive
  <2>4. CASE PulsarReceive(c) BY <2>4 DEF PulsarReceive
  <2>5. CASE PulsarReport(c) BY <2>5 DEF PulsarReport
  <2>6. CASE PerConsumerAdd(c) BY <2>6 DEF PerConsumerAdd
  <2>7. CASE TotalAdd(c) BY <2>7 DEF TotalAdd
  <2>8. CASE Cancel(c) BY <2>8 DEF Cancel
  <2> QED BY <1>3, <2>1, <2>2, <2>3, <2>4, <2>5, <2>6, <2>7, <2>8 DEF Loop
<1>4. ASSUME Collect
      PROVE  /\ UNCHANGED <<broker, total, cancelled, failed, errCh>>
             /\ outcome # Error
  BY <1>4, Collected DEF None, Error
<1>5. ASSUME UNCHANGED vars PROVE UNCHANGED <<broker, total, cancelled, failed, errCh, outcome>>
  BY <1>5 DEF vars
<1>6. total \in Nat /\ cancelled \in BOOLEAN
  OBVIOUS
<1>7. CASE \E c \in Consumers : Loop(c) BY <1>3, <1>6, <1>7
<1>8. CASE \E c \in Consumers : Deliver(c) \/ Redeliver(c) \/ Open(c) BY <1>1, <1>2, <1>6, <1>8
<1> QED BY <1>4, <1>5, <1>6, <1>7, <1>8 DEF Next, Done

\* A goroutine that leaves its loop has a reason that lasts.
LEMMA LeftStep == TypeOK /\ LeftForAReason /\ [Next]_vars => LeftForAReason'
<1> SUFFICES ASSUME TypeOK, LeftForAReason, [Next]_vars PROVE LeftForAReason'
  OBVIOUS
<1> USE CountAssumption DEF clients, counters, Goto, Return
<1> DEFINE Left(c) == /\ pc[c] = "cancelling" => total >= Count
                      /\ pc[c] = "erring" => c \in failed
                      /\ pc[c] = "returned" =>
                           \/ cancelled
                           \/ outcome = Error
                           \/ c \in failed /\ (broker = "pulsar" => c \in errCh)
<1>1. ASSUME NEW c \in Consumers, pc'[c] = pc[c] PROVE Left(c)'
  BY <1>1, OnlyGrows DEF LeftForAReason, TypeOK
<1>2. ASSUME NEW c \in Consumers, Open(c), NEW d \in Consumers PROVE Left(d)'
  <2>1. CASE SubscribePulsar(c)
    <3>1. CASE pc' = [e \in Consumers |-> "returned"] /\ outcome' = Error BY <3>1
    <3>2. CASE Goto(c, "opening") BY <1>1, <2>1, <3>2 DEF TypeOK
    <3> QED BY <2>1, <3>1, <3>2 DEF SubscribePulsar
  <2>2. ASSUME pc' = [pc EXCEPT ![c] = "receiving"] PROVE Left(d)'
    BY <1>1, <2>2 DEF TypeOK
  <2>3. ASSUME Return(c), cancelled' \/ (failed' = failed \cup {c} /\ broker' # "pulsar")
        PROVE  Left(d)'
    BY <1>1, <2>3 DEF TypeOK, ReturnLosing
  <2>4. CASE OpenKafka(c) BY <2>2, <2>4 DEF OpenKafka
  <2>5. CASE OpenRabbit(c)
    <3>1. broker' = "rabbitmq" BY <2>5 DEF OpenRabbit, ReturnLosing
    <3> QED BY <2>2, <2>3, <2>5, <3>1 DEF OpenRabbit
  <2>6. CASE OpenNats(c)
    <3>1. broker' = "nats" BY <2>6 DEF OpenNats, ReturnLosing
    <3> QED BY <2>2, <2>3, <2>6, <3>1 DEF OpenNats
  <2>7. CASE StartPulsar(c) BY <2>2, <2>7 DEF StartPulsar
  <2> QED BY <1>2, <2>1, <2>4, <2>5, <2>6, <2>7 DEF Open
<1>3. ASSUME NEW c \in Consumers, Loop(c), NEW d \in Consumers PROVE Left(d)'
  <2>1. ASSUME NEW l \in {"receiving", "tallying", "counting"},
               pc' = [pc EXCEPT ![c] = l]
        PROVE  Left(d)'
    BY <1>1, <2>1 DEF TypeOK
  <2>2. ASSUME NEW lost, ReturnLosing(c, lost),
               \/ cancelled'
               \/ c \in failed' /\ (broker' = "pulsar" => c \in errCh')
        PROVE  Left(d)'
    BY <1>1, <2>2 DEF TypeOK, ReturnLosing
  <2>3. ASSUME TakeMessage(c) PROVE Left(d)' BY <2>1, <2>3 DEF TakeMessage
  <2>4. ASSUME LeaveWhenCancelled(c), UNCHANGED counters PROVE Left(d)'
    BY <2>2, <2>4 DEF LeaveWhenCancelled
  <2>5. ASSUME FailSilently(c), broker # "pulsar" PROVE Left(d)'
    <3>1. broker' = broker BY <2>5 DEF FailSilently, ReturnLosing
    <3> QED BY <2>2, <2>5, <3>1 DEF FailSilently
  <2>6. CASE KafkaReceive(c)
    <3>1. CASE CommitUnread(c)
      <4>1. broker' = "kafka" BY <2>6, <3>1 DEF KafkaReceive, CommitUnread, ReturnLosing
      <4> QED BY <2>2, <2>6, <3>1, <4>1 DEF KafkaReceive, CommitUnread
    <3>2. CASE ~CommitUnread(c) BY <2>3, <2>4, <2>5, <2>6, <3>2 DEF KafkaReceive
    <3> QED BY <3>1, <3>2
  <2>7. CASE RabbitReceive(c) BY <2>3, <2>4, <2>5, <2>7 DEF RabbitReceive
  <2>8. CASE NatsReceive(c) BY <2>3, <2>4, <2>5, <2>8 DEF NatsReceive
  <2>9. CASE PulsarReceive(c)
    <3>1. ASSUME Goto(c, "erring"), failed' = failed \cup {c} PROVE Left(d)'
      BY <1>1, <3>1 DEF TypeOK
    <3> QED BY <2>3, <2>4, <2>9, <3>1 DEF PulsarReceive
  <2>10. CASE PulsarReport(c)
    <3>1. c \in failed' BY <2>10 DEF PulsarReport, LeftForAReason
    <3>2. cancelled' \/ c \in errCh' BY <2>10 DEF PulsarReport, PushesError, TypeOK
    <3> QED BY <2>2, <2>10, <3>1, <3>2 DEF PulsarReport
  <2>11. CASE PerConsumerAdd(c) BY <2>1, <2>11 DEF PerConsumerAdd
  <2>12. CASE TotalAdd(c)
    <3>1. CASE CountReached(total')
      BY <1>1, <2>12, <3>1 DEF TotalAdd, CountReached, TypeOK
    <3>2. CASE ~CountReached(total') BY <2>1, <2>12, <3>2 DEF TotalAdd
    <3> QED BY <3>1, <3>2
  <2>13. CASE Cancel(c) BY <2>2, <2>13 DEF Cancel
  <2> QED
    BY <1>3, <2>6, <2>7, <2>8, <2>9, <2>10, <2>11, <2>12, <2>13 DEF Loop
<1>4. ASSUME NEW d \in Consumers PROVE Left(d)'
  <2>1. ASSUME NEW c \in Consumers, Deliver(c) \/ Redeliver(c) PROVE Left(d)'
    BY <1>1, <2>1 DEF Deliver, Redeliver
  <2>2. CASE Collect BY <1>1, <2>2 DEF Collect
  <2>3. CASE UNCHANGED vars BY <1>1, <2>3 DEF vars
  <2> HIDE DEF Left
  <2> QED BY <1>2, <1>3, <2>1, <2>2, <2>3 DEF Next, Done
<1>5. cancelled' => total' >= Count
  <2>1. CASE cancelled BY <2>1, OnlyGrows DEF LeftForAReason, TypeOK
  <2>2. CASE UNCHANGED cancelled BY <2>1, <2>2
  <2>3. ASSUME NEW c \in Consumers, Cancel(c) PROVE total' >= Count
    BY <2>3 DEF Cancel, LeftForAReason
  <2>4. cancelled' = cancelled \/ \E c \in Consumers : Cancel(c)
    BY DEF Next, vars, Done, Collect, Deliver, Redeliver, Open, OpenKafka, OpenRabbit, OpenNats,
           SubscribePulsar, StartPulsar, Loop, KafkaReceive, RabbitReceive, NatsReceive,
           PulsarReceive, PulsarReport, PerConsumerAdd, TotalAdd
  <2> QED BY <2>1, <2>2, <2>3, <2>4
<1> QED BY <1>4, <1>5 DEF LeftForAReason

\* The report is made when all have returned, and nothing moves afterwards.
LEMMA AnsweredStep == TypeOK /\ Answered /\ [Next]_vars => Answered'
<1> SUFFICES ASSUME TypeOK, Answered, [Next]_vars PROVE Answered'
  OBVIOUS
<1>1. CASE Collect
  BY <1>1, Collected DEF Answered, Error, Totals, AllReturned
<1>2. CASE outcome.kind = "stats" /\ ~Collect
  <2>1. AllReturned
    BY <1>2 DEF Answered
  <2>2. ASSUME NEW c \in Consumers, Open(c) \/ Loop(c) PROVE FALSE
    BY <2>1, <2>2 DEF AllReturned, Open, OpenKafka, OpenRabbit, OpenNats, SubscribePulsar,
           StartPulsar, Loop, KafkaReceive, RabbitReceive, NatsReceive, PulsarReceive,
           PulsarReport, PerConsumerAdd, TotalAdd, Cancel
  <2>3. UNCHANGED <<pc, perConsumer, errCh, outcome>>
    BY <1>2, <2>2 DEF Next, vars, counters, Done, Deliver, Redeliver
  <2> QED BY <2>3 DEF Answered, AllReturned
<1>3. CASE outcome.kind # "stats" /\ ~Collect
  <2>1. outcome'.kind # "stats"
    BY <1>3 DEF Next, vars, Done, Deliver, Redeliver, Open, OpenKafka, OpenRabbit, OpenNats,
           SubscribePulsar, StartPulsar, Loop, KafkaReceive, RabbitReceive, NatsReceive,
           PulsarReceive, PulsarReport, PerConsumerAdd, TotalAdd, Cancel, Error
  <2> QED BY <2>1 DEF Answered
<1> QED BY <1>1, <1>2, <1>3

\* ReportInv is what the two theorems on reports need; it is inductive.
LEMMA ReportInvariant == Spec => []ReportInv
<1>1. Init => SubscribingFirst
  BY DEF Init, SubscribingFirst, None
<1>2. Init => LeftForAReason /\ Answered
  BY DEF Init, LeftForAReason, Answered, None
<1>3. Init => Tallied
  <2> SUFFICES ASSUME Init PROVE Tallied
    OBVIOUS
  <2>1. SumAll(perConsumer) = 0
    BY ConsumersFinite, FoldZero DEF Init
  <2>2. Counting = {}
    BY DEF Init, Counting
  <2> QED BY <2>1, <2>2, FS_EmptySet DEF Init, Tallied
<1> QED
  BY <1>1, <1>2, <1>3, TypeCorrect, SubscribingStep, TalliedStep, LeftStep,
     AnsweredStep, PTL DEF Spec, ReportInv

\* Whatever the interleaving of the goroutines, their failures and the cancellation,
\* the total in a report is the number of times that the loops have received a message.
THEOREM ReportCorrect == Spec => []ReportFaithful
<1>1. ReportInv => ReportFaithful
  <2> SUFFICES ASSUME ReportInv, outcome.kind = "stats"
               PROVE  /\ outcome.total = total
                      /\ outcome.total = FoldFunction(+, 0, received)
    BY DEF ReportFaithful
  <2>1. AllReturned /\ outcome.total = SumAll(perConsumer)
    BY DEF ReportInv, Answered
  <2>2. Counting = {}
    BY <2>1 DEF AllReturned, Counting
  <2>3. outcome.total = total
    BY <2>1, <2>2, FS_EmptySet DEF ReportInv, Tallied, TypeOK
  <2>4. received = perConsumer
    BY <2>1 DEF ReportInv, Tallied, TypeOK, AllReturned
  <2>5. outcome.total = SumAll(received)
    BY <2>1, <2>4
  <2> QED BY <2>3, <2>5 DEF SumAll
<1> QED BY <1>1, ReportInvariant, PTL

\* A report that falls short of Count is possible only when every consumer has lost
\* its connection, and never from Pulsar.
THEOREM ShortReport == Spec => []ShortOnlyIfAllFailed
<1>1. ReportInv => ShortOnlyIfAllFailed
  <2> SUFFICES ASSUME ReportInv, outcome.kind = "stats", outcome.total < Count
               PROVE  broker # "pulsar" /\ failed = Consumers
    BY DEF ShortOnlyIfAllFailed
  <2>1. AllReturned /\ outcome.total = SumAll(perConsumer) /\ errCh = {}
    BY DEF ReportInv, Answered
  <2>2. Counting = {}
    BY <2>1 DEF AllReturned, Counting
  <2>3. outcome.total = total
    BY <2>1, <2>2, FS_EmptySet DEF ReportInv, Tallied, TypeOK
  <2>4. ~cancelled /\ outcome # Error
    BY <2>3, CountAssumption DEF ReportInv, LeftForAReason, TypeOK, Error
  <2>5. \A c \in Consumers : c \in failed /\ broker # "pulsar"
    BY <2>1, <2>4 DEF ReportInv, LeftForAReason, AllReturned
  <2> QED BY <2>5, ConsumersFinite DEF ReportInv, TypeOK
<1> QED BY <1>1, ReportInvariant, PTL

=============================================================================
