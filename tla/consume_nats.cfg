CONSTANTS
  m1 = m1
  m2 = m2
  m3 = m3
  NConsumers = 2
  Count = 2
  Messages <- ThreeMessages
  Prefetch = 2
  MaxRedelivered = 0
  Brokers <- NatsOnly
  Faulty <- NoConsumer
SPECIFICATION Spec
INVARIANT MessagesDistributed
\* With fewer messages than Count, all goroutines wait for more.
CHECK_DEADLOCK FALSE
