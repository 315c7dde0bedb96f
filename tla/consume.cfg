\* Two consumers of each broker, a backlog of less than, as much as or more than
\* they are asked for, and connections that may fail anywhere.
CONSTANTS
  m1 = m1
  m2 = m2
  m3 = m3
  NConsumers = 2
  Count = 2
  Messages <- ThreeMessages
  Prefetch = 2
  MaxRedelivered = 1
  Brokers <- AllBrokers
  Faulty <- Consumers
SPECIFICATION FairSpec
INVARIANTS
  TypeOK
  OvershootBounded
  ReportFaithful
  ReadTwiceOnlyIfRedelivered
  ShortOnlyIfAllFailed
PROPERTIES
  CancelReleasesAll
  Drains
  Implements
\* With fewer messages than Count, or when a consumer that fails takes its buffered
\* messages with it, the others wait for ever, and so does the model.
CHECK_DEADLOCK FALSE
