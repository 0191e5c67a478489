\* Retransmission: two topics, every mix of chains and finite resends,
\* under the fairness of the scheduler.
CONSTANTS
  t1 = t1
  t2 = t2
  g1 = g1
  g2 = g2
  k1 = k1
  k2 = k2
  c1 = c1
  c2 = c2
  s1 = s1
  s2 = s2
  NoKey = NoKey
  NoOverride = NoOverride
  GarbledCrc = 99
  retransmit_count = 1
  Topics <- MCTopics
  Groups <- MCGroups
  topic_to_group <- MCGroupOf
  topic_crc32 <- DistinctCrcs
  HostGroups = {}
  encryption_key = k1
  Overrides <- MCOverrides
  Lengths = {10, 1217}
  SchemaIds = {s1}
  Callbacks = {}
  Arrivals = {}
  MaxPublishes = 3
  MaxRegistrations = 0
  MaxBatch = 0
  CounterMod = 2
SPECIFICATION FairSpec
INVARIANTS
  TypeOK
  IndefiniteUntilSuperseded
  SupersededNeverResent
  FiniteResendsExact
  EmittedIsGenuine
PROPERTIES
  ResendsAreMade
  ChainNeverDies
\* A component whose setup failed does nothing more once its callers stop.
CHECK_DEADLOCK FALSE
