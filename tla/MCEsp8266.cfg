\* Deferred joins, outages of the interface, dispatch and one publication.
CONSTANTS
  t1 = t1
  t2 = t2
  g1 = g1
  g2 = g2
  k1 = k1
  k2 = k2
  c1 = c1
  s1 = s1
  NoKey = NoKey
  NoOverride = NoOverride
  GarbledCrc = 99
  retransmit_count = 1
  Topics <- MCTopics
  Groups = {g1, g2}
  topic_to_group <- MCGroupOf
  topic_crc32 <- DistinctCrcs
  HostGroups = {g2}
  encryption_key = k1
  Overrides <- MCOverrides
  Lengths = {10}
  SchemaIds = {s1}
  Callbacks = {c1}
  Arrivals <- MCArrivals
  MaxPublishes = 1
  MaxRegistrations = 2
  MaxBatch = 1
  MaxOutages = 1
  CounterMod = 1
SPECIFICATION EspFairSpec
INVARIANTS
  DispatchIsExact
  IndefiniteUntilSuperseded
  JoinedFlagIsTrue
PROPERTIES
  EventuallyJoined
\* A component whose setup failed does nothing more once its callers stop.
CHECK_DEADLOCK FALSE
