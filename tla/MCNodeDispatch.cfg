\* Dispatch: registrations, setup and arrivals in every order.
CONSTANTS
  t1 = t1
  t2 = t2
  g1 = g1
  g2 = g2
  k1 = k1
  k2 = k2
  c1 = c1
  c2 = c2
  s1 = s1
  s2 = s2
  NoKey = NoKey
  NoOverride = NoOverride
  GarbledCrc = 99
  retransmit_count = 1
  Topics <- MCTopics
  Groups <- MCGroups
  topic_to_group <- MCGroupOf
  topic_crc32 <- DistinctCrcs
  HostGroups = {g2}
  encryption_key = k1
  Overrides = {}
  Lengths = {10}
  SchemaIds = {s1, s2}
  Callbacks = {c1, c2}
  Arrivals <- MCArrivals
  MaxPublishes = 0
  MaxRegistrations = 3
  MaxBatch = 1
  CounterMod = 2
SPECIFICATION Spec
INVARIANTS
  DispatchIsExact
  SubscribedMeansJoined
\* A component whose setup failed does nothing more once its callers stop.
CHECK_DEADLOCK FALSE
