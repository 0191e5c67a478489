\* Two publications to a listener over a network that loses and reorders.
CONSTANTS
  t1 = t1
  t2 = t2
  g1 = g1
  k1 = k1
  NoKey = NoKey
  NoOverride = NoOverride
  GarbledCrc = 99
  retransmit_count = 1
  Topics <- MCTopics
  Groups = {g1}
  topic_to_group <- MCGroupOf
  topic_crc32 <- DistinctCrcs
  HostGroups = {}
  encryption_key = k1
  listener_key = k1
  Overrides <- MCOverrides
  Lengths = {10}
  SchemaIds = {}
  Callbacks = {}
  Arrivals = {}
  MaxPublishes = 2
  MaxRegistrations = 0
  MaxBatch = 0
  MaxRestarts = 1
  CounterMod = 1
SPECIFICATION FabricSpec
PROPERTIES
  ImplementsLastValue
  EventuallyCurrent
\* A publisher whose setup failed has nothing to do.
CHECK_DEADLOCK FALSE
