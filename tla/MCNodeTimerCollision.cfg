\* Two topics with the same CRC32 share one timeout id.
CONSTANTS
  t1 = t1
  t2 = t2
  g1 = g1
  g2 = g2
  k1 = k1
  k2 = k2
  c1 = c1
  c2 = c2
  s1 = s1
  s2 = s2
  NoKey = NoKey
  NoOverride = NoOverride
  GarbledCrc = 99
  retransmit_count = 1
  Topics <- MCTopics
  Groups <- MCGroups
  topic_to_group <- MCGroupOf
  topic_crc32 <- EqualCrcs
  HostGroups = {}
  encryption_key = k1
  Overrides <- MCOverrides
  Lengths = {10}
  SchemaIds = {}
  Callbacks = {}
  Arrivals = {}
  MaxPublishes = 2
  MaxRegistrations = 0
  MaxBatch = 0
  CounterMod = 2
SPECIFICATION Spec
INVARIANTS
  IndefiniteUntilSuperseded
\* A component whose setup failed does nothing more once its callers stop.
CHECK_DEADLOCK FALSE
