\* Handler, chains, finite goroutines and shutdown in every interleaving.
CONSTANTS
  t1 = t1
  t2 = t2
  tw = tw
  g1 = g1
  g2 = g2
  k1 = k1
  k2 = k2
  s1 = s1
  s2 = s2
  NoKey = NoKey
  GarbledCrc = 99
  Topics <- MCTopics
  Groups <- MCGroups
  topic_to_group <- MCGroupOf
  topic_crc32 <- DistinctCrcs
  HostGroups = {}
  WildTopics = {}
  SchemaIds = {s1, s2}
  Yamls <- SendYamls
  MqttMessages <- MCMessages
  Arrivals = {}
  MaxMessages = 2
SPECIFICATION FairSpec
INVARIANTS
  TypeOK
  NoOrphanChain
  JobsAreLive
  FiniteAccounting
  IndefiniteIsPaced
PROPERTIES
  CancelledChainsExit
  ChainsKeepSending
\* The process may end: Run returned, failed, or a goroutine panicked.
CHECK_DEADLOCK FALSE
