\* The receive loop: routes, policies, lost connections and the shutdown.
CONSTANTS
  t1 = t1
  t2 = t2
  tw = tw
  g1 = g1
  g2 = g2
  k1 = k1
  k2 = k2
  s1 = s1
  s2 = s2
  NoKey = NoKey
  GarbledCrc = 99
  Topics <- WideTopics
  Groups <- MCGroups
  topic_to_group <- WideGroupOf
  topic_crc32 <- WideCrcs
  HostGroups = {g2}
  WildTopics = {tw}
  SchemaIds = {s1, s2}
  Yamls <- ReceiveYamls
  MqttMessages <- ResentMessages
  Arrivals <- MCArrivals
  MaxMessages = 1
SPECIFICATION FairSpec
INVARIANTS
  ForwardsExactly
  TranslationIsOptIn
PROPERTIES
  ShutdownCompletes
\* The process may end: Run returned, failed, or a goroutine panicked.
CHECK_DEADLOCK FALSE
