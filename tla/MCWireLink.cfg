\* Agreement and interoperability of the C++ and Go codecs.
CONSTANTS
  t1 = t1
  t2 = t2
  k1 = k1
  k2 = k2
  NoKey = NoKey
  GarbledCrc = 99
  Topics <- MCTopics
  topic_crc32 <- MCCrc
  Keys <- MCKeys
  Lengths <- MCLengths
  ForeignLens <- MCForeignLens
SPECIFICATION Spec
INVARIANTS
  SendersAgree
  PeersUnderstandEachOther
  AcceptedIsWhole
\* One datagram per behaviour: it ends when the receiver has decided.
CHECK_DEADLOCK FALSE
