\* JSON, DynamicMessage and foreign bodies through every pair of schemas.
CONSTANTS
  Base = 16
  MaxVarintLen = 3
  U32 = 32
  U64 = 1024
  FixedLen = 2
  Exact = 256
  ReservedTags = {2}
  OutOfRange = {511, 512, 1023}
  FieldLists <- MCFieldLists
  Objects <- MCObjects
  Additions <- MCAdditions
  ForeignBodies <- MCForeignBodies
  MaxAdditions = 3
  MaxHops = 2
SPECIFICATION Spec
INVARIANTS
  TypeOK
  RoundTrip
  JsonIsStable
  ReadersAgree
  DynamicIsUnderstood
PROPERTIES
  DecodeAdvances
\* A translation ends.
CHECK_DEADLOCK FALSE
