\* Two threads, one permit, and genuine, damaged and foreign keystores.
SPECIFICATION FairSpec
CONSTANTS
  w1 = w1
  w2 = w2
  Unknown = Unknown
  None = None
  Call = {c1, c2}
  Limit = 1
  Password = {w0, w1, w2}
  Empty = w0
  KeySets <- SomeKeySets
  Foreign <- SomeForeign
CHECK_DEADLOCK FALSE
INVARIANTS
  ImportFaithful
  ImportedGenuine
  RoundTrip
  WrappingKeysWiped
  PermitsConserved
PROPERTIES
  EventuallyReturns
