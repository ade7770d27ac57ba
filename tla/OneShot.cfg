\* Two senders, one of which may migrate, and a receiver, over changed bytes.
SPECIFICATION Spec
CONSTANTS
  p1 = p1
  p2 = p2
  p3 = p3
  alice = alice
  bob = bob
  doc = doc
  doc2 = doc2
  None = None
  Base = 4
  Magic <- MCMagic
  NonceLen = 1
  NeverUtf8 = {3}
  Context <- MCMagic
  Proc = {p1, p2, p3}
  Owner = {alice, bob}
  Doc = {doc, doc2}
  Name <- MCName
  CtLen <- MCCtLen
  Random <- MCRandom
  Calls <- MCCalls
CHECK_DEADLOCK FALSE
INVARIANTS
  TypeOK
  KeyBinds
  HeaderCanonical
  OpensOnlySealed
  MinimumMet
  GenuineOpens
  BuffersWiped
