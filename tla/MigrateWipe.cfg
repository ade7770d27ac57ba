\* SECURITY_HARDENING.md on key buffers, refuted: expected to be violated.
SPECIFICATION Spec
CONSTANTS
  old = old
  new = new
  alice = alice
  bob = bob
  n1 = n1
  n2 = n2
  small = small
  big = big
  high8 = high8
  None = None
  Garbage = Garbage
  Stream = {old, new}
  Source = old
  Target = new
  Owner = {alice, bob}
  BaseNonce = {n1}
  Prefix <- MCPrefix
  Chunk = {small, big}
  Size <- MCSize
  TagLen = 1
  MaxChunk = 2
  MaxPlain = 3
  MaxFrames = 2
  MaxSeq = 2
  Bundles <- OneOld
  NewBundles <- NewOnes
  MigHandleSets <- OneOld
  MigMinimums <- NoMinimum
  HandleSets <- NewOnes
  Minimums <- NoMinimum
  ChunkSizes <- MCChunkSizes
  Faulty = TRUE
  Lengths <- MCLengths
CHECK_DEADLOCK FALSE
INVARIANTS
  MigrationBuffersWiped
