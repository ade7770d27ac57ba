\* Encrypt, migrate, decrypt, over a medium that does anything.
SPECIFICATION Spec
CONSTANTS
  old = old
  new = new
  alice = alice
  bob = bob
  n1 = n1
  n2 = n2
  small = small
  big = big
  high8 = high8
  None = None
  Garbage = Garbage
  Stream = {old, new}
  Source = old
  Target = new
  Owner = {alice, bob}
  BaseNonce = {n1}
  Prefix <- MCPrefix
  Chunk = {small, big}
  Size <- MCSize
  TagLen = 1
  MaxChunk = 2
  MaxPlain = 3
  MaxFrames = 2
  MaxSeq = 2
  Bundles <- OldBundles
  NewBundles <- NewOnes
  MigHandleSets <- OldBundles
  MigMinimums <- AnyMinimum
  HandleSets <- NewOnes
  Minimums <- NoMinimum
  ChunkSizes <- MCChunkSizes
  Faulty = TRUE
  Lengths <- MCLengths
CHECK_DEADLOCK FALSE
INVARIANTS
  NonceUnique
  MigratedComplete
  MigrationHonoursMinimum
  LoopBuffersWiped
PROPERTIES
  Refines
