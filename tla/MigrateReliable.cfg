\* The three as a pipeline over a medium that only delivers.
SPECIFICATION FairSpec
CONSTANTS
  old = old
  new = new
  alice = alice
  bob = bob
  n1 = n1
  n2 = n2
  small = small
  big = big
  high8 = high8
  None = None
  Garbage = Garbage
  Stream = {old, new}
  Source = old
  Target = new
  Owner = {alice, bob}
  BaseNonce = {n1}
  Prefix <- MCPrefix
  Chunk = {small, big}
  Size <- MCSize
  TagLen = 1
  MaxChunk = 2
  MaxPlain = 4
  MaxFrames = 3
  MaxSeq = 3
  Bundles <- OldBundles
  NewBundles <- NewOnes
  MigHandleSets <- AllBundles
  MigMinimums <- AllMinimums
  HandleSets <- NewHandles
  Minimums <- AllMinimums
  ChunkSizes <- MCChunkSizes
  Faulty = FALSE
  Lengths <- MCLengths
CHECK_DEADLOCK FALSE
INVARIANTS
  MigratedAccepted
PROPERTIES
  EventuallyMigrated
  EventuallyReturned
