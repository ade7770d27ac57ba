\* Two encryptors and a decryptor over a medium that does anything.
SPECIFICATION Spec
CONSTANTS
  s1 = s1
  s2 = s2
  alice = alice
  bob = bob
  n1 = n1
  n2 = n2
  small = small
  big = big
  high8 = high8
  None = None
  Garbage = Garbage
  Stream = {s1, s2}
  Owner = {alice, bob}
  BaseNonce = {n1}
  Prefix <- MCPrefix
  Chunk = {small, big}
  Size <- MCSize
  TagLen = 1
  MaxChunk = 2
  MaxPlain = 3
  MaxFrames = 2
  MaxSeq = 2
  Bundles <- FaultyBundles
  HandleSets <- FaultyHandles
  Minimums <- FaultyMinimums
  ChunkSizes <- FaultyChunkSizes
  Faulty = TRUE
  Lengths <- MCLengths
SYMMETRY StreamSymmetry
CHECK_DEADLOCK FALSE
INVARIANTS
  NonceUnique
  PrefixIntegrity
  CompleteOnSuccess
  DowngradeHonoured
  KeyBuffersWiped
PROPERTIES
  Refines
