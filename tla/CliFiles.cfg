\* Two commands over shared files, with failures, interrupts and a power loss.
SPECIFICATION Spec
CONSTANTS
  p1 = p1
  p2 = p2
  p3 = p3
  old = old
  doc = doc
  bundle = bundle
  key = key
  input = input
  cipher = cipher
  out = out
  None = None
  Torn = Torn
  Proc = {p1, p2}
  Path = {bundle, key, input, cipher, out}
  OldKey = {old}
  Doc = {doc}
  Commands <- FileCommands
  Initial <- MCInitial
CHECK_DEADLOCK FALSE
INVARIANTS
  TypeOK
  DestinationsWhole
  FailurePreserves
  NothingLeft
  PairsMatch
  InputKept
