\* _atomic_stream_write()'s docstring on a raising write_fn: expected to be violated.
SPECIFICATION Spec
CONSTANTS
  p1 = p1
  p2 = p2
  p3 = p3
  old = old
  doc = doc
  bundle = bundle
  key = key
  input = input
  cipher = cipher
  out = out
  None = None
  Torn = Torn
  Proc = {p1}
  Path = {bundle, key, input, cipher, out}
  OldKey = {old}
  Doc = {doc}
  Commands <- DecryptOnly
  Initial <- MCInitial
CHECK_DEADLOCK FALSE
INVARIANTS
  InterruptedWriteRemovesTemp
