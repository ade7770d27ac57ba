\* One run of either script, while references move and objects are pruned.
SPECIFICATION Spec
CONSTANTS
  c1 = c1
  c2 = c2
  t1 = t1
  v = v
  main = main
  None = None
  Commit = {c1, c2}
  Tag = {t1}
  Ref = {v, main}
  Known = v
  OfficialCommit = c1
  Targets = {v, main, c2}
  Tagged <- MCTagged
  Layout <- MCLayout
  References <- MCReferences
  Hosts <- MCHosts
  MaxMoves = 2
CHECK_DEADLOCK FALSE
INVARIANTS
  ReproducibleSound
  SuccessSound
