\* Every constraint, over tables with up to two records changed.
SPECIFICATION Spec
CONSTANTS
  Missing = Missing
  Malformed = Malformed
  None = None
  Tables <- Edited
CHECK_DEADLOCK FALSE
INVARIANTS
  QuantumSafeKept
  KeySetComplete
  FallbackReported
  HardStopJustified
