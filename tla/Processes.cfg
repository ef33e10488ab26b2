SPECIFICATION PSpec
CONSTANTS
  Process = {p1, p2, p3}
  None = none
  Caller = {p1, p2, p3}
  MaxCalls = 2
SYMMETRY Symmetry
INVARIANTS
  OneInstance
  NamesAnInstance
  PairingKept
