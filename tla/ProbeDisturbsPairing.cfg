SPECIFICATION PSpec
CONSTANTS
  Process = {p1}
  None = none
  Caller = {p1, probe}
  MaxCalls = 2
INVARIANTS
  PairingKept
