SPECIFICATION LiveSpec
CONSTANTS
  close = close  validity = validity  None = None
  Journals = {close, validity}
  Steps = 2
  Guarded = {validity}
  Contested <- MCContested
  Obstructable <- MCObstructable
  MaxCrashes = 1
  MaxUpsets = 2
  MaxBondMoves = 1
INVARIANTS NonceExclusive ReplayPossible CompletedIsFinal
PROPERTY StrandedHoldUpByLaneOnly
CHECK_DEADLOCK FALSE
