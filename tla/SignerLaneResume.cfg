SPECIFICATION LiveSpec
CONSTANTS
  close = close  validity = validity  None = None
  Journals = {close, validity}
  Steps = 3
  Guarded = {validity}
  Contested <- MCContested
  Obstructable <- MCObstructable
  MaxCrashes = 1
  MaxUpsets = 0
  MaxBondMoves = 0

PROPERTY EveryPublicationCompletes
CHECK_DEADLOCK FALSE
