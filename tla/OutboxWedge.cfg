SPECIFICATION LiveSpec
CONSTANTS
  None = None
  Actions = {claim, pull}
  MaxAttempts = 2
  MaxCrashes = 1
  MaxReorgs = 0

PROPERTY TerminalLeaseReleased
CHECK_DEADLOCK FALSE
