SPECIFICATION LiveSpec
CONSTANTS
  None = None
  Actions = {claim, pull}
  MaxAttempts = 2
  MaxCrashes = 2
  MaxReorgs = 1
INVARIANTS ActionsOwnNonces AtMostOneSuccess ReleasedIsSpent
PROPERTY LeaseReleasedOrIntent
CHECK_DEADLOCK FALSE
