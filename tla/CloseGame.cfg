SPECIFICATION LiveSpec
CONSTANTS
  SignedStates <- MCSignedStates
  Members = {h, m}
  HonestMember = h
  HonestState <- MCOldest
  ChallengePeriod = 1
  GraceBeforeProcessSecs = 1
  MinCloseResponseSecs = 1
INVARIANTS NewerStateStaysAdmissible
PROPERTIES DelayedRequestIsFresh SettlesWhatWasNamed ExitLiveness
CHECK_DEADLOCK FALSE
