CONSTANTS
  SignedStates <- ThreeStates
  Members = {m1}
  ChallengePeriod = 1
  GraceBeforeProcessSecs = 0
  MinCloseResponseSecs = 1
  Channel = c
  Others = {d}
  Unsigned = unsigned
  SettledBy <- SettledByTwoSends
  Batches <- AllBatches
  MaxHeight = 3
SPECIFICATION LiveSpec
INVARIANTS JournalTracksChain RollbackNeverReverts SettlesExactlyPostedSends AdmittedCloseStaysFundable
PROPERTIES ImplementsGame FrozenChannelIsClosable
CHECK_DEADLOCK FALSE
