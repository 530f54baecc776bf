CONSTANTS
  Producers = {p1}
  Outsider = reporter
  Treasury = treasury
  BaseStake = 10
  PostStake = 10
  FinalizeDeadlineBlocks = 0
  Batches <- ShortAndLong
  Channels = {c1}
  MaxPosts = 2
  MaxDeposits = 2
  Wealth = 30
  Values = {30}
SPECIFICATION LiveSpec
INVARIANTS SubmissionsTileChain FinalizedRootsOnChain RemovalNeverBlocked DepositsNeverLost
PROPERTIES PinStaysUsable EverySubmissionResolves ImplementsLedger
CHECK_DEADLOCK FALSE
