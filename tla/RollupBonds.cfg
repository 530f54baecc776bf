CONSTANTS
  Producers = {p1, p2}
  Outsider = reporter
  Treasury = treasury
  BaseStake = 10
  PostStake = 10
  FinalizeDeadlineBlocks = 0
  Batches <- SingleBlock
  Channels = {}
  MaxPosts = 3
  MaxDeposits = 0
  Wealth = 30
  Values = {10, 20}
SYMMETRY Permuted
SPECIFICATION Spec
INVARIANTS ReleasedPostsAreFinal BondCoversExposure
PROPERTIES SelfReportNeverProfits
CHECK_DEADLOCK FALSE
