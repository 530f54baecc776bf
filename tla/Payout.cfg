SPECIFICATION LiveSpec
CONSTANTS
  eth = eth  tok = tok  alice = alice  bob = bob
  c1 = c1  c2 = c2  late1 = late1  late2 = late2  w1 = w1  w2 = w2
  Tokens = {eth, tok}
  ETH = eth
  Recipients = {alice, bob}
  Manager = manager
  Fund <- SmallFund
  Claims <- OverlappingClaims
  Withdrawals <- TwoLeaves
  LateReceipts <- TwoLate
  Escrowed <- CoveringEscrow
  MaxHeight = 1
INVARIANTS ValueConserved EachClaimPaidOnce LateCheckpointComplete ProvenWithdrawalStaysPayable
PROPERTY EveryPayoutPaid
CHECK_DEADLOCK FALSE
