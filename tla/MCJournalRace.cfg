SPECIFICATION PayoutsOnly
CONSTANTS
  alice = alice
  bob = bob
  carol = carol
  Holders <- MCHolders
  minPayout = 1
  transfersPerTx = 2
  Validity = 1
  Pots = {2}
  MaxRaised = 4
  MaxHeight = 3
  MaxSends = 3
  Withdrawals = {4}
  BurnShare = 3
  LpShare = 4
  CreatorShare = 3
  MaxTxs = 3
  TRANCHES = 3
  VEST_SECONDS = 4
  VEST_BUCKET = 2
  Amounts = {1}
  MaxTime = 10
  MaxAtOnce = 1
CHECK_DEADLOCK FALSE
INVARIANT NeverPaidTwice
