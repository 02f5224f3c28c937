SPECIFICATION MCSpec
CONSTANTS
  alice = alice
  bob = bob
  auth = auth
  operator = operator
  creator = creator
  the_site = the_site
  cosigner1 = cosigner1
  backup = backup
  Site <- the_site
  Cosigners <- MCCosigners
  Backup <- backup
  Threshold = 2
  MaxProposals = 2
  MaxFaults = 1
  Wallets <- MCWallets
  Auth <- auth
  Keys <- MCKeys
  Guardian <- creator
  Roots <- MCRoots
  Balances <- MCBalances
  MinCycle = 1
  ACTIVATION_MARGIN_SECS = 1
  LIST_DELAY_SECS = 1
  APPOINT_AFTER_SECS = 2
  FALLBACK_AFTER_SECS = 3
  MAX_CANCELS_IN_ROW = 1
  Rent = 0
  VALIDITY = 0
  MaxTime = 6
  MaxFunded = 3
  MaxEpoch = 3
  MaxDonated = 0
CHECK_DEADLOCK FALSE
PROPERTIES CheckedListsReach ProposalsSettle
