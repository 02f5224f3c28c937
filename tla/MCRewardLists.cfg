SPECIFICATION LiveSpec
CONSTANTS
  alice = alice
  bob = bob
  auth = auth
  operator = operator
  creator = creator
  Wallets <- MCWallets
  Auth <- auth
  Keys <- MCKeys
  Guardian <- creator
  Roots <- MCRoots
  LIST_DELAY_SECS = 2
  APPOINT_AFTER_SECS = 3
  FALLBACK_AFTER_SECS = 4
  MAX_CANCELS_IN_ROW = 2
  Rent = 1
  MaxTime = 5
  MaxFunded = 3
  MaxEpoch = 2
  MaxDonated = 1
CHECK_DEADLOCK FALSE
INVARIANTS BooksSound GuardianHeard FallbackFair
PROPERTIES KeepsPromise FallbackReaches
