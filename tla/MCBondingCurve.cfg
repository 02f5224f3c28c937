SPECIFICATION PartsSpec
CONSTANTS
  alice = alice
  bob = bob
  carol = carol
  Traders <- MCThree
  Supply = 25
  Target = 8
  TaxBps = 1000
  CURVE_BPS = 8000
  FEE_BPS = 100
  SNIPE_MAX_BPS = 4000
  EARLY_TOTAL_BPS = 6000
  GRADUATION_DEPOSIT = 5
  GRADUATE_REWARD = 1
  AccountRent = 1
  MinRent = 1
  PoolCost = 1
  LockCost = 1
  SNIPE_WINDOW_SECS = 1
  REFUND_AFTER_SECS = 2
  LOCK_AFTER_SECS = 2
  XntIn = {2, 3, 10}
  TokensIn = {4}
  Donations = {1}
  MaxTime = 4
  MaxDonated = 1
  Reserves0 <- MCReserves0
  Supply0 = 23
  ToLock = {7, 17}
  Ends = {1}
  SwapIn = {12}
  LpMoved = {3}
  TRADE_FEE = 3
  PROTOCOL_FEE = 2
  LpMaxTime = 1
  MaxPoolOps = 4
CHECK_DEADLOCK FALSE
INVARIANTS ReservesHold TradesNeverFault PositionsSettle RefundsFair LockKeepsPrincipal
PROPERTIES WaitsOut BuyersSettled
