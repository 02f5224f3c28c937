SPECIFICATION PartsSpec
CONSTANTS
  alice = alice
  bob = bob
  carol = carol
  dave = dave
  caller = caller
  auth = auth
  Wallets <- MCWallets
  Caller <- caller
  Auth <- auth
  InitialTokens <- MCTokens
  min_holding = 200
  min_pot = 2
  min_interval = 1
  MAX_PASSES = 2
  MAX_BATCH_SLOTS = 1
  ROUND_COOLDOWN_SLOTS = 3
  REGISTER_HOLDING_MULT = 2
  EVICT_MULT = 2
  POT_CAP_PCT_OF_TAX = 80
  ROUND_REWARD_BPS = 3000
  ROUND_REWARD_CAP = 1
  BPS = 10000
  TaxBps = 500
  ReserveToken = 1000
  Reserves = {100, 200}
  MAX_PASS_TABLES = 0
  LUT_CAPACITY = 8
  INDEX_BATCH = 1
  OmitTables = FALSE
  Gifts = {10}
  Moves = {400}
  Rent = 1
  MaxSlot = 5
  MaxFunded = 10
  MaxMoves = 1
  Kinds = {"xnt", "token", "shared"}
  PARTS = 10
  tax_bps = 1
  burn_bps = 1
  lp_bps = 3
  CREATOR_BPS = 1
  CRANK_REWARD_BPS = 3
  CRANK_REWARD_CAP = 1
  SellCap = 12
  SwapCap = 4
  Price = 2
  MIN_SELL_XNT = 2
  MIN_SELL_CAP_DIVISOR = 4
  MIN_LP_XNT = 1
  MinHarvest = 4
  OpenRent = 1
  Withheld = {10}
  Asks = {3}
  MaxTax = 10
  Given = {"payout"}
  MaxGifts = 1
  MaxFails = 1
CHECK_DEADLOCK FALSE
INVARIANTS BookStaysSound EntitlementsAddUp EveryUnitBooked
PROPERTIES MovingNeverPays NoLockout KeepsPromise TaxMoves
