SPECIFICATION TradesOnly
CONSTANTS
  bot1 = bot1
  bot2 = bot2
  t1 = t1
  t2 = t2
  t3 = t3
  none = none
  send = send
  status = status
  pass1 = pass1
  pass2 = pass2
  Bots <- MCBots
  Sends <- MCSends
  NoTrade <- none
  Runs <- MCRuns
  StatusRuns <- MCStatusRuns
  Passes <- MCPasses
  Validity = 1
  MaxHeight = 4
  TradingHeight = 2
  BridgingHeight = 3
  MaxTrade = 2
  MaxDay = 3
  FeeEstimate = 3
  FeePaid = 2
  FeeCapacity = 5
  MaxDays = 1
  MaxAccrued = 2
CHECK_DEADLOCK FALSE
INVARIANT NothingForgotten
