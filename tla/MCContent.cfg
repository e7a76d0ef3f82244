CONSTANTS
  a1 = a1
  a2 = a2
  song = song
  Accounts = {a1, a2}
  Platforms = {a2}
  Witnesses = {a2}
  Contents = {song}
  Distributions <- MCDistributions
  Splits = {2500}
  PlayTimes = {1, 3}
  FeedPrices <- MCFeedPrices
  Day = 2
  MaxListening = 4
  MaxCounted = 3
  Rates <- MCRates
  RateBase = 10
  MinReward = 2
  StartBlock = 2
  InitialFunds = 10
  MaxReports = 2
  MaxBlocks = 4
SPECIFICATION Spec
CHECK_DEADLOCK FALSE
INVARIANTS FundsExact ListeningExact WithinReward
