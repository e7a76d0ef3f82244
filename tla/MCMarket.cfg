CONSTANTS
  a1 = a1
  a2 = a2
  Accounts <- MCAccounts
  InitialBalance <- MCBalance
  Prices <- MCPrices
  FeedPrices <- MCFeedPrices
  SellAmounts = {1, 2, 3}
  MaxOrders = 2
  MaxRequests = 2
SPECIFICATION Spec
INVARIANTS  BookClean FairFills
