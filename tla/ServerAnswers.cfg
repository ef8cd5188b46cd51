\* The handler and the ticker wait for each other, and the process may end.  A deadlock
\* leaves a request or a tick unfinished, which is what the two properties rule out.
SPECIFICATION MCFairSpec
CONSTANTS
  Handler = handler
  Ticker = ticker
  Threads = {handler, ticker}
  Users = {alice, bot, issuer}
  Customers = {alice}
  Owner = alice
  Issuer = issuer
  MarketMaker = bot
  Symbols = {tcs}
  Prices = {1, 2}
  Quantities = {1}
  Timestamps = {1}
  OpeningPrice = 1
  MaxOrders = 5
  NoOrder = NoOrder
  StartingBalance = 4
  NoPortfolio = NoPortfolio
  StartupTrades <- MCStartupTrades
  UnsavedTrades <- MCUnsavedTrades
  StorageMayFail = TRUE
  MaxRestarts = 0
INVARIANT
  ServerTypeOK
PROPERTIES
  RequestsAnswered
  TicksEnd
CHECK_DEADLOCK FALSE
