\* The ticker stores back a trade counter that the handler has moved on.
SPECIFICATION MCMarketOrdersSpec
CONSTANTS
  Handler = handler
  Ticker = ticker
  Threads = {handler, ticker}
  Users = {alice, bot, issuer}
  Customers = {alice}
  Owner = alice
  Issuer = issuer
  MarketMaker = bot
  Symbols = {tcs}
  Prices = {1, 2}
  Quantities = {1, 2}
  Timestamps = {1}
  OpeningPrice = 1
  MaxOrders = 6
  NoOrder = NoOrder
  StartingBalance = 4
  NoPortfolio = NoPortfolio
  StartupTrades <- MCStartupTrades
  UnsavedTrades <- MCUnsavedTrades
  StorageMayFail = FALSE
  MaxRestarts = 0
PROPERTY
  StoredTradesStay
