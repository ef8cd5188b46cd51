\* Nothing is reserved, and a market order is filled at other prices than it is checked at.
SPECIFICATION MCApartSpec
CONSTANTS
  Handler = handler
  Ticker = ticker
  Threads = {handler, ticker}
  Users = {alice, bob, bot, issuer}
  Customers = {alice, bob}
  Owner = alice
  Issuer = issuer
  MarketMaker = bot
  Symbols = {tcs}
  Prices = {1, 2}
  Quantities = {1, 2}
  Timestamps = {1}
  OpeningPrice = 1
  MaxOrders = 5
  NoOrder = NoOrder
  StartingBalance = 4
  NoPortfolio = NoPortfolio
  StartupTrades <- MCStartupTrades
  UnsavedTrades <- MCUnsavedTrades
  StorageMayFail = FALSE
  MaxRestarts = 0
INVARIANT
  CustomersStayCovered
