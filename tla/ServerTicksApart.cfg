\* The handler and the ticker take turns inside the engine; the process may be killed at any
\* step and is started again over its tables.
SPECIFICATION MCApartSpec
CONSTANTS
  Handler = handler
  Ticker = ticker
  Threads = {handler, ticker}
  Users = {alice, bob, bot, issuer}
  Customers = {alice, bob}
  Owner = alice
  Issuer = issuer
  MarketMaker = bot
  Symbols = {tcs}
  Prices = {1, 2}
  Quantities = {1, 2}
  Timestamps = {1}
  OpeningPrice = 1
  MaxOrders = 4
  NoOrder = NoOrder
  StartingBalance = 4
  NoPortfolio = NoPortfolio
  StartupTrades <- MCStartupTrades
  UnsavedTrades <- MCUnsavedTrades
  StorageMayFail = FALSE
  MaxRestarts = 1
INVARIANT
  LedgerExplainsPortfolios
PROPERTY
  RowsFollowTheirTrades

ACTION_CONSTRAINT
  OwnerAloneIsKilled
