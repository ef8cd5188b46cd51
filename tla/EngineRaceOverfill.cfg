\* The handler and the ticker trade the shares of one order twice.
SPECIFICATION MCSpec
CONSTANTS
  Threads = {handler, ticker}
  Ticker = ticker
  Users = {alice, bot}
  MarketMaker = bot
  Symbols = {tcs}
  Prices = {1, 2}
  Quantities = {1, 2}
  Timestamps = {1, 2}
  OpeningPrice = 1
  MaxOrders = 3
  NoOrder = NoOrder
INVARIANT
  NoOverfill
