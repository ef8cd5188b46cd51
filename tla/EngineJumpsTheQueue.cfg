\* The market maker's back-dated order overtakes one that waits.
SPECIFICATION MCSpec
CONSTANTS
  Threads = {handler, ticker}
  Ticker = ticker
  Users = {alice, bot}
  MarketMaker = bot
  Symbols = {tcs}
  Prices = {1}
  Quantities = {1}
  Timestamps = {1, 2}
  OpeningPrice = 1
  MaxOrders = 3
  NoOrder = NoOrder
PROPERTY
  StrictFifo
