SPECIFICATION MCSpec
CONSTANTS
  Threads = {t1, t2}
  Symbols = {tcs}
  Users = {alice}
  Prices = {1, 2}
  Quantities = {1,2}
  Timestamps = {1,2}
  OpeningPrice = 1
  MaxOrders = 3
  NoOrder = NoOrder
INVARIANTS
  TypeOK
  RestingOrdersAreLive
  TradesAddUp
  TradesWithinLimit
  NeverThrows
  SharesConserved
  BookUncrossed
  DepthShowsTheBook
PROPERTY
  PriceTimePriority
SYMMETRY Symmetry
