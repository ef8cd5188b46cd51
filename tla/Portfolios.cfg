\* Two users trade two symbols four times, in any order and direction.
SPECIFICATION PortfolioSpec
CONSTANTS
  Users = {alice, bot}
  Symbols = {tcs, infy}
  Prices = {1, 3}
  Quantities = {1, 2}
  StartingBalance = 10
  NoPortfolio = NoPortfolio
  MaxTrades = 4
INVARIANTS
  ProfitIsAccountedFor
  CashAndSharesConserved
  AverageIsWithinPricesPaid
