--------------------------- MODULE PortfolioProofs ---------------------------
(***************************************************************************)
(* Lemmas about fractions and portfolios: what the operators of Rationals  *)
(* and Portfolio return.                                                   *)
(***************************************************************************)
EXTENDS Portfolio, Induction

-----------------------------------------------------------------------------
(* Portfolios.                                                             *)

Rational == Int \X Int
MaybePortfolio == APortfolio \cup {NoPortfolio}
Portfolios == [Users -> MaybePortfolio]

(* What applyTrade reads of a trade.                                       *)
IsSettleable(trade) ==
  /\ trade.buyerId \in Users /\ trade.sellerId \in Users
  /\ trade.symbol \in Symbols
  /\ trade.quantity \in Int /\ trade.price \in Int

LEMMA LargestExists ==
  ASSUME NEW m \in Nat, NEW S, S \subseteq 1 .. m, 1 \in S
  PROVE  Max(S) \in S /\ \A g \in S : g <= Max(S)
<1> DEFINE T == {m - g : g \in S}
<1>1. T \subseteq Nat /\ T # {}
  <2>1. \A g \in S : g \in Int /\ m - g \in Nat
    OBVIOUS
  <2>2. m - 1 \in T
    OBVIOUS
  <2> QED BY <2>1, <2>2
<1>2. PICK x \in T : \A y \in T : ~(y < x)
  <2> HIDE DEF T
  <2> QED BY <1>1, LeastNumber
<1>3. PICK g \in S : x = m - g
  BY <1>2
<1>4. \A y \in S : g >= y /\ y <= g
  <2> SUFFICES ASSUME NEW y \in S PROVE g >= y /\ y <= g
    OBVIOUS
  <2>1. m - y \in T /\ ~(m - y < m - g)
    BY <1>2, <1>3
  <2> QED BY <2>1
<1> HIDE DEF T
<1> QED BY <1>3, <1>4 DEF Max

LEMMA FractionIsRational ==
  ASSUME NEW n \in Int, NEW d \in Int PROVE Fraction(n, d) \in Rational
<1> DEFINE m == IF d < 0 THEN -d ELSE d
           S == {g \in 1 .. m : n % g = 0 /\ d % g = 0}
           sign == IF d < 0 THEN -1 ELSE 1
           common == Max(S)
           lowest == <<(sign * n) \div common, (sign * d) \div common>>
<1>0. Fraction(n, d) = IF d = 0 THEN NotFinite ELSE lowest
  BY DEF Fraction, LowestTerms, Magnitude
<1>1. CASE d = 0
  <2> HIDE DEF lowest
  <2> QED BY <1>0, <1>1 DEF NotFinite, Rational
<1>2. CASE d # 0
  <2>1. m \in Nat /\ m > 0 /\ S \subseteq 1 .. m
    BY <1>2
  <2>2. 1 \in S
    BY <2>1
  <2>3. common \in S
    <3> HIDE DEF S, m
    <3> QED BY <2>1, <2>2, LargestExists
  <2>4. common \in Int /\ common > 0
    BY <2>1, <2>3
  <2>5. Fraction(n, d) = lowest
    BY <1>0, <1>2
  <2>6. sign * n \in Int /\ sign * d \in Int
    OBVIOUS
  <2> HIDE DEF common, sign
  <2> QED BY <2>4, <2>5, <2>6 DEF Rational
<1> QED BY <1>1, <1>2

(* Sums, differences, products and quotients are fractions.                *)
LEMMA RationalsClosed ==
  ASSUME NEW x \in Rational, NEW y \in Rational, NEW k \in Int
  PROVE  /\ Plus(x, y) \in Rational /\ Minus(x, y) \in Rational
         /\ Times(k, x) \in Rational /\ Over(x, k) \in Rational
         /\ Whole(k) \in Rational
<1>1. /\ x[1] \in Int /\ x[2] \in Int /\ y[1] \in Int /\ y[2] \in Int
  BY DEF Rational
<1>2. /\ x[1] * y[2] + y[1] * x[2] \in Int /\ x[1] * y[2] - y[1] * x[2] \in Int
      /\ x[2] * y[2] \in Int /\ k * x[1] \in Int /\ k * x[2] \in Int
  BY <1>1
<1>3. Plus(x, y) \in Rational
  BY <1>2, FractionIsRational DEF Plus
<1>4. Minus(x, y) \in Rational
  BY <1>2, FractionIsRational DEF Minus
<1>5. Times(k, x) \in Rational
  BY <1>1, <1>2, FractionIsRational DEF Times
<1>6. Over(x, k) \in Rational
  BY <1>1, <1>2, FractionIsRational DEF Over
<1>7. Whole(k) \in Rational
  BY DEF Whole, Rational
<1> QED BY <1>3, <1>4, <1>5, <1>6, <1>7

LEMMA NewPortfolioIsOne == NewPortfolio \in APortfolio
  BY PortfolioAssumption
     DEF NewPortfolio, NoHolding, Whole, APortfolio, Holding

-----------------------------------------------------------------------------
(* The two halves of a trade.                                              *)

(* What a purchase does to each field.                                     *)
LEMMA BoughtFields ==
  ASSUME NEW p \in APortfolio, NEW trade, IsSettleable(trade)
  PROVE  /\ Bought(p, trade).cashBalance = p.cashBalance - trade.quantity * trade.price
         /\ Bought(p, trade).realizedPnL = p.realizedPnL
         /\ \A s \in Symbols : Bought(p, trade).holdings[s] =
              IF s = trade.symbol THEN BuyShares(p.holdings[s], trade.quantity, trade.price)
              ELSE p.holdings[s]
<1> DEFINE new == BuyShares(p.holdings[trade.symbol], trade.quantity, trade.price)
           cash == p.cashBalance - trade.quantity * trade.price
           holdings == [p.holdings EXCEPT ![trade.symbol] = new]
           bought == Bought(p, trade)
<1>1. bought = [p EXCEPT !.cashBalance = cash, !.holdings = holdings]
  BY DEF Bought, APortfolio
<1>2. \A s \in Symbols : holdings[s] = IF s = trade.symbol THEN new ELSE p.holdings[s]
  <2> HIDE DEF new
  <2> QED BY DEF APortfolio
<1> HIDE DEF cash, holdings, bought
<1>3. bought.cashBalance = cash /\ bought.realizedPnL = p.realizedPnL /\ bought.holdings = holdings
  BY <1>1 DEF APortfolio
<1> QED BY <1>2, <1>3 DEF cash, bought

LEMMA SoldFields ==
  ASSUME NEW p \in APortfolio, NEW trade, IsSettleable(trade)
  PROVE  /\ Sold(p, trade).cashBalance = p.cashBalance + trade.quantity * trade.price
         /\ Sold(p, trade).realizedPnL =
              Plus(p.realizedPnL,
                   Minus(Whole(trade.quantity * trade.price),
                         Times(trade.quantity, p.holdings[trade.symbol].averageBuyPrice)))
         /\ \A s \in Symbols : Sold(p, trade).holdings[s] =
              IF s = trade.symbol THEN SellShares(p.holdings[s], trade.quantity, trade.price)
              ELSE p.holdings[s]
<1> DEFINE new == SellShares(p.holdings[trade.symbol], trade.quantity, trade.price)
           cash == p.cashBalance + trade.quantity * trade.price
           profit == Plus(p.realizedPnL,
                          Minus(Whole(trade.quantity * trade.price),
                                Times(trade.quantity, p.holdings[trade.symbol].averageBuyPrice)))
           holdings == [p.holdings EXCEPT ![trade.symbol] = new]
           sold == Sold(p, trade)
<1>1. sold = [p EXCEPT !.cashBalance = cash, !.realizedPnL = profit, !.holdings = holdings]
  BY DEF Sold, APortfolio
<1>2. \A s \in Symbols : holdings[s] = IF s = trade.symbol THEN new ELSE p.holdings[s]
  <2> HIDE DEF new
  <2> QED BY DEF APortfolio
<1> HIDE DEF cash, profit, holdings, sold
<1>3. sold.cashBalance = cash /\ sold.realizedPnL = profit /\ sold.holdings = holdings
  BY <1>1 DEF APortfolio
<1> QED BY <1>2, <1>3 DEF cash, profit, sold

(* What it does to the holding.                                            *)
LEMMA BoughtShares ==
  ASSUME NEW h \in Holding, NEW quantity \in Int, NEW price \in Int
  PROVE  /\ BuyShares(h, quantity, price) \in Holding
         /\ BuyShares(h, quantity, price).quantity = h.quantity + quantity
         /\ BuyShares(h, quantity, price).averageBuyPrice =
              Over(Plus(Times(h.quantity, h.averageBuyPrice), Whole(quantity * price)),
                   h.quantity + quantity)
<1> DEFINE total == h.quantity + quantity
           cost == Times(h.quantity, h.averageBuyPrice)
           paid == Whole(quantity * price)
           sum == Plus(cost, paid)
           average == Over(sum, total)
<1>1. /\ h.quantity \in Int /\ h.averageBuyPrice \in Rational
      /\ total \in Int /\ quantity * price \in Int
  BY DEF Holding, Rational
<1>2. cost \in Rational /\ paid \in Rational
  BY <1>1, RationalsClosed
<1>3. sum \in Rational
  <2> HIDE DEF cost, paid
  <2> QED BY <1>2, RationalsClosed
<1>4. average \in Rational
  <2> HIDE DEF sum, total
  <2> QED BY <1>1, <1>3, RationalsClosed
<1>5. BuyShares(h, quantity, price) =
        [quantity |-> total, averageBuyPrice |-> average, currentPrice |-> price]
  BY DEF BuyShares
<1> HIDE DEF average, total
<1>6. /\ BuyShares(h, quantity, price) \in Holding
      /\ BuyShares(h, quantity, price).quantity = total
      /\ BuyShares(h, quantity, price).averageBuyPrice = average
  BY <1>1, <1>4, <1>5 DEF Holding, Rational
<1> QED BY <1>6 DEF average, total

LEMMA SoldShares ==
  ASSUME NEW h \in Holding, NEW quantity \in Int, NEW price \in Int
  PROVE  /\ SellShares(h, quantity, price) \in Holding
         /\ SellShares(h, quantity, price).quantity = h.quantity - quantity
         /\ SellShares(h, quantity, price).averageBuyPrice = h.averageBuyPrice
<1> DEFINE left == h.quantity - quantity
<1>1. left \in Int
  BY DEF Holding
<1>2. SellShares(h, quantity, price) = [h EXCEPT !.quantity = left, !.currentPrice = price]
  BY DEF SellShares
<1> HIDE DEF left
<1>3. /\ SellShares(h, quantity, price) \in Holding
      /\ SellShares(h, quantity, price).quantity = left
      /\ SellShares(h, quantity, price).averageBuyPrice = h.averageBuyPrice
  BY <1>1, <1>2 DEF Holding
<1> QED BY <1>3 DEF left

(* Each half makes a portfolio of a portfolio.                             *)
LEMMA BoughtPortfolio ==
  ASSUME NEW p \in APortfolio, NEW trade, IsSettleable(trade)
  PROVE  Bought(p, trade) \in APortfolio
<1> DEFINE new == BuyShares(p.holdings[trade.symbol], trade.quantity, trade.price)
           cash == p.cashBalance - trade.quantity * trade.price
           holdings == [p.holdings EXCEPT ![trade.symbol] = new]
<1>1. /\ p.cashBalance \in Int /\ p.holdings \in [Symbols -> Holding]
      /\ trade.quantity \in Int /\ trade.price \in Int /\ trade.symbol \in Symbols
  BY DEF APortfolio, IsSettleable
<1>2. cash \in Int
  BY <1>1
<1>3. new \in Holding
  BY <1>1, BoughtShares
<1>4. holdings \in [Symbols -> Holding]
  <2> HIDE DEF new
  <2> QED BY <1>1, <1>3
<1>5. Bought(p, trade) = [p EXCEPT !.cashBalance = cash, !.holdings = holdings]
  BY DEF Bought, APortfolio
<1> HIDE DEF cash, holdings
<1> QED BY <1>2, <1>4, <1>5 DEF APortfolio

LEMMA SoldPortfolio ==
  ASSUME NEW p \in APortfolio, NEW trade, IsSettleable(trade)
  PROVE  Sold(p, trade) \in APortfolio
<1> DEFINE h == p.holdings[trade.symbol]
           value == trade.quantity * trade.price
           new == SellShares(h, trade.quantity, trade.price)
           cash == p.cashBalance + value
           cost == Times(trade.quantity, h.averageBuyPrice)
           gain == Minus(Whole(value), cost)
           profit == Plus(p.realizedPnL, gain)
           holdings == [p.holdings EXCEPT ![trade.symbol] = new]
<1>1. /\ h \in Holding /\ p.cashBalance \in Int /\ p.realizedPnL \in Rational
      /\ p.holdings \in [Symbols -> Holding]
  BY DEF APortfolio, IsSettleable, Rational
<1>2. /\ trade.quantity \in Int /\ trade.price \in Int /\ trade.symbol \in Symbols
      /\ value \in Int
  BY DEF IsSettleable
<1>3. /\ h.quantity \in Int /\ h.averageBuyPrice \in Rational
      /\ h.quantity - trade.quantity \in Int
  BY <1>1, <1>2 DEF Holding, Rational
<1>5. new \in Holding
  <2> HIDE DEF h
  <2> QED BY <1>1, <1>2, SoldShares
<1>6. cash \in Int
  BY <1>1, <1>2
<1>7. profit \in Rational
  <2> HIDE DEF h
  <2>1. cost \in Rational /\ Whole(value) \in Rational
    BY <1>2, <1>3, RationalsClosed
  <2>2. gain \in Rational
    <3> HIDE DEF cost, value
    <3> QED BY <2>1, RationalsClosed
  <2> HIDE DEF gain
  <2> QED BY <1>1, <2>2, RationalsClosed
<1>8. holdings \in [Symbols -> Holding]
  <2> HIDE DEF new
  <2> QED BY <1>1, <1>5
<1>9. Sold(p, trade) =
        [p EXCEPT !.cashBalance = cash, !.realizedPnL = profit, !.holdings = holdings]
  BY DEF Sold, APortfolio
<1> HIDE DEF cash, profit, holdings
<1> QED BY <1>6, <1>7, <1>8, <1>9 DEF APortfolio, Rational

LEMMA PortfolioOfUser ==
  ASSUME NEW portfolios \in Portfolios, NEW u \in Users
  PROVE  PortfolioOf(portfolios, u) \in APortfolio
  BY NewPortfolioIsOne DEF PortfolioOf, Portfolios, MaybePortfolio

LEMMA SettledPortfolios ==
  ASSUME NEW portfolios \in Portfolios, NEW trade, IsSettleable(trade)
  PROVE  Settled(portfolios, trade) \in Portfolios
<1> DEFINE bought == Bought(PortfolioOf(portfolios, trade.buyerId), trade)
           paid == [portfolios EXCEPT ![trade.buyerId] = bought]
           sold == Sold(PortfolioOf(paid, trade.sellerId), trade)
<1>1. trade.buyerId \in Users /\ trade.sellerId \in Users
  BY DEF IsSettleable
<1>2. bought \in APortfolio
  BY <1>1, PortfolioOfUser, BoughtPortfolio
<1>3. paid \in Portfolios
  <2> HIDE DEF bought
  <2> QED BY <1>2 DEF Portfolios, MaybePortfolio
<1>4. sold \in APortfolio
  <2> HIDE DEF paid
  <2> QED BY <1>1, <1>3, PortfolioOfUser, SoldPortfolio
<1>5. Settled(portfolios, trade) = [paid EXCEPT ![trade.sellerId] = sold]
  BY DEF Settled
<1> HIDE DEF paid, sold
<1> QED BY <1>3, <1>4, <1>5 DEF Portfolios, MaybePortfolio

(* New market prices make a portfolio of a portfolio and change neither    *)
(* its cash, its profit, its shares nor what they cost.                    *)
LEMMA MarkedPortfolio ==
  ASSUME NEW p \in APortfolio, NEW prices \in [Symbols -> Int]
  PROVE  /\ Marked(p, prices) \in APortfolio
         /\ Marked(p, prices).cashBalance = p.cashBalance
         /\ Marked(p, prices).realizedPnL = p.realizedPnL
         /\ \A s \in Symbols :
              /\ Marked(p, prices).holdings[s].quantity = p.holdings[s].quantity
              /\ Marked(p, prices).holdings[s].averageBuyPrice = p.holdings[s].averageBuyPrice
<1> DEFINE marked == [s \in Symbols |->
             IF p.holdings[s].currentPrice = 0 THEN p.holdings[s]
             ELSE [p.holdings[s] EXCEPT !.currentPrice = prices[s]]]
<1>1. Marked(p, prices) = [p EXCEPT !.holdings = marked]
  BY DEF Marked, APortfolio
<1>2. ASSUME NEW s \in Symbols
      PROVE  /\ marked[s] \in Holding
             /\ marked[s].quantity = p.holdings[s].quantity
             /\ marked[s].averageBuyPrice = p.holdings[s].averageBuyPrice
  <2>1. p.holdings[s] \in Holding
    BY DEF APortfolio
  <2> QED BY <2>1 DEF Holding
<1>3. marked \in [Symbols -> Holding]
  BY <1>2
<1> HIDE DEF marked
<1> QED BY <1>1, <1>2, <1>3 DEF APortfolio

=============================================================================
