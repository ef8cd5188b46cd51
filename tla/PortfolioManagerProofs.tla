------------------------ MODULE PortfolioManagerProofs ------------------------
(***************************************************************************)
(* Proofs of what PortfolioManager promises: cash and shares are           *)
(* conserved, an average price lies between the prices paid, and profit is *)
(* accounted for.                                                          *)
(***************************************************************************)
EXTENDS PortfolioManager, PortfolioProofs

-----------------------------------------------------------------------------
(* The sums over all portfolios, as a function of the portfolios.          *)

OpenedIn(P) == {u \in Users : P[u] # NoPortfolio}
CashIn(P) == [u \in OpenedIn(P) |-> P[u].cashBalance]
SharesIn(P, s) == [u \in OpenedIn(P) |-> P[u].holdings[s].quantity]

(* What there is beyond the starting balances.                             *)
Surplus(P) == SumFunction(CashIn(P)) - Cardinality(OpenedIn(P)) * StartingBalance
Position(P, s) == SumFunction(SharesIn(P, s))

IsConserved(P) == Surplus(P) = 0 /\ \A s \in Symbols : Position(P, s) = 0

LEMMA OpenedPortfolios ==
  ASSUME NEW P \in Portfolios, IsFiniteSet(Users)
  PROVE  /\ IsFiniteSet(OpenedIn(P)) /\ Cardinality(OpenedIn(P)) \in Nat
         /\ \A u \in OpenedIn(P) : P[u] \in APortfolio
         /\ CashIn(P) \in [OpenedIn(P) -> Int]
         /\ \A s \in Symbols : SharesIn(P, s) \in [OpenedIn(P) -> Int]
<1>1. IsFiniteSet(OpenedIn(P)) /\ Cardinality(OpenedIn(P)) \in Nat
  BY FS_Subset, FS_CardinalityType DEF OpenedIn
<1>2. \A u \in OpenedIn(P) : P[u] \in APortfolio
  BY DEF OpenedIn, Portfolios, MaybePortfolio
<1>3. \A u \in OpenedIn(P) : /\ P[u].cashBalance \in Int
                            /\ \A s \in Symbols : P[u].holdings[s].quantity \in Int
  BY <1>2 DEF APortfolio, Holding
<1> QED BY <1>1, <1>2, <1>3 DEF CashIn, SharesIn

(* One portfolio is set: both sums change by what it has more.             *)
Put(P, u, p) == [P EXCEPT ![u] = p]

LEMMA PutPortfolio ==
  ASSUME NEW P \in Portfolios, NEW u \in Users, NEW p \in APortfolio, IsFiniteSet(Users)
  PROVE  /\ Surplus(P) \in Int
         /\ Surplus(Put(P, u, p)) =
              Surplus(P) + p.cashBalance - PortfolioOf(P, u).cashBalance
         /\ \A s \in Symbols :
              /\ Position(P, s) \in Int
              /\ Position(Put(P, u, p), s) =
                   Position(P, s) + p.holdings[s].quantity
                                  - PortfolioOf(P, u).holdings[s].quantity
<1> DEFINE new == Put(P, u, p)
           S == OpenedIn(P)
           T == OpenedIn(new)
<1>1. new \in Portfolios /\ T = S \cup {u} /\ new[u] = p
  BY PortfolioAssumption DEF Put, Portfolios, MaybePortfolio, OpenedIn
<1>2. \A v \in S \ {u} : new[v] = P[v]
  BY DEF Put, Portfolios, OpenedIn
<1>3. /\ IsFiniteSet(S) /\ Cardinality(S) \in Nat
      /\ CashIn(P) \in [S -> Int] /\ \A s \in Symbols : SharesIn(P, s) \in [S -> Int]
  BY OpenedPortfolios
<1>4. /\ IsFiniteSet(T) /\ CashIn(new) \in [T -> Int]
      /\ \A s \in Symbols : SharesIn(new, s) \in [T -> Int]
  BY <1>1, OpenedPortfolios
<1>5. /\ \A v \in T \ {u} : CashIn(new)[v] = CashIn(P)[v]
      /\ CashIn(new)[u] = p.cashBalance
      /\ u \in S => CashIn(P)[u] = P[u].cashBalance
  BY <1>1, <1>2 DEF CashIn
<1>6. ASSUME NEW s \in Symbols
      PROVE  /\ \A v \in T \ {u} : SharesIn(new, s)[v] = SharesIn(P, s)[v]
             /\ SharesIn(new, s)[u] = p.holdings[s].quantity
             /\ u \in S => SharesIn(P, s)[u] = P[u].holdings[s].quantity
  BY <1>1, <1>2 DEF SharesIn
<1>7. /\ p.cashBalance \in Int /\ \A s \in Symbols : p.holdings[s].quantity \in Int
      /\ StartingBalance \in Nat
  BY PortfolioAssumption DEF APortfolio, Holding
<1>8. CASE u \in S
  <2>1. T = S /\ PortfolioOf(P, u) = P[u]
    BY <1>1, <1>8 DEF PortfolioOf, OpenedIn
  <2>2. /\ P[u].cashBalance \in Int /\ \A s \in Symbols : P[u].holdings[s].quantity \in Int
    BY <1>3, <1>5, <1>6, <1>8
  <2>3. /\ SumFunction(CashIn(P)) \in Int
        /\ SumFunction(CashIn(new)) =
             SumFunction(CashIn(P)) - P[u].cashBalance + p.cashBalance
    <3> HIDE DEF S, T, new
    <3>1. /\ SumFunction(CashIn(P)) \in Int
          /\ SumFunction(CashIn(new)) =
               SumFunction(CashIn(P)) - CashIn(P)[u] + CashIn(new)[u]
      BY <1>3, <1>4, <1>5, <1>8, <2>1, SumChanged
    <3> QED BY <1>5, <1>8, <3>1
  <2>4. ASSUME NEW s \in Symbols
        PROVE  /\ SumFunction(SharesIn(P, s)) \in Int
               /\ SumFunction(SharesIn(new, s)) =
                    SumFunction(SharesIn(P, s)) - P[u].holdings[s].quantity
                                                + p.holdings[s].quantity
    <3> HIDE DEF S, T, new
    <3>1. /\ SumFunction(SharesIn(P, s)) \in Int
          /\ SumFunction(SharesIn(new, s)) =
               SumFunction(SharesIn(P, s)) - SharesIn(P, s)[u] + SharesIn(new, s)[u]
      BY <1>3, <1>4, <1>6, <1>8, <2>1, SumChanged
    <3> QED BY <1>6, <1>8, <3>1
  <2>5. Cardinality(OpenedIn(P)) * StartingBalance \in Int
    BY <1>3, <1>7
  <2>6. /\ Surplus(P) \in Int
        /\ Surplus(new) = Surplus(P) + p.cashBalance - PortfolioOf(P, u).cashBalance
    BY <1>7, <2>1, <2>2, <2>3, <2>5 DEF Surplus
  <2>7. ASSUME NEW s \in Symbols
        PROVE  /\ Position(P, s) \in Int
               /\ Position(new, s) = Position(P, s) + p.holdings[s].quantity
                                       - PortfolioOf(P, u).holdings[s].quantity
    BY <1>7, <2>1, <2>2, <2>4 DEF Position
  <2> QED BY <2>6, <2>7
<1>9. CASE u \notin S
  <2>1. S = T \ {u} /\ u \in T /\ PortfolioOf(P, u) = NewPortfolio
    BY <1>1, <1>9 DEF PortfolioOf, OpenedIn
  <2>2. /\ NewPortfolio.cashBalance = StartingBalance
        /\ \A s \in Symbols : NewPortfolio.holdings[s].quantity = 0
    BY DEF NewPortfolio, NoHolding
  <2>3. Cardinality(T) = Cardinality(S) + 1
    BY <1>1, <1>3, <1>9, FS_AddElement
  <2>4. /\ SumFunction(CashIn(P)) \in Int
        /\ SumFunction(CashIn(new)) = SumFunction(CashIn(P)) + p.cashBalance
    <3> HIDE DEF S, T, new
    <3>1. /\ SumFunction(CashIn(P)) \in Int
          /\ SumFunction(CashIn(new)) = SumFunction(CashIn(P)) + CashIn(new)[u]
      <4>1. /\ CashIn(P) \in [T \ {u} -> Int]
            /\ \A v \in T \ {u} : CashIn(new)[v] = CashIn(P)[v]
        BY <1>3, <1>5, <2>1
      <4>2. IsFiniteSet(T) /\ CashIn(new) \in [T -> Int]
        BY <1>4
      <4> QED BY <2>1, <4>1, <4>2, SumWith
    <3> QED BY <1>5, <3>1
  <2>5. ASSUME NEW s \in Symbols
        PROVE  /\ SumFunction(SharesIn(P, s)) \in Int
               /\ SumFunction(SharesIn(new, s)) =
                    SumFunction(SharesIn(P, s)) + p.holdings[s].quantity
    <3> HIDE DEF S, T, new
    <3>1. /\ SumFunction(SharesIn(P, s)) \in Int
          /\ SumFunction(SharesIn(new, s)) =
               SumFunction(SharesIn(P, s)) + SharesIn(new, s)[u]
      <4>1. /\ SharesIn(P, s) \in [T \ {u} -> Int]
            /\ \A v \in T \ {u} : SharesIn(new, s)[v] = SharesIn(P, s)[v]
        BY <1>3, <1>6, <2>1
      <4>2. IsFiniteSet(T) /\ SharesIn(new, s) \in [T -> Int]
        BY <1>4
      <4> QED BY <2>1, <4>1, <4>2, SumWith
    <3> QED BY <1>6, <3>1
  <2>6. /\ Cardinality(S) * StartingBalance \in Int
        /\ Cardinality(T) * StartingBalance = Cardinality(S) * StartingBalance + StartingBalance
    <3>1. \A c \in Nat : /\ c * StartingBalance \in Int
                        /\ (c + 1) * StartingBalance = c * StartingBalance + StartingBalance
      BY <1>7
    <3> HIDE DEF S, T
    <3> QED BY <1>3, <2>3, <3>1
  <2>7. /\ Surplus(P) \in Int
        /\ Surplus(new) = Surplus(P) + p.cashBalance - PortfolioOf(P, u).cashBalance
    BY <1>7, <2>1, <2>2, <2>4, <2>6 DEF Surplus
  <2>8. ASSUME NEW s \in Symbols
        PROVE  /\ Position(P, s) \in Int
               /\ Position(new, s) = Position(P, s) + p.holdings[s].quantity
                                       - PortfolioOf(P, u).holdings[s].quantity
    BY <1>7, <2>1, <2>2, <2>5 DEF Position
  <2> QED BY <2>7, <2>8
<1> QED BY <1>8, <1>9

(* A trade moves cash and shares between two portfolios.                   *)
LEMMA SettledConserves ==
  ASSUME NEW P \in Portfolios, NEW trade, IsSettleable(trade), IsFiniteSet(Users),
         IsConserved(P)
  PROVE  IsConserved(Settled(P, trade))
<1> DEFINE buyer == trade.buyerId
           seller == trade.sellerId
           hadB == PortfolioOf(P, buyer)
           bought == Bought(hadB, trade)
           paid == Put(P, buyer, bought)
           hadS == PortfolioOf(paid, seller)
           sold == Sold(hadS, trade)
           value == trade.quantity * trade.price
<1>1. /\ buyer \in Users /\ seller \in Users /\ value \in Int
      /\ trade.symbol \in Symbols /\ trade.quantity \in Int /\ trade.price \in Int
  BY DEF IsSettleable
<1>2. Settled(P, trade) = Put(paid, seller, sold)
  BY DEF Settled, Put
<1>3. hadB \in APortfolio /\ bought \in APortfolio
  BY <1>1, PortfolioOfUser, BoughtPortfolio
<1>4. paid \in Portfolios
  <2> HIDE DEF bought
  <2> QED BY <1>1, <1>3 DEF Put, Portfolios, MaybePortfolio
<1>5. hadS \in APortfolio /\ sold \in APortfolio
  <2> HIDE DEF paid
  <2> QED BY <1>1, <1>4, PortfolioOfUser, SoldPortfolio
<1>6. /\ hadB.cashBalance \in Int /\ hadS.cashBalance \in Int
      /\ bought.cashBalance = hadB.cashBalance - value
      /\ sold.cashBalance = hadS.cashBalance + value
  <2>1. hadB.cashBalance \in Int /\ hadS.cashBalance \in Int
    BY <1>3, <1>5 DEF APortfolio
  <2> HIDE DEF hadB, hadS
  <2> QED BY <1>3, <1>5, <2>1, BoughtFields, SoldFields
<1>7. ASSUME NEW s \in Symbols
      PROVE  LET moved == IF s = trade.symbol THEN trade.quantity ELSE 0
             IN  /\ hadB.holdings[s].quantity \in Int /\ hadS.holdings[s].quantity \in Int
                 /\ bought.holdings[s].quantity = hadB.holdings[s].quantity + moved
                 /\ sold.holdings[s].quantity = hadS.holdings[s].quantity - moved
  <2> HIDE DEF hadB, hadS
  <2>1. /\ hadB.holdings[s] \in Holding /\ hadS.holdings[s] \in Holding
        /\ hadB.holdings[s].quantity \in Int /\ hadS.holdings[s].quantity \in Int
    BY <1>3, <1>5 DEF APortfolio, Holding
  <2>2. /\ bought.holdings[s] =
             IF s = trade.symbol
             THEN BuyShares(hadB.holdings[s], trade.quantity, trade.price)
             ELSE hadB.holdings[s]
        /\ sold.holdings[s] =
             IF s = trade.symbol
             THEN SellShares(hadS.holdings[s], trade.quantity, trade.price)
             ELSE hadS.holdings[s]
    BY <1>3, <1>5, BoughtFields, SoldFields
  <2>3. /\ BuyShares(hadB.holdings[s], trade.quantity, trade.price).quantity =
             hadB.holdings[s].quantity + trade.quantity
        /\ SellShares(hadS.holdings[s], trade.quantity, trade.price).quantity =
             hadS.holdings[s].quantity - trade.quantity
    <3> DEFINE b == hadB.holdings[s]
               h == hadS.holdings[s]
    <3>1. b \in Holding /\ h \in Holding /\ trade.quantity \in Int /\ trade.price \in Int
      BY <1>1, <2>1
    <3> HIDE DEF b, h
    <3>2. BuyShares(b, trade.quantity, trade.price).quantity = b.quantity + trade.quantity
      BY <3>1, BoughtShares
    <3>3. SellShares(h, trade.quantity, trade.price).quantity = h.quantity - trade.quantity
      BY <3>1, SoldShares
    <3> QED BY <3>2, <3>3 DEF b, h
  <2> HIDE DEF bought, sold
  <2> QED BY <2>1, <2>2, <2>3
<1> HIDE DEF value, bought, sold, hadB, hadS, paid
<1>8. /\ Surplus(P) \in Int /\ Surplus(paid) \in Int
      /\ Surplus(paid) = Surplus(P) + bought.cashBalance - hadB.cashBalance
      /\ Surplus(Put(paid, seller, sold)) = Surplus(paid) + sold.cashBalance - hadS.cashBalance
  BY <1>1, <1>3, <1>4, <1>5, PutPortfolio DEF paid, hadB, hadS
<1>9. ASSUME NEW s \in Symbols
      PROVE  /\ Position(P, s) \in Int /\ Position(paid, s) \in Int
             /\ Position(paid, s) =
                  Position(P, s) + bought.holdings[s].quantity - hadB.holdings[s].quantity
             /\ Position(Put(paid, seller, sold), s) =
                  Position(paid, s) + sold.holdings[s].quantity - hadS.holdings[s].quantity
  BY <1>1, <1>3, <1>4, <1>5, PutPortfolio DEF paid, hadB, hadS
<1>10. Surplus(Put(paid, seller, sold)) = 0
  BY <1>1, <1>6, <1>8 DEF IsConserved
<1>11. ASSUME NEW s \in Symbols PROVE Position(Put(paid, seller, sold), s) = 0
  <2>1. Position(P, s) = 0
    BY DEF IsConserved
  <2> QED BY <1>1, <1>7, <1>9, <2>1
<1> QED BY <1>2, <1>10, <1>11 DEF IsConserved

(* New market prices move neither cash nor shares.                         *)
LEMMA MarkedConserves ==
  ASSUME NEW P \in Portfolios, NEW prices \in [Symbols -> Int], IsConserved(P)
  PROVE  LET marked == [u \in Users |-> IF P[u] = NoPortfolio THEN NoPortfolio
                                        ELSE Marked(P[u], prices)]
         IN  marked \in Portfolios /\ IsConserved(marked)
<1> DEFINE marked == [u \in Users |-> IF P[u] = NoPortfolio THEN NoPortfolio
                                      ELSE Marked(P[u], prices)]
<1>1. ASSUME NEW u \in Users, P[u] # NoPortfolio
      PROVE  /\ marked[u] \in APortfolio
             /\ marked[u].cashBalance = P[u].cashBalance
             /\ \A s \in Symbols :
                  marked[u].holdings[s].quantity = P[u].holdings[s].quantity
  <2>1. P[u] \in APortfolio /\ marked[u] = Marked(P[u], prices)
    BY <1>1 DEF Portfolios, MaybePortfolio
  <2> QED BY <2>1, MarkedPortfolio
<1>2. marked \in Portfolios
  BY <1>1 DEF Portfolios, MaybePortfolio
<1>3. OpenedIn(marked) = OpenedIn(P)
  BY <1>1, PortfolioAssumption DEF OpenedIn
<1> HIDE DEF marked
<1>4. CashIn(marked) = CashIn(P)
  BY <1>1, <1>3 DEF CashIn, OpenedIn
<1>5. \A s \in Symbols : SharesIn(marked, s) = SharesIn(P, s)
  BY <1>1, <1>3 DEF SharesIn, OpenedIn
<1>6. IsConserved(marked)
  BY <1>3, <1>4, <1>5 DEF IsConserved, Surplus, Position
<1> QED BY <1>2, <1>6 DEF marked

-----------------------------------------------------------------------------
(* Bounds of fractions.                                                    *)

(* x is a number between low and high.                                     *)
IsBetween(low, x, high) == x[2] > 0 /\ low * x[2] <= x[1] /\ x[1] <= high * x[2]

LEMMA FactorCancels ==
  ASSUME NEW a \in Int, NEW b \in Int, NEW g \in Int, g > 0, g * a <= g * b
  PROVE  a <= b
<1> SUFFICES ASSUME a >= b + 1 PROVE FALSE
  OBVIOUS
<1>1. g * a >= g * (b + 1)
  OBVIOUS
<1>2. g * (b + 1) = g * b + g
  OBVIOUS
<1>3. g * a \in Int /\ g * b \in Int
  OBVIOUS
<1> QED BY <1>1, <1>2, <1>3

LEMMA FactorKeepsOrder ==
  ASSUME NEW a \in Int, NEW b \in Int, NEW g \in Int, g >= 0, a <= b
  PROVE  g * a <= g * b
<1>1. b - a >= 0
  OBVIOUS
<1>2. g * (b - a) >= 0
  BY <1>1
<1>3. g * (b - a) = g * b - g * a
  OBVIOUS
<1>4. g * a \in Int /\ g * b \in Int
  OBVIOUS
<1> QED BY <1>2, <1>3, <1>4

(* Lowest terms keep the value: the quotients of n and d by one divisor.   *)
LEMMA FractionDivides ==
  ASSUME NEW n \in Int, NEW d \in Int, d > 0
  PROVE  \E g \in Int : /\ g > 0 /\ Fraction(n, d)[1] \in Int /\ Fraction(n, d)[2] \in Int
                        /\ n = g * Fraction(n, d)[1] /\ d = g * Fraction(n, d)[2]
<1> DEFINE S == {g \in 1 .. d : n % g = 0 /\ d % g = 0}
           common == Max(S)
<1>1. Fraction(n, d) = <<(1 * n) \div common, (1 * d) \div common>>
  BY DEF Fraction, LowestTerms, Magnitude
<1>2. d \in Nat /\ S \subseteq 1 .. d /\ 1 \in S
  OBVIOUS
<1>3. common \in S
  <2> HIDE DEF S
  <2> QED BY <1>2, LargestExists
<1>4. common \in Int /\ common > 0 /\ n % common = 0 /\ d % common = 0
  BY <1>3
<1> HIDE DEF common
<1>5. n = common * (n \div common) /\ d = common * (d \div common)
  BY <1>4
<1>6. Fraction(n, d)[1] = n \div common /\ Fraction(n, d)[2] = d \div common
  BY <1>1
<1> QED BY <1>4, <1>5, <1>6

LEMMA FractionBounds ==
  ASSUME NEW n \in Int, NEW d \in Int, d > 0,
         NEW low \in Int, NEW high \in Int, low * d <= n, n <= high * d
  PROVE  Fraction(n, d) \in Rational /\ IsBetween(low, Fraction(n, d), high)
<1> DEFINE r == Fraction(n, d)
<1>1. PICK g \in Int : /\ g > 0 /\ r[1] \in Int /\ r[2] \in Int
                       /\ n = g * r[1] /\ d = g * r[2]
  BY FractionDivides
<1>2. r \in Rational
  BY FractionIsRational
<1> HIDE DEF r
<1>3. r[2] > 0
  <2> SUFFICES ASSUME r[2] <= 0 PROVE FALSE
    BY <1>1
  <2>1. g * r[2] <= g * 0
    BY <1>1, FactorKeepsOrder
  <2> QED BY <1>1, <2>1
<1>4. low * r[2] \in Int /\ high * r[2] \in Int
  BY <1>1
<1>5. g * (low * r[2]) = low * d /\ g * (high * r[2]) = high * d
  BY <1>1
<1>6. low * r[2] <= r[1] /\ r[1] <= high * r[2]
  BY <1>1, <1>4, <1>5, FactorCancels
<1> QED BY <1>2, <1>3, <1>6 DEF IsBetween, r

-----------------------------------------------------------------------------
(* Average prices.                                                         *)

(* The lowest and the highest of finitely many numbers.                    *)
LEMMA LowestExists ==
  ASSUME NEW S, S \subseteq Nat, S # {}
  PROVE  Min(S) \in S /\ \A x \in S : Min(S) <= x
<1>1. PICK m \in S : \A x \in S : ~(x < m)
  BY LeastNumber
<1>2. \A x \in S : m <= x
  BY <1>1
<1> QED BY <1>2 DEF Min

LEMMA HighestExists ==
  ASSUME NEW S, S \subseteq Nat, S # {}, IsFiniteSet(S)
  PROVE  Max(S) \in S /\ \A x \in S : x <= Max(S)
<1> DEFINE HasHighest(T) == \E m \in T : \A x \in T : x <= m
           P == {n \in Nat : \A T \in SUBSET S : Cardinality(T) = n + 1 => HasHighest(T)}
<1>1. ASSUME NEW T \in SUBSET S, NEW n \in Nat, Cardinality(T) = n + 1
      PROVE  \E x \in T : T \ {x} \in SUBSET S /\ Cardinality(T \ {x}) = n
  <2>1. IsFiniteSet(T)
    BY FS_Subset
  <2>2. T # {}
    BY <1>1, <2>1, FS_EmptySet
  <2>3. PICK x \in T : TRUE
    BY <2>2
  <2>4. Cardinality(T \ {x}) = Cardinality(T) - 1
    BY <2>1, OneLess
  <2> QED BY <1>1, <2>4
<1>2. 0 \in P
  <2> SUFFICES ASSUME NEW T \in SUBSET S, Cardinality(T) = 0 + 1 PROVE HasHighest(T)
    OBVIOUS
  <2>1. PICK x \in T : T \ {x} \in SUBSET S /\ Cardinality(T \ {x}) = 0
    BY <1>1
  <2>2. IsFiniteSet(T \ {x})
    BY <2>1, FS_Subset
  <2>3. T \ {x} = {}
    BY <2>1, <2>2, FS_EmptySet
  <2> QED BY <2>3
<1>3. ASSUME NEW n \in Nat, n \in P PROVE n + 1 \in P
  <2> SUFFICES ASSUME NEW T \in SUBSET S, Cardinality(T) = (n + 1) + 1 PROVE HasHighest(T)
    OBVIOUS
  <2>1. PICK x \in T : T \ {x} \in SUBSET S /\ Cardinality(T \ {x}) = n + 1
    BY <1>1
  <2>2. PICK m \in T \ {x} : \A y \in T \ {x} : y <= m
    BY <1>3, <2>1
  <2>3. x \in Nat /\ m \in Nat
    OBVIOUS
  <2>4. CASE x <= m
    BY <2>2, <2>4
  <2>5. CASE m <= x
    BY <2>2, <2>3, <2>5
  <2> QED BY <2>3, <2>4, <2>5
<1> HIDE DEF P
<1>4. \A n \in Nat : n \in P
  BY <1>2, <1>3, NatInductionOnSet
<1>5. Cardinality(S) \in Nat /\ Cardinality(S) # 0
  BY FS_CardinalityType, FS_EmptySet
<1>6. Cardinality(S) - 1 \in P /\ Cardinality(S) = (Cardinality(S) - 1) + 1
  BY <1>4, <1>5
<1>7. HasHighest(S)
  BY <1>6 DEF P
<1>8. PICK m \in S : \A x \in S : m >= x
  BY <1>7
<1> QED BY <1>8 DEF Max

(* A holding that was never short: what is held was bought between the     *)
(* two prices.                                                             *)
IsFair(low, h, high) ==
  /\ h.quantity >= 0
  /\ h.averageBuyPrice[2] > 0
  /\ h.quantity > 0 => IsBetween(low, h.averageBuyPrice, high)

LEMMA NoHoldingIsFair ==
  ASSUME NEW low, NEW high PROVE IsFair(low, NoHolding, high)
  BY DEF IsFair, NoHolding, Whole

LEMMA ShareOut ==
  ASSUME NEW a \in Int, NEW b \in Int, NEW c \in Int, NEW d \in Int
  PROVE  a * (b + c) \in Int /\ (a * (b + c)) * d = (a * b) * d + c * (a * d)
<1>1. a * (b + c) = a * b + a * c /\ a * b \in Int /\ a * c \in Int
  OBVIOUS
<1>2. (a * b + a * c) * d = (a * b) * d + (a * c) * d
  BY <1>1
<1>3. (a * c) * d = c * (a * d)
  OBVIOUS
<1> QED BY <1>1, <1>2, <1>3

(* A purchase keeps a holding fair.                                        *)
LEMMA BoughtIsFair ==
  ASSUME NEW low \in Int, NEW high \in Int, NEW h \in Holding, IsFair(low, h, high),
         NEW quantity \in Nat \ {0}, NEW price \in Int, low <= price, price <= high
  PROVE  IsFair(low, BuyShares(h, quantity, price), high)
<1> DEFINE q == h.quantity
           average == h.averageBuyPrice
           cost == Times(q, average)
           sum == Plus(cost, Whole(quantity * price))
           new == Over(sum, q + quantity)
<1>1. /\ q \in Int /\ q >= 0 /\ average[1] \in Int /\ average[2] \in Int /\ average[2] > 0
      /\ q > 0 => low * average[2] <= average[1] /\ average[1] <= high * average[2]
  BY DEF Holding, IsFair, IsBetween
<1> HIDE DEF q, average
<1>2. /\ cost \in Rational /\ IsBetween(low * q, cost, high * q)
  <2>1. /\ q * average[1] \in Int /\ low * q \in Int /\ high * q \in Int
        /\ (low * q) * average[2] = q * (low * average[2])
        /\ (high * q) * average[2] = q * (high * average[2])
        /\ low * average[2] \in Int /\ high * average[2] \in Int
    BY <1>1
  <2>2. /\ q * (low * average[2]) <= q * average[1]
        /\ q * average[1] <= q * (high * average[2])
    <3>1. CASE q = 0
      BY <1>1, <2>1, <3>1
    <3>2. CASE q > 0
      BY <1>1, <2>1, <3>2, FactorKeepsOrder
    <3> QED BY <1>1, <3>1, <3>2
  <2>3. /\ Fraction(q * average[1], average[2]) \in Rational
        /\ IsBetween(low * q, Fraction(q * average[1], average[2]), high * q)
    BY <1>1, <2>1, <2>2, FractionBounds
  <2> QED BY <2>3 DEF Times
<1> HIDE DEF cost
<1>3. sum \in Rational /\ IsBetween(low * (q + quantity), sum, high * (q + quantity))
  <2> DEFINE n == cost[1] * 1 + (quantity * price) * cost[2]
             d == cost[2] * 1
  <2>1. /\ cost[1] \in Int /\ cost[2] \in Int /\ cost[2] > 0
        /\ (low * q) * cost[2] <= cost[1] /\ cost[1] <= (high * q) * cost[2]
    BY <1>2 DEF Rational, IsBetween
  <2>2. n \in Int /\ d \in Int /\ d > 0 /\ d = cost[2] /\ n = cost[1] + quantity * (price * d)
    BY <2>1
  <2>3. /\ low * (q + quantity) \in Int /\ high * (q + quantity) \in Int
        /\ (low * (q + quantity)) * d = (low * q) * d + quantity * (low * d)
        /\ (high * (q + quantity)) * d = (high * q) * d + quantity * (high * d)
    <3>1. q \in Int /\ quantity \in Int /\ d \in Int
      BY <1>1, <2>2
    <3> HIDE DEF d
    <3> QED BY <3>1, ShareOut
  <2>4. low * d \in Int /\ price * d \in Int /\ high * d \in Int
    BY <2>2
  <2>5. low * d <= price * d /\ price * d <= high * d
    <3>1. d * low <= d * price /\ d * price <= d * high
      BY <2>2, FactorKeepsOrder
    <3> QED BY <2>2, <3>1
  <2>6. /\ quantity * (low * d) <= quantity * (price * d)
        /\ quantity * (price * d) <= quantity * (high * d)
    BY <2>4, <2>5, FactorKeepsOrder
  <2>7. /\ (low * q) * d \in Int /\ (high * q) * d \in Int /\ quantity * (low * d) \in Int
        /\ quantity * (price * d) \in Int /\ quantity * (high * d) \in Int
    BY <1>1, <2>2, <2>4
  <2>8. (low * (q + quantity)) * d <= n /\ n <= (high * (q + quantity)) * d
    BY <2>1, <2>2, <2>3, <2>6, <2>7
  <2>9. sum = Fraction(n, d)
    BY DEF Plus, Whole
  <2> HIDE DEF n, d, sum
  <2>10. /\ Fraction(n, d) \in Rational
         /\ IsBetween(low * (q + quantity), Fraction(n, d), high * (q + quantity))
    BY <2>2, <2>3, <2>8, FractionBounds
  <2> QED BY <2>9, <2>10
<1> HIDE DEF sum
<1>4. q + quantity \in Int /\ q + quantity > 0
  BY <1>1
<1>5. new \in Rational /\ IsBetween(low, new, high)
  <2> DEFINE t == q + quantity
  <2>1. t \in Int /\ t > 0
    BY <1>4
  <2>2. /\ sum[1] \in Int /\ sum[2] \in Int /\ sum[2] > 0
        /\ (low * t) * sum[2] <= sum[1] /\ sum[1] <= (high * t) * sum[2]
    BY <1>3 DEF Rational, IsBetween
  <2> HIDE DEF t
  <2>3. /\ t * sum[2] \in Int /\ t * sum[2] > 0
        /\ low * (t * sum[2]) = (low * t) * sum[2]
        /\ high * (t * sum[2]) = (high * t) * sum[2]
    BY <2>1, <2>2
  <2>4. /\ Fraction(sum[1], t * sum[2]) \in Rational
        /\ IsBetween(low, Fraction(sum[1], t * sum[2]), high)
    BY <2>2, <2>3, FractionBounds
  <2> QED BY <2>4 DEF Over, t
<1>6. /\ BuyShares(h, quantity, price).quantity = q + quantity
      /\ BuyShares(h, quantity, price).averageBuyPrice = new
  BY BoughtShares DEF q, average, cost, sum
<1> HIDE DEF new
<1> QED BY <1>4, <1>5, <1>6 DEF IsFair, IsBetween

LEMMA SoldIsFair ==
  ASSUME NEW low, NEW high, NEW h \in Holding, IsFair(low, h, high),
         NEW quantity \in Nat \ {0}, NEW price \in Int,
         SellShares(h, quantity, price).quantity >= 0
  PROVE  IsFair(low, SellShares(h, quantity, price), high)
<1> DEFINE new == SellShares(h, quantity, price)
<1>1. new.quantity = h.quantity - quantity /\ new.averageBuyPrice = h.averageBuyPrice
  BY SoldShares
<1>2. h.quantity \in Int
  BY DEF Holding
<1> HIDE DEF new
<1>3. h.quantity > 0
  BY <1>1, <1>2 DEF new
<1> QED BY <1>1, <1>3 DEF IsFair, new

-----------------------------------------------------------------------------
(* Fractions in lowest terms.                                              *)

Divides(t, n) == \E q \in Int : n = t * q

(* A finite fraction in lowest terms.                                      *)
Number == {x \in Rational :
             x[2] > 0 /\ \A t \in Nat \ {0} : Divides(t, x[1]) /\ Divides(t, x[2]) => t = 1}

LEMMA DividesIsRemainder ==
  ASSUME NEW g \in Nat \ {0}, NEW n \in Int
  PROVE  n % g = 0 <=> Divides(g, n)
<1>1. ASSUME n % g = 0 PROVE Divides(g, n)
  <2>1. n = g * (n \div g) /\ n \div g \in Int
    BY <1>1
  <2> QED BY <2>1 DEF Divides
<1>2. ASSUME NEW q \in Int, n = g * q PROVE n % g = 0
  BY <1>2
<1> QED BY <1>1, <1>2 DEF Divides

(* Fraction(n, d) is n / d in lowest terms.                                *)
LEMMA FractionIsNumber ==
  ASSUME NEW n \in Int, NEW d \in Int, d # 0
  PROVE  Fraction(n, d) \in Number /\ Fraction(n, d)[1] * d = n * Fraction(n, d)[2]
<1> DEFINE sign == IF d < 0 THEN -1 ELSE 1
           m == sign * d
           k == sign * n
           S == {g \in 1 .. m : n % g = 0 /\ d % g = 0}
           common == Max(S)
           r == Fraction(n, d)
<1>1. m \in Nat \ {0} /\ k \in Int /\ sign \in Int /\ sign * sign = 1
  OBVIOUS
<1>2. r = <<k \div common, m \div common>>
  <2>1. Magnitude(d) = m
    BY DEF Magnitude
  <2> QED BY <2>1 DEF Fraction, LowestTerms
<1>3. ASSUME NEW g \in 1 .. m
      PROVE  g \in S <=> Divides(g, k) /\ Divides(g, m)
  <2>1. g \in Nat \ {0}
    BY <1>1
  <2>2. Divides(g, n) <=> Divides(g, k)
    <3>1. ASSUME NEW q \in Int, n = g * q PROVE Divides(g, k)
      <4>1. k = g * (sign * q) /\ sign * q \in Int
        BY <1>1, <2>1, <3>1
      <4> QED BY <4>1 DEF Divides
    <3>2. ASSUME NEW q \in Int, k = g * q PROVE Divides(g, n)
      <4>1. n = g * (sign * q) /\ sign * q \in Int
        BY <1>1, <2>1, <3>2
      <4> QED BY <4>1 DEF Divides
    <3> QED BY <3>1, <3>2 DEF Divides
  <2>3. Divides(g, d) <=> Divides(g, m)
    <3>1. ASSUME NEW q \in Int, d = g * q PROVE Divides(g, m)
      <4>1. m = g * (sign * q) /\ sign * q \in Int
        BY <1>1, <2>1, <3>1
      <4> QED BY <4>1 DEF Divides
    <3>2. ASSUME NEW q \in Int, m = g * q PROVE Divides(g, d)
      <4>1. d = g * (sign * q) /\ sign * q \in Int
        BY <1>1, <2>1, <3>2
      <4> QED BY <4>1 DEF Divides
    <3> QED BY <3>1, <3>2 DEF Divides
  <2>4. (n % g = 0 <=> Divides(g, n)) /\ (d % g = 0 <=> Divides(g, d))
    BY <2>1, DividesIsRemainder
  <2> QED BY <2>2, <2>3, <2>4
<1>4. 1 \in S /\ S \subseteq 1 .. m
  BY <1>1
<1> HIDE DEF S, m, k
<1>5. common \in S /\ \A g \in S : g <= common
  BY <1>1, <1>4, LargestExists
<1> HIDE DEF common
<1>6. common \in 1 .. m /\ common \in Nat \ {0} /\ Divides(common, k) /\ Divides(common, m)
  BY <1>1, <1>3, <1>4, <1>5
<1>7. PICK a \in Int : k = common * a
  BY <1>6 DEF Divides
<1>8. PICK b \in Int : m = common * b
  BY <1>6 DEF Divides
<1>9. k \div common = a /\ m \div common = b /\ b > 0
  <2>1. (common * a) \div common = a /\ (common * b) \div common = b
    BY <1>6
  <2>2. b > 0
    BY <1>1, <1>6, <1>8
  <2> QED BY <1>7, <1>8, <2>1, <2>2
<1>10. r = <<a, b>>
  BY <1>2, <1>9
<1> HIDE DEF r, sign
<1>11. ASSUME NEW t \in Nat \ {0}, Divides(t, a), Divides(t, b) PROVE t = 1
  <2>1. PICK x \in Int : a = t * x
    BY <1>11 DEF Divides
  <2>2. PICK y \in Int : b = t * y
    BY <1>11 DEF Divides
  <2>3. /\ common * t \in Nat \ {0} /\ k = (common * t) * x /\ m = (common * t) * y
    BY <1>6, <1>7, <1>8, <2>1, <2>2
  <2>4. y >= 1
    BY <1>9, <2>2
  <2>5. common * t <= m
    BY <2>3, <2>4
  <2>6. common * t \in S
    <3>1. common * t \in 1 .. m
      BY <1>1, <2>3, <2>5
    <3>2. Divides(common * t, k) /\ Divides(common * t, m)
      BY <2>3 DEF Divides
    <3> QED BY <1>3, <3>1, <3>2
  <2>7. common * t <= common
    BY <1>5, <2>6
  <2> QED BY <1>6, <2>7
<1>12. r \in Number
  BY <1>9, <1>10, <1>11 DEF Number, Rational
<1>13. a * d = n * b
  <2>1. n = sign * k /\ d = sign * m
    BY <1>1 DEF k, m
  <2> QED BY <1>1, <1>6, <1>7, <1>8, <2>1
<1> QED BY <1>10, <1>12, <1>13 DEF r

(* A denominator that divides a multiple of its numerator divides what it  *)
(* was multiplied by.                                                      *)
LEMMA DenominatorDivides ==
  ASSUME NEW x \in Number, NEW k \in Nat \ {0}, Divides(x[2], x[1] * k)
  PROVE  Divides(x[2], k)
<1> DEFINE n == x[1]
           d == x[2]
           T == {j \in Nat \ {0} : Divides(d, n * j)}
<1>1. n \in Int /\ d \in Int /\ d > 0
  BY DEF Number, Rational
<1>2. k \in T /\ d \in T
  <2>1. n * d = d * n
    BY <1>1
  <2> QED BY <1>1, <2>1 DEF Divides
<1>3. PICK m \in T : \A j \in T : ~(j < m)
  <2>1. T \subseteq Nat /\ T # {}
    BY <1>2
  <2> HIDE DEF T
  <2> QED BY <2>1, LeastNumber
<1>4. m \in Nat \ {0} /\ Divides(d, n * m)
  OBVIOUS
<1>5. PICK c \in Int : n * m = d * c
  BY <1>4 DEF Divides
<1> HIDE DEF n, d
<1>6. ASSUME NEW j \in T PROVE Divides(m, j)
  <2>1. j \in Nat \ {0}
    OBVIOUS
  <2>2. PICK e \in Int : n * j = d * e
    BY DEF Divides
  <2> DEFINE q == j \div m
             r == j % m
  <2>3. j = m * q + r /\ r \in 0 .. m - 1 /\ q \in Int
    BY <1>4, <2>1
  <2> HIDE DEF q, r
  <2>4. n * r = d * (e - c * q)
    <3>1. n * j = (n * m) * q + n * r
      BY <1>1, <1>4, <2>3
    <3>2. n * r = d * e - (d * c) * q
      BY <1>1, <1>4, <1>5, <2>2, <2>3, <3>1
    <3> QED BY <1>1, <2>3, <3>2
  <2>5. r = 0
    <3> SUFFICES ASSUME r # 0 PROVE FALSE
      OBVIOUS
    <3>1. r \in Nat \ {0} /\ r < m
      BY <1>4, <2>3
    <3>2. e - c * q \in Int
      BY <2>3
    <3>3. Divides(d, n * r)
      BY <2>4, <3>2 DEF Divides
    <3>4. r \in T
      BY <3>1, <3>3
    <3> HIDE DEF T
    <3> QED BY <1>3, <3>1, <3>4
  <2>6. j = m * q
    BY <1>4, <2>3, <2>5
  <2> QED BY <2>3, <2>6 DEF Divides
<1>7. Divides(m, d) /\ Divides(m, k)
  BY <1>2, <1>6
<1>8. PICK t \in Int : d = m * t
  BY <1>7 DEF Divides
<1> HIDE DEF T
<1>9. t > 0 /\ t \in Nat \ {0}
  BY <1>1, <1>4, <1>8
<1>10. n = t * c
  <2>1. m * n = m * (t * c)
    BY <1>1, <1>4, <1>5, <1>8
  <2>2. t * c \in Int
    OBVIOUS
  <2> QED BY <1>1, <1>4, <2>1, <2>2
<1>11. d = t * m
  BY <1>4, <1>8
<1>12. t = 1
  <2>1. Divides(t, x[1]) /\ Divides(t, x[2])
    BY <1>4, <1>10, <1>11 DEF Divides, n, d
  <2> QED BY <1>9, <2>1 DEF Number
<1>13. m = d
  BY <1>1, <1>4, <1>8, <1>12
<1> QED BY <1>7, <1>13 DEF d

(* Numbers of the same value are the same.                                 *)
LEMMA NumbersAreUnique ==
  ASSUME NEW x \in Number, NEW y \in Number, x[1] * y[2] = y[1] * x[2]
  PROVE  x = y
<1>1. /\ x[1] \in Int /\ x[2] \in Nat \ {0} /\ x = <<x[1], x[2]>>
      /\ y[1] \in Int /\ y[2] \in Nat \ {0} /\ y = <<y[1], y[2]>>
  BY DEF Number, Rational
<1>2. Divides(x[2], y[2])
  <2>1. x[1] * y[2] = x[2] * y[1]
    BY <1>1
  <2>2. Divides(x[2], x[1] * y[2])
    BY <1>1, <2>1 DEF Divides
  <2> QED BY <1>1, <2>2, DenominatorDivides
<1>3. Divides(y[2], x[2])
  <2>1. y[1] * x[2] = y[2] * x[1]
    BY <1>1
  <2>2. Divides(y[2], y[1] * x[2])
    BY <1>1, <2>1 DEF Divides
  <2> QED BY <1>1, <2>2, DenominatorDivides
<1>4. PICK p \in Int : y[2] = x[2] * p
  BY <1>2 DEF Divides
<1>5. PICK q \in Int : x[2] = y[2] * q
  BY <1>3 DEF Divides
<1>6. p >= 1 /\ q >= 1
  BY <1>1, <1>4, <1>5
<1>7. x[2] <= y[2] /\ y[2] <= x[2]
  BY <1>1, <1>4, <1>5, <1>6
<1>8. x[2] = y[2]
  BY <1>1, <1>7
<1>9. x[1] = y[1]
  BY <1>1, <1>8
<1> QED BY <1>1, <1>8, <1>9

-----------------------------------------------------------------------------
(* Common denominators: sums of fractions over one denominator are sums of *)
(* integers.                                                               *)

LEMMA ThreeFactors ==
  ASSUME NEW a \in Int, NEW b \in Int, NEW c \in Int
  PROVE  (a * b) * c = (a * c) * b /\ (a * b) * c = a * (b * c) /\ (a * b) * c = b * (a * c)
  OBVIOUS

(* x is n / d.                                                             *)
IsOver(x, n, d) == x \in Number /\ x[1] * d = n * x[2]

LEMMA NumberFields ==
  ASSUME NEW x \in Number
  PROVE  x[1] \in Int /\ x[2] \in Int /\ x[2] > 0 /\ x \in Rational /\ IsFinite(x)
  BY DEF Number, Rational, IsFinite

LEMMA SameOver ==
  ASSUME NEW d \in Nat \ {0}, NEW n \in Int, NEW x, NEW y, IsOver(x, n, d), IsOver(y, n, d)
  PROVE  x = y
<1>1. /\ x \in Number /\ x[1] \in Int /\ x[2] \in Int /\ x[1] * d = n * x[2]
      /\ y \in Number /\ y[1] \in Int /\ y[2] \in Int /\ y[1] * d = n * y[2]
  BY NumberFields DEF IsOver
<1>2. d * (x[1] * y[2]) = d * (y[1] * x[2])
  <2>1. d * (x[1] * y[2]) = (x[1] * d) * y[2]
    BY <1>1
  <2>2. d * (y[1] * x[2]) = (y[1] * d) * x[2]
    BY <1>1
  <2>3. (n * x[2]) * y[2] = (n * y[2]) * x[2]
    BY <1>1
  <2> QED BY <1>1, <2>1, <2>2, <2>3
<1>3. x[1] * y[2] \in Int /\ y[1] * x[2] \in Int
  BY <1>1
<1>4. x[1] * y[2] = y[1] * x[2]
  <2>1. d * (x[1] * y[2]) <= d * (y[1] * x[2]) /\ d * (y[1] * x[2]) <= d * (x[1] * y[2])
    BY <1>2, <1>3
  <2>2. x[1] * y[2] <= y[1] * x[2] /\ y[1] * x[2] <= x[1] * y[2]
    BY <1>3, <2>1, FactorCancels
  <2> QED BY <1>3, <2>2
<1> QED BY <1>1, <1>4, NumbersAreUnique

LEMMA CancelFactor ==
  ASSUME NEW a \in Int, NEW b \in Int, NEW g \in Int, g # 0, g * a = g * b
  PROVE  a = b
<1>1. g * (a - b) = 0
  OBVIOUS
<1> QED BY <1>1

(* x is a / b, and so is what a and b are multiples of.                    *)
LEMMA FractionIsOver ==
  ASSUME NEW a \in Int, NEW b \in Int, b # 0, NEW n \in Int, NEW d \in Int,
         a * d = n * b
  PROVE  IsOver(Fraction(a, b), n, d)
<1> DEFINE r == Fraction(a, b)
<1>1. r \in Number /\ r[1] * b = a * r[2]
  BY FractionIsNumber
<1> HIDE DEF r
<1>2. r[1] \in Int /\ r[2] \in Int
  BY <1>1, NumberFields
<1>3. b * (r[1] * d) = b * (n * r[2])
  <2>1. b * (r[1] * d) = (r[1] * b) * d
    BY <1>2
  <2>2. (a * r[2]) * d = (a * d) * r[2]
    BY <1>2
  <2>3. (n * b) * r[2] = b * (n * r[2])
    BY <1>2
  <2> QED BY <1>1, <2>1, <2>2, <2>3
<1>4. r[1] * d \in Int /\ n * r[2] \in Int
  BY <1>2
<1>5. r[1] * d = n * r[2]
  BY <1>3, <1>4, CancelFactor
<1> QED BY <1>1, <1>5 DEF IsOver, r

LEMMA WholeIsOver ==
  ASSUME NEW k \in Int, NEW d \in Int PROVE IsOver(Whole(k), k * d, d)
<1>1. Whole(k)[1] = k /\ Whole(k)[2] = 1 /\ Whole(k) \in Rational
  BY DEF Whole, Rational
<1>2. ASSUME NEW t \in Nat \ {0}, Divides(t, 1) PROVE t = 1
  <2>1. PICK q \in Int : 1 = t * q
    BY <1>2 DEF Divides
  <2>2. q >= 1
    BY <2>1
  <2>3. t <= t * q
    BY <2>2
  <2> QED BY <2>1, <2>3
<1>3. Whole(k) \in Number
  BY <1>1, <1>2 DEF Number
<1>4. k * d = (k * d) * 1
  OBVIOUS
<1> QED BY <1>1, <1>3, <1>4 DEF IsOver

LEMMA PlusIsOver ==
  ASSUME NEW x, NEW y, NEW n \in Int, NEW m \in Int, NEW d \in Int,
         IsOver(x, n, d), IsOver(y, m, d)
  PROVE  IsOver(Plus(x, y), n + m, d) /\ IsOver(Minus(x, y), n - m, d)
<1>1. /\ x[1] \in Int /\ x[2] \in Int /\ x[2] > 0 /\ x[1] * d = n * x[2]
      /\ y[1] \in Int /\ y[2] \in Int /\ y[2] > 0 /\ y[1] * d = m * y[2]
  BY NumberFields DEF IsOver
<1>2. /\ x[1] * y[2] + y[1] * x[2] \in Int /\ x[1] * y[2] - y[1] * x[2] \in Int
      /\ x[2] * y[2] \in Int /\ x[2] * y[2] # 0
  BY <1>1
<1>3. /\ (x[1] * y[2]) * d = n * (x[2] * y[2])
      /\ (y[1] * x[2]) * d = m * (x[2] * y[2])
  <2>1. (x[1] * y[2]) * d = (x[1] * d) * y[2] /\ (y[1] * x[2]) * d = (y[1] * d) * x[2]
    BY <1>1, ThreeFactors
  <2>2. /\ (n * x[2]) * y[2] = n * (x[2] * y[2])
        /\ (m * y[2]) * x[2] = m * (y[2] * x[2])
        /\ y[2] * x[2] = x[2] * y[2]
    BY <1>1, ThreeFactors
  <2> QED BY <1>1, <2>1, <2>2
<1>4. /\ (x[1] * y[2] + y[1] * x[2]) * d = (x[1] * y[2]) * d + (y[1] * x[2]) * d
      /\ (x[1] * y[2] - y[1] * x[2]) * d = (x[1] * y[2]) * d - (y[1] * x[2]) * d
      /\ (n + m) * (x[2] * y[2]) = n * (x[2] * y[2]) + m * (x[2] * y[2])
      /\ (n - m) * (x[2] * y[2]) = n * (x[2] * y[2]) - m * (x[2] * y[2])
  BY <1>1
<1>5. /\ (x[1] * y[2] + y[1] * x[2]) * d = (n + m) * (x[2] * y[2])
      /\ (x[1] * y[2] - y[1] * x[2]) * d = (n - m) * (x[2] * y[2])
  BY <1>3, <1>4
<1> DEFINE a == x[1] * y[2] + y[1] * x[2]
           b == x[1] * y[2] - y[1] * x[2]
           c == x[2] * y[2]
<1>6. /\ a \in Int /\ b \in Int /\ c \in Int /\ c # 0 /\ n + m \in Int /\ n - m \in Int
      /\ a * d = (n + m) * c /\ b * d = (n - m) * c
  BY <1>2, <1>5
<1>7. Plus(x, y) = Fraction(a, c) /\ Minus(x, y) = Fraction(b, c)
  BY DEF Plus, Minus
<1> HIDE DEF a, b, c
<1>8. IsOver(Fraction(a, c), n + m, d)
  BY <1>6, FractionIsOver
<1>9. IsOver(Fraction(b, c), n - m, d)
  BY <1>6, FractionIsOver
<1> QED BY <1>7, <1>8, <1>9

LEMMA TimesIsOver ==
  ASSUME NEW x, NEW n \in Int, NEW d \in Int, NEW k \in Int, IsOver(x, n, d)
  PROVE  IsOver(Times(k, x), k * n, d)
<1>1. x[1] \in Int /\ x[2] \in Int /\ x[2] > 0 /\ x[1] * d = n * x[2]
  BY NumberFields DEF IsOver
<1>2. (k * x[1]) * d = (k * n) * x[2]
  <2>1. (k * x[1]) * d = k * (x[1] * d) /\ (k * n) * x[2] = k * (n * x[2])
    BY <1>1
  <2> QED BY <1>1, <2>1
<1> DEFINE a == k * x[1]
           b == x[2]
<1>3. a \in Int /\ k * n \in Int /\ b \in Int /\ b # 0 /\ a * d = (k * n) * b
  BY <1>1, <1>2
<1>4. Times(k, x) = Fraction(a, b)
  BY DEF Times
<1> HIDE DEF a, b
<1> QED BY <1>3, <1>4, FractionIsOver

(* A quotient, over a denominator that the divisor divides.                *)
LEMMA QuotientIsOver ==
  ASSUME NEW x, NEW n \in Int, NEW d \in Int, NEW k \in Int, k # 0, IsOver(x, n, d),
         NEW m \in Int, NEW e \in Int, n * e = m * (k * d), d # 0
  PROVE  IsOver(Over(x, k), m, e)
<1>1. x[1] \in Int /\ x[2] \in Int /\ x[2] > 0 /\ x[1] * d = n * x[2]
  BY NumberFields DEF IsOver
<1>2. d * (x[1] * e) = d * (m * (k * x[2]))
  <2>1. d * (x[1] * e) = (x[1] * d) * e
    BY <1>1
  <2>2. (n * x[2]) * e = (n * e) * x[2]
    BY <1>1
  <2>3. (m * (k * d)) * x[2] = d * (m * (k * x[2]))
    BY <1>1
  <2> QED BY <1>1, <2>1, <2>2, <2>3
<1>3. /\ x[1] * e \in Int /\ k * x[2] \in Int /\ k * x[2] # 0 /\ m * (k * x[2]) \in Int
  BY <1>1
<1>4. x[1] * e = m * (k * x[2])
  BY <1>2, <1>3, CancelFactor
<1> QED BY <1>1, <1>3, <1>4, FractionIsOver DEF Over

(* A multiple of the denominator.                                          *)
LEMMA OverMore ==
  ASSUME NEW x, NEW n \in Int, NEW d \in Int, NEW e \in Int, IsOver(x, n, d)
  PROVE  IsOver(x, n * e, d * e)
<1>1. x \in Number /\ x[1] \in Int /\ x[2] \in Int /\ x[1] * d = n * x[2]
  BY NumberFields DEF IsOver
<1>2. x[1] * (d * e) = (x[1] * d) * e /\ (n * e) * x[2] = (n * x[2]) * e
  BY <1>1
<1> QED BY <1>1, <1>2 DEF IsOver

(* Every finite fraction in lowest terms is over its own denominator.      *)
LEMMA OverItself == ASSUME NEW x \in Number PROVE IsOver(x, x[1], x[2])
  BY NumberFields DEF IsOver

-----------------------------------------------------------------------------
(* More about sums.                                                        *)

SumsUp(f, a, S) ==
  f[{}] = 0 /\ \A s \in SUBSET S : f[s] \in Int /\ \A x \in s : f[s] = a[x] + f[s \ {x}]

LEMMA SumsAreUp ==
  ASSUME NEW S, IsFiniteSet(S), NEW a \in [S -> Int], NEW f, IsSum(f, a, S)
  PROVE  SumsUp(f, a, S)
  BY SumSteps DEF SumsUp

LEMMA SumIsUp ==
  ASSUME NEW S, IsFiniteSet(S), NEW a \in [S -> Int]
  PROVE  \E f : SumsUp(f, a, S) /\ SumFunction(a) = f[S]
<1>1. PICK f : IsSum(f, a, S) /\ SumFunction(a) = f[S]
  BY SumFacts
<1>2. SumsUp(f, a, S)
  BY <1>1, SumsAreUp
<1> QED BY <1>1, <1>2

(* A common factor.                                                        *)
IsMultiple(b, a, S, e) == \A x \in S : b[x] = a[x] * e

LEMMA SumTimes ==
  ASSUME NEW S, IsFiniteSet(S), NEW a \in [S -> Int], NEW b \in [S -> Int], NEW e \in Int,
         IsMultiple(b, a, S, e)
  PROVE  SumFunction(a) \in Int /\ SumFunction(b) = SumFunction(a) * e
<1>1. PICK f : SumsUp(f, a, S) /\ SumFunction(a) = f[S]
  BY SumIsUp
<1>2. PICK g : SumsUp(g, b, S) /\ SumFunction(b) = g[S]
  BY SumIsUp
<1> DEFINE P == {n \in Nat : \A s \in SUBSET S : Cardinality(s) = n => g[s] = f[s] * e}
<1>3. ASSUME NEW s \in SUBSET S
      PROVE  IsFiniteSet(s) /\ Cardinality(s) \in Nat /\ (Cardinality(s) = 0 <=> s = {})
  BY FS_Subset, FS_CardinalityType, FS_EmptySet
<1>4. /\ f[{}] = 0 /\ \A s \in SUBSET S : f[s] \in Int /\ \A x \in s : f[s] = a[x] + f[s \ {x}]
      /\ g[{}] = 0 /\ \A s \in SUBSET S : \A x \in s : g[s] = b[x] + g[s \ {x}]
  BY <1>1, <1>2 DEF SumsUp
<1>5. 0 \in P
  <2>1. 0 = 0 * e
    OBVIOUS
  <2> QED BY <1>3, <1>4, <2>1
<1>6. ASSUME NEW n \in Nat, n \in P PROVE n + 1 \in P
  <2> SUFFICES ASSUME NEW s \in SUBSET S, Cardinality(s) = n + 1 PROVE g[s] = f[s] * e
    OBVIOUS
  <2>1. PICK x \in s : TRUE
    BY <1>3
  <2>2. f[s] = a[x] + f[s \ {x}] /\ g[s] = b[x] + g[s \ {x}]
    BY <1>4
  <2>3. s \ {x} \in SUBSET S /\ Cardinality(s \ {x}) = n
    BY <1>3, OneLess
  <2>4. g[s \ {x}] = f[s \ {x}] * e
    BY <1>6, <2>3
  <2>5. a[x] \in Int /\ f[s \ {x}] \in Int
    BY <1>4, <2>3
  <2>6. (a[x] + f[s \ {x}]) * e = a[x] * e + f[s \ {x}] * e
    BY <2>5
  <2>7. b[x] = a[x] * e
    BY DEF IsMultiple
  <2> QED BY <2>2, <2>4, <2>6, <2>7
<1> HIDE DEF P
<1>7. Cardinality(S) \in P
  BY <1>3, <1>5, <1>6, NatInductionOnSet
<1>8. f[S] \in Int
  BY <1>4
<1> QED BY <1>1, <1>2, <1>7, <1>8 DEF P

LEMMA SumOfZeros ==
  ASSUME NEW S, IsFiniteSet(S), NEW a \in [S -> Int], \A x \in S : a[x] = 0
  PROVE  SumFunction(a) = 0
<1>1. IsMultiple(a, a, S, 0)
  BY DEF IsMultiple
<1>2. SumFunction(a) \in Int /\ SumFunction(a) = SumFunction(a) * 0
  BY <1>1, SumTimes
<1> QED BY <1>2

(* Terms that are zero may be left out.                                    *)
LEMMA SumOfSome ==
  ASSUME NEW S, IsFiniteSet(S), NEW R \in SUBSET S, NEW a \in [S -> Int],
         \A x \in S \ R : a[x] = 0, NEW f, IsSum(f, a, S)
  PROVE  f[S] = f[R]
<1> DEFINE P == {n \in Nat : \A s \in SUBSET S :
                               R \subseteq s /\ Cardinality(s \ R) = n => f[s] = f[R]}
<1>1. ASSUME NEW s \in SUBSET S
      PROVE  /\ IsFiniteSet(s \ R) /\ Cardinality(s \ R) \in Nat
             /\ Cardinality(s \ R) = 0 <=> s \ R = {}
  BY FS_Subset, FS_CardinalityType, FS_EmptySet
<1>2. 0 \in P
  <2> SUFFICES ASSUME NEW s \in SUBSET S, R \subseteq s, Cardinality(s \ R) = 0
               PROVE  f[s] = f[R]
    OBVIOUS
  <2>1. s = R
    BY <1>1
  <2> QED BY <2>1
<1>3. ASSUME NEW n \in Nat, n \in P PROVE n + 1 \in P
  <2> SUFFICES ASSUME NEW s \in SUBSET S, R \subseteq s, Cardinality(s \ R) = n + 1
               PROVE  f[s] = f[R]
    OBVIOUS
  <2>1. PICK x \in s \ R : TRUE
    BY <1>1
  <2>2. Cardinality((s \ R) \ {x}) = n
    <3> DEFINE rest == s \ R
    <3>1. IsFiniteSet(rest) /\ x \in rest /\ Cardinality(rest) = n + 1
      BY <1>1
    <3> HIDE DEF rest
    <3>2. Cardinality(rest \ {x}) = Cardinality(rest) - 1
      BY <3>1, OneLess
    <3>3. Cardinality(rest \ {x}) = n
      BY <3>1, <3>2
    <3> QED BY <3>3 DEF rest
  <2>3. (s \ {x}) \ R = (s \ R) \ {x} /\ s \ {x} \in SUBSET S /\ R \subseteq s \ {x}
    OBVIOUS
  <2>4. f[s \ {x}] = f[R]
    BY <1>3, <2>2, <2>3
  <2>5. f[s] = a[x] + f[s \ {x}] /\ f[s \ {x}] \in Int
    <3>1. \A r \in SUBSET S : f[r] \in Int /\ \A y \in r : f[r] = a[y] + f[r \ {y}]
      BY SumSteps
    <3> QED BY <2>3, <3>1
  <2>6. a[x] = 0
    OBVIOUS
  <2> QED BY <2>4, <2>5, <2>6
<1> HIDE DEF P
<1>4. Cardinality(S \ R) \in P
  BY <1>1, <1>2, <1>3, NatInductionOnSet
<1> QED BY <1>4 DEF P

(* g gives the folds of Plus with the terms F over the subsets of R.       *)
IsFoldOver(g, F, R) ==
  g = [s \in SUBSET R |-> IF s = {} THEN Whole(0)
                          ELSE LET x == CHOOSE x \in s : TRUE IN Plus(F[x], g[s \ {x}])]

(* The terms F are the integers a over d.                                  *)
TermsAreOver(F, a, R, d) == \A x \in R : IsOver(F[x], a[x], d)

(* A fold of fractions over one denominator is the sum of their integers.  *)
LEMMA FoldIsOver ==
  ASSUME NEW R, IsFiniteSet(R), NEW a \in [R -> Int], NEW d \in Nat \ {0}, NEW F,
         TermsAreOver(F, a, R, d), NEW f, IsSum(f, a, R), NEW g, IsFoldOver(g, F, R)
  PROVE  f[R] \in Int /\ IsOver(g[R], f[R], d)
<1> DEFINE Chosen(s) == CHOOSE x \in s : TRUE
           P == {n \in Nat : \A s \in SUBSET R : Cardinality(s) = n => IsOver(g[s], f[s], d)}
<1>1. \A s \in SUBSET R : s # {} => Chosen(s) \in s
  OBVIOUS
<1>2. ASSUME NEW s \in SUBSET R
      PROVE  g[s] = IF s = {} THEN Whole(0) ELSE Plus(F[Chosen(s)], g[s \ {Chosen(s)}])
  BY DEF IsFoldOver
<1> HIDE DEF Chosen
<1>3. ASSUME NEW s \in SUBSET R
      PROVE  IsFiniteSet(s) /\ Cardinality(s) \in Nat /\ (Cardinality(s) = 0 <=> s = {})
  BY FS_Subset, FS_CardinalityType, FS_EmptySet
<1>4. f[{}] = 0 /\ \A s \in SUBSET R : f[s] \in Int /\ \A x \in s : f[s] = a[x] + f[s \ {x}]
  BY SumSteps
<1>5. 0 \in P
  <2>1. IsOver(Whole(0), 0 * d, d)
    BY WholeIsOver
  <2>2. 0 * d = 0 /\ {} \in SUBSET R
    OBVIOUS
  <2>3. g[{}] = Whole(0) /\ f[{}] = 0 * d
    BY <1>2, <1>4, <2>2
  <2> QED BY <1>3, <2>1, <2>3
<1>6. ASSUME NEW n \in Nat, n \in P PROVE n + 1 \in P
  <2> SUFFICES ASSUME NEW s \in SUBSET R, Cardinality(s) = n + 1 PROVE IsOver(g[s], f[s], d)
    OBVIOUS
  <2> DEFINE c == Chosen(s)
             rest == s \ {c}
  <2>1. s # {}
    BY <1>3
  <2>2. c \in s
    BY <1>1, <2>1
  <2>3. g[s] = Plus(F[c], g[rest]) /\ f[s] = a[c] + f[rest]
    BY <1>2, <1>4, <2>1, <2>2
  <2>4. rest \in SUBSET R /\ Cardinality(rest) = n
    BY <1>3, <2>2, OneLess
  <2> HIDE DEF rest, c
  <2>5. IsOver(g[rest], f[rest], d) /\ f[rest] \in Int
    BY <1>4, <1>6, <2>4
  <2>6. IsOver(F[c], a[c], d) /\ a[c] \in Int
    BY <2>2 DEF TermsAreOver
  <2>7. IsOver(Plus(F[c], g[rest]), a[c] + f[rest], d)
    <3> DEFINE x == F[c]
               y == g[rest]
               n1 == a[c]
               n2 == f[rest]
    <3>1. IsOver(x, n1, d) /\ IsOver(y, n2, d) /\ n1 \in Int /\ n2 \in Int
      BY <2>5, <2>6
    <3> HIDE DEF x, y, n1, n2
    <3>2. IsOver(Plus(x, y), n1 + n2, d)
      BY <3>1, PlusIsOver
    <3> QED BY <3>2 DEF x, y, n1, n2
  <2> QED BY <2>3, <2>7
<1> HIDE DEF P
<1>7. Cardinality(R) \in P
  BY <1>3, <1>5, <1>6, NatInductionOnSet
<1>8. f[R] \in Int
  BY <1>4
<1> QED BY <1>7, <1>8 DEF P

(* There is such a fold: each of its values is the fraction of a sum.      *)
LEMMA FoldExists ==
  ASSUME NEW R, IsFiniteSet(R), NEW a \in [R -> Int], NEW d \in Nat \ {0}, NEW F,
         TermsAreOver(F, a, R, d)
  PROVE  \E g : IsFoldOver(g, F, R)
<1>1. PICK f : IsSum(f, a, R)
  BY SumExists
<1> DEFINE Chosen(s) == CHOOSE x \in s : TRUE
           g == [s \in SUBSET R |-> Fraction(f[s], d)]
<1>2. f[{}] = 0 /\ \A s \in SUBSET R : f[s] \in Int /\ \A x \in s : f[s] = a[x] + f[s \ {x}]
  BY <1>1, SumSteps
<1>3. ASSUME NEW s \in SUBSET R PROVE f[s] \in Int /\ IsOver(Fraction(f[s], d), f[s], d)
  <2>1. f[s] \in Int /\ d \in Int /\ d # 0 /\ f[s] * d = f[s] * d
    BY <1>2
  <2> QED BY <2>1, FractionIsOver
<1>4. ASSUME NEW s \in SUBSET R
      PROVE  g[s] = IF s = {} THEN Whole(0) ELSE Plus(F[Chosen(s)], g[s \ {Chosen(s)}])
  <2>1. CASE s = {}
    <3>1. IsOver(Whole(0), 0 * d, d)
      BY WholeIsOver
    <3>2. 0 * d = 0 /\ f[s] = 0
      BY <1>2, <2>1
    <3>3. IsOver(Whole(0), f[s], d)
      BY <3>1, <3>2
    <3>4. Fraction(f[s], d) = Whole(0)
      BY <1>3, <3>3, SameOver
    <3> QED BY <2>1, <3>4
  <2>2. CASE s # {}
    <3> DEFINE c == Chosen(s)
               rest == s \ {c}
    <3>1. c \in s /\ rest \in SUBSET R
      BY <2>2
    <3> HIDE DEF c, Chosen
    <3>2. f[s] = a[c] + f[rest]
      BY <1>2, <3>1
    <3> HIDE DEF rest
    <3>3. IsOver(F[c], a[c], d) /\ a[c] \in Int
      BY <3>1 DEF TermsAreOver
    <3>4. IsOver(Fraction(f[rest], d), f[rest], d) /\ f[rest] \in Int
      BY <1>3, <3>1
    <3>5. IsOver(Plus(F[c], Fraction(f[rest], d)), a[c] + f[rest], d)
      <4> DEFINE x == F[c]
                 y == Fraction(f[rest], d)
                 n1 == a[c]
                 n2 == f[rest]
      <4>1. IsOver(x, n1, d) /\ IsOver(y, n2, d) /\ n1 \in Int /\ n2 \in Int
        BY <3>3, <3>4
      <4> HIDE DEF x, y, n1, n2
      <4>2. IsOver(Plus(x, y), n1 + n2, d)
        BY <4>1, PlusIsOver
      <4> QED BY <4>2 DEF x, y, n1, n2
    <3>6. Fraction(f[s], d) = Plus(F[c], Fraction(f[rest], d))
      BY <1>3, <3>2, <3>5, SameOver
    <3>7. g[s] = Fraction(f[s], d) /\ g[rest] = Fraction(f[rest], d)
      BY <3>1
    <3> HIDE DEF g
    <3> QED BY <2>2, <3>6, <3>7 DEF c, rest
  <2> QED BY <2>1, <2>2
<1>5. IsFoldOver(g, F, R)
  <2> HIDE DEF g
  <2>1. g = [s \in SUBSET R |-> g[s]]
    BY DEF g
  <2>2. [s \in SUBSET R |-> g[s]] =
          [s \in SUBSET R |-> IF s = {} THEN Whole(0) ELSE Plus(F[Chosen(s)], g[s \ {Chosen(s)}])]
    BY <1>4
  <2> QED BY <2>1, <2>2 DEF IsFoldOver, Chosen
<1> QED BY <1>5

-----------------------------------------------------------------------------
(* Profit.                                                                 *)

(* The books of p balance over the denominator d, with a and r for the     *)
(* average prices and the realized profit: cash and what the shares cost   *)
(* are the starting balance and the realized profit.                       *)
Costs(p, a) == [s \in Symbols |-> p.holdings[s].quantity * a[s]]

BalanceOver(p, d, a, r) ==
  /\ \A s \in Symbols : IsOver(p.holdings[s].averageBuyPrice, a[s], d)
  /\ IsOver(p.realizedPnL, r, d)
  /\ p.cashBalance * d + SumFunction(Costs(p, a)) = StartingBalance * d + r

BooksBalance(p) ==
  HasFiniteBooks(p) =>
    \E d \in Nat \ {0}, a \in [Symbols -> Int], r \in Int : BalanceOver(p, d, a, r)

LEMMA CostsTyped ==
  ASSUME NEW p \in APortfolio, NEW a \in [Symbols -> Int]
  PROVE  /\ Costs(p, a) \in [Symbols -> Int]
         /\ \A s \in Symbols : p.holdings[s].quantity \in Int
<1>1. \A s \in Symbols : p.holdings[s].quantity \in Int
  BY DEF APortfolio, Holding
<1>2. \A s \in Symbols : p.holdings[s].quantity * a[s] \in Int
  BY <1>1
<1> QED BY <1>1, <1>2 DEF Costs

(* A new portfolio balances.                                               *)
LEMMA NewPortfolioBalances ==
  ASSUME IsFiniteSet(Symbols) PROVE BooksBalance(NewPortfolio)
<1> DEFINE a == [s \in Symbols |-> 0]
<1>1. /\ NewPortfolio.cashBalance = StartingBalance
      /\ NewPortfolio.realizedPnL = Whole(0)
      /\ \A s \in Symbols : /\ NewPortfolio.holdings[s].averageBuyPrice = Whole(0)
                            /\ NewPortfolio.holdings[s].quantity = 0
  BY DEF NewPortfolio, NoHolding
<1>2. IsOver(Whole(0), 0, 1)
  <2>1. IsOver(Whole(0), 0 * 1, 1)
    BY WholeIsOver
  <2> QED BY <2>1
<1>3. a \in [Symbols -> Int] /\ \A s \in Symbols : a[s] = 0
  OBVIOUS
<1> HIDE DEF a
<1>4. SumFunction(Costs(NewPortfolio, a)) = 0
  <2>1. Costs(NewPortfolio, a) \in [Symbols -> Int]
    BY <1>3, NewPortfolioIsOne, CostsTyped
  <2>2. \A s \in Symbols : Costs(NewPortfolio, a)[s] = 0
    BY <1>1, <1>3 DEF Costs
  <2> QED BY <2>1, <2>2, SumOfZeros
<1>5. BalanceOver(NewPortfolio, 1, a, 0)
  <2>1. StartingBalance * 1 + 0 = StartingBalance * 1 + 0 /\ StartingBalance \in Nat
    BY PortfolioAssumption
  <2> QED BY <1>1, <1>2, <1>3, <1>4, <2>1 DEF BalanceOver
<1>6. 1 \in Nat \ {0} /\ 0 \in Int
  OBVIOUS
<1> QED BY <1>3, <1>5, <1>6 DEF BooksBalance

(* Another denominator.                                                    *)
LEMMA BalanceOverMore ==
  ASSUME NEW p \in APortfolio, IsFiniteSet(Symbols), NEW d \in Nat \ {0},
         NEW a \in [Symbols -> Int], NEW r \in Int, BalanceOver(p, d, a, r), NEW e \in Nat \ {0}
  PROVE  /\ d * e \in Nat \ {0} /\ [s \in Symbols |-> a[s] * e] \in [Symbols -> Int]
         /\ r * e \in Int
         /\ BalanceOver(p, d * e, [s \in Symbols |-> a[s] * e], r * e)
<1> DEFINE b == [s \in Symbols |-> a[s] * e]
<1>1. d * e \in Nat \ {0} /\ r * e \in Int
  OBVIOUS
<1>2. b \in [Symbols -> Int] /\ \A s \in Symbols : b[s] = a[s] * e
  OBVIOUS
<1>3. \A s \in Symbols : IsOver(p.holdings[s].averageBuyPrice, b[s], d * e)
  <2> SUFFICES ASSUME NEW s \in Symbols
               PROVE  IsOver(p.holdings[s].averageBuyPrice, b[s], d * e)
    OBVIOUS
  <2> DEFINE x == p.holdings[s].averageBuyPrice
             n == a[s]
  <2>1. IsOver(x, n, d) /\ n \in Int
    BY DEF BalanceOver
  <2> HIDE DEF x, n
  <2>2. IsOver(x, n * e, d * e)
    BY <2>1, OverMore
  <2> QED BY <1>2, <2>2 DEF x, n
<1>4. IsOver(p.realizedPnL, r * e, d * e)
  <2> DEFINE x == p.realizedPnL
  <2>1. IsOver(x, r, d)
    BY DEF BalanceOver
  <2> HIDE DEF x
  <2>2. IsOver(x, r * e, d * e)
    BY <2>1, OverMore
  <2> QED BY <2>2 DEF x
<1> HIDE DEF b
<1>5. SumFunction(Costs(p, a)) \in Int /\ SumFunction(Costs(p, b)) = SumFunction(Costs(p, a)) * e
  <2>1. Costs(p, a) \in [Symbols -> Int] /\ Costs(p, b) \in [Symbols -> Int]
    BY <1>2, CostsTyped
  <2>2. ASSUME NEW s \in Symbols PROVE Costs(p, b)[s] = Costs(p, a)[s] * e
    <3> DEFINE q == p.holdings[s].quantity
               n == a[s]
    <3>1. q \in Int /\ n \in Int
      BY CostsTyped
    <3>2. Costs(p, a)[s] = q * n /\ Costs(p, b)[s] = q * (n * e)
      BY <1>2 DEF Costs
    <3> HIDE DEF q, n
    <3> QED BY <3>1, <3>2, ThreeFactors
  <2>3. IsMultiple(Costs(p, b), Costs(p, a), Symbols, e)
    BY <2>2 DEF IsMultiple
  <2> QED BY <2>1, <2>3, SumTimes
<1>6. p.cashBalance * (d * e) + SumFunction(Costs(p, b)) = StartingBalance * (d * e) + r * e
  <2> DEFINE c == p.cashBalance
             t == SumFunction(Costs(p, a))
  <2>1. c \in Int /\ t \in Int /\ StartingBalance \in Int
    BY <1>5, PortfolioAssumption DEF APortfolio
  <2>2. c * d + t = StartingBalance * d + r
    BY DEF BalanceOver
  <2> HIDE DEF c, t
  <2>3. (c * d + t) * e = c * (d * e) + t * e
    BY <2>1
  <2>4. (StartingBalance * d + r) * e = StartingBalance * (d * e) + r * e
    BY <2>1
  <2> QED BY <1>5, <2>2, <2>3, <2>4 DEF c, t
<1>7. BalanceOver(p, d * e, b, r * e)
  BY <1>3, <1>4, <1>6 DEF BalanceOver
<1> QED BY <1>1, <1>2, <1>7 DEF b

(* What is computed from a fraction that is not finite is not.             *)
LEMMA NotFiniteStays ==
  ASSUME NEW x \in Rational, NEW y \in Rational, NEW k \in Int
  PROVE  /\ ~IsFinite(x) => /\ ~IsFinite(Times(k, x)) /\ ~IsFinite(Over(x, k))
                            /\ ~IsFinite(Plus(x, y)) /\ ~IsFinite(Plus(y, x))
                            /\ ~IsFinite(Minus(x, y)) /\ ~IsFinite(Minus(y, x))
         /\ ~IsFinite(Over(x, 0))
<1>1. ASSUME NEW n \in Int, NEW d \in Int, d = 0 PROVE ~IsFinite(Fraction(n, d))
  BY <1>1 DEF Fraction, LowestTerms, NotFinite, IsFinite
<1>2. x[1] \in Int /\ x[2] \in Int /\ y[1] \in Int /\ y[2] \in Int
  BY DEF Rational
<1>3. /\ x[1] * y[2] + y[1] * x[2] \in Int /\ y[1] * x[2] + x[1] * y[2] \in Int
      /\ x[1] * y[2] - y[1] * x[2] \in Int /\ y[1] * x[2] - x[1] * y[2] \in Int
      /\ k * x[1] \in Int
  BY <1>2
<1>4. ASSUME ~IsFinite(x)
      PROVE  x[2] = 0 /\ k * x[2] = 0 /\ x[2] * y[2] = 0 /\ y[2] * x[2] = 0
  <2>1. x[2] = 0
    BY <1>4 DEF IsFinite
  <2>2. \A z \in Int : z * 0 = 0 /\ 0 * z = 0
    OBVIOUS
  <2> QED BY <1>2, <2>1, <2>2
<1>5. 0 * x[2] = 0
  BY <1>2
<1>6. ~IsFinite(Over(x, 0))
  <2>1. ~IsFinite(Fraction(x[1], 0 * x[2]))
    BY <1>1, <1>2, <1>5
  <2> QED BY <2>1 DEF Over
<1>7. ASSUME ~IsFinite(x)
      PROVE  ~IsFinite(Times(k, x)) /\ ~IsFinite(Over(x, k))
  <2>1. ~IsFinite(Fraction(k * x[1], x[2])) /\ ~IsFinite(Fraction(x[1], k * x[2]))
    BY <1>1, <1>2, <1>3, <1>4, <1>7
  <2> QED BY <2>1 DEF Times, Over
<1>8. ASSUME ~IsFinite(x)
      PROVE  /\ ~IsFinite(Plus(x, y)) /\ ~IsFinite(Plus(y, x))
             /\ ~IsFinite(Minus(x, y)) /\ ~IsFinite(Minus(y, x))
  <2>1. ~IsFinite(Fraction(x[1] * y[2] + y[1] * x[2], x[2] * y[2]))
    BY <1>1, <1>3, <1>4, <1>8
  <2>2. ~IsFinite(Fraction(y[1] * x[2] + x[1] * y[2], y[2] * x[2]))
    BY <1>1, <1>3, <1>4, <1>8
  <2>3. ~IsFinite(Fraction(x[1] * y[2] - y[1] * x[2], x[2] * y[2]))
    BY <1>1, <1>3, <1>4, <1>8
  <2>4. ~IsFinite(Fraction(y[1] * x[2] - x[1] * y[2], y[2] * x[2]))
    BY <1>1, <1>3, <1>4, <1>8
  <2> QED BY <2>1, <2>2, <2>3, <2>4 DEF Plus, Minus
<1> QED BY <1>6, <1>7, <1>8

(* The average of what was bought: over t times the denominator, t being   *)
(* the shares held then.                                                   *)
AverageOver(avg, q, v, t, n, d, y, e) ==
  /\ IsOver(Over(Plus(Times(q, avg), Whole(v)), t), y, d * e)
  /\ t * y = (q * n + v * d) * e

LEMMA BoughtAverageIsOver ==
  ASSUME NEW avg, NEW q \in Int, NEW v \in Int, NEW d \in Nat \ {0}, NEW n \in Int,
         IsOver(avg, n, d), NEW t \in Int, t # 0
  PROVE  \E y \in Int, e \in Nat \ {0} : AverageOver(avg, q, v, t, n, d, y, e)
<1> DEFINE sum == Plus(Times(q, avg), Whole(v))
           x == q * n + v * d
           e == IF t > 0 THEN t ELSE -t
           y == IF t > 0 THEN x ELSE -x
<1>1. IsOver(sum, x, d) /\ x \in Int
  <2>1. IsOver(Times(q, avg), q * n, d)
    BY TimesIsOver
  <2>2. IsOver(Whole(v), v * d, d)
    BY WholeIsOver
  <2> DEFINE m == q * n
             w == v * d
  <2>3. m \in Int /\ w \in Int /\ IsOver(Times(q, avg), m, d) /\ IsOver(Whole(v), w, d)
    BY <2>1, <2>2
  <2> HIDE DEF m, w
  <2>4. IsOver(sum, m + w, d)
    BY <2>3, PlusIsOver
  <2>5. m + w \in Int
    BY <2>3
  <2> QED BY <2>4, <2>5 DEF m, w
<1> HIDE DEF sum, x
<1>2. e \in Nat \ {0} /\ y \in Int /\ d * e \in Int
  BY <1>1
<1>3. x * (d * e) = y * (t * d) /\ t * y = x * e
  <2>1. CASE t > 0
    <3>1. e = t /\ y = x
      BY <2>1
    <3> HIDE DEF e, y
    <3> QED BY <1>1, <3>1
  <2>2. CASE ~(t > 0)
    <3>1. e = -t /\ y = -x
      BY <2>2
    <3> HIDE DEF e, y
    <3> QED BY <1>1, <3>1
  <2> QED BY <2>1, <2>2
<1> HIDE DEF e, y
<1>4. IsOver(Over(sum, t), y, d * e)
  <2> DEFINE de == d * e
  <2>1. de \in Int /\ x * de = y * (t * d) /\ d # 0 /\ d \in Int
    BY <1>2, <1>3
  <2> HIDE DEF de
  <2>2. IsOver(Over(sum, t), y, de)
    BY <1>1, <1>2, <2>1, QuotientIsOver
  <2> QED BY <2>2 DEF de
<1> QED BY <1>2, <1>3, <1>4 DEF AverageOver, sum, x

LEMMA BoughtBalances ==
  ASSUME NEW p \in APortfolio, NEW trade, IsSettleable(trade), IsFiniteSet(Symbols),
         BooksBalance(p)
  PROVE  BooksBalance(Bought(p, trade))
<1> DEFINE b == Bought(p, trade)
           sym == trade.symbol
           k == trade.quantity
           v == trade.quantity * trade.price
           q == p.holdings[sym].quantity
           avg == p.holdings[sym].averageBuyPrice
           t == q + k
<1> SUFFICES ASSUME HasFiniteBooks(b)
             PROVE  \E d \in Nat \ {0}, a \in [Symbols -> Int], r \in Int : BalanceOver(b, d, a, r)
  BY DEF BooksBalance
<1>1. /\ sym \in Symbols /\ k \in Int /\ v \in Int /\ trade.price \in Int
      /\ p.holdings[sym] \in Holding /\ q \in Int /\ avg \in Rational /\ t \in Int
      /\ p.cashBalance \in Int /\ b \in APortfolio
  BY BoughtPortfolio DEF IsSettleable, APortfolio, Holding, Rational
<1>2. /\ b.cashBalance = p.cashBalance - v /\ b.realizedPnL = p.realizedPnL
      /\ \A s \in Symbols \ {sym} : b.holdings[s] = p.holdings[s]
      /\ b.holdings[sym] = BuyShares(p.holdings[sym], k, trade.price)
  BY <1>1, BoughtFields
<1>3. /\ b.holdings[sym].quantity = t
      /\ b.holdings[sym].averageBuyPrice = Over(Plus(Times(q, avg), Whole(v)), t)
  <2>1. /\ BuyShares(p.holdings[sym], k, trade.price).quantity = t
        /\ BuyShares(p.holdings[sym], k, trade.price).averageBuyPrice =
             Over(Plus(Times(q, avg), Whole(v)), t)
    <3> DEFINE h == p.holdings[sym]
    <3>1. h \in Holding /\ k \in Int /\ trade.price \in Int
      BY <1>1
    <3> HIDE DEF h, k
    <3> QED BY <3>1, BoughtShares DEF h, k
  <2> QED BY <1>2, <2>1
<1> HIDE DEF b, t, q, avg, k, v, sym
<1>4. IsFinite(avg) /\ t # 0
  <2>1. IsFinite(Over(Plus(Times(q, avg), Whole(v)), t))
    BY <1>1, <1>3 DEF HasFiniteBooks
  <2>2. /\ Times(q, avg) \in Rational /\ Whole(v) \in Rational
        /\ Plus(Times(q, avg), Whole(v)) \in Rational
    <3>1. Times(q, avg) \in Rational /\ Whole(v) \in Rational
      BY <1>1, RationalsClosed
    <3> QED BY <3>1, RationalsClosed
  <2>3. IsFinite(Plus(Times(q, avg), Whole(v))) /\ t # 0
    BY <1>1, <2>1, <2>2, NotFiniteStays
  <2>4. IsFinite(Times(q, avg))
    BY <1>1, <2>2, <2>3, NotFiniteStays
  <2> QED BY <1>1, <2>3, <2>4, NotFiniteStays
<1>5. HasFiniteBooks(p)
  <2>1. ASSUME NEW s \in Symbols PROVE IsFinite(p.holdings[s].averageBuyPrice)
    BY <1>2, <1>4 DEF HasFiniteBooks, avg
  <2> QED BY <1>2, <2>1 DEF HasFiniteBooks
<1>6. PICK d \in Nat \ {0}, a \in [Symbols -> Int], r \in Int : BalanceOver(p, d, a, r)
  BY <1>5 DEF BooksBalance
<1> DEFINE n == a[sym]
<1>7. IsOver(avg, n, d) /\ n \in Int
  BY <1>1, <1>6 DEF BalanceOver, avg
<1> HIDE DEF n
<1>8. PICK y \in Int, e \in Nat \ {0} : AverageOver(avg, q, v, t, n, d, y, e)
  <2>1. /\ q \in Int /\ v \in Int /\ n \in Int /\ t \in Int /\ t # 0
        /\ IsOver(avg, n, d)
    BY <1>1, <1>4, <1>7
  <2> QED BY <2>1, BoughtAverageIsOver
<1> DEFINE a2 == [s \in Symbols |-> a[s] * e]
           a3 == [s \in Symbols |-> IF s = sym THEN y ELSE a2[s]]
<1>9. /\ d * e \in Nat \ {0} /\ r * e \in Int /\ a2 \in [Symbols -> Int]
      /\ BalanceOver(p, d * e, a2, r * e)
  BY <1>6, BalanceOverMore
<1>10. a2[sym] = n * e
  BY <1>1 DEF n
<1> HIDE DEF a2
<1>11. /\ a3 \in [Symbols -> Int] /\ a3[sym] = y /\ \A s \in Symbols \ {sym} : a3[s] = a2[s]
  BY <1>1, <1>9
<1> HIDE DEF a3
<1>12. \A s \in Symbols : IsOver(b.holdings[s].averageBuyPrice, a3[s], d * e)
  <2>1. \A s \in Symbols : IsOver(p.holdings[s].averageBuyPrice, a2[s], d * e)
    BY <1>9 DEF BalanceOver
  <2>2. ASSUME NEW s \in Symbols, s # sym
        PROVE  IsOver(b.holdings[s].averageBuyPrice, a3[s], d * e)
    BY <1>2, <1>11, <2>1, <2>2
  <2> QED BY <1>3, <1>8, <1>11, <2>2 DEF AverageOver
<1>13. IsOver(b.realizedPnL, r * e, d * e)
  BY <1>2, <1>9 DEF BalanceOver
<1>14. /\ SumFunction(Costs(p, a2)) \in Int
       /\ SumFunction(Costs(b, a3)) = SumFunction(Costs(p, a2)) + v * (d * e)
  <2>1. Costs(p, a2) \in [Symbols -> Int] /\ Costs(b, a3) \in [Symbols -> Int]
    BY <1>1, <1>9, <1>11, CostsTyped
  <2>2. \A s \in Symbols \ {sym} : Costs(b, a3)[s] = Costs(p, a2)[s]
    BY <1>2, <1>11 DEF Costs
  <2>3. Costs(b, a3)[sym] = t * y /\ Costs(p, a2)[sym] = q * (n * e)
    BY <1>1, <1>3, <1>10, <1>11 DEF Costs, q
  <2>4. t * y = q * (n * e) + v * (d * e)
    <3>1. (q * n + v * d) * e = (q * n) * e + (v * d) * e
      BY <1>1, <1>7
    <3>2. (q * n) * e = q * (n * e) /\ (v * d) * e = v * (d * e)
      BY <1>1, <1>7, ThreeFactors
    <3> QED BY <1>8, <3>1, <3>2 DEF AverageOver
  <2> DEFINE old == Costs(p, a2)
             new == Costs(b, a3)
  <2>5. /\ old \in [Symbols -> Int] /\ new \in [Symbols -> Int]
        /\ \A s \in Symbols \ {sym} : new[s] = old[s]
    BY <2>1, <2>2
  <2> HIDE DEF old, new
  <2>6. SumFunction(old) \in Int /\ SumFunction(new) = SumFunction(old) - old[sym] + new[sym]
    BY <1>1, <2>5, SumChanged
  <2>7. old[sym] = q * (n * e) /\ new[sym] = old[sym] + v * (d * e) /\ old[sym] \in Int
    BY <1>1, <2>3, <2>4, <2>5 DEF old, new
  <2>8. v * (d * e) \in Int
    BY <1>1
  <2> HIDE DEF old, new
  <2>9. SumFunction(new) = SumFunction(old) + v * (d * e)
    BY <2>6, <2>7, <2>8
  <2> QED BY <2>6, <2>9 DEF old, new
<1>15. b.cashBalance * (d * e) + SumFunction(Costs(b, a3)) = StartingBalance * (d * e) + r * e
  <2>1. p.cashBalance * (d * e) + SumFunction(Costs(p, a2)) = StartingBalance * (d * e) + r * e
    BY <1>9 DEF BalanceOver
  <2> DEFINE c == p.cashBalance
             f == d * e
             total == SumFunction(Costs(p, a2))
  <2>2. c \in Int /\ f \in Int /\ total \in Int
    BY <1>1, <1>14
  <2>3. b.cashBalance = c - v /\ SumFunction(Costs(b, a3)) = total + v * f
    BY <1>2, <1>14
  <2>4. c * f + total = StartingBalance * f + r * e
    BY <2>1
  <2> HIDE DEF c, f, total
  <2>5. (c - v) * f = c * f - v * f /\ c * f \in Int /\ v * f \in Int
    BY <1>1, <2>2
  <2>6. (c - v) * f + (total + v * f) = c * f + total
    BY <2>2, <2>5
  <2> QED BY <2>3, <2>4, <2>6 DEF f
<1>16. BalanceOver(b, d * e, a3, r * e)
  BY <1>12, <1>13, <1>15 DEF BalanceOver
<1> QED BY <1>9, <1>11, <1>16

LEMMA SoldBalances ==
  ASSUME NEW p \in APortfolio, NEW trade, IsSettleable(trade), IsFiniteSet(Symbols),
         BooksBalance(p)
  PROVE  BooksBalance(Sold(p, trade))
<1> DEFINE b == Sold(p, trade)
           sym == trade.symbol
           k == trade.quantity
           v == trade.quantity * trade.price
           q == p.holdings[sym].quantity
           avg == p.holdings[sym].averageBuyPrice
           profit == p.realizedPnL
<1> SUFFICES ASSUME HasFiniteBooks(b)
             PROVE  \E d \in Nat \ {0}, a \in [Symbols -> Int], r \in Int : BalanceOver(b, d, a, r)
  BY DEF BooksBalance
<1>1. /\ sym \in Symbols /\ k \in Int /\ v \in Int /\ trade.price \in Int
      /\ p.holdings[sym] \in Holding /\ q \in Int /\ avg \in Rational /\ profit \in Rational
      /\ p.cashBalance \in Int /\ b \in APortfolio
  BY SoldPortfolio DEF IsSettleable, APortfolio, Holding, Rational
<1>2. /\ b.cashBalance = p.cashBalance + v
      /\ b.realizedPnL = Plus(profit, Minus(Whole(v), Times(k, avg)))
      /\ \A s \in Symbols \ {sym} : b.holdings[s] = p.holdings[s]
      /\ b.holdings[sym] = SellShares(p.holdings[sym], k, trade.price)
  BY <1>1, SoldFields
<1>3. b.holdings[sym].quantity = q - k /\ b.holdings[sym].averageBuyPrice = avg
  <2>1. /\ SellShares(p.holdings[sym], k, trade.price).quantity = q - k
        /\ SellShares(p.holdings[sym], k, trade.price).averageBuyPrice = avg
    <3> DEFINE h == p.holdings[sym]
    <3>1. h \in Holding /\ k \in Int /\ trade.price \in Int
      BY <1>1
    <3> HIDE DEF h, k
    <3> QED BY <3>1, SoldShares DEF h, k
  <2> QED BY <1>2, <2>1
<1> HIDE DEF b, q, avg, k, v, sym, profit
<1>4. HasFiniteBooks(p)
  <2>1. ASSUME NEW s \in Symbols PROVE IsFinite(p.holdings[s].averageBuyPrice)
    BY <1>2, <1>3 DEF HasFiniteBooks, avg
  <2>2. IsFinite(profit)
    <3>1. Times(k, avg) \in Rational /\ Whole(v) \in Rational
      BY <1>1, RationalsClosed
    <3>2. Minus(Whole(v), Times(k, avg)) \in Rational
      BY <3>1, RationalsClosed
    <3>3. IsFinite(Plus(profit, Minus(Whole(v), Times(k, avg))))
      BY <1>2 DEF HasFiniteBooks
    <3> QED BY <1>1, <3>2, <3>3, NotFiniteStays
  <2> QED BY <2>1, <2>2 DEF HasFiniteBooks, profit
<1>5. PICK d \in Nat \ {0}, a \in [Symbols -> Int], r \in Int : BalanceOver(p, d, a, r)
  BY <1>4 DEF BooksBalance
<1> DEFINE n == a[sym]
           gain == v * d - k * n
<1>6. IsOver(avg, n, d) /\ n \in Int /\ IsOver(profit, r, d) /\ gain \in Int
  BY <1>1, <1>5 DEF BalanceOver, avg, profit
<1> HIDE DEF n
<1>7. IsOver(b.realizedPnL, r + gain, d)
  <2>1. IsOver(Times(k, avg), k * n, d) /\ IsOver(Whole(v), v * d, d)
    <3>1. IsOver(Times(k, avg), k * n, d)
      BY <1>1, <1>6, TimesIsOver
    <3> QED BY <1>1, <3>1, WholeIsOver
  <2> DEFINE m == k * n
             w == v * d
  <2>2. m \in Int /\ w \in Int /\ IsOver(Times(k, avg), m, d) /\ IsOver(Whole(v), w, d)
    BY <1>1, <1>6, <2>1
  <2> HIDE DEF m, w
  <2>3. IsOver(Minus(Whole(v), Times(k, avg)), w - m, d) /\ w - m \in Int
    BY <2>2, PlusIsOver
  <2>4. IsOver(Minus(Whole(v), Times(k, avg)), gain, d)
    BY <2>3 DEF m, w
  <2> HIDE DEF gain
  <2> QED BY <1>2, <1>6, <2>4, PlusIsOver
<1>8. \A s \in Symbols : IsOver(b.holdings[s].averageBuyPrice, a[s], d)
  <2>1. \A s \in Symbols : IsOver(p.holdings[s].averageBuyPrice, a[s], d)
    BY <1>5 DEF BalanceOver
  <2>2. ASSUME NEW s \in Symbols, s # sym PROVE IsOver(b.holdings[s].averageBuyPrice, a[s], d)
    BY <1>2, <2>1, <2>2
  <2> QED BY <1>3, <1>6, <2>2 DEF n
<1>9. /\ SumFunction(Costs(p, a)) \in Int
      /\ SumFunction(Costs(b, a)) = SumFunction(Costs(p, a)) - k * n
  <2> DEFINE old == Costs(p, a)
             new == Costs(b, a)
  <2>1. old \in [Symbols -> Int] /\ new \in [Symbols -> Int]
    BY <1>1, CostsTyped
  <2>2. \A s \in Symbols \ {sym} : new[s] = old[s]
    BY <1>2 DEF Costs
  <2>3. new[sym] = (q - k) * n /\ old[sym] = q * n
    BY <1>1, <1>3 DEF Costs, q, n
  <2>4. (q - k) * n = q * n - k * n /\ q * n \in Int /\ k * n \in Int
    BY <1>1, <1>6
  <2> HIDE DEF old, new
  <2>5. SumFunction(old) \in Int /\ SumFunction(new) = SumFunction(old) - old[sym] + new[sym]
    BY <1>1, <2>1, <2>2, SumChanged
  <2>6. SumFunction(new) = SumFunction(old) - k * n
    BY <2>3, <2>4, <2>5
  <2> QED BY <2>5, <2>6 DEF old, new
<1>10. b.cashBalance * d + SumFunction(Costs(b, a)) = StartingBalance * d + (r + gain)
  <2> DEFINE c == p.cashBalance
             total == SumFunction(Costs(p, a))
  <2>1. c * d + total = StartingBalance * d + r
    BY <1>5 DEF BalanceOver
  <2>2. c \in Int /\ total \in Int /\ StartingBalance \in Int
    BY <1>1, <1>9, PortfolioAssumption
  <2>3. b.cashBalance = c + v /\ SumFunction(Costs(b, a)) = total - k * n
    BY <1>2, <1>9
  <2> HIDE DEF c, total
  <2>4. /\ (c + v) * d = c * d + v * d /\ c * d \in Int /\ v * d \in Int /\ k * n \in Int
        /\ StartingBalance * d \in Int
    BY <1>1, <1>6, <2>2
  <2>5. (c + v) * d + (total - k * n) = StartingBalance * d + (r + gain)
    BY <2>1, <2>2, <2>4
  <2> QED BY <2>3, <2>5
<1>11. r + gain \in Int
  BY <1>6
<1>12. BalanceOver(b, d, a, r + gain)
  BY <1>7, <1>8, <1>10 DEF BalanceOver
<1> QED BY <1>11, <1>12

(* Market prices are not in the books.                                     *)
LEMMA MarkedBalances ==
  ASSUME NEW p \in APortfolio, NEW prices \in [Symbols -> Int], BooksBalance(p)
  PROVE  BooksBalance(Marked(p, prices))
<1> DEFINE b == Marked(p, prices)
<1>1. /\ b.cashBalance = p.cashBalance /\ b.realizedPnL = p.realizedPnL
      /\ \A s \in Symbols : /\ b.holdings[s].quantity = p.holdings[s].quantity
                            /\ b.holdings[s].averageBuyPrice = p.holdings[s].averageBuyPrice
  BY MarkedPortfolio
<1> HIDE DEF b
<1>2. HasFiniteBooks(b) => HasFiniteBooks(p)
  BY <1>1 DEF HasFiniteBooks
<1>3. \A a : Costs(b, a) = Costs(p, a)
  BY <1>1 DEF Costs
<1>4. \A d, a, r : BalanceOver(p, d, a, r) => BalanceOver(b, d, a, r)
  BY <1>1, <1>3 DEF BalanceOver
<1> QED BY <1>2, <1>4 DEF BooksBalance, b

-----------------------------------------------------------------------------
(* The profit that is shown.                                               *)

(* The terms of the two sums over the holdings that count.                 *)
MarketTerms(p) == [s \in Counted(p) |-> MarketValue(p.holdings[s])]
CostTerms(p) == [s \in Counted(p) |-> InvestedValue(p.holdings[s])]

LEMMA TotalsAreFolds ==
  ASSUME NEW p, NEW a, NEW c, NEW d \in Nat \ {0}, IsFiniteSet(Counted(p)),
         a \in [Counted(p) -> Int], TermsAreOver(CostTerms(p), a, Counted(p), d),
         c \in [Counted(p) -> Int], TermsAreOver(MarketTerms(p), c, Counted(p), d)
  PROVE  /\ \E g : /\ IsFoldOver(g, CostTerms(p), Counted(p))
                   /\ TotalInvestedValue(p) = g[Counted(p)]
         /\ \E g : /\ IsFoldOver(g, MarketTerms(p), Counted(p))
                   /\ TotalMarketValue(p) = g[Counted(p)]
<1> DEFINE R == Counted(p)
           IsCosts(g) == g = [s \in SUBSET R |-> IF s = {} THEN Whole(0)
               ELSE LET x == CHOOSE x \in s : TRUE
                    IN  Plus(InvestedValue(p.holdings[x]), g[s \ {x}])]
           IsValues(g) == g = [s \in SUBSET R |-> IF s = {} THEN Whole(0)
               ELSE LET x == CHOOSE x \in s : TRUE
                    IN  Plus(MarketValue(p.holdings[x]), g[s \ {x}])]
           costs == CHOOSE g : IsCosts(g)
           values == CHOOSE g : IsValues(g)
<1>1. TotalInvestedValue(p) = costs[R] /\ TotalMarketValue(p) = values[R]
  BY DEF TotalInvestedValue, TotalMarketValue, FoldSet, MapThenFoldSet
<1>2. \A s \in SUBSET R : s # {} => (CHOOSE x \in s : TRUE) \in R
  OBVIOUS
<1>3. \A x \in R : /\ CostTerms(p)[x] = InvestedValue(p.holdings[x])
                   /\ MarketTerms(p)[x] = MarketValue(p.holdings[x])
  BY DEF CostTerms, MarketTerms
<1> HIDE DEF R
<1>4. \A g : IsCosts(g) <=> IsFoldOver(g, CostTerms(p), R)
  BY <1>2, <1>3 DEF IsFoldOver
<1>5. \A g : IsValues(g) <=> IsFoldOver(g, MarketTerms(p), R)
  BY <1>2, <1>3 DEF IsFoldOver
<1> HIDE DEF IsCosts, IsValues
<1>6. \E g : IsFoldOver(g, CostTerms(p), R)
  BY FoldExists DEF R
<1>7. \E g : IsFoldOver(g, MarketTerms(p), R)
  BY FoldExists DEF R
<1>8. IsFoldOver(costs, CostTerms(p), R)
  BY <1>4, <1>6
<1>9. IsFoldOver(values, MarketTerms(p), R)
  BY <1>5, <1>7
<1> HIDE DEF costs, values
<1> QED BY <1>1, <1>8, <1>9 DEF R

(* A portfolio whose books balance shows a profit that is accounted for,   *)
(* unless it is short of something.                                        *)
LEMMA BalancedProfit ==
  ASSUME NEW p \in APortfolio, IsFiniteSet(Symbols), BooksBalance(p), HasFiniteBooks(p), IsLong(p)
  PROVE  TotalPnL(p) = Plus(p.realizedPnL, TotalUnrealizedPnL(p))
<1> DEFINE R == Counted(p)
           cash == p.cashBalance
<1>1. PICK d \in Nat \ {0}, a \in [Symbols -> Int], r \in Int : BalanceOver(p, d, a, r)
  BY DEF BooksBalance
<1> DEFINE paid == [s \in R |-> p.holdings[s].quantity * a[s]]
           worth == [s \in R |-> (p.holdings[s].quantity * p.holdings[s].currentPrice) * d]
<1>2. /\ R \in SUBSET Symbols /\ IsFiniteSet(R) /\ cash \in Int /\ StartingBalance \in Int
  BY FS_Subset, PortfolioAssumption DEF Counted, APortfolio
<1>3. ASSUME NEW s \in Symbols
      PROVE  /\ p.holdings[s].quantity \in Int /\ p.holdings[s].currentPrice \in Int
             /\ p.holdings[s].quantity * p.holdings[s].currentPrice \in Int
             /\ p.holdings[s].quantity * a[s] \in Int
             /\ (p.holdings[s].quantity * p.holdings[s].currentPrice) * d \in Int
             /\ IsOver(p.holdings[s].averageBuyPrice, a[s], d)
  <2>1. p.holdings[s].quantity \in Int /\ p.holdings[s].currentPrice \in Int
    BY DEF APortfolio, Holding
  <2>2. p.holdings[s].quantity * p.holdings[s].currentPrice \in Int
    BY <2>1
  <2> QED BY <1>1, <2>1, <2>2 DEF BalanceOver
<1> HIDE DEF R
<1>4. paid \in [R -> Int] /\ worth \in [R -> Int]
  BY <1>2, <1>3
<1>5. TermsAreOver(CostTerms(p), paid, R, d)
  <2> SUFFICES ASSUME NEW s \in R PROVE IsOver(CostTerms(p)[s], paid[s], d)
    BY DEF TermsAreOver
  <2> DEFINE q == p.holdings[s].quantity
             x == p.holdings[s].averageBuyPrice
             n == a[s]
  <2>1. q \in Int /\ n \in Int /\ IsOver(x, n, d)
    BY <1>2, <1>3
  <2>2. CostTerms(p)[s] = Times(q, x) /\ paid[s] = q * n
    BY DEF CostTerms, InvestedValue, R
  <2> HIDE DEF q, x, n, paid
  <2>3. IsOver(Times(q, x), q * n, d)
    BY <2>1, TimesIsOver
  <2> QED BY <2>2, <2>3
<1>6. TermsAreOver(MarketTerms(p), worth, R, d)
  <2> SUFFICES ASSUME NEW s \in R PROVE IsOver(MarketTerms(p)[s], worth[s], d)
    BY DEF TermsAreOver
  <2> DEFINE k == p.holdings[s].quantity * p.holdings[s].currentPrice
  <2>1. k \in Int
    BY <1>2, <1>3
  <2>2. MarketTerms(p)[s] = Whole(k) /\ worth[s] = k * d
    BY DEF MarketTerms, MarketValue, R
  <2> HIDE DEF k, worth
  <2> QED BY <2>1, <2>2, WholeIsOver
<1>7. SumFunction(Costs(p, a)) \in Int /\ \E f : IsSum(f, paid, R) /\ SumFunction(Costs(p, a)) = f[R]
  <2> DEFINE costs == Costs(p, a)
  <2>1. costs \in [Symbols -> Int] /\ \A s \in R : costs[s] = paid[s]
    BY <1>2, CostsTyped DEF Costs
  <2>2. \A s \in Symbols \ R : costs[s] = 0
    <3> SUFFICES ASSUME NEW s \in Symbols \ R PROVE costs[s] = 0
      OBVIOUS
    <3>1. p.holdings[s].quantity = 0
      BY <1>3 DEF R, Counted, IsLong
    <3>2. costs[s] = 0 * a[s] /\ a[s] \in Int
      BY <1>1, <3>1 DEF Costs
    <3> HIDE DEF costs
    <3> QED BY <3>2
  <2> HIDE DEF costs, paid
  <2>3. PICK f : IsSum(f, costs, Symbols) /\ SumFunction(costs) = f[Symbols]
    BY <2>1, SumFacts
  <2>4. PICK g : IsSum(g, paid, R)
    BY <1>2, SumExists
  <2>5. f[Symbols] = f[R]
    BY <1>2, <2>1, <2>2, <2>3, SumOfSome
  <2>6. f[R] = g[R]
    <3>1. /\ IsFiniteSet(R) /\ R \subseteq Symbols /\ R \subseteq R
          /\ \A s \in R : costs[s] = paid[s]
      BY <1>2, <2>1
    <3>2. costs \in [Symbols -> Int] /\ paid \in [R -> Int]
      BY <1>4, <2>1
    <3> QED BY <2>3, <2>4, <3>1, <3>2, SumsAgree
  <2>7. f[Symbols] \in Int
    <3>1. SumsUp(f, costs, Symbols)
      BY <2>1, <2>3, SumsAreUp
    <3> QED BY <3>1 DEF SumsUp
  <2> QED BY <2>3, <2>4, <2>5, <2>6, <2>7 DEF costs
<1> HIDE DEF paid, worth
<1>8. PICK f : IsSum(f, paid, R) /\ SumFunction(Costs(p, a)) = f[R]
  BY <1>7
<1>9. PICK h : IsSum(h, worth, R)
  BY <1>2, SumExists
<1> DEFINE spent == f[R]
           value == h[R]
<1>10. IsOver(TotalInvestedValue(p), spent, d) /\ spent \in Int
  <2>1. PICK g : IsFoldOver(g, CostTerms(p), R) /\ TotalInvestedValue(p) = g[R]
    BY <1>2, <1>4, <1>5, <1>6, TotalsAreFolds DEF R
  <2>2. f[R] \in Int /\ IsOver(g[R], f[R], d)
    BY <1>2, <1>4, <1>5, <1>8, <2>1, FoldIsOver
  <2> QED BY <2>1, <2>2
<1>11. IsOver(TotalMarketValue(p), value, d) /\ value \in Int
  <2>1. PICK g : IsFoldOver(g, MarketTerms(p), R) /\ TotalMarketValue(p) = g[R]
    BY <1>2, <1>4, <1>5, <1>6, TotalsAreFolds DEF R
  <2>2. h[R] \in Int /\ IsOver(g[R], h[R], d)
    BY <1>2, <1>4, <1>6, <1>9, <2>1, FoldIsOver
  <2> QED BY <2>1, <2>2
<1>12. cash * d + spent = StartingBalance * d + r
  BY <1>1, <1>8 DEF BalanceOver
<1> HIDE DEF spent, value, cash
<1> DEFINE c == cash * d
           b == StartingBalance * d
<1>13. c \in Int /\ b \in Int /\ IsOver(Whole(cash), c, d) /\ IsOver(Whole(StartingBalance), b, d)
  BY <1>2, WholeIsOver
<1>14. c + spent = b + r
  BY <1>12
<1> HIDE DEF c, b
<1>15. IsOver(TotalPortfolioValue(p), c + value, d) /\ c + value \in Int
  BY <1>11, <1>13, PlusIsOver DEF TotalPortfolioValue, cash
<1>16. IsOver(TotalPnL(p), (c + value) - b, d)
  <2> DEFINE total == c + value
             T == TotalPortfolioValue(p)
             S == Whole(StartingBalance)
  <2>1. total \in Int /\ b \in Int /\ IsOver(T, total, d) /\ IsOver(S, b, d)
    BY <1>13, <1>15
  <2>2. TotalPnL(p) = Minus(T, S)
    BY DEF TotalPnL
  <2> HIDE DEF total, T, S
  <2>3. IsOver(Minus(T, S), total - b, d)
    BY <1>1, <2>1, PlusIsOver
  <2> QED BY <2>2, <2>3 DEF total
<1>17. IsOver(TotalUnrealizedPnL(p), value - spent, d) /\ value - spent \in Int
  BY <1>10, <1>11, PlusIsOver DEF TotalUnrealizedPnL
<1>18. IsOver(Plus(p.realizedPnL, TotalUnrealizedPnL(p)), r + (value - spent), d)
  <2>1. IsOver(p.realizedPnL, r, d)
    BY <1>1 DEF BalanceOver
  <2> QED BY <1>17, <2>1, PlusIsOver
<1>19. r + (value - spent) = (c + value) - b /\ (c + value) - b \in Int
  BY <1>10, <1>11, <1>13, <1>14
<1> QED BY <1>16, <1>18, <1>19, SameOver

-----------------------------------------------------------------------------
(* The inductive invariant.                                                *)

(* What u holds of s, or would hold, was bought between the two prices.    *)
FairFor(P, u, s) ==
  IsFair(Min(Prices), PortfolioOf(P, u).holdings[s], Max(Prices))

AveragesAreFair ==
  \A u \in Users, s \in Symbols :
    <<u, s>> \notin shorted => FairFor(userPortfolios, u, s)

AllBooksBalance == \A u \in Users : BooksBalance(PortfolioOf(userPortfolios, u))

ManagerInvariant ==
  /\ userPortfolios \in Portfolios
  /\ IsConserved(userPortfolios)
  /\ AveragesAreFair
  /\ AllBooksBalance

LEMMA PutPortfolioOf ==
  ASSUME NEW P \in Portfolios, NEW u \in Users, NEW p \in APortfolio, NEW v \in Users
  PROVE  PortfolioOf(Put(P, u, p), v) = IF v = u THEN p ELSE PortfolioOf(P, v)
  BY PortfolioAssumption DEF PortfolioOf, Put, Portfolios

LEMMA TicketIsSettleable ==
  ASSUME NEW trade \in TradeTicket
  PROVE  IsSettleable(trade) /\ trade.quantity \in Nat \ {0}
<1>1. /\ trade.buyerId \in Users /\ trade.sellerId \in Users /\ trade.symbol \in Symbols
      /\ trade.quantity \in Quantities /\ trade.price \in Prices
  BY DEF TradeTicket
<1>2. trade.quantity \in Nat \ {0} /\ trade.price \in Nat
  BY <1>1, ManagerAssumption
<1> QED BY <1>1, <1>2 DEF IsSettleable

(* A trade keeps what its two users hold fair, unless it leaves one short. *)
LEMMA SettledIsFair ==
  ASSUME NEW P \in Portfolios, NEW trade \in TradeTicket, NEW u \in Users, NEW s \in Symbols,
         FairFor(P, u, s),
         u \in {trade.buyerId, trade.sellerId} /\ s = trade.symbol =>
           ~(Settled(P, trade)[u].holdings[s].quantity < 0)
  PROVE  FairFor(Settled(P, trade), u, s)
<1> DEFINE buyer == trade.buyerId
           seller == trade.sellerId
           hadB == PortfolioOf(P, buyer)
           bought == Bought(hadB, trade)
           paid == Put(P, buyer, bought)
           hadS == PortfolioOf(paid, seller)
           sold == Sold(hadS, trade)
           low == Min(Prices)
           high == Max(Prices)
<1>1. /\ IsSettleable(trade) /\ buyer \in Users /\ seller \in Users
      /\ trade.symbol \in Symbols /\ trade.quantity \in Nat \ {0} /\ trade.price \in Prices
  BY TicketIsSettleable DEF TradeTicket
<1>2. /\ trade.price \in Int /\ low \in Int /\ high \in Int
      /\ low <= trade.price /\ trade.price <= high
  <2>1. Prices \subseteq Nat /\ Prices # {} /\ IsFiniteSet(Prices)
    BY <1>1, ManagerAssumption
  <2>2. /\ low \in Prices /\ \A x \in Prices : low <= x
        /\ high \in Prices /\ \A x \in Prices : x <= high
    BY <2>1, LowestExists, HighestExists
  <2> HIDE DEF low, high
  <2>3. trade.price \in Prices
    BY <1>1
  <2>4. trade.price \in Nat /\ low \in Nat /\ high \in Nat
    BY <2>1, <2>2, <2>3
  <2> QED BY <2>2, <2>3, <2>4
<1>3. Settled(P, trade) = Put(paid, seller, sold)
  BY DEF Settled, Put
<1>4. hadB \in APortfolio /\ bought \in APortfolio
  BY <1>1, PortfolioOfUser, BoughtPortfolio
<1>5. paid \in Portfolios
  <2> HIDE DEF bought
  <2> QED BY <1>1, <1>4 DEF Put, Portfolios, MaybePortfolio
<1>6. hadS \in APortfolio /\ sold \in APortfolio
  <2> HIDE DEF paid
  <2> QED BY <1>1, <1>5, PortfolioOfUser, SoldPortfolio
<1>7. FairFor(paid, u, s)
  <2>1. PortfolioOf(paid, u) = IF u = buyer THEN bought ELSE PortfolioOf(P, u)
    <3> HIDE DEF bought
    <3> QED BY <1>1, <1>4, PutPortfolioOf
  <2>2. CASE u = buyer /\ s = trade.symbol
    <3> DEFINE h == hadB.holdings[s]
    <3>1. h \in Holding /\ IsFair(low, h, high)
      BY <1>4, <2>2 DEF APortfolio, FairFor
    <3> HIDE DEF h, low, high
    <3>2. IsFair(low, BuyShares(h, trade.quantity, trade.price), high)
      BY <1>1, <1>2, <3>1, BoughtIsFair
    <3> HIDE DEF hadB
    <3>3. bought.holdings[s] = BuyShares(h, trade.quantity, trade.price)
      BY <1>1, <1>4, <2>2, BoughtFields DEF h
    <3> HIDE DEF bought, paid
    <3> QED BY <2>1, <2>2, <3>2, <3>3 DEF FairFor, low, high
  <2>3. CASE ~(u = buyer /\ s = trade.symbol)
    <3>1. PortfolioOf(paid, u).holdings[s] = PortfolioOf(P, u).holdings[s]
      <4> HIDE DEF paid
      <4> QED BY <1>1, <1>4, <2>1, <2>3, BoughtFields
    <3> HIDE DEF paid
    <3> QED BY <3>1 DEF FairFor
  <2> QED BY <2>2, <2>3
<1> HIDE DEF hadB, bought, paid, low, high
<1>8. PortfolioOf(Put(paid, seller, sold), u) = IF u = seller THEN sold ELSE PortfolioOf(paid, u)
  <2> HIDE DEF sold
  <2> QED BY <1>1, <1>5, <1>6, PutPortfolioOf
<1>9. CASE u = seller /\ s = trade.symbol
  <2> DEFINE h == hadS.holdings[s]
             new == SellShares(h, trade.quantity, trade.price)
  <2>1. h \in Holding /\ IsFair(low, h, high)
    BY <1>6, <1>7, <1>9 DEF APortfolio, FairFor, low, high
  <2> HIDE DEF hadS
  <2>2. sold.holdings[s] = new
    BY <1>1, <1>6, <1>9, SoldFields
  <2> HIDE DEF sold, h
  <2>3. new \in Holding
    <3>1. trade.quantity \in Int
      BY <1>1
    <3> QED BY <1>2, <2>1, <3>1, SoldShares
  <2>4. Put(paid, seller, sold)[u] = sold
    BY <1>1, <1>5, <1>9 DEF Put, Portfolios
  <2>5. new.quantity >= 0
    <3>1. ~(Put(paid, seller, sold)[u].holdings[s].quantity < 0)
      BY <1>3, <1>9
    <3>2. new.quantity \in Int
      BY <2>3 DEF Holding
    <3> HIDE DEF new
    <3> QED BY <2>2, <2>4, <3>1, <3>2
  <2>6. IsFair(low, new, high)
    BY <1>1, <1>2, <2>1, <2>5, SoldIsFair
  <2> HIDE DEF new
  <2> QED BY <1>3, <1>8, <1>9, <2>2, <2>6 DEF FairFor, low, high
<1>10. CASE ~(u = seller /\ s = trade.symbol)
  <2>1. PortfolioOf(Put(paid, seller, sold), u).holdings[s] = PortfolioOf(paid, u).holdings[s]
    <3> HIDE DEF hadS
    <3> QED BY <1>1, <1>6, <1>8, <1>10, SoldFields DEF hadS
  <2> QED BY <1>3, <1>7, <2>1 DEF FairFor
<1> QED BY <1>9, <1>10

(* A trade keeps the books of everybody balanced.                          *)
LEMMA SettledBalances ==
  ASSUME NEW P \in Portfolios, NEW trade, IsSettleable(trade), IsFiniteSet(Symbols),
         \A u \in Users : BooksBalance(PortfolioOf(P, u)), NEW u \in Users
  PROVE  BooksBalance(PortfolioOf(Settled(P, trade), u))
<1> DEFINE buyer == trade.buyerId
           seller == trade.sellerId
           hadB == PortfolioOf(P, buyer)
           bought == Bought(hadB, trade)
           paid == Put(P, buyer, bought)
           hadS == PortfolioOf(paid, seller)
           sold == Sold(hadS, trade)
<1>1. buyer \in Users /\ seller \in Users
  BY DEF IsSettleable
<1>2. Settled(P, trade) = Put(paid, seller, sold)
  BY DEF Settled, Put
<1>3. hadB \in APortfolio /\ bought \in APortfolio
  BY <1>1, PortfolioOfUser, BoughtPortfolio
<1>4. paid \in Portfolios
  <2> HIDE DEF bought
  <2> QED BY <1>1, <1>3 DEF Put, Portfolios, MaybePortfolio
<1>5. hadS \in APortfolio /\ sold \in APortfolio
  <2> HIDE DEF paid
  <2> QED BY <1>1, <1>4, PortfolioOfUser, SoldPortfolio
<1>6. BooksBalance(bought)
  <2> HIDE DEF hadB
  <2> QED BY <1>1, <1>3, BoughtBalances DEF hadB
<1>7. ASSUME NEW v \in Users PROVE BooksBalance(PortfolioOf(paid, v))
  <2>1. PortfolioOf(paid, v) = IF v = buyer THEN bought ELSE PortfolioOf(P, v)
    <3> HIDE DEF bought
    <3> QED BY <1>1, <1>3, PutPortfolioOf
  <2> HIDE DEF bought, paid
  <2> QED BY <1>6, <2>1
<1> HIDE DEF paid
<1>8. BooksBalance(sold)
  <2> HIDE DEF hadS
  <2> QED BY <1>1, <1>5, <1>7, SoldBalances DEF hadS
<1>9. PortfolioOf(Put(paid, seller, sold), u) = IF u = seller THEN sold ELSE PortfolioOf(paid, u)
  <2> HIDE DEF sold
  <2> QED BY <1>1, <1>4, <1>5, PutPortfolioOf
<1> HIDE DEF sold
<1> QED BY <1>2, <1>7, <1>8, <1>9

LEMMA InitManager == PortfolioInit => ManagerInvariant
<1> SUFFICES ASSUME PortfolioInit PROVE ManagerInvariant
  OBVIOUS
<1>1. userPortfolios \in Portfolios
  BY DEF PortfolioInit, Portfolios, MaybePortfolio
<1>2. OpenedIn(userPortfolios) = {}
  BY DEF PortfolioInit, OpenedIn
<1>3. /\ DOMAIN CashIn(userPortfolios) = {}
      /\ \A s \in Symbols : DOMAIN SharesIn(userPortfolios, s) = {}
  BY <1>2 DEF CashIn, SharesIn
<1>4. Surplus(userPortfolios) = 0
  <2>1. SumFunction(CashIn(userPortfolios)) = 0
    BY <1>3, SumOfNone
  <2>2. Cardinality(OpenedIn(userPortfolios)) = 0
    BY <1>2, FS_EmptySet
  <2> QED BY <2>1, <2>2, PortfolioAssumption DEF Surplus
<1>5. \A s \in Symbols : Position(userPortfolios, s) = 0
  BY <1>3, SumOfNone DEF Position
<1>6. AveragesAreFair
  <2>1. ASSUME NEW u \in Users, NEW s \in Symbols
        PROVE  PortfolioOf(userPortfolios, u).holdings[s] = NoHolding
    BY DEF PortfolioInit, PortfolioOf, NewPortfolio
  <2> QED BY <2>1, NoHoldingIsFair DEF AveragesAreFair, FairFor
<1>7. AllBooksBalance
  <2>1. ASSUME NEW u \in Users PROVE PortfolioOf(userPortfolios, u) = NewPortfolio
    BY DEF PortfolioInit, PortfolioOf
  <2> QED BY <2>1, ManagerAssumption, NewPortfolioBalances DEF AllBooksBalance
<1> QED BY <1>1, <1>4, <1>5, <1>6, <1>7 DEF ManagerInvariant, IsConserved

LEMMA InitializeUserKeeps ==
  ASSUME ManagerInvariant, NEW u \in Users, InitializeUser(u) PROVE ManagerInvariant'
<1>1. /\ userPortfolios \in Portfolios /\ IsConserved(userPortfolios)
      /\ userPortfolios' = Put(userPortfolios, u, NewPortfolio)
      /\ PortfolioOf(userPortfolios, u) = NewPortfolio /\ shorted' = shorted
  BY DEF ManagerInvariant, InitializeUser, Put, PortfolioOf
<1>2. userPortfolios' \in Portfolios
  BY <1>1, NewPortfolioIsOne DEF Put, Portfolios, MaybePortfolio
<1>3. IsConserved(userPortfolios')
  <2>1. /\ NewPortfolio.cashBalance \in Int
        /\ \A s \in Symbols : NewPortfolio.holdings[s].quantity \in Int
    BY NewPortfolioIsOne DEF APortfolio, Holding
  <2>2. /\ Surplus(userPortfolios) \in Int
        /\ Surplus(userPortfolios') =
             Surplus(userPortfolios) + NewPortfolio.cashBalance - NewPortfolio.cashBalance
    BY <1>1, ManagerAssumption, NewPortfolioIsOne, PutPortfolio
  <2>3. ASSUME NEW s \in Symbols
        PROVE  /\ Position(userPortfolios, s) \in Int
               /\ Position(userPortfolios', s) =
                    Position(userPortfolios, s) + NewPortfolio.holdings[s].quantity
                                                - NewPortfolio.holdings[s].quantity
    BY <1>1, ManagerAssumption, NewPortfolioIsOne, PutPortfolio
  <2>4. Surplus(userPortfolios') = 0
    BY <1>1, <2>1, <2>2 DEF IsConserved
  <2>5. ASSUME NEW s \in Symbols PROVE Position(userPortfolios', s) = 0
    BY <1>1, <2>1, <2>3 DEF IsConserved
  <2> QED BY <2>4, <2>5 DEF IsConserved
<1>4. \A v \in Users : PortfolioOf(userPortfolios', v) = PortfolioOf(userPortfolios, v)
  BY <1>1, NewPortfolioIsOne, PutPortfolioOf
<1>5. AveragesAreFair'
  BY <1>1, <1>4 DEF ManagerInvariant, AveragesAreFair, FairFor
<1>6. AllBooksBalance'
  BY <1>4 DEF ManagerInvariant, AllBooksBalance
<1> QED BY <1>2, <1>3, <1>5, <1>6 DEF ManagerInvariant

LEMMA ApplyTradeKeeps ==
  ASSUME ManagerInvariant, NEW trade \in TradeTicket, ApplyTrade(trade)
  PROVE  ManagerInvariant'
<1>1. /\ userPortfolios \in Portfolios /\ IsConserved(userPortfolios)
      /\ userPortfolios' = Settled(userPortfolios, trade)
  BY DEF ManagerInvariant, ApplyTrade
<1>2. IsSettleable(trade)
  BY TicketIsSettleable
<1>3. userPortfolios' \in Portfolios
  BY <1>1, <1>2, SettledPortfolios
<1>4. IsConserved(userPortfolios')
  BY <1>1, <1>2, ManagerAssumption, SettledConserves
<1>5. ASSUME NEW u \in Users, NEW s \in Symbols, <<u, s>> \notin shorted'
      PROVE  FairFor(userPortfolios', u, s)
  <2>1. <<u, s>> \notin shorted
    BY <1>5 DEF ApplyTrade
  <2>2. FairFor(userPortfolios, u, s)
    BY <2>1 DEF ManagerInvariant, AveragesAreFair
  <2>3. ASSUME u \in {trade.buyerId, trade.sellerId}, s = trade.symbol,
               userPortfolios'[u].holdings[s].quantity < 0
        PROVE  FALSE
    <3>1. <<u, s>> \in {trade.buyerId, trade.sellerId} \X {trade.symbol}
      BY <2>3
    <3> QED BY <1>5, <2>3, <3>1 DEF ApplyTrade
  <2> QED BY <1>1, <2>2, <2>3, SettledIsFair
<1>6. AllBooksBalance'
  <2>1. \A u \in Users : BooksBalance(PortfolioOf(userPortfolios, u))
    BY DEF ManagerInvariant, AllBooksBalance
  <2>2. \A u \in Users : BooksBalance(PortfolioOf(Settled(userPortfolios, trade), u))
    BY <1>1, <1>2, <2>1, ManagerAssumption, SettledBalances
  <2> QED BY <1>1, <2>2 DEF AllBooksBalance
<1> QED BY <1>3, <1>4, <1>5, <1>6 DEF ManagerInvariant, AveragesAreFair

LEMMA UpdateMarketPricesKeeps ==
  ASSUME ManagerInvariant, NEW prices \in [Symbols -> Prices], UpdateMarketPrices(prices)
  PROVE  ManagerInvariant'
<1> DEFINE marked == [u \in Users |-> IF userPortfolios[u] = NoPortfolio THEN NoPortfolio
                                      ELSE Marked(userPortfolios[u], prices)]
<1>1. /\ userPortfolios \in Portfolios /\ IsConserved(userPortfolios)
      /\ userPortfolios' = marked /\ shorted' = shorted
  BY DEF ManagerInvariant, UpdateMarketPrices
<1>2. prices \in [Symbols -> Int]
  <2>1. Prices \subseteq Int
    BY ManagerAssumption
  <2> QED BY <2>1
<1>3. marked \in Portfolios /\ IsConserved(marked)
  BY <1>1, <1>2, MarkedConserves
<1>4. ASSUME NEW u \in Users, NEW s \in Symbols
      PROVE  LET old == PortfolioOf(userPortfolios, u).holdings[s]
                 new == PortfolioOf(marked, u).holdings[s]
             IN  new.quantity = old.quantity /\ new.averageBuyPrice = old.averageBuyPrice
  <2>1. CASE userPortfolios[u] = NoPortfolio
    <3>1. PortfolioOf(marked, u) = PortfolioOf(userPortfolios, u)
      BY <2>1 DEF PortfolioOf
    <3> QED BY <3>1
  <2>2. CASE userPortfolios[u] # NoPortfolio
    <3>1. userPortfolios[u] \in APortfolio
      BY <1>1, <2>2 DEF Portfolios, MaybePortfolio
    <3>2. Marked(userPortfolios[u], prices) \in APortfolio
      BY <1>2, <3>1, MarkedPortfolio
    <3>3. /\ PortfolioOf(userPortfolios, u) = userPortfolios[u]
          /\ PortfolioOf(marked, u) = Marked(userPortfolios[u], prices)
      BY <2>2, <3>2, PortfolioAssumption DEF PortfolioOf
    <3> HIDE DEF marked
    <3> QED BY <1>2, <3>1, <3>3, MarkedPortfolio
  <2> QED BY <2>1, <2>2
<1>5. ASSUME NEW u \in Users PROVE BooksBalance(PortfolioOf(marked, u))
  <2>1. BooksBalance(PortfolioOf(userPortfolios, u))
    BY DEF ManagerInvariant, AllBooksBalance
  <2>2. CASE userPortfolios[u] = NoPortfolio
    <3>1. PortfolioOf(marked, u) = PortfolioOf(userPortfolios, u)
      BY <2>2 DEF PortfolioOf
    <3> QED BY <2>1, <3>1
  <2>3. CASE userPortfolios[u] # NoPortfolio
    <3>1. userPortfolios[u] \in APortfolio
      BY <1>1, <2>3 DEF Portfolios, MaybePortfolio
    <3>2. Marked(userPortfolios[u], prices) \in APortfolio
      BY <1>2, <3>1, MarkedPortfolio
    <3>3. /\ PortfolioOf(userPortfolios, u) = userPortfolios[u]
          /\ PortfolioOf(marked, u) = Marked(userPortfolios[u], prices)
      BY <2>3, <3>2, PortfolioAssumption DEF PortfolioOf
    <3> HIDE DEF marked
    <3> QED BY <1>2, <2>1, <3>1, <3>3, MarkedBalances
  <2> QED BY <2>2, <2>3
<1> HIDE DEF marked
<1>6. AveragesAreFair'
  BY <1>1, <1>4 DEF ManagerInvariant, AveragesAreFair, FairFor, IsFair
<1>7. AllBooksBalance'
  BY <1>1, <1>5 DEF AllBooksBalance
<1> QED BY <1>1, <1>3, <1>6, <1>7 DEF ManagerInvariant

(* The invariant holds of every portfolio manager that trades among        *)
(* finitely many users at finitely many positive prices and quantities.    *)
THEOREM ManagerIsSound == PortfolioSpec => []ManagerInvariant
<1>1. ASSUME ManagerInvariant, [PortfolioNext]_portfolioVars PROVE ManagerInvariant'
  <2>1. CASE \E u \in Users : InitializeUser(u)
    BY <1>1, <2>1, InitializeUserKeeps
  <2>2. CASE \E trade \in TradeTicket : ApplyTrade(trade)
    BY <1>1, <2>2, ApplyTradeKeeps
  <2>3. CASE \E currentPrices \in [Symbols -> Prices] : UpdateMarketPrices(currentPrices)
    BY <1>1, <2>3, UpdateMarketPricesKeeps
  <2>4. CASE UNCHANGED portfolioVars
    BY <1>1, <2>4 DEF portfolioVars, ManagerInvariant, AveragesAreFair, AllBooksBalance
  <2> QED BY <1>1, <2>1, <2>2, <2>3, <2>4 DEF PortfolioNext
<1> QED BY <1>1, InitManager, PTL DEF PortfolioSpec

(* applyTrade makes and destroys neither cash nor shares.                  *)
THEOREM CashAndSharesAlwaysConserved == PortfolioSpec => []CashAndSharesConserved
<1>1. ASSUME ManagerInvariant PROVE CashAndSharesConserved
  <2>1. userPortfolios \in Portfolios /\ IsConserved(userPortfolios)
    BY <1>1 DEF ManagerInvariant
  <2>2. /\ IsFiniteSet(OpenedIn(userPortfolios))
        /\ CashIn(userPortfolios) \in [OpenedIn(userPortfolios) -> Int]
        /\ Cardinality(OpenedIn(userPortfolios)) \in Nat
    BY <2>1, ManagerAssumption, OpenedPortfolios
  <2>3. PICK f : /\ IsSum(f, CashIn(userPortfolios), OpenedIn(userPortfolios))
                 /\ SumFunction(CashIn(userPortfolios)) = f[OpenedIn(userPortfolios)]
    BY <2>2, SumFacts
  <2>4. f[OpenedIn(userPortfolios)] \in Int
    BY <2>2, <2>3, SumSteps
  <2>5. Cardinality(OpenedIn(userPortfolios)) * StartingBalance \in Int
    BY <2>2, PortfolioAssumption
  <2>6. SumFunction(CashIn(userPortfolios)) =
          Cardinality(OpenedIn(userPortfolios)) * StartingBalance
    BY <2>1, <2>3, <2>4, <2>5 DEF IsConserved, Surplus
  <2>7. \A s \in Symbols : SumFunction(SharesIn(userPortfolios, s)) = 0
    BY <2>1 DEF IsConserved, Position
  <2> QED BY <2>6, <2>7 DEF CashAndSharesConserved, Opened, OpenedIn, CashIn, SharesIn
<1> QED BY <1>1, ManagerIsSound, PTL

(* The average price of shares held lies between the prices paid, unless   *)
(* the user has been short of them.                                        *)
THEOREM AverageIsAlwaysWithinPricesPaid == PortfolioSpec => []AverageIsWithinPricesPaid
<1>1. ASSUME ManagerInvariant PROVE AverageIsWithinPricesPaid
  <2> SUFFICES ASSUME NEW u \in Opened, NEW s \in Symbols, <<u, s>> \notin shorted,
                      userPortfolios[u].holdings[s].quantity > 0
               PROVE  LET average == userPortfolios[u].holdings[s].averageBuyPrice
                      IN  /\ IsFinite(average)
                          /\ AtMost(Whole(Min(Prices)), average)
                          /\ AtMost(average, Whole(Max(Prices)))
    BY DEF AverageIsWithinPricesPaid
  <2> DEFINE average == userPortfolios[u].holdings[s].averageBuyPrice
  <2>1. /\ u \in Users /\ userPortfolios[u] # NoPortfolio
        /\ PortfolioOf(userPortfolios, u) = userPortfolios[u]
    BY DEF Opened, PortfolioOf
  <2>2. userPortfolios[u] \in APortfolio
    BY <1>1, <2>1 DEF ManagerInvariant, Portfolios, MaybePortfolio
  <2>3. average[1] \in Int /\ average[2] \in Int
    BY <2>2 DEF APortfolio, Holding
  <2>4. IsBetween(Min(Prices), average, Max(Prices))
    BY <1>1, <2>1 DEF ManagerInvariant, AveragesAreFair, FairFor, IsFair
  <2> HIDE DEF average
  <2>5. /\ average[2] # 0
        /\ Min(Prices) * average[2] <= average[1] * 1
        /\ average[1] * 1 <= Max(Prices) * average[2]
    BY <2>3, <2>4 DEF IsBetween
  <2> QED BY <2>5 DEF IsFinite, AtMost, Whole, average
<1> QED BY <1>1, ManagerIsSound, PTL

(* Total profit is realized plus unrealized profit, at any market prices,  *)
(* for a portfolio that is not short and whose averages are finite.        *)
THEOREM ProfitIsAlwaysAccountedFor == PortfolioSpec => []ProfitIsAccountedFor
<1>1. ASSUME ManagerInvariant PROVE ProfitIsAccountedFor
  <2> SUFFICES ASSUME NEW u \in Opened,
                      IsLong(userPortfolios[u]), HasFiniteBooks(userPortfolios[u])
               PROVE  TotalPnL(userPortfolios[u]) =
                        Plus(userPortfolios[u].realizedPnL, TotalUnrealizedPnL(userPortfolios[u]))
    BY DEF ProfitIsAccountedFor
  <2>1. u \in Users /\ PortfolioOf(userPortfolios, u) = userPortfolios[u]
    BY DEF Opened, PortfolioOf
  <2>2. userPortfolios[u] \in APortfolio
    BY <1>1 DEF Opened, ManagerInvariant, Portfolios, MaybePortfolio
  <2>3. BooksBalance(userPortfolios[u])
    BY <1>1, <2>1 DEF ManagerInvariant, AllBooksBalance
  <2> QED BY <2>2, <2>3, ManagerAssumption, BalancedProfit
<1> QED BY <1>1, ManagerIsSound, PTL
=============================================================================
