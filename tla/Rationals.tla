------------------------------ MODULE Rationals ------------------------------
(***************************************************************************)
(* Exact fractions, for the doubles of the code whose rounding is not the  *)
(* subject: <<n, d>> in lowest terms with d > 0, and NotFinite for what    *)
(* IEEE 754 makes of a division by zero (an infinity or a NaN; here they   *)
(* are not told apart, and everything computed from one is one).           *)
(***************************************************************************)
EXTENDS Integers, FiniteSetsExt

NotFinite == <<0, 0>>

IsFinite(x) == x[2] # 0

Whole(n) == <<n, 1>>

Magnitude(n) == IF n < 0 THEN -n ELSE n

(* n / d in lowest terms, for a denominator of either sign.  A function of *)
(* the pair, so that TLC computes n and d once.                            *)
LowestTerms ==
  [ratio \in Int \X Int |->
     LET n == ratio[1]
         d == ratio[2]
         sign == IF d < 0 THEN -1 ELSE 1
         common == Max({g \in 1 .. Magnitude(d) : n % g = 0 /\ d % g = 0})
     IN  IF d = 0 THEN NotFinite
         ELSE <<(sign * n) \div common, (sign * d) \div common>>]

Fraction(n, d) == LowestTerms[<<n, d>>]

Plus(x, y)  == Fraction(x[1] * y[2] + y[1] * x[2], x[2] * y[2])
Minus(x, y) == Fraction(x[1] * y[2] - y[1] * x[2], x[2] * y[2])

(* An integer times a fraction, and a fraction divided by an integer.      *)
Times(k, x) == Fraction(k * x[1], x[2])
Over(x, k)  == Fraction(x[1], k * x[2])

AtMost(x, y) == x[1] * y[2] <= y[1] * x[2]
=============================================================================
