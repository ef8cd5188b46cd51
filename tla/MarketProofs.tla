----------------------------- MODULE MarketProofs ------------------------------
(***************************************************************************)
(* Proofs about MarketSimulator: for any stocks, prices, regimes, events   *)
(* and caps, whatever the clock shows.                                     *)
(***************************************************************************)
EXTENDS MarketSimulator, Induction

-----------------------------------------------------------------------------
(* Charts.                                                                 *)

Candles == [timestamp : Int, open : Int, high : Int, low : Int, close : Int]

InRange(candle) ==
  /\ candle.low <= candle.open /\ candle.low <= candle.close
  /\ candle.high >= candle.open /\ candle.high >= candle.close

IsChart(series) ==
  /\ series \in Seq(Candles) /\ Len(series) \in 1 .. MaxCandles
  /\ \A i \in 1 .. Len(series) : InRange(series[i])
  /\ \A i \in 2 .. Len(series) : series[i].timestamp - series[i - 1].timestamp >= 1

LEMMA Caps == MaxCandles \in Nat \ {0} /\ HistoryBars \in 1 .. MaxCandles
  BY MarketAssumption

LEMMA NewCandleInRange ==
  ASSUME NEW now \in Int, NEW price \in Int
  PROVE  /\ NewCandle(now, price) \in Candles /\ InRange(NewCandle(now, price))
         /\ NewCandle(now, price).timestamp = now /\ NewCandle(now, price).close = price
  BY DEF NewCandle, Candles, InRange

(* The chart that a tick leaves: the price is its last close, and what the *)
(* chart showed before stays.                                              *)
LEMMA ChartKept ==
  ASSUME NEW old, IsChart(old), NEW now \in Int, NEW price \in Int
  PROVE  LET new == CandlesAfter(old, now, price)
         IN  IsChart(new) /\ new[Len(new)].close = price /\ PastStays(old, new)
<1> DEFINE new == CandlesAfter(old, now, price)
           n   == Len(old)
           candle == NewCandle(now, price)
<1>1. /\ old \in Seq(Candles) /\ n \in Nat /\ n >= 1 /\ n <= MaxCandles
      /\ old # <<>> /\ Last(old) = old[n] /\ old[n] \in Candles
  BY Caps DEF IsChart, Last
<1>2. CASE now - Last(old).timestamp > 1
  <2>1. new = Trimmed(Append(old, candle))
    BY <1>2 DEF CandlesAfter
  <2>2. /\ candle \in Candles /\ InRange(candle) /\ candle.timestamp = now /\ candle.close = price
    BY NewCandleInRange
  <2> HIDE DEF new, candle
  <2> DEFINE longer == Append(old, candle)
  <2>3. /\ longer \in Seq(Candles) /\ Len(longer) = n + 1
        /\ \A i \in 1 .. n : longer[i] = old[i]
        /\ longer[n + 1] = candle
    BY <1>1, <2>2
  <2>4. now - old[n].timestamp > 1 /\ old[n].timestamp \in Int
    BY <1>1, <1>2 DEF Candles
  <2> HIDE DEF longer
  <2>5. \A i \in 1 .. n + 1 : InRange(longer[i])
    BY <2>2, <2>3 DEF IsChart
  <2>6. ASSUME NEW i \in 2 .. n + 1
        PROVE  longer[i].timestamp - longer[i - 1].timestamp >= 1
    <3>1. CASE i = n + 1
      BY <1>1, <2>2, <2>3, <2>4, <3>1
    <3>2. CASE i \in 2 .. n
      <4>1. i - 1 \in 1 .. n /\ i \in 1 .. n
        BY <1>1, <3>2
      <4>2. old[i].timestamp - old[i - 1].timestamp >= 1
        BY <3>2 DEF IsChart
      <4> QED BY <2>3, <4>1, <4>2
    <3> QED BY <1>1, <3>1, <3>2
  <2>7. CASE n < MaxCandles
    <3>1. new = longer /\ Len(new) = n + 1
      BY <1>1, <2>1, <2>3, <2>7, Caps DEF Trimmed, longer
    <3>2. IsChart(new) /\ new[Len(new)].close = price
      BY <1>1, <2>2, <2>3, <2>5, <2>6, <2>7, <3>1, Caps DEF IsChart
    <3>3. PastStays(old, new)
      BY <1>1, <2>2, <2>3, <2>4, <2>7, <3>1, Caps DEF PastStays, Last
    <3> QED BY <3>2, <3>3 DEF new
  <2>8. CASE n = MaxCandles
    <3>1. new = Tail(longer)
      BY <1>1, <2>1, <2>3, <2>8, Caps DEF Trimmed, longer
    <3>2. /\ new \in Seq(Candles) /\ Len(new) = n
          /\ \A i \in 1 .. n : new[i] = longer[i + 1]
      BY <1>1, <2>3, <3>1
    <3>3. /\ \A i \in 1 .. n : InRange(new[i])
          /\ \A i \in 2 .. n : new[i].timestamp - new[i - 1].timestamp >= 1
      <4>1. ASSUME NEW i \in 1 .. n PROVE i + 1 \in 2 .. n + 1 /\ i + 1 \in 1 .. n + 1
        BY <1>1
      <4>2. ASSUME NEW i \in 2 .. n
            PROVE  new[i] = longer[i + 1] /\ new[i - 1] = longer[(i + 1) - 1]
        BY <1>1, <3>2
      <4>3. \A i \in 2 .. n : i \in 1 .. n
        BY <1>1
      <4> QED BY <2>5, <2>6, <3>2, <4>1, <4>2, <4>3
    <3>4. new[n] = candle
      BY <1>1, <2>3, <3>2
    <3>5. IsChart(new) /\ new[Len(new)].close = price
      BY <1>1, <2>2, <2>8, <3>2, <3>3, <3>4, Caps DEF IsChart
    <3>6. \A i \in 2 .. n : new[i - 1] = old[i]
      BY <1>1, <2>3, <3>2
    <3>7. Last(new).timestamp # Last(old).timestamp
      BY <1>1, <2>2, <2>4, <3>2, <3>4 DEF Last
    <3>8. PastStays(old, new)
      BY <1>1, <2>8, <3>2, <3>6, <3>7 DEF PastStays
    <3> QED BY <3>5, <3>8 DEF new
  <2> QED BY <1>1, <2>7, <2>8, Caps
<1>3. CASE ~(now - Last(old).timestamp > 1)
  <2> DEFINE last == Last(old)
             moved == [last EXCEPT !.high = Larger(last.high, price),
                                   !.low = Smaller(last.low, price), !.close = price]
  <2>1. new = [old EXCEPT ![n] = moved]
    <3>1. ~(old = <<>> \/ now - Last(old).timestamp > 1)
      BY <1>1, <1>3
    <3> QED BY <3>1, Zenon DEF CandlesAfter
  <2>2. InRange(last)
    BY <1>1 DEF IsChart
  <2>3. /\ moved \in Candles /\ InRange(moved) /\ moved.timestamp = last.timestamp
        /\ moved.open = last.open /\ moved.close = price
        /\ moved.high >= last.high /\ moved.low <= last.low
    <3>1. last \in Candles
      BY <1>1
    <3>2. /\ last.timestamp \in Int /\ last.open \in Int /\ last.high \in Int
          /\ last.low \in Int /\ last.close \in Int
      BY <3>1 DEF Candles
    <3>3. DOMAIN last = {"timestamp", "open", "high", "low", "close"}
      BY <3>1 DEF Candles
    <3>4. /\ Larger(last.high, price) \in Int /\ Smaller(last.low, price) \in Int
          /\ Larger(last.high, price) >= last.high /\ Larger(last.high, price) >= price
          /\ Smaller(last.low, price) <= last.low /\ Smaller(last.low, price) <= price
      BY <3>2 DEF Larger, Smaller
    <3>5. /\ moved.timestamp = last.timestamp /\ moved.open = last.open
          /\ moved.high = Larger(last.high, price) /\ moved.low = Smaller(last.low, price)
          /\ moved.close = price
      BY <3>3, Zenon
    <3>6. moved \in Candles
      BY <3>1, <3>4 DEF Candles
    <3> HIDE DEF moved, last
    <3> QED BY <2>2, <3>2, <3>4, <3>5, <3>6 DEF InRange
  <2> HIDE DEF new, moved
  <2>4. /\ new \in Seq(Candles) /\ Len(new) = n
        /\ \A i \in 1 .. n : new[i] = IF i = n THEN moved ELSE old[i]
    BY <1>1, <2>1, <2>3
  <2>5. IsChart(new) /\ new[Len(new)].close = price
    BY <1>1, <2>3, <2>4 DEF IsChart
  <2>6. Last(new) = moved /\ new[n] = moved
    BY <1>1, <2>4 DEF Last
  <2>7. PastStays(old, new)
    BY <1>1, <2>3, <2>4, <2>6 DEF PastStays
  <2> QED BY <2>5, <2>7 DEF new
<1> QED BY <1>2, <1>3

-----------------------------------------------------------------------------
(* The levels of the market maker.                                         *)

LevelsAreApart(p, levels) ==
  /\ \A i, j \in 1 .. 5 :
       /\ levels[i].bid <= p /\ p <= levels[j].ask
       /\ i < j => levels[i].bid >= levels[j].bid /\ levels[i].ask <= levels[j].ask
  /\ p > 250 => levels[1].bid < p /\ p < levels[1].ask

(* Half a cent is not rounded across the price, and rounding keeps order.  *)
LEMMA SeedLevelsAreApart ==
  ASSUME NEW p \in Nat
  PROVE  LevelsAreApart(p, SeedLevels(p))
<1>1. \A x, y \in Int : x <= y => Rounded(x) <= Rounded(y)
  BY DEF Rounded
<1>2. Rounded(p * 1000) = p
  BY DEF Rounded
<1>3. \A i, j \in 1 .. 5 :
        /\ p * (1000 - 2 * i) \in Int /\ p * (1000 + 2 * j) \in Int
        /\ p * (1000 - 2 * i) <= p * 1000 /\ p * 1000 <= p * (1000 + 2 * j)
        /\ i < j => /\ p * (1000 - 2 * j) <= p * (1000 - 2 * i)
                    /\ p * (1000 + 2 * i) <= p * (1000 + 2 * j)
  <2>1. 1 .. 5 = {1, 2, 3, 4, 5}
    OBVIOUS
  <2> QED BY <2>1
<1>4. p > 250 => Rounded(p * 998) < p /\ p < Rounded(p * 1002)
  BY DEF Rounded
<1>5. \A i \in 1 .. 5 : /\ SeedLevels(p)[i].bid = Rounded(p * (1000 - 2 * i))
                        /\ SeedLevels(p)[i].ask = Rounded(p * (1000 + 2 * i))
  BY DEF SeedLevels
<1>6. \A i, j \in 1 .. 5 :
        /\ SeedLevels(p)[i].bid <= p /\ p <= SeedLevels(p)[j].ask
        /\ i < j => /\ SeedLevels(p)[i].bid >= SeedLevels(p)[j].bid
                    /\ SeedLevels(p)[i].ask <= SeedLevels(p)[j].ask
  BY <1>1, <1>2, <1>3, <1>5
<1>7. SeedLevels(p)[1].bid = Rounded(p * 998) /\ SeedLevels(p)[1].ask = Rounded(p * 1002)
  BY <1>5
<1> HIDE DEF SeedLevels
<1> QED BY <1>4, <1>6, <1>7 DEF LevelsAreApart

-----------------------------------------------------------------------------
(* Sums of shocks.                                                         *)

Reached == UNION {DOMAIN ShocksFrom(e, b) : e \in Epicentres, b \in BaseImpacts}

Events == [eventId : Int, epicentreNode : Epicentres, baseImpact : BaseImpacts,
           affectedSymbols : SUBSET Reached]

LEMMA ImpactIsInt ==
  ASSUME NEW evt \in Events, NEW v
  PROVE  ImpactOn(v, evt) \in Int
<1>1. evt.epicentreNode \in Epicentres /\ evt.baseImpact \in BaseImpacts
  BY DEF Events
<1>2. \A w \in DOMAIN ImpactsOf(evt) : ImpactsOf(evt)[w] \in Int
  BY <1>1, EventAssumption DEF ImpactsOf
<1> QED BY <1>2 DEF ImpactOn

ImpactsOn(v, events, n) == [k \in 1 .. n |-> ImpactOn(v, events[k])]

LEMMA ShockOnIsTotal ==
  ASSUME NEW v, NEW events, NEW n \in Nat, \A k \in 1 .. n : events[k] \in Events
  PROVE  \E f : /\ IsTotal(f, n, ImpactsOn(v, events, n)) /\ \A k \in 0 .. n : f[k] \in Int
               /\ ShockOn(v, events, n) = f[n]
<1> DEFINE q == ImpactsOn(v, events, n)
           Sums(f) == f = [k \in 0 .. n |->
                             IF k = 0 THEN 0 ELSE f[k - 1] + ImpactOn(v, events[k])]
           Sum == CHOOSE f : Sums(f)
<1>1. \A k \in 1 .. n : q[k] = ImpactOn(v, events[k]) /\ q[k] \in Int
  BY ImpactIsInt DEF ImpactsOn
<1>2. ASSUME NEW f PROVE Sums(f) <=> IsTotal(f, n, q)
  <2> HIDE DEF q
  <2>1. [k \in 0 .. n |-> IF k = 0 THEN 0 ELSE f[k - 1] + ImpactOn(v, events[k])]
          = [k \in 0 .. n |-> IF k = 0 THEN 0 ELSE f[k - 1] + q[k]]
    BY <1>1
  <2> QED BY <2>1 DEF IsTotal
<1> HIDE DEF q
<1>3. PICK f : IsTotal(f, n, q) /\ \A k \in 0 .. n : f[k] \in Int
  BY <1>1, TotalExists
<1>4. ShockOn(v, events, n) = Sum[n]
  BY DEF ShockOn
<1>5. Sums(f)
  BY <1>2, <1>3
<1>6. Sums(Sum)
  <2> HIDE DEF Sums
  <2> QED BY <1>5
<1> HIDE DEF Sum, Sums
<1>7. IsTotal(Sum, n, q)
  BY <1>2, <1>6
<1>8. Sum[n] = f[n]
  BY <1>3, <1>7, TotalIsUnique
<1> QED BY <1>3, <1>4, <1>8 DEF q

(* Later events do not change what the earlier ones have added.            *)
LEMMA ShockOnPrefix ==
  ASSUME NEW v, NEW events, NEW more, NEW n \in Nat,
         \A k \in 1 .. n : events[k] \in Events /\ more[k] = events[k]
  PROVE  ShockOn(v, more, n) = ShockOn(v, events, n)
<1>1. PICK f : /\ IsTotal(f, n, ImpactsOn(v, events, n))
               /\ ShockOn(v, events, n) = f[n]
  BY ShockOnIsTotal
<1>2. PICK g : /\ IsTotal(g, n, ImpactsOn(v, more, n))
               /\ ShockOn(v, more, n) = g[n]
  BY ShockOnIsTotal
<1>3. ImpactsOn(v, more, n) = ImpactsOn(v, events, n)
  BY DEF ImpactsOn
<1>4. f[n] = g[n]
  BY <1>1, <1>2, <1>3, TotalIsUnique
<1> QED BY <1>1, <1>2, <1>4

LEMMA NoShock ==
  ASSUME NEW v, NEW events, NEW n \in Nat,
         \A k \in 1 .. n : events[k] \in Events /\ ImpactOn(v, events[k]) = 0
  PROVE  ShockOn(v, events, n) = 0
<1> DEFINE g == [k \in 0 .. n |-> 0]
           q == ImpactsOn(v, events, n)
<1>1. PICK f : IsTotal(f, n, q) /\ ShockOn(v, events, n) = f[n]
  BY ShockOnIsTotal
<1>2. \A k \in 1 .. n : q[k] = 0
  BY DEF ImpactsOn
<1>3. IsTotal(g, n, q)
  <2> HIDE DEF q
  <2>1. g = [k \in 0 .. n |-> IF k = 0 THEN 0 ELSE g[k - 1] + q[k]]
    BY <1>2
  <2> QED BY <2>1 DEF IsTotal
<1>4. g[n] = 0
  OBVIOUS
<1> HIDE DEF g, q
<1>5. g[n] = f[n]
  BY <1>1, <1>3, TotalIsUnique
<1> QED BY <1>1, <1>4, <1>5

Drift(drift, v) == IF v \in DOMAIN drift THEN drift[v] ELSE 0

MovedBy(before, evt) ==
  [v \in DOMAIN before \cup DOMAIN ImpactsOf(evt) |->
     (IF v \in DOMAIN before THEN before[v] ELSE 0) + ImpactOn(v, evt)]

IsCumulative(f, n, events) ==
  f = [k \in 0 .. n |-> IF k = 0 THEN <<>> ELSE MovedBy(f[k - 1], events[k])]

LEMMA CumulativeExists ==
  ASSUME NEW events, NEW n \in Nat
  PROVE  \E f : IsCumulative(f, n, events)
<1> DEFINE P == {m \in Nat : \E f : IsCumulative(f, m, events)}
<1>1. 0 \in P
  <2> DEFINE f == [k \in 0 .. 0 |-> <<>>]
  <2>1. IsCumulative(f, 0, events)
    BY DEF IsCumulative
  <2> QED BY <2>1
<1>2. ASSUME NEW m \in Nat, m \in P PROVE m + 1 \in P
  <2>1. PICK g : IsCumulative(g, m, events)
    BY <1>2
  <2> DEFINE last == MovedBy(g[m], events[m + 1])
             f == [k \in 0 .. m + 1 |-> IF k = m + 1 THEN last ELSE g[k]]
  <2>2. \A k \in 0 .. m : g[k] = IF k = 0 THEN <<>> ELSE MovedBy(g[k - 1], events[k])
    BY <2>1 DEF IsCumulative
  <2>3. \A k \in 0 .. m + 1 : f[k] = IF k = 0 THEN <<>> ELSE MovedBy(f[k - 1], events[k])
    BY <2>2
  <2>4. IsCumulative(f, m + 1, events)
    BY <2>3 DEF IsCumulative
  <2> QED BY <2>4
<1> HIDE DEF P
<1>3. n \in P
  BY <1>1, <1>2, NatInductionOnSet
<1> QED BY <1>3 DEF P

(* calculateTotalShockDrifts gives a name the sum of the impacts on it.    *)
LEMMA TotalShockIsSum ==
  ASSUME NEW events \in Seq(Events), NEW v
  PROVE  /\ Drift(TotalShockDrifts(events), v) = ShockOn(v, events, Len(events))
         /\ ShockOn(v, events, Len(events)) \in Int
<1> DEFINE n == Len(events)
           Sums(f) == f = [k \in 0 .. n |->
             IF k = 0 THEN <<>>
             ELSE LET before == f[k - 1]
                  IN  [w \in DOMAIN before \cup DOMAIN ImpactsOf(events[k]) |->
                         (IF w \in DOMAIN before THEN before[w] ELSE 0) + ImpactOn(w, events[k])]]
           Sum == CHOOSE f : Sums(f)
<1>1. n \in Nat /\ \A k \in 1 .. n : events[k] \in Events
  OBVIOUS
<1>2. ASSUME NEW f PROVE Sums(f) <=> IsCumulative(f, n, events)
  BY DEF IsCumulative, MovedBy
<1>3. TotalShockDrifts(events) = Sum[n]
  BY DEF TotalShockDrifts
<1> HIDE DEF Sums, n
<1>4. IsCumulative(Sum, n, events)
  BY <1>1, <1>2, CumulativeExists
<1> HIDE DEF Sum
<1>5. PICK g : /\ IsTotal(g, n, ImpactsOn(v, events, n)) /\ \A k \in 0 .. n : g[k] \in Int
               /\ ShockOn(v, events, n) = g[n]
  BY <1>1, ShockOnIsTotal
<1> DEFINE P == {k \in Nat : k <= n => Drift(Sum[k], v) = g[k]}
<1>6. Sum[0] = <<>> /\ \A k \in 1 .. n : Sum[k] = MovedBy(Sum[k - 1], events[k])
  BY <1>1, <1>4 DEF IsCumulative
<1>7. g[0] = 0 /\ \A k \in 1 .. n : g[k] = g[k - 1] + ImpactOn(v, events[k])
  <2>1. g[0] = 0 /\ \A k \in 1 .. n : g[k] = g[k - 1] + ImpactsOn(v, events, n)[k]
    BY <1>1, <1>5, TotalSteps
  <2> QED BY <2>1 DEF ImpactsOn
<1>8. 0 \in P
  <2>1. DOMAIN <<>> = {}
    OBVIOUS
  <2> QED BY <1>6, <1>7, <2>1 DEF Drift
<1>9. ASSUME NEW k \in Nat, k \in P PROVE k + 1 \in P
  <2> SUFFICES ASSUME k + 1 <= n PROVE Drift(Sum[k + 1], v) = g[k + 1]
    OBVIOUS
  <2>1. Drift(Sum[k], v) = g[k] /\ g[k] \in Int
    BY <1>1, <1>5, <1>9
  <2>2. /\ Sum[k + 1] = MovedBy(Sum[k], events[k + 1])
        /\ g[k + 1] = g[k] + ImpactOn(v, events[k + 1])
    BY <1>1, <1>6, <1>7
  <2>3. Drift(MovedBy(Sum[k], events[k + 1]), v) = Drift(Sum[k], v) + ImpactOn(v, events[k + 1])
    <3>1. CASE v \in DOMAIN Sum[k] \cup DOMAIN ImpactsOf(events[k + 1])
      BY <3>1 DEF Drift, MovedBy
    <3>2. CASE v \notin DOMAIN Sum[k] \cup DOMAIN ImpactsOf(events[k + 1])
      <4>1. ImpactOn(v, events[k + 1]) = 0
        BY <3>2 DEF ImpactOn
      <4> QED BY <3>2, <4>1 DEF Drift, MovedBy
    <3> QED BY <3>1, <3>2
  <2> QED BY <2>1, <2>2, <2>3
<1> HIDE DEF P
<1>10. n \in P
  BY <1>1, <1>8, <1>9, NatInductionOnSet
<1>11. Drift(Sum[n], v) = g[n] /\ g[n] \in Int
  BY <1>1, <1>5, <1>10 DEF P
<1> QED BY <1>3, <1>5, <1>11 DEF n

-----------------------------------------------------------------------------
(* The inductive invariant.                                                *)

StockRows == [currentPrice : Nat, highPrice : Nat, lowPrice : Nat, volume : Nat]

(* The local variables of tick, before its first stock and in or after it. *)
TickJobs ==
  [kind : {"tick"}, now : Int, left : SUBSET Symbols, drift : [Symbols -> Int]]
BusyTickJobs ==
  [kind : {"tick"}, now : Int, left : SUBSET Symbols, drift : [Symbols -> Int],
   symbol : Symbols]

(* Those of getAllStocks, and of the quote of one stock.                   *)
IsListJob(j) == \E copied : j \in [kind : {"list"}, copied : {copied}]

IsQuoteJob(j) ==
  \E quote : j \in [kind : {"quote"}, symbol : Symbols, read : 0 .. 5, quote : {quote},
                    overtaken : BOOLEAN]

BusyPlaces == {"high", "low", "volume", "candle"}

Ticking(t) == pc[t] = "price" \/ pc[t] \in BusyPlaces

ThreadOK(t) ==
  \/ pc[t] = "idle" /\ job[t] = NoJob
  \/ pc[t] = "price" /\ job[t] \in TickJobs \cup BusyTickJobs
  \/ pc[t] \in BusyPlaces /\ job[t] \in BusyTickJobs /\ job[t].symbol \notin job[t].left
  \/ t = Handler /\ pc[t] \in {"copy", "answer"} /\ IsListJob(job[t])
  \/ t = Handler /\ pc[t] = "read" /\ IsQuoteJob(job[t]) /\ job[t].read < 5
  \/ t = Handler /\ pc[t] = "answer" /\ IsQuoteJob(job[t]) /\ job[t].read = 5

LockOK ==
  /\ simMutex \in Threads \cup {NoThread}
  /\ \A t \in Threads : ThreadOK(t) /\ ((Ticking(t) \/ pc[t] = "copy") <=> simMutex = t)

MarketTypeOK ==
  /\ activeEvents = eventHistory /\ eventHistory \in Seq(Events) /\ eventIdCounter \in Int
  /\ stocks \in [Symbols -> StockRows] /\ candles \in [Symbols -> Seq(Candles)]
  /\ currentRegime \in DOMAIN Regimes
  /\ DOMAIN seeded = Symbols /\ drifts \in [Symbols -> Int]
  /\ pc \in [Threads -> {"idle", "price", "copy", "read", "answer"} \cup BusyPlaces]
  /\ DOMAIN job = Threads

(* What a tick may have left undone of a stock.                            *)
At(s, places) == \E t \in Threads : pc[t] \in places /\ job[t].symbol = s

StockOK(s) ==
  LET stock == stocks[s]
  IN  /\ stock.currentPrice \in Prices[s] /\ IsChart(candles[s])
      /\ ~At(s, {"high"}) => stock.currentPrice <= stock.highPrice
      /\ ~At(s, {"high", "low"}) => stock.lowPrice <= stock.currentPrice
      /\ ~At(s, BusyPlaces) =>
           /\ seeded[s] = SeedLevels(stock.currentPrice)
           /\ stock.volume > 0 => Last(candles[s]).close = stock.currentPrice

(* Between two ticks every stock has been through the same number of them, *)
(* and in a tick those that are left have been through one less.           *)
VolumesAre(v) ==
  /\ (\A t \in Threads : ~Ticking(t)) => \A s \in Symbols : stocks[s].volume = v
  /\ \A t \in Threads : Ticking(t) =>
       /\ v < MaxTicks
       /\ \A s \in Symbols :
            stocks[s].volume =
              IF s \in job[t].left \/ (pc[t] \in {"high", "low", "volume"} /\ s = job[t].symbol)
              THEN v ELSE v + 1

VolumesOK == \E v \in 0 .. MaxTicks : VolumesAre(v)

MovedIn(history, drift) ==
  \E n \in 0 .. Len(history), r \in DOMAIN Regimes :
    \A s \in Symbols : drift[s] = Regimes[r] + ShockOn(s, history, n)

OneMarketMoved(drift) == MovedIn(eventHistory, drift)

DriftsOK ==
  /\ \A t \in Threads : Ticking(t) =>
       /\ OneMarketMoved(job[t].drift)
       /\ \A s \in Symbols \ job[t].left : drifts[s] = job[t].drift[s]
  /\ (\A t \in Threads : ~Ticking(t)) /\ (\A s \in Symbols : stocks[s].volume > 0) =>
       OneMarketMoved(drifts)

FieldOf(s, field) ==
  IF field = "change" THEN stocks[s].currentPrice ELSE stocks[s][field]

ListIsConsistent(shown) ==
  \A r, s \in Symbols :
    /\ shown[r].volume = shown[s].volume
    /\ shown[s].lowPrice <= shown[s].currentPrice
    /\ shown[s].currentPrice <= shown[s].highPrice

(* What has been read is what there is to read while no tick comes in      *)
(* between.                                                                *)
AnswersOK ==
  /\ pc[Handler] = "copy" =>
       \A s \in DOMAIN job[Handler].copied : job[Handler].copied[s] = stocks[s]
  /\ job[Handler].kind = "quote" /\ ~job[Handler].overtaken =>
       /\ ~Ticking(Ticker)
       /\ \A i \in 1 .. job[Handler].read :
            /\ Fields[i] \in DOMAIN job[Handler].quote
            /\ job[Handler].quote[Fields[i]] = FieldOf(job[Handler].symbol, Fields[i])
  /\ pc[Handler] = "answer" /\ job[Handler].kind = "list" => ListIsConsistent(job[Handler].copied)

MarketInv ==
  /\ MarketTypeOK /\ LockOK /\ (\A s \in Symbols : StockOK(s))
  /\ VolumesOK /\ DriftsOK /\ AnswersOK

-----------------------------------------------------------------------------
(* The steps keep it, one part after the other.                            *)

LEMMA ThreadsAreTwo ==
  /\ Ticker \in Threads /\ Handler \in Threads /\ Ticker # Handler
  /\ \A t \in Threads : t # NoThread
  /\ \A t \in Threads : t = Ticker \/ t = Handler
  BY MarketAssumption DEF Threads

LEMMA OneTicks ==
  ASSUME LockOK, NEW t \in Threads, Ticking(t), NEW u \in Threads, u # t
  PROVE  ~Ticking(u) /\ pc[u] # "copy" /\ simMutex = t
  BY ThreadsAreTwo DEF LockOK

LEMMA NoneTicks ==
  ASSUME LockOK, simMutex = NoThread, NEW u \in Threads
  PROVE  ~Ticking(u) /\ pc[u] # "copy"
  BY ThreadsAreTwo DEF LockOK

(* What a thread at a place has for local variables.                       *)
LEMMA JobAt ==
  ASSUME LockOK, NEW t \in Threads
  PROVE  /\ pc[t] = "idle" => job[t] = NoJob
         /\ pc[t] = "price" => job[t] \in TickJobs \cup BusyTickJobs
         /\ pc[t] \in BusyPlaces => job[t] \in BusyTickJobs /\ job[t].symbol \notin job[t].left
         /\ pc[t] = "copy" => t = Handler /\ IsListJob(job[t])
         /\ pc[t] = "read" => t = Handler /\ IsQuoteJob(job[t]) /\ job[t].read < 5
         /\ pc[t] = "answer" => /\ t = Handler
                                /\ IsListJob(job[t]) \/ (IsQuoteJob(job[t]) /\ job[t].read = 5)
  BY DEF LockOK, ThreadOK, BusyPlaces

LEMMA BusyJobFields ==
  ASSUME NEW j \in BusyTickJobs
  PROVE  /\ j.kind = "tick" /\ j.now \in Int /\ j.left \subseteq Symbols
         /\ j.drift \in [Symbols -> Int] /\ j.symbol \in Symbols
  BY DEF BusyTickJobs

LEMMA TickJobFields ==
  ASSUME NEW j \in TickJobs \cup BusyTickJobs
  PROVE  /\ j.kind = "tick" /\ j.now \in Int /\ j.left \subseteq Symbols
         /\ j.drift \in [Symbols -> Int]
  BY DEF TickJobs, BusyTickJobs

LEMMA KindOfJob ==
  /\ NoJob.kind = "none"
  /\ \A j : IsListJob(j) => j.kind = "list"
  /\ \A j : IsQuoteJob(j) => /\ j.kind = "quote" /\ j.symbol \in Symbols /\ j.read \in 0 .. 5
                              /\ j.overtaken \in BOOLEAN
  BY DEF NoJob, IsListJob, IsQuoteJob

(* The steps that are not a tick's leave what ticks have done.             *)
TicksStay ==
  /\ UNCHANGED <<stocks, candles, seeded, drifts>>
  /\ \A t \in Threads : Ticking(t) \/ Ticking(t)' => pc'[t] = pc[t] /\ job'[t] = job[t]

LEMMA TicksStayKeeps ==
  ASSUME TicksStay, LockOK
  PROVE  /\ (\A s \in Symbols : StockOK(s)) => \A s \in Symbols : StockOK(s)'
         /\ VolumesOK => VolumesOK'
         /\ DriftsOK /\ eventHistory' = eventHistory => DriftsOK'
<1>1. \A t \in Threads : Ticking(t)' <=> Ticking(t)
  BY DEF TicksStay, Ticking
<1>2. \A s, places : places \subseteq BusyPlaces => (At(s, places)' <=> At(s, places))
  BY DEF At, TicksStay, Ticking
<1>3. {"high"} \subseteq BusyPlaces /\ {"high", "low"} \subseteq BusyPlaces
  BY DEF BusyPlaces
<1>4. ASSUME NEW s \in Symbols, StockOK(s) PROVE StockOK(s)'
  BY <1>2, <1>3, <1>4 DEF StockOK, TicksStay
<1>5. ASSUME VolumesOK PROVE VolumesOK'
  <2>1. PICK v \in 0 .. MaxTicks : VolumesAre(v)
    BY <1>5 DEF VolumesOK
  <2>2. VolumesAre(v)'
    BY <1>1, <2>1 DEF VolumesAre, TicksStay
  <2> QED BY <2>2 DEF VolumesOK
<1>6. ASSUME DriftsOK, eventHistory' = eventHistory PROVE DriftsOK'
  <2>1. \A drift : OneMarketMoved(drift)' <=> OneMarketMoved(drift)
    BY <1>6 DEF OneMarketMoved
  <2>2. drifts' = drifts /\ stocks' = stocks
    BY DEF TicksStay
  <2> QED BY <1>1, <1>6, <2>1, <2>2 DEF DriftsOK, TicksStay
<1> QED BY <1>4, <1>5, <1>6

-----------------------------------------------------------------------------
(* Types, and who holds simMutex.                                          *)

CoreOK == MarketTypeOK /\ LockOK

LEMMA JobMoves ==
  ASSUME LockOK, MarketTypeOK, NEW t \in Threads,
         DOMAIN job' = Threads,
         pc' \in [Threads -> {"idle", "price", "copy", "read", "answer"} \cup BusyPlaces],
         \A u \in Threads \ {t} : pc'[u] = pc[u] /\ job'[u] = job[u],
         ThreadOK(t)',
         simMutex' \in Threads \cup {NoThread},
         (Ticking(t)' \/ pc'[t] = "copy") <=> simMutex' = t,
         simMutex' \in {simMutex, t} \/ (simMutex = t /\ simMutex' = NoThread),
         simMutex' = simMutex \/ simMutex \in {t, NoThread}
  PROVE  LockOK'
<1> SUFFICES ASSUME NEW u \in Threads
             PROVE  ThreadOK(u)' /\ ((Ticking(u)' \/ pc'[u] = "copy") <=> simMutex' = u)
  BY DEF LockOK
<1>1. CASE u = t
  BY <1>1
<1>2. CASE u # t
  <2>1. pc'[u] = pc[u] /\ job'[u] = job[u]
    BY <1>2
  <2>2. ThreadOK(u) /\ ((Ticking(u) \/ pc[u] = "copy") <=> simMutex = u)
    BY DEF LockOK
  <2>3. ThreadOK(u)' /\ (Ticking(u)' <=> Ticking(u))
    BY <2>1, <2>2 DEF ThreadOK, Ticking
  <2>4. simMutex' = u <=> simMutex = u
    BY <1>2, ThreadsAreTwo
  <2> QED BY <2>1, <2>2, <2>3, <2>4
<1> QED BY <1>1, <1>2

LEMMA BeginTickKeepsCore ==
  ASSUME CoreOK, NEW t \in Threads, BeginTick(t) PROVE CoreOK'
<1>1. PICK now \in Clock, shockDrifts \in {CalculateTotalShockDrifts} :
        Begin(t, [kind |-> "tick", now |-> now, left |-> Symbols,
                  drift |-> [s \in Symbols |-> DriftOf(s, shockDrifts)]])
  BY DEF BeginTick
<1> DEFINE work == [kind |-> "tick", now |-> now, left |-> Symbols,
                    drift |-> [s \in Symbols |-> DriftOf(s, shockDrifts)]]
<1>2. \A s \in Symbols : DriftOf(s, shockDrifts) \in Int
  <2> SUFFICES ASSUME NEW s \in Symbols PROVE DriftOf(s, shockDrifts) \in Int
    OBVIOUS
  <2>1. Drift(shockDrifts, s) \in Int
    BY TotalShockIsSum DEF CoreOK, MarketTypeOK, CalculateTotalShockDrifts
  <2>2. Regimes[currentRegime] \in Int
    BY MarketAssumption DEF CoreOK, MarketTypeOK
  <2> QED BY <2>1, <2>2 DEF DriftOf, Drift
<1>3. work \in TickJobs
  <2>1. now \in Int
    BY MarketAssumption
  <2> QED BY <1>2, <2>1 DEF TickJobs
<1> HIDE DEF work
<1>4. /\ DOMAIN job' = Threads /\ job'[t] = work /\ pc'[t] = "price" /\ simMutex' = t
      /\ simMutex = NoThread /\ UNCHANGED <<eventVars, market>>
      /\ pc' \in [Threads -> {"idle", "price", "copy", "read", "answer"} \cup BusyPlaces]
      /\ \A u \in Threads \ {t} : pc'[u] = pc[u]
      /\ \A u \in Threads \ {t} :
           job'[u] = IF job[u].kind = "quote" THEN [job[u] EXCEPT !.overtaken = TRUE] ELSE job[u]
  BY <1>1 DEF BeginTick, Begin, GoTo, CoreOK, MarketTypeOK, work
<1>5. MarketTypeOK'
  BY <1>4 DEF CoreOK, MarketTypeOK, eventVars, market
<1>6. ASSUME NEW u \in Threads \ {t} PROVE ThreadOK(u)' /\ ~Ticking(u)' /\ pc'[u] # "copy"
  <2>1. ThreadOK(u) /\ ~Ticking(u) /\ pc[u] # "copy"
    BY <1>4, NoneTicks DEF CoreOK, LockOK
  <2>2. IsListJob(job[u]) => IsListJob(job'[u])
    BY <1>4, KindOfJob
  <2>3. job[u] = NoJob => job'[u] = NoJob
    BY <1>4, KindOfJob
  <2>4. IsQuoteJob(job[u]) => IsQuoteJob(job'[u]) /\ job'[u].read = job[u].read
    <3> SUFFICES ASSUME IsQuoteJob(job[u])
                 PROVE  IsQuoteJob(job'[u]) /\ job'[u].read = job[u].read
      OBVIOUS
    <3>1. PICK q : job[u] \in [kind : {"quote"}, symbol : Symbols, read : 0 .. 5,
                               quote : {q}, overtaken : BOOLEAN]
      BY DEF IsQuoteJob
    <3>2. job'[u] = [job[u] EXCEPT !.overtaken = TRUE]
      BY <1>4, KindOfJob
    <3>3. /\ job'[u] \in [kind : {"quote"}, symbol : Symbols, read : 0 .. 5,
                          quote : {q}, overtaken : BOOLEAN]
          /\ job'[u].read = job[u].read
      BY <3>1, <3>2
    <3> QED BY <3>3 DEF IsQuoteJob
  <2> QED BY <1>4, <2>1, <2>2, <2>3, <2>4 DEF ThreadOK, Ticking
<1>7. ThreadOK(t)' /\ Ticking(t)'
  BY <1>3, <1>4 DEF ThreadOK, Ticking
<1>8. LockOK'
  BY <1>4, <1>6, <1>7, ThreadsAreTwo DEF LockOK
<1> QED BY <1>5, <1>8 DEF CoreOK

LEMMA SetPriceKeepsCore ==
  ASSUME CoreOK, NEW t \in Threads, SetPrice(t) PROVE CoreOK'
<1>1. job[t] \in TickJobs \cup BusyTickJobs /\ pc[t] = "price" /\ simMutex = t
  BY JobAt DEF CoreOK, LockOK, SetPrice, Ticking
<1>2. PICK s \in job[t].left : \E newPrice \in Prices[s] :
        /\ stocks' = [stocks EXCEPT ![s].currentPrice = newPrice]
        /\ drifts' = [drifts EXCEPT ![s] = Shock(t, s)]
        /\ job' = [job EXCEPT ![t] = [kind |-> "tick", now |-> @.now, drift |-> @.drift,
                                      left |-> @.left \ {s}, symbol |-> s]]
  BY DEF SetPrice
<1>0. PICK newPrice \in Prices[s] :
        /\ stocks' = [stocks EXCEPT ![s].currentPrice = newPrice]
        /\ drifts' = [drifts EXCEPT ![s] = Shock(t, s)]
        /\ job' = [job EXCEPT ![t] = [kind |-> "tick", now |-> @.now, drift |-> @.drift,
                                      left |-> @.left \ {s}, symbol |-> s]]
  BY <1>2
<1> DEFINE work == [kind |-> "tick", now |-> job[t].now, drift |-> job[t].drift,
                    left |-> job[t].left \ {s}, symbol |-> s]
<1>3. work \in BusyTickJobs /\ s \in Symbols /\ Shock(t, s) \in Int /\ newPrice \in Nat
  <2>1. s \in Symbols
    BY <1>1, TickJobFields
  <2> QED BY <1>1, <2>1, TickJobFields, MarketAssumption DEF BusyTickJobs, Shock
<1>4. work.symbol = s /\ work.left = job[t].left \ {s}
  OBVIOUS
<1> HIDE DEF work
<1>5. /\ DOMAIN job' = Threads /\ job'[t] = work /\ pc'[t] = "high"
      /\ \A u \in Threads \ {t} : pc'[u] = pc[u] /\ job'[u] = job[u]
      /\ pc' \in [Threads -> {"idle", "price", "copy", "read", "answer"} \cup BusyPlaces]
      /\ UNCHANGED <<eventVars, candles, currentRegime, seeded, simMutex>>
  BY <1>0 DEF SetPrice, GoTo, CoreOK, MarketTypeOK, work, BusyPlaces
<1>6. ThreadOK(t)' /\ Ticking(t)'
  BY <1>3, <1>4, <1>5 DEF ThreadOK, Ticking, BusyPlaces
<1>7. LockOK'
  BY <1>1, <1>5, <1>6, JobMoves DEF CoreOK
<1>8. stocks' \in [Symbols -> StockRows] /\ drifts' \in [Symbols -> Int]
  BY <1>0, <1>3 DEF CoreOK, MarketTypeOK, StockRows
<1>9. MarketTypeOK'
  BY <1>5, <1>8 DEF CoreOK, MarketTypeOK, eventVars
<1> QED BY <1>7, <1>9 DEF CoreOK

(* What SetRange does to the row of its stock.                             *)
Row(stock, high, low, volume) ==
  [currentPrice |-> stock.currentPrice, highPrice |-> high, lowPrice |-> low, volume |-> volume]

RangeStep(t, place, next, row) ==
  /\ pc[t] = place /\ pc' = [pc EXCEPT ![t] = next]
  /\ stocks' = [stocks EXCEPT ![job[t].symbol] = row]
  /\ UNCHANGED <<eventVars, candles, currentRegime, seeded, drifts, simMutex, job>>

LEMMA SetRangeIs ==
  ASSUME CoreOK, NEW t \in Threads, SetRange(t)
  PROVE  LET stock == stocks[job[t].symbol]
             price == stock.currentPrice
         IN  \/ RangeStep(t, "high", "low",
                  Row(stock, Larger(stock.highPrice, price), stock.lowPrice, stock.volume))
             \/ RangeStep(t, "low", "volume",
                  Row(stock, stock.highPrice, Smaller(stock.lowPrice, price), stock.volume))
             \/ RangeStep(t, "volume", "candle",
                  Row(stock, stock.highPrice, stock.lowPrice, stock.volume + 1))
<1> DEFINE s == job[t].symbol
           stock == stocks[s]
           price == stock.currentPrice
<1>1. s \in Symbols
  BY JobAt, BusyJobFields DEF CoreOK, SetRange, BusyPlaces
<1>2. stock \in StockRows /\ DOMAIN stocks = Symbols
  BY <1>1 DEF CoreOK, MarketTypeOK
<1>3. /\ [stock EXCEPT !.highPrice = Larger(stock.highPrice, price)]
           = Row(stock, Larger(stock.highPrice, price), stock.lowPrice, stock.volume)
      /\ [stock EXCEPT !.lowPrice = Smaller(stock.lowPrice, price)]
           = Row(stock, stock.highPrice, Smaller(stock.lowPrice, price), stock.volume)
      /\ [stock EXCEPT !.volume = stock.volume + 1]
           = Row(stock, stock.highPrice, stock.lowPrice, stock.volume + 1)
  <2> HIDE DEF stock
  <2> QED BY <1>2 DEF StockRows, Row
<1>4. CASE pc[t] = "high"
  <2>1. stocks' = [stocks EXCEPT ![s] =
                     [stock EXCEPT !.highPrice = Larger(stock.highPrice, price)]]
    BY <1>4 DEF SetRange, Moving
  <2> QED BY <1>3, <1>4, <2>1 DEF SetRange, RangeStep, GoTo
<1>5. CASE pc[t] = "low"
  <2>1. stocks' = [stocks EXCEPT ![s] =
                     [stock EXCEPT !.lowPrice = Smaller(stock.lowPrice, price)]]
    BY <1>5 DEF SetRange, Moving
  <2> QED BY <1>3, <1>5, <2>1 DEF SetRange, RangeStep, GoTo
<1>6. CASE pc[t] = "volume"
  <2>1. stocks' = [stocks EXCEPT ![s] = [stock EXCEPT !.volume = stock.volume + 1]]
    BY <1>6 DEF SetRange, Moving
  <2> QED BY <1>3, <1>6, <2>1 DEF SetRange, RangeStep, GoTo
<1> QED BY <1>4, <1>5, <1>6 DEF SetRange

LEMMA SetRangeKeepsCore ==
  ASSUME CoreOK, NEW t \in Threads, SetRange(t) PROVE CoreOK'
<1> DEFINE s == job[t].symbol
           stock == stocks[s]
           price == stock.currentPrice
<1>1. /\ job[t] \in BusyTickJobs /\ job[t].symbol \notin job[t].left /\ s \in Symbols
      /\ pc[t] \in BusyPlaces
  BY JobAt, BusyJobFields DEF CoreOK, SetRange, BusyPlaces
<1>2. simMutex = t
  BY <1>1 DEF CoreOK, LockOK, Ticking
<1>3. stock \in StockRows
  BY <1>1 DEF CoreOK, MarketTypeOK
<1>4. PICK next \in {"low", "volume", "candle"}, row \in StockRows :
        \E place \in BusyPlaces : RangeStep(t, place, next, row)
  <2>1. /\ price \in Nat /\ stock.highPrice \in Nat /\ stock.lowPrice \in Nat
        /\ stock.volume \in Nat
    BY <1>3 DEF StockRows
  <2>2. \A h, l, v \in Nat : Row(stock, h, l, v) \in StockRows
    BY <2>1 DEF Row, StockRows
  <2>3. Larger(stock.highPrice, price) \in Nat /\ Smaller(stock.lowPrice, price) \in Nat
    BY <2>1 DEF Larger, Smaller
  <2> HIDE DEF price, stock
  <2>4. {"high", "low", "volume", "candle"} = BusyPlaces
    BY DEF BusyPlaces
  <2> QED BY <2>1, <2>2, <2>3, <2>4, SetRangeIs DEF price, stock, s
<1>5. /\ DOMAIN job' = Threads /\ job' = job /\ pc'[t] = next /\ next \in BusyPlaces
      /\ \A u \in Threads \ {t} : pc'[u] = pc[u]
      /\ pc' \in [Threads -> {"idle", "price", "copy", "read", "answer"} \cup BusyPlaces]
      /\ stocks' \in [Symbols -> StockRows]
      /\ UNCHANGED <<eventVars, candles, currentRegime, seeded, drifts, simMutex>>
  BY <1>1, <1>4 DEF RangeStep, CoreOK, MarketTypeOK, BusyPlaces
<1>6. ThreadOK(t)' /\ Ticking(t)'
  BY <1>1, <1>5 DEF ThreadOK, Ticking
<1>7. LockOK'
  BY <1>2, <1>5, <1>6, JobMoves DEF CoreOK
<1>8. MarketTypeOK'
  BY <1>5 DEF CoreOK, MarketTypeOK, eventVars
<1> QED BY <1>7, <1>8 DEF CoreOK

LEMMA FinishStockKeepsCore ==
  ASSUME CoreOK, NEW t \in Threads, FinishStock(t), \A s \in Symbols : StockOK(s) PROVE CoreOK'
<1> DEFINE s == job[t].symbol
<1>1. /\ job[t] \in BusyTickJobs /\ job[t].symbol \notin job[t].left /\ s \in Symbols
      /\ pc[t] \in BusyPlaces /\ job[t].now \in Int
  BY JobAt, BusyJobFields DEF CoreOK, FinishStock, BusyPlaces
<1>2. simMutex = t
  BY <1>1 DEF CoreOK, LockOK, Ticking
<1>3. /\ candles' = [candles EXCEPT ![s] = CandlesAfter(@, job[t].now, stocks[s].currentPrice)]
      /\ DOMAIN seeded' = Symbols
      /\ UNCHANGED <<eventVars, stocks, currentRegime, drifts>>
  BY DEF FinishStock, CoreOK, MarketTypeOK
<1>4. CandlesAfter(candles[s], job[t].now, stocks[s].currentPrice) \in Seq(Candles)
  <2>1. stocks[s].currentPrice \in Int
    BY <1>1 DEF CoreOK, MarketTypeOK, StockRows
  <2>2. IsChart(candles[s])
    BY <1>1 DEF StockOK
  <2> QED BY <1>1, <2>1, <2>2, ChartKept DEF IsChart
<1>5. candles' \in [Symbols -> Seq(Candles)]
  BY <1>3, <1>4 DEF CoreOK, MarketTypeOK
<1>6. CASE job[t].left = {}
  <2>1. /\ pc' = [pc EXCEPT ![t] = "idle"] /\ job' = [job EXCEPT ![t] = NoJob]
        /\ simMutex' = NoThread
    BY <1>6 DEF FinishStock, GoTo
  <2>2. /\ DOMAIN job' = Threads /\ job'[t] = NoJob /\ pc'[t] = "idle"
        /\ \A u \in Threads \ {t} : pc'[u] = pc[u] /\ job'[u] = job[u]
        /\ pc' \in [Threads -> {"idle", "price", "copy", "read", "answer"} \cup BusyPlaces]
    BY <2>1 DEF CoreOK, MarketTypeOK
  <2>3. ThreadOK(t)' /\ ~Ticking(t)'
    BY <2>2 DEF ThreadOK, Ticking, BusyPlaces
  <2>4. LockOK'
    BY <1>2, <2>1, <2>2, <2>3, JobMoves, ThreadsAreTwo DEF CoreOK
  <2>5. MarketTypeOK'
    BY <1>3, <1>5, <2>2 DEF CoreOK, MarketTypeOK, eventVars
  <2> QED BY <2>4, <2>5 DEF CoreOK
<1>7. CASE job[t].left # {}
  <2>1. pc' = [pc EXCEPT ![t] = "price"] /\ UNCHANGED <<simMutex, job>>
    BY <1>7 DEF FinishStock, GoTo
  <2>2. /\ DOMAIN job' = Threads /\ pc'[t] = "price"
        /\ \A u \in Threads \ {t} : pc'[u] = pc[u] /\ job'[u] = job[u]
        /\ pc' \in [Threads -> {"idle", "price", "copy", "read", "answer"} \cup BusyPlaces]
    BY <2>1 DEF CoreOK, MarketTypeOK
  <2>3. ThreadOK(t)' /\ Ticking(t)'
    BY <1>1, <2>1, <2>2 DEF ThreadOK, Ticking
  <2>4. LockOK'
    BY <1>2, <2>1, <2>2, <2>3, JobMoves DEF CoreOK
  <2>5. MarketTypeOK'
    BY <1>3, <1>5, <2>2 DEF CoreOK, MarketTypeOK, eventVars
  <2> QED BY <2>4, <2>5 DEF CoreOK
<1> QED BY <1>6, <1>7

(* The steps of the requests that only read.                               *)
ReadStep ==
  \/ BeginGetAllStocks \/ GetAllStocks \/ GetStock \/ ReadField \/ Answer \/ SetRegime

LEMMA ReadStepKeepsCore ==
  ASSUME CoreOK, ReadStep
  PROVE  CoreOK' /\ TicksStay /\ UNCHANGED eventVars
<1> DEFINE Moves(place, work, lock) ==
             /\ pc' = [pc EXCEPT ![Handler] = place] /\ DOMAIN job' = Threads
             /\ \A u \in Threads : job'[u] = IF u = Handler THEN work ELSE job[u]
             /\ simMutex' = lock /\ UNCHANGED <<eventVars, market>>
<1>1. ASSUME NEW place, NEW work, NEW lock, Moves(place, work, lock), ~Ticking(Handler),
             \/ place = "idle" /\ work = NoJob
             \/ place \in {"copy", "answer"} /\ IsListJob(work)
             \/ place = "read" /\ IsQuoteJob(work) /\ work.read < 5
             \/ place = "answer" /\ IsQuoteJob(work) /\ work.read = 5,
             lock \in Threads \cup {NoThread}, (place = "copy") <=> lock = Handler,
             lock \in {simMutex, Handler} \/ (simMutex = Handler /\ lock = NoThread),
             lock = simMutex \/ simMutex \in {Handler, NoThread}
      PROVE  CoreOK' /\ TicksStay /\ UNCHANGED eventVars
  <2>1. /\ DOMAIN job' = Threads /\ job'[Handler] = work /\ pc'[Handler] = place
        /\ \A u \in Threads \ {Handler} : pc'[u] = pc[u] /\ job'[u] = job[u]
        /\ pc' \in [Threads -> {"idle", "price", "copy", "read", "answer"} \cup BusyPlaces]
        /\ simMutex' = lock /\ UNCHANGED <<eventVars, market>>
    BY <1>1, ThreadsAreTwo DEF CoreOK, MarketTypeOK
  <2>2. ThreadOK(Handler)' /\ ~Ticking(Handler)'
    BY <1>1, <2>1 DEF ThreadOK, Ticking, BusyPlaces
  <2> HIDE DEF Moves
  <2>3. LockOK'
    BY <1>1, <2>1, <2>2, JobMoves, ThreadsAreTwo DEF CoreOK
  <2>4. MarketTypeOK'
    BY <2>1 DEF CoreOK, MarketTypeOK, eventVars, market
  <2>5. TicksStay
    BY <1>1, <2>1, <2>2 DEF TicksStay, market
  <2> QED BY <2>1, <2>3, <2>4, <2>5 DEF CoreOK
<1> HIDE DEF Moves
<1>2. CASE BeginGetAllStocks
  <2>1. Moves("copy", [kind |-> "list", copied |-> <<>>], Handler) /\ pc[Handler] = "idle"
        /\ simMutex = NoThread
    BY <1>2 DEF BeginGetAllStocks, GoTo, Moves, CoreOK, MarketTypeOK
  <2>2. IsListJob([kind |-> "list", copied |-> <<>>])
    BY DEF IsListJob
  <2> QED BY <1>1, <2>1, <2>2, ThreadsAreTwo DEF Ticking, BusyPlaces
<1>3. CASE GetAllStocks
  <2>1. IsListJob(job[Handler]) /\ pc[Handler] = "copy" /\ simMutex = Handler
    BY <1>3, JobAt, ThreadsAreTwo DEF CoreOK, GetAllStocks, LockOK
  <2>2. ASSUME NEW s \in Symbols,
               job' = [job EXCEPT ![Handler].copied = With(@, s, stocks[s])],
               UNCHANGED <<pc, simMutex>>
        PROVE  CoreOK' /\ TicksStay /\ UNCHANGED eventVars
    <3> DEFINE work == [kind |-> "list", copied |-> With(job[Handler].copied, s, stocks[s])]
    <3>1. [job[Handler] EXCEPT !.copied = With(@, s, stocks[s])] = work
      BY <2>1 DEF IsListJob
    <3>2. IsListJob(work)
      BY DEF IsListJob
    <3> HIDE DEF work
    <3>3. Moves("copy", work, Handler)
      BY <1>3, <2>1, <2>2, <3>1 DEF GetAllStocks, Moves, CoreOK, MarketTypeOK
    <3> QED BY <1>1, <2>1, <3>2, <3>3, ThreadsAreTwo DEF Ticking, BusyPlaces
  <2>3. ASSUME GoTo(Handler, "answer"), simMutex' = NoThread, UNCHANGED job
        PROVE  CoreOK' /\ TicksStay /\ UNCHANGED eventVars
    <3>1. Moves("answer", job[Handler], NoThread)
      BY <1>3, <2>3 DEF GetAllStocks, Moves, GoTo, CoreOK, MarketTypeOK
    <3> QED BY <1>1, <2>1, <3>1, ThreadsAreTwo DEF Ticking, BusyPlaces
  <2> QED BY <1>3, <2>2, <2>3 DEF GetAllStocks
<1>4. CASE GetStock
  <2>1. PICK s \in Symbols :
          job' = [job EXCEPT ![Handler] =
                    [kind |-> "quote", symbol |-> s, read |-> 0, quote |-> <<>>,
                     overtaken |-> FALSE]]
    BY <1>4 DEF GetStock
  <2> DEFINE work == [kind |-> "quote", symbol |-> s, read |-> 0, quote |-> <<>>,
                      overtaken |-> FALSE]
  <2>2. IsQuoteJob(work) /\ work.read = 0
    BY DEF IsQuoteJob
  <2> HIDE DEF work
  <2>3. Moves("read", work, simMutex) /\ pc[Handler] = "idle" /\ simMutex = NoThread
    BY <1>4, <2>1 DEF GetStock, GoTo, Moves, work, CoreOK, MarketTypeOK
  <2> QED BY <1>1, <2>2, <2>3, ThreadsAreTwo DEF Ticking, BusyPlaces
<1>5. CASE ReadField
  <2>1. /\ IsQuoteJob(job[Handler]) /\ pc[Handler] = "read" /\ job[Handler].read \in 0 .. 4
        /\ simMutex # Handler /\ simMutex \in Threads \cup {NoThread}
    BY <1>5, JobAt, KindOfJob, ThreadsAreTwo
       DEF CoreOK, ReadField, LockOK, Ticking, BusyPlaces
  <2> DEFINE read  == job[Handler].read + 1
             field == Fields[read]
             value == IF field = "change" THEN Moving(Handler).currentPrice
                      ELSE Moving(Handler)[field]
             work  == [job[Handler] EXCEPT !.quote = With(@, field, value), !.read = read]
  <2>2. IsQuoteJob(work) /\ work.read = read
    <3>1. PICK q : job[Handler] \in [kind : {"quote"}, symbol : Symbols, read : 0 .. 5,
                                     quote : {q}, overtaken : BOOLEAN]
      BY <2>1 DEF IsQuoteJob
    <3> DEFINE new == With(job[Handler].quote, field, value)
    <3>2. work = [job[Handler] EXCEPT !.quote = new, !.read = read]
      OBVIOUS
    <3>3. read \in 0 .. 5
      BY <2>1
    <3> HIDE DEF new, read
    <3>4. work \in [kind : {"quote"}, symbol : Symbols, read : 0 .. 5,
                    quote : {new}, overtaken : BOOLEAN] /\ work.read = read
      BY <3>1, <3>2, <3>3
    <3> QED BY <3>4 DEF IsQuoteJob
  <2>3. /\ pc' = [pc EXCEPT ![Handler] = IF read = Len(Fields) THEN "answer" ELSE "read"]
        /\ job' = [job EXCEPT ![Handler] = work]
    BY <1>5 DEF ReadField, GoTo
  <2>4. Len(Fields) = 5 /\ read \in 1 .. 5
    BY <2>1 DEF Fields
  <2> DEFINE place == IF read = Len(Fields) THEN "answer" ELSE "read"
  <2> HIDE DEF work
  <2>5. Moves(place, work, simMutex)
    BY <1>5, <2>3 DEF ReadField, Moves, CoreOK, MarketTypeOK
  <2>6. (place = "answer" /\ read = 5) \/ (place = "read" /\ read < 5)
    BY <2>4
  <2> HIDE DEF place, read
  <2> QED BY <1>1, <2>1, <2>2, <2>5, <2>6 DEF Ticking, BusyPlaces
<1>6. CASE Answer
  <2>1. pc[Handler] = "answer" /\ simMutex # Handler /\ simMutex \in Threads \cup {NoThread}
    BY <1>6, ThreadsAreTwo DEF CoreOK, Answer, LockOK, Ticking, BusyPlaces
  <2>2. Moves("idle", NoJob, simMutex)
    BY <1>6 DEF Answer, GoTo, Moves, CoreOK, MarketTypeOK
  <2> QED BY <1>1, <2>1, <2>2 DEF Ticking, BusyPlaces
<1>7. CASE SetRegime
  <2>1. currentRegime' \in DOMAIN Regimes
    BY <1>7, MarketAssumption DEF SetRegime, StringToRegime
  <2>2. UNCHANGED <<eventVars, stocks, candles, seeded, drifts, simMutex, pc, job>>
    BY <1>7 DEF SetRegime
  <2>3. MarketTypeOK'
    BY <2>1, <2>2 DEF CoreOK, MarketTypeOK, eventVars
  <2>4. LockOK'
    BY <2>2 DEF CoreOK, LockOK, ThreadOK, Ticking
  <2> QED BY <2>2, <2>3, <2>4 DEF CoreOK, TicksStay
<1> QED BY <1>2, <1>3, <1>4, <1>5, <1>6, <1>7 DEF ReadStep

-----------------------------------------------------------------------------
(* The rows, charts and levels of the stocks.                              *)

AtIsTicking ==
  \A t \in Threads : Ticking(t) =>
    \A s : \A places \in SUBSET BusyPlaces :
      At(s, places) <=> pc[t] \in places /\ job[t].symbol = s

AtIsNowhere ==
  (\A t \in Threads : ~Ticking(t)) => \A s : \A places \in SUBSET BusyPlaces : ~At(s, places)

LEMMA AtIs == LockOK => AtIsTicking /\ AtIsNowhere
<1> SUFFICES ASSUME LockOK PROVE AtIsTicking /\ AtIsNowhere
  OBVIOUS
<1>1. ASSUME NEW t \in Threads, Ticking(t), NEW s, NEW places \in SUBSET BusyPlaces
      PROVE  At(s, places) <=> pc[t] \in places /\ job[t].symbol = s
  <2>1. \A u \in Threads : u # t => pc[u] \notin BusyPlaces
    BY <1>1, OneTicks DEF Ticking
  <2> QED BY <1>1, <2>1 DEF At
<1> QED BY <1>1 DEF AtIsTicking, AtIsNowhere, At, Ticking

LEMMA SomePlaces ==
  {"high"} \in SUBSET BusyPlaces /\ {"high", "low"} \in SUBSET BusyPlaces
    /\ BusyPlaces \in SUBSET BusyPlaces
  BY DEF BusyPlaces

(* No thread is at a stock, before and after: nothing changes for it.      *)
LEMMA StockStays ==
  ASSUME NEW s, StockOK(s),
         stocks'[s] = stocks[s], candles'[s] = candles[s], seeded'[s] = seeded[s],
         \A places \in SUBSET BusyPlaces : At(s, places)' <=> At(s, places)
  PROVE  StockOK(s)'
  BY SomePlaces DEF StockOK

LEMMA BeginTickKeepsStocks ==
  ASSUME CoreOK, CoreOK', NEW t \in Threads, BeginTick(t), NEW s \in Symbols, StockOK(s)
  PROVE  StockOK(s)'
<1>1. /\ simMutex = NoThread /\ pc' = [pc EXCEPT ![t] = "price"]
      /\ UNCHANGED <<stocks, candles, seeded>>
  BY DEF BeginTick, GoTo, market
<1>2. pc'[t] = "price" /\ Ticking(t)'
  BY <1>1 DEF CoreOK, MarketTypeOK, Ticking
<1>3. AtIsNowhere /\ AtIsTicking'
  BY AtIs, PTL DEF CoreOK
<1>4. \A places \in SUBSET BusyPlaces : ~At(s, places) /\ ~At(s, places)'
  <2>1. \A u \in Threads : ~Ticking(u)
    BY <1>1, NoneTicks DEF CoreOK
  <2> QED BY <1>2, <1>3, <2>1 DEF AtIsNowhere, AtIsTicking, BusyPlaces
<1> QED BY <1>1, <1>4, StockStays

LEMMA SetPriceKeepsStocks ==
  ASSUME CoreOK, CoreOK', NEW t \in Threads, SetPrice(t), NEW r \in Symbols, StockOK(r)
  PROVE  StockOK(r)'
<1>1. pc[t] = "price" /\ Ticking(t) /\ job[t] \in TickJobs \cup BusyTickJobs
  BY JobAt DEF SetPrice, Ticking, CoreOK
<1>2. PICK s \in job[t].left : \E newPrice \in Prices[s] :
        /\ stocks' = [stocks EXCEPT ![s].currentPrice = newPrice]
        /\ job' = [job EXCEPT ![t] = [kind |-> "tick", now |-> @.now, drift |-> @.drift,
                                      left |-> @.left \ {s}, symbol |-> s]]
  BY DEF SetPrice
<1>3. PICK newPrice \in Prices[s] : stocks' = [stocks EXCEPT ![s].currentPrice = newPrice]
  BY <1>2
<1>4. pc'[t] = "high" /\ job'[t].symbol = s /\ UNCHANGED <<candles, seeded>>
  BY <1>2 DEF SetPrice, GoTo, CoreOK, MarketTypeOK
<1>5. AtIsTicking /\ AtIsTicking'
  BY AtIs, PTL DEF CoreOK
<1>6. Ticking(t)'
  BY <1>4 DEF Ticking, BusyPlaces
<1>7. \A places \in SUBSET BusyPlaces :
        ~At(r, places) /\ (At(r, places)' <=> "high" \in places /\ r = s)
  <2>1. \A places \in SUBSET BusyPlaces : ~At(r, places)
    BY <1>1, <1>5 DEF AtIsTicking, BusyPlaces
  <2>2. \A places \in SUBSET BusyPlaces : At(r, places)' <=> "high" \in places /\ r = s
    BY <1>4, <1>5, <1>6 DEF AtIsTicking
  <2> QED BY <2>1, <2>2
<1>8. CASE r # s
  BY <1>3, <1>4, <1>7, <1>8, StockStays DEF CoreOK, MarketTypeOK
<1>9. CASE r = s
  <2>1. At(r, {"high"})' /\ At(r, {"high", "low"})' /\ At(r, BusyPlaces)'
    BY <1>7, <1>9, SomePlaces DEF BusyPlaces
  <2>2. stocks'[r].currentPrice = newPrice /\ candles'[r] = candles[r]
    BY <1>3, <1>4, <1>9 DEF CoreOK, MarketTypeOK, StockRows
  <2> QED BY <1>9, <2>1, <2>2 DEF StockOK
<1> QED BY <1>8, <1>9

LEMMA SetRangeKeepsStocks ==
  ASSUME CoreOK, CoreOK', NEW t \in Threads, SetRange(t), NEW r \in Symbols, StockOK(r)
  PROVE  StockOK(r)'
<1> DEFINE s == job[t].symbol
           stock == stocks[s]
           price == stock.currentPrice
<1>1. Ticking(t) /\ s \in Symbols
  BY JobAt, BusyJobFields DEF CoreOK, SetRange, BusyPlaces, Ticking
<1>2. AtIsTicking /\ AtIsTicking'
  BY AtIs, PTL DEF CoreOK
<1>3. ASSUME NEW place \in BusyPlaces, NEW next \in BusyPlaces, NEW high, NEW low, NEW volume,
             RangeStep(t, place, next, Row(stock, high, low, volume)),
             \/ place = "high" /\ next = "low" /\ high = Larger(stock.highPrice, price)
             \/ /\ place = "low" /\ next = "volume"
                /\ high = stock.highPrice /\ low = Smaller(stock.lowPrice, price)
             \/ /\ place = "volume" /\ next = "candle"
                /\ high = stock.highPrice /\ low = stock.lowPrice
      PROVE  StockOK(r)'
  <2>1. /\ pc[t] = place /\ pc'[t] = next /\ job'[t] = job[t] /\ UNCHANGED <<candles, seeded>>
        /\ stocks'[s] = Row(stock, high, low, volume)
        /\ \A x \in Symbols \ {s} : stocks'[x] = stocks[x]
    BY <1>1, <1>3 DEF RangeStep, CoreOK, MarketTypeOK
  <2>2. Ticking(t)'
    BY <2>1 DEF Ticking
  <2>3. \A places \in SUBSET BusyPlaces :
          /\ At(r, places) <=> place \in places /\ r = s
          /\ At(r, places)' <=> next \in places /\ r = s
    BY <1>1, <1>2, <2>1, <2>2 DEF AtIsTicking
  <2>4. CASE r # s
    BY <2>1, <2>3, <2>4, StockStays
  <2>5. CASE r = s
    <3>1. /\ stocks'[r].currentPrice = price /\ stocks'[r].highPrice = high
          /\ stocks'[r].lowPrice = low
      BY <2>1, <2>5 DEF Row
    <3>2. price \in Nat /\ stock.highPrice \in Nat /\ stock.lowPrice \in Nat
      BY <1>1 DEF CoreOK, MarketTypeOK, StockRows
    <3>3. ~At(r, {"high"})' /\ (~At(r, {"high", "low"})' <=> next # "low") /\ At(r, BusyPlaces)'
      BY <1>3, <2>3, <2>5, SomePlaces
    <3>4. /\ place # "high" => price <= stock.highPrice
          /\ place \notin {"high", "low"} => stock.lowPrice <= price
          /\ price \in Prices[r] /\ IsChart(candles[r])
      BY <2>3, <2>5, SomePlaces DEF StockOK
    <3>5. price <= high /\ (next # "low" => low <= price)
      <4> HIDE DEF price, stock
      <4> QED BY <1>3, <3>2, <3>4 DEF Larger, Smaller
    <3> QED BY <2>1, <3>1, <3>3, <3>4, <3>5 DEF StockOK
  <2> QED BY <2>4, <2>5
<1>4. "high" \in BusyPlaces /\ "low" \in BusyPlaces /\ "volume" \in BusyPlaces
        /\ "candle" \in BusyPlaces
  BY DEF BusyPlaces
<1> QED BY <1>3, <1>4, SetRangeIs

LEMMA FinishStockKeepsStocks ==
  ASSUME CoreOK, CoreOK', NEW t \in Threads, FinishStock(t), NEW r \in Symbols, StockOK(r)
  PROVE  StockOK(r)'
<1> DEFINE s == job[t].symbol
           price == stocks[s].currentPrice
<1>1. /\ Ticking(t) /\ s \in Symbols /\ job[t].now \in Int /\ pc[t] = "candle" /\ simMutex = t
  BY JobAt, BusyJobFields DEF CoreOK, LockOK, FinishStock, BusyPlaces, Ticking
<1>2. /\ candles' = [candles EXCEPT ![s] = CandlesAfter(@, job[t].now, price)]
      /\ seeded' = [seeded EXCEPT ![s] = SeedLevels(price)] /\ stocks' = stocks
      /\ \/ pc' = [pc EXCEPT ![t] = "idle"] \/ pc' = [pc EXCEPT ![t] = "price"]
  BY DEF FinishStock, GoTo
<1>3. pc'[t] \in {"idle", "price"} /\ \A u \in Threads : u # t => ~(pc'[u] \in BusyPlaces)
  <2>1. \A u \in Threads : u # t => ~Ticking(u)
    BY <1>1, OneTicks DEF CoreOK
  <2> QED BY <1>2, <2>1 DEF CoreOK, MarketTypeOK, Ticking
<1>4. \A places \in SUBSET BusyPlaces : ~At(r, places)'
  BY <1>3 DEF At, BusyPlaces
<1>5. AtIsTicking
  BY AtIs DEF CoreOK
<1>6. \A places \in SUBSET BusyPlaces : At(r, places) <=> "candle" \in places /\ r = s
  BY <1>1, <1>5 DEF AtIsTicking
<1>7. CASE r # s
  <2>1. candles'[r] = candles[r] /\ seeded'[r] = seeded[r]
    BY <1>2, <1>7 DEF CoreOK, MarketTypeOK
  <2> QED BY <1>2, <1>4, <1>6, <1>7, <2>1, StockStays
<1>8. CASE r = s
  <2>1. price \in Int
    <3>1. stocks[s] \in StockRows
      BY <1>1 DEF CoreOK, MarketTypeOK
    <3> QED BY <3>1 DEF StockRows
  <2> DEFINE new == CandlesAfter(candles[s], job[t].now, price)
  <2>2. IsChart(new) /\ Last(new).close = price
    BY <1>1, <1>8, <2>1, ChartKept DEF StockOK, Last
  <2>3. candles'[r] = new /\ seeded'[r] = SeedLevels(price) /\ stocks'[r] = stocks[s]
    BY <1>1, <1>2, <1>8 DEF CoreOK, MarketTypeOK
  <2>4. ~At(r, {"high"}) /\ ~At(r, {"high", "low"})
    BY <1>6, SomePlaces
  <2>5. price \in Prices[r] /\ price <= stocks[s].highPrice /\ stocks[s].lowPrice <= price
    BY <1>8, <2>4 DEF StockOK
  <2> HIDE DEF new, price
  <2>6. stocks'[r].currentPrice = price
    BY <2>3 DEF price
  <2> QED BY <2>2, <2>3, <2>5, <2>6 DEF StockOK
<1> QED BY <1>7, <1>8

-----------------------------------------------------------------------------
(* How many ticks the stocks have been through, and by what they moved.    *)

LEMMA OneMarketStays ==
  ASSUME NEW h \in Seq(Events), NEW new, NEW f, NEW g, MovedIn(h, f), \A s \in Symbols : g[s] = f[s],
         new = h \/ \E evt : new = Append(h, evt)
  PROVE  MovedIn(new, g)
<1>1. PICK n \in 0 .. Len(h), r \in DOMAIN Regimes :
        \A s \in Symbols : f[s] = Regimes[r] + ShockOn(s, h, n)
  BY DEF MovedIn
<1>2. n \in 0 .. Len(new) /\ \A k \in 1 .. n : h[k] \in Events /\ new[k] = h[k]
  BY <1>1
<1>3. \A s \in Symbols : ShockOn(s, new, n) = ShockOn(s, h, n)
  BY <1>2, ShockOnPrefix
<1>4. \A s \in Symbols : g[s] = Regimes[r] + ShockOn(s, new, n)
  BY <1>1, <1>3
<1> QED BY <1>2, <1>4 DEF MovedIn

LEMMA BeginTickKeepsTicks ==
  ASSUME CoreOK, CoreOK', NEW t \in Threads, BeginTick(t), VolumesOK, DriftsOK
  PROVE  VolumesOK' /\ DriftsOK'
<1>1. PICK now \in Clock, shockDrifts \in {CalculateTotalShockDrifts} :
        Begin(t, [kind |-> "tick", now |-> now, left |-> Symbols,
                  drift |-> [s \in Symbols |-> DriftOf(s, shockDrifts)]])
  BY DEF BeginTick
<1>2. /\ simMutex = NoThread /\ pc'[t] = "price"
      /\ job'[t].left = Symbols /\ job'[t].drift = [s \in Symbols |-> DriftOf(s, shockDrifts)]
      /\ UNCHANGED <<stocks, drifts, eventHistory, currentRegime>>
      /\ \A s \in Symbols : stocks[s].volume < MaxTicks
  BY <1>1 DEF BeginTick, Begin, GoTo, CoreOK, MarketTypeOK, eventVars, market
<1>3. Ticking(t)'
  BY <1>2 DEF Ticking
<1>4. \A u \in Threads : (Ticking(u)' <=> u = t) /\ ~Ticking(u)
  <2>1. \A u \in Threads : u # t => ~Ticking(u)'
    <3>1. LockOK'
      BY DEF CoreOK
    <3>2. simMutex' = t
      BY DEF BeginTick
    <3> QED BY <3>1, <3>2 DEF LockOK
  <2> QED BY <1>2, <1>3, <2>1, NoneTicks DEF CoreOK
<1>5. VolumesOK'
  <2>1. PICK v \in 0 .. MaxTicks : VolumesAre(v)
    BY DEF VolumesOK
  <2>2. \A s \in Symbols : stocks[s].volume = v
    BY <1>4, <2>1 DEF VolumesAre
  <2>3. CASE Symbols = {}
    <3>1. v < MaxTicks \/ v = MaxTicks
      BY <2>1, MarketAssumption
    <3> QED BY <2>3, MarketAssumption
  <2>4. CASE Symbols # {}
    <3>1. v < MaxTicks
      BY <1>2, <2>2, <2>4
    <3>2. VolumesAre(v)'
      BY <1>2, <1>4, <2>2, <3>1 DEF VolumesAre
    <3> QED BY <3>2 DEF VolumesOK
  <2> QED BY <2>3, <2>4
<1>6. MovedIn(eventHistory', job'[t].drift)
  <2>1. \A s \in Symbols : job'[t].drift[s] = Regimes[currentRegime] + Drift(shockDrifts, s)
    BY <1>2 DEF DriftOf, Drift
  <2>2. shockDrifts = TotalShockDrifts(eventHistory) /\ eventHistory \in Seq(Events)
    BY DEF CalculateTotalShockDrifts, CoreOK, MarketTypeOK
  <2>3. \A s \in Symbols :
          Drift(shockDrifts, s) = ShockOn(s, eventHistory, Len(eventHistory))
    BY <2>2, TotalShockIsSum
  <2>4. Len(eventHistory) \in 0 .. Len(eventHistory) /\ currentRegime \in DOMAIN Regimes
    BY <2>2 DEF CoreOK, MarketTypeOK
  <2> QED BY <1>2, <2>1, <2>3, <2>4 DEF MovedIn
<1>7. DriftsOK'
  <2>1. \A u \in Threads : Ticking(u)' => u = t
    BY <1>4
  <2>2. Ticking(t)' /\ job'[t].left = Symbols
    BY <1>2, <1>3
  <2> QED BY <1>6, <2>1, <2>2 DEF DriftsOK, OneMarketMoved
<1> QED BY <1>5, <1>7

LEMMA SetPriceKeepsTicks ==
  ASSUME CoreOK, CoreOK', NEW t \in Threads, SetPrice(t), VolumesOK, DriftsOK
  PROVE  VolumesOK' /\ DriftsOK'
<1>1. /\ pc[t] = "price" /\ Ticking(t) /\ job[t] \in TickJobs \cup BusyTickJobs
      /\ job[t].left \subseteq Symbols
  BY JobAt, TickJobFields DEF SetPrice, Ticking, CoreOK
<1>2. PICK s \in job[t].left : \E newPrice \in Prices[s] :
        /\ stocks' = [stocks EXCEPT ![s].currentPrice = newPrice]
        /\ drifts' = [drifts EXCEPT ![s] = Shock(t, s)]
        /\ job' = [job EXCEPT ![t] = [kind |-> "tick", now |-> @.now, drift |-> @.drift,
                                      left |-> @.left \ {s}, symbol |-> s]]
  BY DEF SetPrice
<1>3. /\ pc'[t] = "high" /\ job'[t].symbol = s /\ job'[t].left = job[t].left \ {s}
      /\ job'[t].drift = job[t].drift /\ eventHistory' = eventHistory
      /\ \A r \in Symbols : stocks'[r].volume = stocks[r].volume
      /\ \A r \in Symbols : drifts'[r] = IF r = s THEN job[t].drift[s] ELSE drifts[r]
  BY <1>1, <1>2 DEF SetPrice, GoTo, Shock, CoreOK, MarketTypeOK, StockRows, eventVars
<1>4. \A u \in Threads : (Ticking(u) <=> u = t) /\ (Ticking(u)' <=> u = t)
  <2>1. \A u \in Threads : u # t => ~Ticking(u) /\ pc'[u] = pc[u]
    BY <1>1, OneTicks DEF CoreOK, MarketTypeOK, SetPrice, GoTo
  <2> QED BY <1>1, <1>3, <2>1 DEF Ticking, BusyPlaces
<1>5. VolumesOK'
  <2>1. PICK v \in 0 .. MaxTicks : VolumesAre(v)
    BY DEF VolumesOK
  <2>2. v < MaxTicks /\ \A r \in Symbols : stocks[r].volume = IF r \in job[t].left THEN v ELSE v + 1
    BY <1>1, <2>1 DEF VolumesAre
  <2>3. VolumesAre(v)'
    BY <1>1, <1>2, <1>3, <1>4, <2>2 DEF VolumesAre
  <2> QED BY <2>3 DEF VolumesOK
<1>6. DriftsOK'
  <2>1. MovedIn(eventHistory, job[t].drift)
          /\ \A r \in Symbols \ job[t].left : drifts[r] = job[t].drift[r]
    BY <1>1 DEF DriftsOK, OneMarketMoved
  <2>2. MovedIn(eventHistory', job'[t].drift)
          /\ \A r \in Symbols \ job'[t].left : drifts'[r] = job'[t].drift[r]
    BY <1>3, <2>1
  <2> QED BY <1>4, <2>2 DEF DriftsOK, OneMarketMoved
<1> QED BY <1>5, <1>6

LEMMA SetRangeKeepsTicks ==
  ASSUME CoreOK, CoreOK', NEW t \in Threads, SetRange(t), VolumesOK, DriftsOK
  PROVE  VolumesOK' /\ DriftsOK'
<1> DEFINE s == job[t].symbol
           stock == stocks[s]
<1>1. Ticking(t) /\ s \in Symbols /\ s \notin job[t].left
  BY JobAt, BusyJobFields DEF CoreOK, SetRange, BusyPlaces, Ticking
<1>2. PICK v \in 0 .. MaxTicks : VolumesAre(v)
  BY DEF VolumesOK
<1>3. ASSUME NEW place \in BusyPlaces, NEW next \in BusyPlaces, NEW high, NEW low, NEW volume,
             RangeStep(t, place, next, Row(stock, high, low, volume)),
             \/ place = "high" /\ next = "low" /\ volume = stock.volume
             \/ place = "low" /\ next = "volume" /\ volume = stock.volume
             \/ place = "volume" /\ next = "candle" /\ volume = stock.volume + 1
      PROVE  VolumesOK' /\ DriftsOK'
  <2>1. /\ pc[t] = place /\ pc'[t] = next /\ job' = job
        /\ UNCHANGED <<drifts, eventHistory>>
        /\ stocks'[s].volume = volume
        /\ \A r \in Symbols \ {s} : stocks'[r].volume = stocks[r].volume
    BY <1>1, <1>3 DEF RangeStep, CoreOK, MarketTypeOK, eventVars, Row
  <2>2. \A u \in Threads : (Ticking(u) <=> u = t) /\ (Ticking(u)' <=> u = t)
    <3>1. \A u \in Threads : u # t => ~Ticking(u) /\ pc'[u] = pc[u]
      BY <1>1, <1>3, OneTicks DEF CoreOK, MarketTypeOK, RangeStep
    <3> QED BY <1>1, <2>1, <3>1 DEF Ticking
  <2>3. /\ v < MaxTicks
        /\ \A r \in Symbols :
             stocks[r].volume =
               IF r \in job[t].left \/ (place \in {"high", "low", "volume"} /\ r = s)
               THEN v ELSE v + 1
    BY <1>1, <1>2, <2>1 DEF VolumesAre
  <2>4. \A r \in Symbols :
          stocks'[r].volume =
            IF r \in job[t].left \/ (next \in {"high", "low", "volume"} /\ r = s)
            THEN v ELSE v + 1
    <3> SUFFICES ASSUME NEW r \in Symbols
                 PROVE  stocks'[r].volume =
                          IF r \in job[t].left \/ (next \in {"high", "low", "volume"} /\ r = s)
                          THEN v ELSE v + 1
      OBVIOUS
    <3>1. CASE r = s
      BY <1>1, <1>3, <2>1, <2>3, <3>1
    <3>2. CASE r # s
      BY <2>1, <2>3, <3>2
    <3> QED BY <3>1, <3>2
  <2>5. VolumesAre(v)'
    BY <2>1, <2>2, <2>3, <2>4 DEF VolumesAre
  <2>6. DriftsOK'
    <3>1. MovedIn(eventHistory, job[t].drift)
            /\ \A r \in Symbols \ job[t].left : drifts[r] = job[t].drift[r]
      BY <1>1 DEF DriftsOK, OneMarketMoved
    <3> QED BY <2>1, <2>2, <3>1 DEF DriftsOK, OneMarketMoved
  <2> QED BY <2>5, <2>6 DEF VolumesOK
<1>4. "high" \in BusyPlaces /\ "low" \in BusyPlaces /\ "volume" \in BusyPlaces
        /\ "candle" \in BusyPlaces
  BY DEF BusyPlaces
<1> QED BY <1>3, <1>4, SetRangeIs

LEMMA FinishStockKeepsTicks ==
  ASSUME CoreOK, CoreOK', NEW t \in Threads, FinishStock(t), VolumesOK, DriftsOK
  PROVE  VolumesOK' /\ DriftsOK'
<1>1. Ticking(t) /\ pc[t] = "candle" /\ job[t].left \subseteq Symbols
  BY JobAt, BusyJobFields DEF CoreOK, FinishStock, BusyPlaces, Ticking
<1>2. PICK v \in 0 .. MaxTicks : VolumesAre(v)
  BY DEF VolumesOK
<1>3. /\ v < MaxTicks
      /\ \A r \in Symbols : stocks[r].volume = IF r \in job[t].left THEN v ELSE v + 1
  BY <1>1, <1>2 DEF VolumesAre
<1>4. /\ MovedIn(eventHistory, job[t].drift)
      /\ \A r \in Symbols \ job[t].left : drifts[r] = job[t].drift[r]
  BY <1>1 DEF DriftsOK, OneMarketMoved
<1>5. UNCHANGED <<eventHistory, stocks, drifts>>
  BY DEF FinishStock, eventVars
<1>6. \A u \in Threads : u # t => ~Ticking(u) /\ pc'[u] = pc[u] /\ ~Ticking(u)'
  BY <1>1, OneTicks DEF CoreOK, MarketTypeOK, FinishStock, GoTo, Ticking
<1>7. CASE job[t].left = {}
  <2>1. pc'[t] = "idle"
    BY <1>7 DEF FinishStock, GoTo, CoreOK, MarketTypeOK
  <2>2. \A u \in Threads : ~Ticking(u)'
    BY <1>6, <2>1 DEF Ticking, BusyPlaces
  <2>3. VolumesAre(v + 1)'
    BY <1>3, <1>5, <1>7, <2>2 DEF VolumesAre
  <2>4. v + 1 \in 0 .. MaxTicks
    BY <1>3, MarketAssumption
  <2>5. MovedIn(eventHistory', drifts')
    <3>1. eventHistory \in Seq(Events) /\ \A s \in Symbols : drifts[s] = job[t].drift[s]
      BY <1>4, <1>7 DEF CoreOK, MarketTypeOK
    <3> QED BY <1>4, <1>5, <3>1, OneMarketStays
  <2> QED BY <2>2, <2>3, <2>4, <2>5 DEF VolumesOK, DriftsOK, OneMarketMoved
<1>8. CASE job[t].left # {}
  <2>1. pc'[t] = "price" /\ job' = job
    BY <1>8 DEF FinishStock, GoTo, CoreOK, MarketTypeOK
  <2>2. \A u \in Threads : Ticking(u)' <=> u = t
    BY <1>6, <2>1 DEF Ticking, BusyPlaces
  <2>3. VolumesAre(v)'
    BY <1>3, <1>5, <2>1, <2>2 DEF VolumesAre
  <2>4. DriftsOK'
    BY <1>4, <1>5, <2>1, <2>2 DEF DriftsOK, OneMarketMoved
  <2> QED BY <2>3, <2>4 DEF VolumesOK
<1> QED BY <1>7, <1>8

-----------------------------------------------------------------------------
(* What is answered.                                                       *)

LEMMA BeginTickKeepsAnswers ==
  ASSUME CoreOK, CoreOK', NEW t \in Threads, BeginTick(t), AnswersOK PROVE AnswersOK'
<1>1. PICK now \in Clock, shockDrifts \in {CalculateTotalShockDrifts} :
        Begin(t, [kind |-> "tick", now |-> now, left |-> Symbols,
                  drift |-> [s \in Symbols |-> DriftOf(s, shockDrifts)]])
  BY DEF BeginTick
<1>2. /\ simMutex = NoThread /\ pc'[t] = "price" /\ job'[t].kind = "tick"
      /\ \A u \in Threads \ {t} : pc'[u] = pc[u]
      /\ \A u \in Threads \ {t} :
           job'[u] = IF job[u].kind = "quote" THEN [job[u] EXCEPT !.overtaken = TRUE] ELSE job[u]
  BY <1>1 DEF BeginTick, Begin, GoTo, CoreOK, MarketTypeOK
<1>3. CASE t = Handler
  BY <1>2, <1>3 DEF AnswersOK
<1>4. CASE t # Handler
  <2>1. pc'[Handler] # "copy"
    BY <1>2, <1>4, NoneTicks, ThreadsAreTwo DEF CoreOK
  <2>2. job[Handler].kind = "quote" => job'[Handler].kind = "quote" /\ job'[Handler].overtaken
    <3> SUFFICES ASSUME job[Handler].kind = "quote"
                 PROVE  job'[Handler].kind = "quote" /\ job'[Handler].overtaken
      OBVIOUS
    <3>1. IsQuoteJob(job[Handler])
      <4>1. ThreadOK(Handler)
        BY ThreadsAreTwo DEF CoreOK, LockOK
      <4>2. \A j \in TickJobs \cup BusyTickJobs : j.kind # "quote"
        BY TickJobFields
      <4> QED BY <4>1, <4>2, KindOfJob DEF ThreadOK
    <3>2. PICK q : job[Handler] \in [kind : {"quote"}, symbol : Symbols, read : 0 .. 5,
                                     quote : {q}, overtaken : BOOLEAN]
      BY <3>1 DEF IsQuoteJob
    <3>3. job'[Handler] = [job[Handler] EXCEPT !.overtaken = TRUE]
      BY <1>2, <1>4, ThreadsAreTwo
    <3> QED BY <3>2, <3>3
  <2>3. job[Handler].kind # "quote" => job'[Handler] = job[Handler]
    BY <1>2, <1>4, ThreadsAreTwo
  <2>4. pc'[Handler] = pc[Handler]
    BY <1>2, <1>4, ThreadsAreTwo
  <2> QED BY <2>1, <2>2, <2>3, <2>4 DEF AnswersOK
<1> QED BY <1>3, <1>4

LEMMA TickStepKeepsAnswers ==
  ASSUME CoreOK, CoreOK', AnswersOK, NEW t \in Threads,
         SetPrice(t) \/ SetRange(t) \/ FinishStock(t)
  PROVE  AnswersOK'
<1>1. Ticking(t)
  BY DEF SetPrice, SetRange, FinishStock, Ticking, BusyPlaces
<1>2. /\ pc'[t] \in {"idle", "price"} \cup BusyPlaces
      /\ \A u \in Threads \ {t} : pc'[u] = pc[u] /\ job'[u] = job[u]
  BY DEF SetPrice, SetRange, FinishStock, GoTo, CoreOK, MarketTypeOK, BusyPlaces
<1>3. CASE t = Handler
  <2>1. ThreadOK(t)' /\ pc'[t] \notin {"copy", "read", "answer"}
    BY <1>2 DEF CoreOK, LockOK, BusyPlaces
  <2>2. job'[t] = NoJob \/ job'[t] \in TickJobs \cup BusyTickJobs
    BY <2>1 DEF ThreadOK
  <2>3. job'[t].kind # "quote"
    BY <2>2, KindOfJob, TickJobFields
  <2> QED BY <1>3, <2>1, <2>3 DEF AnswersOK
<1>4. CASE t # Handler
  <2>1. t = Ticker /\ pc[Handler] # "copy" /\ pc'[Handler] = pc[Handler]
          /\ job'[Handler] = job[Handler]
    BY <1>1, <1>2, <1>4, OneTicks, ThreadsAreTwo DEF CoreOK
  <2> QED BY <1>1, <2>1 DEF AnswersOK
<1> QED BY <1>3, <1>4

(* All of the stocks, while no tick is under way.                          *)
LEMMA StocksAreConsistent ==
  ASSUME LockOK, \A u \in Threads : ~Ticking(u), \A s \in Symbols : StockOK(s), VolumesOK
  PROVE  ListIsConsistent(stocks)
<1>1. PICK v \in 0 .. MaxTicks : VolumesAre(v)
  BY DEF VolumesOK
<1>2. \A s \in Symbols : stocks[s].volume = v
  BY <1>1 DEF VolumesAre
<1>3. AtIsNowhere
  BY AtIs
<1>4. \A s \in Symbols : ~At(s, {"high"}) /\ ~At(s, {"high", "low"})
  BY <1>3, SomePlaces DEF AtIsNowhere
<1> QED BY <1>2, <1>4 DEF StockOK, ListIsConsistent

LEMMA ReadStepKeepsAnswers ==
  ASSUME CoreOK, CoreOK', ReadStep, AnswersOK, \A s \in Symbols : StockOK(s), VolumesOK
  PROVE  AnswersOK'
<1>1. Handler \in Threads /\ Ticker \in Threads /\ Handler # Ticker
  BY ThreadsAreTwo
<1>2. stocks' = stocks /\ pc'[Ticker] = pc[Ticker]
  BY <1>1 DEF ReadStep, BeginGetAllStocks, GetAllStocks, GetStock, ReadField, Answer, SetRegime,
              GoTo, market, CoreOK, MarketTypeOK
<1>3. CASE BeginGetAllStocks
  <2>1. pc'[Handler] = "copy" /\ job'[Handler].kind = "list" /\ job'[Handler].copied = <<>>
    BY <1>1, <1>3 DEF BeginGetAllStocks, GoTo, CoreOK, MarketTypeOK
  <2>2. DOMAIN <<>> = {}
    OBVIOUS
  <2> QED BY <2>1, <2>2 DEF AnswersOK
<1>4. CASE GetAllStocks
  <2>1. /\ IsListJob(job[Handler]) /\ pc[Handler] = "copy" /\ simMutex = Handler
        /\ \A u \in Threads : ~Ticking(u)
    <3>1. pc[Handler] = "copy" /\ simMutex = Handler /\ ~Ticking(Handler)
      BY <1>1, <1>4 DEF GetAllStocks, CoreOK, LockOK, Ticking, BusyPlaces
    <3>2. \A u \in Threads : u # Handler => ~Ticking(u)
      BY <3>1, ThreadsAreTwo DEF CoreOK, LockOK
    <3> QED BY <1>1, <3>1, <3>2, JobAt DEF CoreOK
  <2>2. \A s \in DOMAIN job[Handler].copied : job[Handler].copied[s] = stocks[s]
    BY <2>1 DEF AnswersOK
  <2>3. ASSUME NEW s \in Symbols,
               job' = [job EXCEPT ![Handler].copied = With(@, s, stocks[s])],
               UNCHANGED <<pc, simMutex>>
        PROVE  AnswersOK'
    <3>1. PICK c : job[Handler] \in [kind : {"list"}, copied : {c}]
      BY <2>1 DEF IsListJob
    <3>2. /\ job'[Handler].kind = "list"
          /\ job'[Handler].copied = With(job[Handler].copied, s, stocks[s])
      BY <1>1, <2>3, <3>1 DEF CoreOK, MarketTypeOK
    <3>3. \A r \in DOMAIN With(job[Handler].copied, s, stocks[s]) :
            With(job[Handler].copied, s, stocks[s])[r] = stocks[r]
      BY <2>2 DEF With
    <3> QED BY <1>2, <2>1, <2>3, <3>2, <3>3 DEF AnswersOK
  <2>4. ASSUME DOMAIN job[Handler].copied = Symbols, GoTo(Handler, "answer"), UNCHANGED job
        PROVE  AnswersOK'
    <3>1. ListIsConsistent(stocks)
      BY <2>1, StocksAreConsistent DEF CoreOK
    <3>2. ListIsConsistent(job[Handler].copied)
      BY <2>2, <2>4, <3>1 DEF ListIsConsistent
    <3>3. pc'[Handler] = "answer" /\ job'[Handler] = job[Handler]
      BY <1>1, <2>4 DEF GoTo, CoreOK, MarketTypeOK
    <3>4. job[Handler].kind # "quote"
      BY <2>1, KindOfJob
    <3> QED BY <3>2, <3>3, <3>4 DEF AnswersOK
  <2> QED BY <1>4, <2>3, <2>4 DEF GetAllStocks
<1>5. CASE GetStock
  <2>1. /\ pc'[Handler] = "read" /\ job'[Handler].kind = "quote" /\ job'[Handler].read = 0
        /\ simMutex = NoThread
    BY <1>1, <1>5 DEF GetStock, GoTo, CoreOK, MarketTypeOK
  <2>2. ~Ticking(Ticker)'
    BY <1>1, <1>2, <2>1, NoneTicks DEF CoreOK, Ticking
  <2> QED BY <2>1, <2>2 DEF AnswersOK
<1>6. CASE ReadField
  <2>1. /\ IsQuoteJob(job[Handler]) /\ pc[Handler] = "read" /\ job[Handler].read \in 0 .. 4
    BY <1>1, <1>6, JobAt, KindOfJob DEF CoreOK, ReadField
  <2> DEFINE read  == job[Handler].read + 1
             field == Fields[read]
             new   == With(job[Handler].quote, field, FieldOf(job[Handler].symbol, field))
  <2>2. PICK q : job[Handler] \in [kind : {"quote"}, symbol : Symbols, read : 0 .. 5,
                                   quote : {q}, overtaken : BOOLEAN]
    BY <2>1 DEF IsQuoteJob
  <2>3. job'[Handler] = [job[Handler] EXCEPT !.quote = new, !.read = read]
    BY <1>1, <1>6 DEF ReadField, Moving, FieldOf, CoreOK, MarketTypeOK
  <2>4. pc'[Handler] \in {"read", "answer"}
    BY <1>1, <1>6 DEF ReadField, GoTo, CoreOK, MarketTypeOK
  <2>5. read \in 1 .. 5 /\ \A i \in 1 .. read : i = read \/ i \in 1 .. job[Handler].read
    BY <2>1
  <2> HIDE DEF new, read, field
  <2>6. /\ job'[Handler].kind = "quote" /\ job'[Handler].read = read
        /\ job'[Handler].symbol = job[Handler].symbol /\ job'[Handler].quote = new
        /\ job'[Handler].overtaken = job[Handler].overtaken
        /\ job[Handler].kind = "quote"
    BY <2>2, <2>3
  <2>7. ASSUME ~job[Handler].overtaken
        PROVE  /\ ~Ticking(Ticker)'
               /\ \A i \in 1 .. read :
                    /\ Fields[i] \in DOMAIN new
                    /\ new[Fields[i]] = FieldOf(job[Handler].symbol, Fields[i])
    <3>1. /\ ~Ticking(Ticker)
          /\ \A i \in 1 .. job[Handler].read :
               /\ Fields[i] \in DOMAIN job[Handler].quote
               /\ job[Handler].quote[Fields[i]] = FieldOf(job[Handler].symbol, Fields[i])
      BY <2>6, <2>7 DEF AnswersOK
    <3>2. ~Ticking(Ticker)'
      BY <1>2, <3>1 DEF Ticking
    <3>3. field \in DOMAIN new /\ new[field] = FieldOf(job[Handler].symbol, field)
      BY DEF new, With
    <3>4. \A f \in DOMAIN job[Handler].quote :
            f \in DOMAIN new /\ (f # field => new[f] = job[Handler].quote[f])
      BY DEF new, With
    <3>5. ASSUME NEW i \in 1 .. read
          PROVE  Fields[i] \in DOMAIN new
                   /\ new[Fields[i]] = FieldOf(job[Handler].symbol, Fields[i])
      <4>1. CASE Fields[i] = field
        BY <3>3, <4>1
      <4>2. CASE Fields[i] # field
        <5>1. i \in 1 .. job[Handler].read
          BY <2>5, <4>2 DEF field
        <5> QED BY <3>1, <3>4, <4>2, <5>1
      <4> QED BY <4>1, <4>2
    <3> QED BY <3>2, <3>5
  <2>8. \A s, f : FieldOf(s, f)' = FieldOf(s, f)
    BY <1>2 DEF FieldOf
  <2> QED BY <2>4, <2>6, <2>7, <2>8 DEF AnswersOK
<1>7. CASE Answer
  <2>1. pc'[Handler] = "idle" /\ job'[Handler] = NoJob
    BY <1>1, <1>7 DEF Answer, GoTo, CoreOK, MarketTypeOK
  <2> QED BY <2>1, KindOfJob DEF AnswersOK
<1>8. CASE SetRegime
  <2>1. UNCHANGED <<stocks, pc, job>>
    BY <1>8 DEF SetRegime
  <2> QED BY <2>1 DEF AnswersOK, Ticking, FieldOf
<1> QED BY <1>3, <1>4, <1>5, <1>6, <1>7, <1>8 DEF ReadStep

-----------------------------------------------------------------------------
(* Every step keeps the invariant.                                         *)

LEMMA TriggerKeepsInv ==
  ASSUME MarketInv, TriggerMarketEvent PROVE MarketInv'
<1>1. PICK e \in Epicentres, b \in BaseImpacts : TriggerEvent(e, b)
  BY DEF TriggerMarketEvent
<1> DEFINE evt == [eventId |-> eventIdCounter + 1, epicentreNode |-> e, baseImpact |-> b,
                   affectedSymbols |-> AffectedSymbols(ShocksFrom(e, b))]
<1>2. evt \in Events
  <2>1. AffectedSymbols(ShocksFrom(e, b)) \subseteq Reached
    BY DEF AffectedSymbols, Reached
  <2>2. eventIdCounter + 1 \in Int
    BY DEF MarketInv, MarketTypeOK
  <2> QED BY <2>1, <2>2 DEF Events
<1>3. /\ eventIdCounter' = eventIdCounter + 1
      /\ activeEvents' = Append(activeEvents, evt) /\ eventHistory' = Append(eventHistory, evt)
  BY <1>1 DEF TriggerEvent
<1> HIDE DEF evt
<1>4. UNCHANGED <<stocks, candles, currentRegime, seeded, drifts, simMutex, pc, job>>
  BY DEF TriggerMarketEvent, simVars, market
<1>5. MarketTypeOK'
  BY <1>2, <1>3, <1>4 DEF MarketInv, MarketTypeOK
<1>6. LockOK' /\ AnswersOK'
  BY <1>4 DEF MarketInv, LockOK, ThreadOK, Ticking, AnswersOK, FieldOf
<1>7. TicksStay
  BY <1>4 DEF TicksStay
<1>8. VolumesOK' /\ \A s \in Symbols : StockOK(s)'
  BY <1>7, TicksStayKeeps DEF MarketInv
<1>9. DriftsOK'
  <2>1. eventHistory \in Seq(Events)
    BY DEF MarketInv, MarketTypeOK
  <2>2. \A f : MovedIn(eventHistory, f) => MovedIn(eventHistory', f)
    BY <1>3, <2>1, OneMarketStays
  <2>3. \A t \in Threads : Ticking(t)' <=> Ticking(t)
    BY <1>4 DEF Ticking
  <2> QED BY <1>4, <2>2, <2>3 DEF MarketInv, DriftsOK, OneMarketMoved
<1> QED BY <1>5, <1>6, <1>8, <1>9 DEF MarketInv

LEMMA TickStepKeepsInv ==
  ASSUME MarketInv, NEW t \in Threads,
         BeginTick(t) \/ SetPrice(t) \/ SetRange(t) \/ FinishStock(t)
  PROVE  MarketInv'
<1>1. CoreOK
  BY DEF MarketInv, CoreOK
<1>2. CoreOK'
  BY <1>1, BeginTickKeepsCore, SetPriceKeepsCore, SetRangeKeepsCore, FinishStockKeepsCore
     DEF MarketInv
<1>3. \A s \in Symbols : StockOK(s)'
  BY <1>1, <1>2, BeginTickKeepsStocks, SetPriceKeepsStocks, SetRangeKeepsStocks,
     FinishStockKeepsStocks DEF MarketInv
<1>4. VolumesOK' /\ DriftsOK'
  BY <1>1, <1>2, BeginTickKeepsTicks, SetPriceKeepsTicks, SetRangeKeepsTicks,
     FinishStockKeepsTicks DEF MarketInv
<1>5. AnswersOK'
  BY <1>1, <1>2, BeginTickKeepsAnswers, TickStepKeepsAnswers DEF MarketInv
<1> QED BY <1>2, <1>3, <1>4, <1>5 DEF MarketInv, CoreOK

LEMMA ReadStepKeepsInv ==
  ASSUME MarketInv, ReadStep PROVE MarketInv'
<1>1. CoreOK
  BY DEF MarketInv, CoreOK
<1>2. CoreOK' /\ TicksStay /\ eventHistory' = eventHistory
  BY <1>1, ReadStepKeepsCore DEF eventVars
<1>3. VolumesOK' /\ DriftsOK' /\ \A s \in Symbols : StockOK(s)'
  BY <1>2, TicksStayKeeps DEF MarketInv
<1>4. AnswersOK'
  BY <1>1, <1>2, ReadStepKeepsAnswers DEF MarketInv
<1> QED BY <1>2, <1>3, <1>4 DEF MarketInv, CoreOK

LEMMA MarketInvKept == MarketInv /\ [SimNext]_<<eventVars, simVars>> => MarketInv'
<1> SUFFICES ASSUME MarketInv, [SimNext]_<<eventVars, simVars>> PROVE MarketInv'
  OBVIOUS
<1>1. CASE SimNext
  BY <1>1, TickStepKeepsInv, ReadStepKeepsInv, TriggerKeepsInv DEF SimNext, ReadStep
<1>2. CASE UNCHANGED <<eventVars, simVars>>
  <2>1. UNCHANGED <<activeEvents, eventHistory, eventIdCounter, stocks, candles, currentRegime,
                    seeded, drifts, simMutex, pc, job>>
    BY <1>2 DEF eventVars, simVars, market
  <2>2. MarketTypeOK' /\ LockOK' /\ AnswersOK' /\ TicksStay
    BY <2>1 DEF MarketInv, MarketTypeOK, LockOK, ThreadOK, Ticking, AnswersOK, FieldOf, TicksStay
  <2>3. VolumesOK' /\ DriftsOK' /\ \A s \in Symbols : StockOK(s)'
    BY <2>1, <2>2, TicksStayKeeps DEF MarketInv
  <2> QED BY <2>2, <2>3 DEF MarketInv
<1> QED BY <1>1, <1>2

LEMMA MarketInvInitially == SimInit => MarketInv
<1> SUFFICES ASSUME SimInit PROVE MarketInv
  OBVIOUS
<1>1. \A s \in Symbols : InitialPrice[s] \in Prices[s] /\ InitialPrice[s] \in Nat
  BY MarketAssumption
<1>2. \A t \in Threads : pc[t] = "idle" /\ job[t] = NoJob /\ ~Ticking(t)
  BY DEF SimInit, Ticking, BusyPlaces
<1>3. \A s \in Symbols : IsChart(candles[s])
  <2> SUFFICES ASSUME NEW s \in Symbols PROVE IsChart(candles[s])
    OBVIOUS
  <2> DEFINE price == InitialPrice[s]
             series == [i \in 1 .. HistoryBars |-> NewCandle(i - 1, price)]
  <2>1. candles[s] = series
    BY DEF SimInit
  <2>2. HistoryBars \in 1 .. MaxCandles /\ HistoryBars \in Nat
    BY Caps
  <2>3. \A i \in 1 .. HistoryBars : /\ NewCandle(i - 1, price) \in Candles
                                    /\ InRange(NewCandle(i - 1, price))
                                    /\ NewCandle(i - 1, price).timestamp = i - 1
    BY <1>1, <2>2, NewCandleInRange
  <2>4. series \in Seq(Candles) /\ Len(series) = HistoryBars
    BY <2>2, <2>3
  <2>5. \A i \in 1 .. HistoryBars : series[i] = NewCandle(i - 1, price)
    OBVIOUS
  <2> HIDE DEF series, price
  <2>6. \A i \in 2 .. HistoryBars : series[i].timestamp - series[i - 1].timestamp >= 1
    <3> SUFFICES ASSUME NEW i \in 2 .. HistoryBars
                 PROVE  series[i].timestamp - series[i - 1].timestamp >= 1
      OBVIOUS
    <3>1. i \in 1 .. HistoryBars /\ i - 1 \in 1 .. HistoryBars
      BY <2>2
    <3>2. series[i].timestamp = i - 1 /\ series[i - 1].timestamp = i - 2
      BY <2>2, <2>3, <2>5, <3>1
    <3> QED BY <2>2, <3>2
  <2> QED BY <2>1, <2>2, <2>3, <2>4, <2>5, <2>6 DEF IsChart
<1>4. MarketTypeOK
  <2>1. stocks \in [Symbols -> StockRows] /\ candles \in [Symbols -> Seq(Candles)]
    <3>1. \A s \in Symbols : candles[s] \in Seq(Candles)
      BY <1>3 DEF IsChart
    <3> QED BY <1>1, <3>1 DEF SimInit, StockRows
  <2>2. /\ activeEvents = eventHistory /\ eventHistory = <<>> /\ eventIdCounter \in Int
        /\ currentRegime = "BULL" /\ DOMAIN seeded = Symbols /\ DOMAIN job = Threads
        /\ drifts \in [Symbols -> Int]
        /\ pc \in [Threads -> {"idle", "price", "copy", "read", "answer"} \cup BusyPlaces]
    BY DEF SimInit, EventInit
  <2> QED BY <2>1, <2>2, MarketAssumption DEF MarketTypeOK
<1>5. LockOK
  BY <1>2, ThreadsAreTwo DEF LockOK, ThreadOK, SimInit
<1>6. \A s \in Symbols : StockOK(s)
  <2> SUFFICES ASSUME NEW s \in Symbols PROVE StockOK(s)
    OBVIOUS
  <2>1. /\ stocks[s].currentPrice = InitialPrice[s] /\ stocks[s].highPrice = InitialPrice[s]
        /\ stocks[s].lowPrice = InitialPrice[s] /\ stocks[s].volume = 0
        /\ seeded[s] = SeedLevels(InitialPrice[s])
    BY DEF SimInit
  <2> QED BY <1>1, <1>3, <2>1 DEF StockOK
<1>7. VolumesOK
  <2>1. 0 \in 0 .. MaxTicks /\ \A s \in Symbols : stocks[s].volume = 0
    BY MarketAssumption DEF SimInit
  <2>2. VolumesAre(0)
    BY <1>2, <2>1 DEF VolumesAre
  <2> QED BY <2>1, <2>2 DEF VolumesOK
<1>8. DriftsOK
  <2>1. PICK s \in Symbols : TRUE
    BY MarketAssumption
  <2>2. ~(stocks[s].volume > 0)
    BY DEF SimInit
  <2> QED BY <1>2, <2>2 DEF DriftsOK
<1>9. AnswersOK
  BY <1>2, ThreadsAreTwo, KindOfJob DEF AnswersOK
<1> QED BY <1>4, <1>5, <1>6, <1>7, <1>8, <1>9 DEF MarketInv

(* The simulator keeps its invariant, whichever thread ticks, triggers an  *)
(* event, changes the regime or reads.                                     *)
THEOREM MarketInvariant == SimSpec => []MarketInv
  BY MarketInvInitially, MarketInvKept, PTL DEF SimSpec

-----------------------------------------------------------------------------
(* What follows from it.                                                   *)

LEMMA UnfinishedIsAt == \A s : Unfinished(s) <=> At(s, BusyPlaces)
  BY DEF Unfinished, At, BusyPlaces

LEMMA InvTypes == MarketInv => SimTypeOK
<1> SUFFICES ASSUME MarketInv PROVE SimTypeOK
  OBVIOUS
<1>1. \A s \in Symbols : stocks[s].currentPrice \in Prices[s]
  BY DEF MarketInv, StockOK
<1>2. \A s \in Symbols : stocks[s].volume \in 0 .. MaxTicks
  <2>1. PICK v \in 0 .. MaxTicks : VolumesAre(v)
    BY DEF MarketInv, VolumesOK
  <2> QED BY <2>1, MarketAssumption DEF VolumesAre
<1>3. ASSUME NEW t \in Threads
      PROVE  (job[t].kind \in {"tick", "list"} /\ pc[t] # "answer") <=> simMutex = t
  <2>1. ThreadOK(t) /\ ((Ticking(t) \/ pc[t] = "copy") <=> simMutex = t)
    BY DEF MarketInv, LockOK
  <2>2. \A j \in TickJobs \cup BusyTickJobs : j.kind = "tick"
    BY TickJobFields
  <2> QED BY <2>1, <2>2, KindOfJob DEF ThreadOK, Ticking, BusyPlaces
<1> QED BY <1>1, <1>2, <1>3 DEF SimTypeOK, MarketInv, MarketTypeOK, LockOK

LEMMA InvCandles == MarketInv => CandlesAreSound
<1> SUFFICES ASSUME MarketInv, NEW s \in Symbols
             PROVE  LET series == candles[s]
                    IN  /\ Len(series) <= MaxCandles
                        /\ \A i \in DOMAIN series :
                             /\ series[i].low <= Smaller(series[i].open, series[i].close)
                             /\ series[i].high >= Larger(series[i].open, series[i].close)
                             /\ i > 1 => series[i].timestamp - series[i - 1].timestamp >= 1
                        /\ ~Unfinished(s) /\ stocks[s].volume > 0 =>
                             /\ Last(series).close = stocks[s].currentPrice
                             /\ stocks[s].lowPrice <= Last(series).close
                             /\ Last(series).close <= stocks[s].highPrice
  BY DEF CandlesAreSound
<1> DEFINE series == candles[s]
<1>1. StockOK(s) /\ IsChart(series)
  BY DEF MarketInv, StockOK
<1>2. \A i \in DOMAIN series :
        /\ series[i].low <= Smaller(series[i].open, series[i].close)
        /\ series[i].high >= Larger(series[i].open, series[i].close)
  BY <1>1 DEF IsChart, InRange, Larger, Smaller
<1>3. \A i \in DOMAIN series : i > 1 => series[i].timestamp - series[i - 1].timestamp >= 1
  BY <1>1 DEF IsChart
<1>4. ASSUME ~Unfinished(s), stocks[s].volume > 0
      PROVE  /\ Last(series).close = stocks[s].currentPrice
             /\ stocks[s].lowPrice <= Last(series).close
             /\ Last(series).close <= stocks[s].highPrice
  <2>1. ~At(s, BusyPlaces) /\ ~At(s, {"high"}) /\ ~At(s, {"high", "low"})
    BY <1>4, UnfinishedIsAt DEF At, BusyPlaces
  <2> QED BY <1>1, <1>4, <2>1 DEF StockOK
<1>5. Len(series) <= MaxCandles
  BY <1>1, Caps DEF IsChart
<1> QED BY <1>2, <1>3, <1>4, <1>5

LEMMA InvLevels == MarketInv => LevelsStayApart
<1> SUFFICES ASSUME MarketInv, NEW s \in Symbols, ~Unfinished(s)
             PROVE  LevelsAreApart(stocks[s].currentPrice, seeded[s])
  BY DEF LevelsStayApart, LevelsAreApart
<1>1. seeded[s] = SeedLevels(stocks[s].currentPrice)
  BY UnfinishedIsAt DEF MarketInv, StockOK
<1>2. stocks[s].currentPrice \in Nat
  BY DEF MarketInv, MarketTypeOK, StockRows
<1> QED BY <1>1, <1>2, SeedLevelsAreApart

LEMMA InvQuotes == MarketInv => QuotesAreConsistent
<1> SUFFICES ASSUME MarketInv, pc[Handler] = "answer" PROVE QuotesAreConsistent
  BY DEF QuotesAreConsistent
<1>1. CASE job[Handler].kind = "list"
  <2>1. ListIsConsistent(job[Handler].copied)
    BY <1>1 DEF MarketInv, AnswersOK
  <2> QED BY <1>1, <2>1 DEF QuotesAreConsistent, ListIsConsistent
<1>2. CASE job[Handler].kind # "list"
  <2>1. IsQuoteJob(job[Handler]) /\ job[Handler].read = 5
    BY <1>2, JobAt, KindOfJob, ThreadsAreTwo DEF MarketInv
  <2> DEFINE shown == job[Handler].quote
             s == job[Handler].symbol
  <2> SUFFICES ASSUME ~job[Handler].overtaken
               PROVE  /\ shown.change = shown.currentPrice
                      /\ shown.lowPrice <= shown.currentPrice
                      /\ shown.currentPrice <= shown.highPrice
    BY <1>2 DEF QuotesAreConsistent
  <2>2. s \in Symbols /\ job[Handler].kind = "quote"
    BY <2>1, KindOfJob
  <2>3. ~Ticking(Ticker) /\ \A i \in 1 .. 5 : shown[Fields[i]] = FieldOf(s, Fields[i])
    BY <2>1, <2>2 DEF MarketInv, AnswersOK
  <2>4. /\ shown.currentPrice = stocks[s].currentPrice /\ shown.highPrice = stocks[s].highPrice
        /\ shown.lowPrice = stocks[s].lowPrice /\ shown.change = stocks[s].currentPrice
    <3>1. /\ Fields[1] = "currentPrice" /\ Fields[2] = "highPrice" /\ Fields[3] = "lowPrice"
          /\ Fields[4] = "change"
      BY DEF Fields
    <3> QED BY <2>3, <3>1 DEF FieldOf
  <2>5. \A u \in Threads : ~Ticking(u)
    BY <2>3, ThreadsAreTwo DEF Ticking, BusyPlaces
  <2>6. ListIsConsistent(stocks)
    BY <2>5, StocksAreConsistent DEF MarketInv
  <2> QED BY <2>2, <2>4, <2>6 DEF ListIsConsistent
<1> QED BY <1>1, <1>2

LEMMA InvTicks == MarketInv => TicksAreOfOneMarket
<1> SUFFICES ASSUME MarketInv, simMutex = NoThread, \A s \in Symbols : stocks[s].volume > 0
             PROVE  TicksAreOfOneMarket
  BY DEF TicksAreOfOneMarket
<1>1. \A t \in Threads : ~Ticking(t)
  BY NoneTicks DEF MarketInv
<1>2. PICK n \in 0 .. Len(eventHistory), r \in DOMAIN Regimes :
        \A s \in Symbols : drifts[s] = Regimes[r] + ShockOn(s, eventHistory, n)
  BY <1>1 DEF MarketInv, DriftsOK, OneMarketMoved, MovedIn
<1>3. ASSUME \A i \in DOMAIN eventHistory : eventHistory[i].epicentreNode \notin Vertices,
             NEW s \in Symbols
      PROVE  drifts[s] = Regimes[r]
  <2>1. eventHistory \in Seq(Events)
    BY DEF MarketInv, MarketTypeOK
  <2>2. n \in Nat /\ \A k \in 1 .. n : eventHistory[k] \in Events /\ k \in DOMAIN eventHistory
    BY <1>2, <2>1
  <2>3. \A k \in 1 .. n : ImpactOn(s, eventHistory[k]) = 0
    <3> SUFFICES ASSUME NEW k \in 1 .. n PROVE ImpactOn(s, eventHistory[k]) = 0
      OBVIOUS
    <3> DEFINE evt == eventHistory[k]
    <3>1. evt.epicentreNode \in Epicentres /\ evt.baseImpact \in BaseImpacts
            /\ evt.epicentreNode \notin Vertices
      BY <1>3, <2>2 DEF Events
    <3>2. DOMAIN ImpactsOf(evt) = {evt.epicentreNode}
      BY <3>1, EventAssumption DEF ImpactsOf
    <3>3. s \in Vertices
      BY MarketAssumption
    <3> QED BY <3>1, <3>2, <3>3 DEF ImpactOn
  <2>4. ShockOn(s, eventHistory, n) = 0
    BY <2>2, <2>3, NoShock
  <2> QED BY <1>2, <2>4, MarketAssumption
<1> QED BY <1>2, <1>3 DEF TicksAreOfOneMarket

(* Only the tick of its stock changes a chart.                             *)
LEMMA StepsKeepThePast ==
  ASSUME MarketInv, [SimNext]_<<eventVars, simVars>>, NEW s \in Symbols
  PROVE  PastStays(candles[s], candles'[s])
<1>1. IsChart(candles[s])
  BY DEF MarketInv, StockOK
<1>2. CASE candles'[s] = candles[s]
  <2>1. \A i \in 1 .. Len(candles[s]) : /\ candles[s][i].high \in Int /\ candles[s][i].low \in Int
    <3>1. \A c \in Candles : c.high \in Int /\ c.low \in Int
      BY DEF Candles
    <3>2. \A i \in 1 .. Len(candles[s]) : candles[s][i] \in Candles
      BY <1>1 DEF IsChart
    <3> QED BY <3>1, <3>2
  <2> QED BY <1>2, <2>1 DEF PastStays
<1>3. CASE \E t \in Threads : FinishStock(t)
  <2>1. PICK t \in Threads : FinishStock(t)
    BY <1>3
  <2>2. job[t].symbol \in Symbols /\ job[t].now \in Int
    BY <2>1, JobAt, BusyJobFields DEF MarketInv, FinishStock, BusyPlaces
  <2>3. stocks[job[t].symbol].currentPrice \in Int
    BY <2>2 DEF MarketInv, MarketTypeOK, StockRows
  <2>4. candles'[s] = IF s = job[t].symbol
                      THEN CandlesAfter(candles[s], job[t].now, stocks[s].currentPrice)
                      ELSE candles[s]
    BY <2>1, <2>2 DEF FinishStock, MarketInv, MarketTypeOK
  <2> QED BY <1>1, <1>2, <2>2, <2>3, <2>4, ChartKept
<1>4. CASE ~(\E t \in Threads : FinishStock(t))
  <2>1. candles' = candles
    BY <1>4 DEF SimNext, BeginTick, SetPrice, SetRange, BeginGetAllStocks, GetAllStocks, GetStock,
                ReadField, Answer, SetRegime, TriggerMarketEvent, simVars, market
  <2> QED BY <1>2, <2>1
<1> QED BY <1>3, <1>4

(* Prices, volumes and the lock are in range: simMutex's holder is the     *)
(* thread inside tick or getAllStocks.                                     *)
THEOREM MarketTypeCorrect == SimSpec => []SimTypeOK
  BY MarketInvariant, InvTypes, PTL

(* Every chart is sound, whatever prices and times tick is given.          *)
THEOREM CandlesAreAlwaysSound == SimSpec => []CandlesAreSound
  BY MarketInvariant, InvCandles, PTL

(* seedLiquidity's bids and asks go outwards from the price.               *)
THEOREM LevelsAlwaysStayApart == SimSpec => []LevelsStayApart
  BY MarketInvariant, InvLevels, PTL

(* A list of the stocks, and a quote no tick came into, show one market.   *)
THEOREM QuotesAreAlwaysConsistent == SimSpec => []QuotesAreConsistent
  BY MarketInvariant, InvQuotes, PTL

(* A tick moves every stock by the same events under the same regime.      *)
THEOREM TicksAreAlwaysOfOneMarket == SimSpec => []TicksAreOfOneMarket
  BY MarketInvariant, InvTicks, PTL

(* What a chart has shown stays until it is the oldest of a full series.   *)
THEOREM ClosedCandlesAlwaysStay == SimSpec => ClosedCandlesStay
<1>1. MarketInv /\ [SimNext]_<<eventVars, simVars>> =>
        [\A s \in Symbols : PastStays(candles[s], candles'[s])]_candles
  BY StepsKeepThePast
<1> QED BY <1>1, MarketInvariant, PTL DEF SimSpec, ClosedCandlesStay
=============================================================================
