--------------------------- MODULE MarketSimulator ---------------------------
(***************************************************************************)
(* market/MarketSimulator.hpp, used by the ticker thread and, one at a     *)
(* time, by the handlers of main.cpp.  simMutex is held for a whole tick   *)
(* and for a whole getAllStocks; getStock releases it before its caller    *)
(* reads through the pointer that it returns.                              *)
(*                                                                         *)
(* Prices are in cents and a minute is a unit of the clock, which may be   *)
(* set back between two calls.  The normal distribution has no bounds:     *)
(* in every regime a price may move to any other.  volume counts ticks,    *)
(* each of which adds to it.                                               *)
(***************************************************************************)
EXTENDS EventEngine, SequencesExt

CONSTANTS
  Ticker, Handler,
  Symbols,
  Prices,          \* [symbol -> the prices it may have], of 100 cents or more
  InitialPrice,    \* [symbol -> one of them]
  Regimes,         \* [name -> its drift], with "BULL" and "SIDEWAYS"
  Names,           \* what POST /api/admin/regime may be sent
  MaxCandles,      \* 200 in the code
  HistoryBars,     \* 30 in the code
  Clock,           \* bound: what the clock may show
  MaxTicks         \* bound: ticks

Threads == {Ticker, Handler}
NoThread == "none"

(* Every stock is a vertex of the graph of events.                         *)
ASSUME MarketAssumption ==
  /\ Ticker # Handler /\ NoThread \notin Threads
  /\ Symbols # {} /\ Symbols \subseteq Vertices
  /\ \A s \in Symbols : InitialPrice[s] \in Prices[s]
  /\ \A s \in Symbols : \A p \in Prices[s] : p \in Nat /\ p >= 100
  /\ {"BULL", "SIDEWAYS"} \subseteq DOMAIN Regimes
  /\ \A name \in DOMAIN Regimes : Regimes[name] \in Int
  /\ HistoryBars \in Nat \ {0} /\ MaxCandles \in Nat /\ MaxCandles >= HistoryBars
  /\ Clock \subseteq Int /\ MaxTicks \in Nat

VARIABLES
  stocks, candles, currentRegime,
  seeded,      \* [symbol -> the levels seedLiquidity last submitted]
  drifts,      \* [symbol -> the drift of its last price step]
  simMutex,    \* its holder
  pc, job      \* where a thread is, and the local variables of its call

market  == <<stocks, candles, currentRegime, seeded, drifts>>
simVars == <<market, simMutex, pc, job>>

-----------------------------------------------------------------------------
With(f, key, value) == [k \in DOMAIN f \cup {key} |-> IF k = key THEN value ELSE f[k]]

NewCandle(now, price) ==
  [timestamp |-> now, open |-> price, high |-> price, low |-> price, close |-> price]

Larger(x, y) == IF x >= y THEN x ELSE y
Smaller(x, y) == IF x <= y THEN x ELSE y

(* candles.erase(candles.begin()) when there are more than MaxCandles.     *)
Trimmed(series) == IF Len(series) > MaxCandles THEN Tail(series) ELSE series

(* Mutant: a price within the minute moves the close alone.                *)
CandlesIgnoringRange(series, now, price) ==
  IF series = <<>> \/ now - Last(series).timestamp > 1
  THEN Trimmed(Append(series, NewCandle(now, price)))
  ELSE [series EXCEPT ![Len(series)].close = price]

(* Mutant: a price within the minute starts the candle over.               *)
CandlesStartedOver(series, now, price) ==
  IF series = <<>> \/ now - Last(series).timestamp > 1
  THEN Trimmed(Append(series, NewCandle(now, price)))
  ELSE [series EXCEPT ![Len(series)] = NewCandle(@.timestamp, price)]

CandlesAfter(series, now, price) ==
  IF series = <<>> \/ now - Last(series).timestamp > 1
  THEN Trimmed(Append(series, NewCandle(now, price)))
  ELSE LET lastCandle == Last(series)
       IN  [series EXCEPT ![Len(series)] =
              [lastCandle EXCEPT !.high = Larger(lastCandle.high, price),
                                 !.low = Smaller(lastCandle.low, price), !.close = price]]

(* std::round, of thousandths of a cent to cents.                          *)
Rounded(n) == (n + 500) \div 1000

(* Mutant: both sides are rounded up.                                      *)
SeedLevelsRoundedUp(center) ==
  [i \in 1 .. 5 |-> [bid |-> (center * (1000 - 2 * i) + 999) \div 1000,
                     ask |-> (center * (1000 + 2 * i)) \div 1000]]

(* The prices of seedLiquidity's five pairs of orders.                     *)
SeedLevels(center) ==
  [i \in 1 .. 5 |-> [bid |-> Rounded(center * (1000 - 2 * i)),
                     ask |-> Rounded(center * (1000 + 2 * i))]]

-----------------------------------------------------------------------------
NoJob == [kind |-> "none"]

SimInit ==
  /\ EventInit
  /\ stocks = [s \in Symbols |-> [currentPrice |-> InitialPrice[s], highPrice |-> InitialPrice[s],
                                  lowPrice |-> InitialPrice[s], volume |-> 0]]
  /\ candles = [s \in Symbols |->
                  [i \in 1 .. HistoryBars |-> NewCandle(i - 1, InitialPrice[s])]]
  /\ currentRegime = "BULL"
  /\ seeded = [s \in Symbols |-> SeedLevels(InitialPrice[s])]
  /\ drifts = [s \in Symbols |-> 0]
  /\ simMutex = NoThread
  /\ pc = [t \in Threads |-> "idle"]
  /\ job = [t \in Threads |-> NoJob]

GoTo(t, place) == pc' = [pc EXCEPT ![t] = place]

(* Another thread that reads a stock without simMutex, if there is one,    *)
(* has been overtaken by a tick.                                           *)
Begin(t, work) ==
  job' = [u \in Threads |->
            IF u = t THEN work
            ELSE IF job[u].kind = "quote" THEN [job[u] EXCEPT !.overtaken = TRUE] ELSE job[u]]

(* The drift of the regime and the shock of the events that have been      *)
(* triggered, in units of a shock, of which the code takes a twentieth.    *)
(* The drift of the stock itself never changes and is left out.            *)
DriftOf(s, shockDrifts) ==
  Regimes[currentRegime] + (IF s \in DOMAIN shockDrifts THEN shockDrifts[s] ELSE 0)

(* tick, by the ticker or by POST /api/admin/tick: the lock, the clock,    *)
(* the shocks and the regime, and then one stock after another.            *)
BeginTick(t) ==
  /\ pc[t] = "idle"
  /\ simMutex = NoThread
  /\ \A s \in Symbols : stocks[s].volume < MaxTicks
  /\ simMutex' = t
  /\ \E now \in Clock, shockDrifts \in {CalculateTotalShockDrifts} :
       Begin(t, [kind |-> "tick", now |-> now, left |-> Symbols,
                 drift |-> [s \in Symbols |-> DriftOf(s, shockDrifts)]])
  /\ GoTo(t, "price")
  /\ UNCHANGED <<eventVars, market>>

(* Mutant: the shocks are asked for again for every stock.                 *)
ShockNow(t, s) == DriftOf(s, CalculateTotalShockDrifts)

Shock(t, s) == job[t].drift[s]

SetPrice(t) ==
  /\ pc[t] = "price"
  /\ \E s \in job[t].left : \E newPrice \in Prices[s] :
       /\ stocks' = [stocks EXCEPT ![s].currentPrice = newPrice]
       /\ drifts' = [drifts EXCEPT ![s] = Shock(t, s)]
       /\ job' = [job EXCEPT ![t] = [kind |-> "tick", now |-> @.now, drift |-> @.drift,
                                      left |-> @.left \ {s}, symbol |-> s]]
  /\ GoTo(t, "high")
  /\ UNCHANGED <<eventVars, candles, currentRegime, seeded, simMutex>>

Moving(t) == stocks[job[t].symbol]

SetRange(t) ==
  /\ \/ /\ pc[t] = "high"
        /\ stocks' = [stocks EXCEPT ![job[t].symbol].highPrice = Larger(@, Moving(t).currentPrice)]
        /\ GoTo(t, "low")
     \/ /\ pc[t] = "low"
        /\ stocks' = [stocks EXCEPT ![job[t].symbol].lowPrice = Smaller(@, Moving(t).currentPrice)]
        /\ GoTo(t, "volume")
     \/ /\ pc[t] = "volume"
        /\ stocks' = [stocks EXCEPT ![job[t].symbol].volume = @ + 1]
        /\ GoTo(t, "candle")
  /\ UNCHANGED <<eventVars, candles, currentRegime, seeded, drifts, simMutex, job>>

(* Mutant: the lock is given up between two stocks.                        *)
FinishStockUnlocking(t) ==
  LET s == job[t].symbol
      price == stocks[s].currentPrice
  IN  /\ pc[t] = "candle"
      /\ candles' = [candles EXCEPT ![s] = CandlesAfter(@, job[t].now, price)]
      /\ seeded' = [seeded EXCEPT ![s] = SeedLevels(price)]
      /\ simMutex' = NoThread
      /\ IF job[t].left = {} THEN GoTo(t, "idle") /\ job' = [job EXCEPT ![t] = NoJob]
                             ELSE GoTo(t, "price") /\ UNCHANGED job
      /\ UNCHANGED <<eventVars, stocks, currentRegime, drifts>>

(* The candle and the orders; the lock goes with the last stock.           *)
FinishStock(t) ==
  LET s == job[t].symbol
      price == stocks[s].currentPrice
  IN  /\ pc[t] = "candle"
      /\ candles' = [candles EXCEPT ![s] = CandlesAfter(@, job[t].now, price)]
      /\ seeded' = [seeded EXCEPT ![s] = SeedLevels(price)]
      /\ IF job[t].left = {}
         THEN GoTo(t, "idle") /\ simMutex' = NoThread /\ job' = [job EXCEPT ![t] = NoJob]
         ELSE GoTo(t, "price") /\ UNCHANGED <<simMutex, job>>
      /\ UNCHANGED <<eventVars, stocks, currentRegime, drifts>>

-----------------------------------------------------------------------------
(* GET /api/stocks: getAllStocks, copying one stock after another.         *)
BeginGetAllStocks ==
  /\ pc[Handler] = "idle"
  /\ simMutex = NoThread
  /\ simMutex' = Handler
  /\ job' = [job EXCEPT ![Handler] = [kind |-> "list", copied |-> <<>>]]
  /\ GoTo(Handler, "copy")
  /\ UNCHANGED <<eventVars, market>>

GetAllStocks ==
  LET copied == job[Handler].copied
  IN  /\ pc[Handler] = "copy"
      /\ \/ /\ \E s \in Symbols \ DOMAIN copied :
                 job' = [job EXCEPT ![Handler].copied = With(@, s, stocks[s])]
            /\ UNCHANGED <<pc, simMutex>>
         \/ /\ DOMAIN copied = Symbols
            /\ GoTo(Handler, "answer")
            /\ simMutex' = NoThread
            /\ UNCHANGED job
      /\ UNCHANGED <<eventVars, market>>

(* GET /api/stocks/{symbol}: getStock, and then the fields of the answer   *)
(* in the order they are written; change() reads currentPrice once more.   *)
(* Whether a tick began meanwhile is remembered for the properties.        *)
Fields == <<"currentPrice", "highPrice", "lowPrice", "change", "volume">>

GetStock ==
  /\ pc[Handler] = "idle"
  /\ simMutex = NoThread
  /\ \E s \in Symbols :
       job' = [job EXCEPT ![Handler] =
                 [kind |-> "quote", symbol |-> s, read |-> 0, quote |-> <<>>, overtaken |-> FALSE]]
  /\ GoTo(Handler, "read")
  /\ UNCHANGED <<eventVars, market, simMutex>>

ReadField ==
  LET read  == job[Handler].read + 1
      field == Fields[read]
      value == IF field = "change" THEN Moving(Handler).currentPrice ELSE Moving(Handler)[field]
  IN  /\ pc[Handler] = "read"
      /\ job' = [job EXCEPT ![Handler].quote = With(@, field, value), ![Handler].read = read]
      /\ GoTo(Handler, IF read = Len(Fields) THEN "answer" ELSE "read")
      /\ UNCHANGED <<eventVars, market, simMutex>>

Answer ==
  /\ pc[Handler] = "answer"
  /\ GoTo(Handler, "idle")
  /\ job' = [job EXCEPT ![Handler] = NoJob]
  /\ UNCHANGED <<eventVars, market, simMutex>>

-----------------------------------------------------------------------------
(* stringToRegime takes what it does not know for SIDEWAYS.                *)
StringToRegime(name) == IF name \in DOMAIN Regimes THEN name ELSE "SIDEWAYS"

(* POST /api/admin/regime.                                                 *)
SetRegime ==
  /\ pc[Handler] = "idle"
  /\ simMutex = NoThread
  /\ \E name \in Names : currentRegime' = StringToRegime(name)
  /\ UNCHANGED <<eventVars, stocks, candles, seeded, drifts, simMutex, pc, job>>

(* POST /api/admin/events/trigger, which does not wait for a tick.         *)
TriggerMarketEvent ==
  /\ pc[Handler] = "idle"
  /\ \E epicentre \in Epicentres, baseImpact \in BaseImpacts :
       TriggerEvent(epicentre, baseImpact)
  /\ UNCHANGED simVars

SimNext ==
  \/ \E t \in Threads : BeginTick(t) \/ SetPrice(t) \/ SetRange(t) \/ FinishStock(t)
  \/ BeginGetAllStocks \/ GetAllStocks
  \/ GetStock \/ ReadField
  \/ Answer
  \/ SetRegime
  \/ TriggerMarketEvent

SimSpec == SimInit /\ [][SimNext]_<<eventVars, simVars>>

-----------------------------------------------------------------------------
(* Properties.                                                             *)

(* The stock a tick is working on.                                         *)
Unfinished(s) ==
  \E t \in Threads : pc[t] \in {"high", "low", "volume", "candle"} /\ job[t].symbol = s

(* Prices and volumes in range, and one holder of simMutex: the thread     *)
(* that is inside tick or getAllStocks, or none.                           *)
SimTypeOK ==
  /\ \A s \in Symbols : stocks[s].currentPrice \in Prices[s] /\ stocks[s].volume \in 0 .. MaxTicks
  /\ currentRegime \in DOMAIN Regimes
  /\ simMutex \in Threads \cup {NoThread}
  /\ \A t \in Threads : (job[t].kind \in {"tick", "list"} /\ pc[t] # "answer") <=> simMutex = t

(* The series of every stock is a chart: each candle's range holds its     *)
(* open and its close, a candle starts a bar or more after the one before  *)
(* it even when the clock is set back, there are no more than the cap, and *)
(* the last close is the price, within the day's range, that a tick left.  *)
CandlesAreSound ==
  \A s \in Symbols :
    LET series == candles[s]
    IN  /\ Len(series) <= MaxCandles
        /\ \A i \in DOMAIN series :
             /\ series[i].low <= Smaller(series[i].open, series[i].close)
             /\ series[i].high >= Larger(series[i].open, series[i].close)
             /\ i > 1 => series[i].timestamp - series[i - 1].timestamp >= 1
        /\ ~Unfinished(s) /\ stocks[s].volume > 0 =>
             /\ Last(series).close = stocks[s].currentPrice
             /\ stocks[s].lowPrice <= Last(series).close
             /\ Last(series).close <= stocks[s].highPrice

(* What a chart has shown of the past stays: only the last candle changes, *)
(* never its start, its open or back into a narrower range, and only the   *)
(* oldest candle goes, when a new one is added to a full series.           *)
PastStays(old, new) ==
  LET added   == Last(new).timestamp # Last(old).timestamp
      dropped == IF Len(old) = MaxCandles /\ added THEN 1 ELSE 0
  IN  \A i \in dropped + 1 .. Len(old) :
        LET kept == new[i - dropped]
        IN  IF i < Len(old) \/ added THEN kept = old[i]
            ELSE /\ kept.timestamp = old[i].timestamp /\ kept.open = old[i].open
                 /\ kept.high >= old[i].high /\ kept.low <= old[i].low

ClosedCandlesStay == [][\A s \in Symbols : PastStays(candles[s], candles'[s])]_candles

(* An answer shows one market.  A list of the stocks shows each of them    *)
(* after the same number of ticks, within its range; so does the quote of  *)
(* one stock, unless a tick began while it was being read.                 *)
QuotesAreConsistent ==
  pc[Handler] = "answer" =>
    IF job[Handler].kind = "list"
    THEN LET shown == job[Handler].copied
         IN  \A r, s \in Symbols :
               /\ shown[r].volume = shown[s].volume
               /\ shown[s].lowPrice <= shown[s].currentPrice
               /\ shown[s].currentPrice <= shown[s].highPrice
    ELSE LET shown == job[Handler].quote
         IN  ~job[Handler].overtaken =>
               /\ shown.change = shown.currentPrice
               /\ shown.lowPrice <= shown.currentPrice
               /\ shown.currentPrice <= shown.highPrice

(* "Place 5 bid levels below centerPrice and 5 ask levels above": after a  *)
(* tick the market maker's levels go outwards from the price and no bid of *)
(* them is above an ask.  A bid and an ask may both be at the price, when  *)
(* it is no more than 2.50 and a step no more than half a cent.            *)
LevelsStayApart ==
  \A s \in Symbols : ~Unfinished(s) =>
    LET p == stocks[s].currentPrice
        levels == seeded[s]
    IN  /\ \A i, j \in 1 .. 5 :
             /\ levels[i].bid <= p /\ p <= levels[j].ask
             /\ i < j => levels[i].bid >= levels[j].bid /\ levels[i].ask <= levels[j].ask
        /\ p > 250 => levels[1].bid < p /\ p < levels[1].ask

(* What the first n of some events have added to the drift of a stock.     *)
ShockOn(s, events, n) ==
  LET sum[k \in 0 .. n] == IF k = 0 THEN 0 ELSE sum[k - 1] + ImpactOn(s, events[k])
  IN  sum[n]

(* Between two ticks all the stocks have been moved by the same events: by *)
(* those of the history up to some point, with their impacts summed, under *)
(* one regime.  An event whose epicentre is not in the graph moves none.   *)
TicksAreOfOneMarket ==
  simMutex = NoThread /\ (\A s \in Symbols : stocks[s].volume > 0) =>
    \E n \in 0 .. Len(eventHistory), r \in DOMAIN Regimes : \A s \in Symbols :
      /\ drifts[s] = Regimes[r] + ShockOn(s, eventHistory, n)
      /\ (\A i \in DOMAIN eventHistory : eventHistory[i].epicentreNode \notin Vertices) =>
           drifts[s] = Regimes[r]
=============================================================================
