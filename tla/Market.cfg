\* Two stocks, two ticks, two events, a clock that may stand still, go on or go back,
\* charts of at most two candles; regime names include one that is unknown.
SPECIFICATION SimSpec
CONSTANTS
  Ticker = ticker
  Handler = handler
  Symbols <- MCSymbols
  Prices <- MCPrices
  InitialPrice <- MCInitialPrice
  Regimes <- MCRegimes
  Names = {"FLAT"}
  Epicentres <- MCEpicentres
  BaseImpacts <- MCBaseImpacts
  Vertices <- MCVertices
  ShocksFrom <- MCShocksFrom
  Precedes <- MCPrecedes
  Decayed <- MCDecayed
  Infinity = 1000
  MaxEvents = 2
  MaxCandles = 2
  HistoryBars = 1
  Clock = {1, 2, 4}
  MaxTicks = 2
INVARIANTS
  SimTypeOK
  CandlesAreSound
  QuotesAreConsistent
  LevelsStayApart
  TicksAreOfOneMarket
PROPERTY
  ClosedCandlesStay
CHECK_DEADLOCK FALSE
