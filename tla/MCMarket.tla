------------------------------- MODULE MCMarket -------------------------------
(***************************************************************************)
(* MarketSimulator with two of its stocks.  NVDA's price moves across the  *)
(* 2.50 above which levels come apart; an event at Semiconductors hits     *)
(* NVDA harder than AMZN, and Automobiles is not in the graph.             *)
(***************************************************************************)
EXTENDS MarketSimulator, ShockGraph

MCSymbols == {"NVDA", "AMZN"}
MCPrices == "NVDA" :> {100, 251} @@ "AMZN" :> {312}
MCInitialPrice == "NVDA" :> 251 @@ "AMZN" :> 312

MCRegimes == "BULL" :> 16000 @@ "SIDEWAYS" :> 0

MCEpicentres == {"Semiconductors", "Automobiles"}
MCBaseImpacts == {-80000}

\* Each event's impacts are worked out once.
MCVertices == DOMAIN MarketGraph.adjList
MCImpacts == [e \in Epicentres \X BaseImpacts |-> PropagateShock(MarketGraph, e[1], e[2])]
MCShocksFrom(epicentre, baseImpact) == MCImpacts[<<epicentre, baseImpact>>]

\* Names of vertices in a fixed order; the order does not change a distance.
MCNames == Sectors \o <<"AAPL", "AMD", "AMZN", "GOOGL", "INTC", "META", "MSFT", "NFLX", "NVDA", "TSLA">>
MCPrecedes(v, w) ==
  \E i, j \in DOMAIN MCNames : i < j /\ MCNames[i] = v /\ MCNames[j] = w

\* 10000 * exp(-0.08 * n), each from the one before.
MCDecay[n \in Nat] == IF n = 0 THEN 10000 ELSE (MCDecay[n - 1] * 9231) \div 10000
MCDecayed(impact, distance) ==
  IF impact < 0 THEN -((-impact * MCDecay[distance]) \div 10000)
                ELSE (impact * MCDecay[distance]) \div 10000
=============================================================================
