----------------------------- MODULE ShockGraph ------------------------------
(***************************************************************************)
(* buildMarketGraph of market/EventEngine.hpp: the graph of sectors and    *)
(* companies along which shocks travel.  Weights are in tenths.            *)
(***************************************************************************)
EXTENDS Graph, SequencesExt

Sectors ==
  <<"Technology", "Semiconductors", "Cloud & Software", "Consumer Electronics",
    "Automotive & CleanTech", "E-Commerce", "Entertainment">>

SectorEdges ==
  << <<"Semiconductors", "NVDA", 6>>, <<"Semiconductors", "AMD", 7>>,
     <<"Semiconductors", "INTC", 8>>, <<"Consumer Electronics", "AAPL", 6>>,
     <<"Cloud & Software", "MSFT", 6>>, <<"Cloud & Software", "GOOGL", 7>>,
     <<"Cloud & Software", "AMZN", 8>>, <<"Technology", "META", 7>>,
     <<"Automotive & CleanTech", "TSLA", 6>>, <<"Entertainment", "NFLX", 6>> >>

Linkages ==
  << <<"Semiconductors", "Technology", 8>>, <<"Semiconductors", "Consumer Electronics", 9>>,
     <<"NVDA", "MSFT", 7>>, <<"NVDA", "GOOGL", 8>>, <<"AMD", "INTC", 5>>,
     <<"AAPL", "TSLA", 14>>, <<"AMZN", "MSFT", 8>> >>

MarketGraph ==
  LET vertices == FoldLeft(AddVertex, EmptyGraph, Sectors)
      edges    == FoldLeft(LAMBDA g, e : AddEdge(g, e[1], e[2], e[3]), vertices, SectorEdges)
  IN  FoldLeft(LAMBDA g, e : AddBidirectionalEdge(g, e[1], e[2], e[3]), edges, Linkages)
=============================================================================
