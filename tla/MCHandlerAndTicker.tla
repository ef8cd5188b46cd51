-------------------------- MODULE MCHandlerAndTicker --------------------------
(***************************************************************************)
(* EngineHistory with the two threads main.cpp really has inside the       *)
(* engine: the handler of POST /api/orders (HttpServer::dispatch holds     *)
(* routeMutex, so there is one handler at a time) and the market ticker,   *)
(* which calls MarketSimulator::tick without routeMutex.                   *)
(*                                                                         *)
(* The handler submits what a user asked for, stamped with the clock       *)
(* (main.cpp:311).  The ticker's seedLiquidity submits limit orders of the *)
(* market maker, stamped with an earlier time (MarketSimulator.hpp:142).   *)
(* No route cancels an order.                                              *)
(***************************************************************************)
EXTENDS EngineHistory

CONSTANTS Ticker, MarketMaker

VARIABLE clock  \* the time that a request is stamped with

mcVars == <<historyVars, clock>>

RequestsOf(t) ==
  {r \in OrderRequest :
     IF t = Ticker
       THEN r.userId = MarketMaker /\ r.type = "LIMIT" /\ r.timestamp \in 1 .. clock - 1
       ELSE r.userId # MarketMaker /\ r.timestamp = clock}

TimePasses ==
  /\ clock + 1 \in Timestamps
  /\ clock' = clock + 1
  /\ UNCHANGED historyVars

Quiescent ==
  /\ orderCount = MaxOrders
  /\ AllIdle
  /\ UNCHANGED mcVars

MCNext ==
  \/ /\ \E t \in Threads :
          \/ \E request \in RequestsOf(t) : ProcessOrderH(t, request, clock)
          \/ AdvanceH(t)
          \/ ReturnH(t)
     /\ UNCHANGED clock
  \/ TimePasses
  \/ Quiescent

\* The clock starts after the earliest time a back-dated order may have.
MCInit == HistoryInit /\ clock = 2
MCSpec == MCInit /\ [][MCNext]_mcVars
=============================================================================
