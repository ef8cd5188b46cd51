--------------------------- MODULE MCEngineHistory ---------------------------
(***************************************************************************)
(* EngineHistory and the views of its books, with a last step: once        *)
(* MaxOrders orders were submitted and every call has returned the engine  *)
(* stands still, so that TLC reports a deadlock only when a call is stuck. *)
(***************************************************************************)
EXTENDS OrderBookViews, TLC

\* A market order never waits, and nothing reads its price or its timestamp.
Requests ==
  {r \in OrderRequest :
     r.type = "MARKET" => /\ r.price = CHOOSE p \in Prices : TRUE
                          /\ r.timestamp = CHOOSE n \in Timestamps : TRUE}

\* No call begins after the last order's, so that only one which that call has met can find
\* it waiting, and of such calls no property compares timestamps.
MCProcessOrder(t) ==
  \E request \in Requests, now \in Timestamps :
    /\ orderCount + 1 = MaxOrders => request.timestamp = CHOOSE n \in Timestamps : TRUE
    /\ ProcessOrderH(t, request, now)

Quiescent ==
  /\ orderCount = MaxOrders
  /\ AllIdle
  /\ UNCHANGED historyVars

MCNext ==
  \/ \E t \in Threads :
       \/ MCProcessOrder(t)
       \/ AdvanceH(t)
       \/ ReturnH(t)
       \/ \E s \in Symbols, id \in OrderIds : CancelOrderH(t, s, id)
  \/ Quiescent

MCSpec == HistoryInit /\ [][MCNext]_historyVars

\* The threads are interchangeable.
Symmetry == Permutations(Threads)
=============================================================================
