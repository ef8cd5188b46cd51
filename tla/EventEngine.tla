----------------------------- MODULE EventEngine -----------------------------
(***************************************************************************)
(* market/EventEngine.hpp: events, and the sum of the shocks they send out *)
(* along the graph, which module ShockGraph builds.  Impacts are in        *)
(* millionths.  clearActiveEvents and getRecentEvents have no callers.     *)
(***************************************************************************)
EXTENDS Integers, Sequences

CONSTANTS
  Epicentres, BaseImpacts,  \* what POST /api/admin/events/trigger may be sent
  MaxEvents,                \* bound: events triggered
  Vertices,                 \* the names in marketGraph
  ShocksFrom(_, _)          \* its propagateShock: [name reached -> impact on it]

(* A name that is no vertex reaches itself and nothing else.               *)
ASSUME EventAssumption ==
  /\ MaxEvents \in Nat
  /\ \A e \in Epicentres, b \in BaseImpacts :
       /\ \A v \in DOMAIN ShocksFrom(e, b) : ShocksFrom(e, b)[v] \in Int
       /\ e \notin Vertices => DOMAIN ShocksFrom(e, b) = {e}

VARIABLES activeEvents, eventHistory, eventIdCounter

eventVars == <<activeEvents, eventHistory, eventIdCounter>>

ImpactsOf(evt) == ShocksFrom(evt.epicentreNode, evt.baseImpact)

Magnitude(impact) == IF impact < 0 THEN -impact ELSE impact

(* More than one per cent.                                                 *)
AffectedSymbols(impacts) == {v \in DOMAIN impacts : Magnitude(impacts[v]) > 10000}

EventInit == activeEvents = <<>> /\ eventHistory = <<>> /\ eventIdCounter = 100

TriggerEvent(epicentre, baseImpact) ==
  LET evt == [eventId |-> eventIdCounter + 1, epicentreNode |-> epicentre,
              baseImpact |-> baseImpact,
              affectedSymbols |-> AffectedSymbols(ShocksFrom(epicentre, baseImpact))]
  IN  /\ Len(eventHistory) < MaxEvents
      /\ eventIdCounter' = eventIdCounter + 1
      /\ activeEvents' = Append(activeEvents, evt)
      /\ eventHistory' = Append(eventHistory, evt)

ImpactOn(v, evt) == IF v \in DOMAIN ImpactsOf(evt) THEN ImpactsOf(evt)[v] ELSE 0

(* The shocks of events add up; a name that none of them reaches has none. *)
TotalShockDrifts(events) ==
  LET cumulativeDrifts[n \in 0 .. Len(events)] ==
        IF n = 0 THEN <<>>
        ELSE LET before == cumulativeDrifts[n - 1]
             IN  [v \in DOMAIN before \cup DOMAIN ImpactsOf(events[n]) |->
                    (IF v \in DOMAIN before THEN before[v] ELSE 0) + ImpactOn(v, events[n])]
  IN  cumulativeDrifts[Len(events)]

CalculateTotalShockDrifts == TotalShockDrifts(activeEvents)
=============================================================================
