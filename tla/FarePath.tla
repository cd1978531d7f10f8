------------------------------ MODULE FarePath ------------------------------
(***************************************************************************)
(* What a trip costs, across the gateway, the trip service and the pricing *)
(* service: a request comes through the gateway, the surge is snapshotted  *)
(* and the fare estimated, and the trip is billed when it completes        *)
(* (trip-service/src/server.js).  Each of the three calls to pricing goes  *)
(* through the trip service's breaker and has a fallback.  What becomes of *)
(* the trip in between is TripService's.                                   *)
(*                                                                         *)
(* Whoever waits for the trip service has a timer of its own: the gateway  *)
(* for the creation, the location service for the completion.  Everything  *)
(* but a call takes no time.                                               *)
(***************************************************************************)
EXTENDS CircuitBreaker, Pricing

CONSTANTS
  GatewayTimeout,  \* the gateway's timer, in ticks
  EstDistanceM,    \* 1.4 times the straight way from pickup to drop
  LegM,            \* from a breadcrumb to the next
  DurationS,       \* from the start to the completion
  MaxPoints        \* bound: breadcrumbs of a trip

ASSUME RideAssumption == {EstDistanceM, LegM, DurationS, MaxPoints} \subseteq Nat
\* gateway/src/server.js:99 and http.js:78
ASSUME GatewayAssumption == GatewayTimeout = 2 * CallTimeout

VARIABLES
  trip,     \* the trips, one of each caller
  answer,   \* the surge pricing answers an observe with, 0 before it does
  waited,   \* ticks the one who asked has waited
  gaveUp,   \* the trips whose request or completion nobody waits for any more
  hung      \* history: calls of that request or completion that took CallTimeout

asking == <<answer, waited, gaveUp, hung>>
vars == <<breakerVars, pricingVars, trip, asking>>

NoTrip == [at |-> "none", surge |-> 100, estimate |-> 0, points |-> 0, fare |-> 0]

Init ==
  /\ BreakerInit /\ PricingInit
  /\ trip = [t \in Calls |-> NoTrip]
  /\ answer = [t \in Calls |-> 0] /\ waited = [t \in Calls |-> 0]
  /\ gaveUp = {} /\ hung = [t \in Calls |-> 0]

At(t, label) == trip[t].at = label
Goto(t, label) == trip' = [trip EXCEPT ![t].at = label]
Creating == {"observing", "quote", "quoting"}
Waiting == Creating \cup {"billing"}

-----------------------------------------------------------------------------
(* Fares.                                                                  *)

Rates == [basePaise |-> 3000, perKmPaise |-> 1500, perMinPaise |-> 200, minFarePaise |-> 5000]

FallbackFare(distanceM, durationS, s) ==
  LET raw == Rates.basePaise + Round(distanceM * Rates.perKmPaise, 1000)
                             + Round(durationS * Rates.perMinPaise, 60)
  IN Greatest(Rates.minFarePaise, Round(raw * s, 100))

EstDurationS == Round(EstDistanceM, 6)
\* Of the breadcrumbs read, the estimate if there are fewer than two.
DistanceM(points) == IF points < 2 THEN EstDistanceM ELSE (points - 1) * LegM

-----------------------------------------------------------------------------
(* The creation of a trip.                                                 *)

\* Whoever asked has the answer, or has given up before.
Told(t) ==
  /\ waited' = [waited EXCEPT ![t] = 0]
  /\ hung' = [hung EXCEPT ![t] = 0]
  /\ gaveUp' = gaveUp \ {t}
  /\ UNCHANGED answer

\* The gateway forwards a rider's request.
Forward(t) ==
  /\ At(t, "none")
  /\ \/ Admit(t) /\ Goto(t, "observing")
     \/ Reject(t) /\ Goto(t, "quote")
  /\ UNCHANGED <<pricingVars, asking>>

ServeObserve(t) ==
  /\ At(t, "observing") /\ answer[t] = 0
  /\ Observe
  /\ answer' = [answer EXCEPT ![t] = CurrentSurge]
  /\ UNCHANGED <<breakerVars, trip, waited, gaveUp, hung>>

ObserveAnswered(t) ==
  /\ At(t, "observing") /\ answer[t] # 0
  /\ OnSuccess(t)
  /\ trip' = [trip EXCEPT ![t].at = "quote", ![t].surge = answer[t]]
  /\ answer' = [answer EXCEPT ![t] = 0]
  /\ UNCHANGED <<pricingVars, waited, gaveUp, hung>>

\* No surge without an answer; pricing may come to the request all the same.
ObserveFails(t) ==
  /\ At(t, "observing")
  /\ OnFailure(t)
  /\ Goto(t, "quote")
  /\ answer' = [answer EXCEPT ![t] = 0]
  /\ \/ UNCHANGED pricingVars
     \/ answer[t] = 0 /\ Observe
  /\ UNCHANGED <<waited, gaveUp, hung>>

\* The trip is inserted with its snapshot and its estimate.
Insert(t, farePaise) ==
  /\ trip' = [trip EXCEPT ![t].at = "in_progress", ![t].estimate = farePaise]
  /\ Told(t)

QuoteFallback(t) == FallbackFare(EstDistanceM, EstDurationS, trip[t].surge)

\* Mutant: nobody catches the rejection.
QuoteCallUncaught(t) ==
  /\ At(t, "quote")
  /\ Admit(t) /\ Goto(t, "quoting")
  /\ UNCHANGED <<pricingVars, asking>>

QuoteCall(t) ==
  /\ At(t, "quote")
  /\ \/ Admit(t) /\ Goto(t, "quoting") /\ UNCHANGED asking
     \/ Reject(t) /\ Insert(t, QuoteFallback(t))
  /\ UNCHANGED pricingVars

QuoteEnds(t) ==
  /\ At(t, "quoting")
  /\ \/ OnSuccess(t) /\ Insert(t, ComputeFare(EstDistanceM, EstDurationS, trip[t].surge))
     \/ OnFailure(t) /\ Insert(t, QuoteFallback(t))
  /\ UNCHANGED pricingVars

-----------------------------------------------------------------------------
(* The ride and its bill.                                                  *)

\* The bill of a trip of which so many breadcrumbs have landed.
Bill(t, points, farePaise) ==
  /\ trip' = [trip EXCEPT ![t].at = "completed", ![t].points = points, ![t].fare = farePaise]
  /\ Told(t)

BillFallback(t, points) == FallbackFare(DistanceM(points), DurationS, trip[t].surge)

\* The driver completes the trip: its breadcrumbs are read, those that land
\* from now on are not billed.
Complete(t) ==
  /\ At(t, "in_progress")
  /\ \E points \in 0 .. MaxPoints :
       \/ /\ Admit(t)
          /\ trip' = [trip EXCEPT ![t].at = "billing", ![t].points = points]
          /\ UNCHANGED asking
       \/ Reject(t) /\ Bill(t, points, BillFallback(t, points))
  /\ UNCHANGED pricingVars

\* Mutant: the surge of the moment, not of the request.
BillEndsCurrent(t) ==
  LET points == trip[t].points IN
  /\ At(t, "billing")
  /\ \/ OnSuccess(t) /\ Bill(t, points, ComputeFare(DistanceM(points), DurationS, CurrentSurge))
     \/ OnFailure(t) /\ Bill(t, points, BillFallback(t, points))
  /\ UNCHANGED pricingVars

BillEnds(t) ==
  LET points == trip[t].points IN
  /\ At(t, "billing")
  /\ \/ OnSuccess(t) /\ Bill(t, points, ComputeFare(DistanceM(points), DurationS, trip[t].surge))
     \/ OnFailure(t) /\ Bill(t, points, BillFallback(t, points))
  /\ UNCHANGED pricingVars

-----------------------------------------------------------------------------
(* Time.                                                                   *)

\* Mutant: the gateway is as impatient as a call.
PatienceShort(t) == CallTimeout
Patience(t) == IF At(t, "billing") THEN CallTimeout ELSE GatewayTimeout

\* The gateway answers 502, or the driver gets an error; the work goes on.
GiveUp(t) ==
  /\ trip[t].at \in Waiting
  /\ t \notin gaveUp /\ waited[t] = Patience(t)
  /\ gaveUp' = gaveUp \cup {t}
  /\ UNCHANGED <<breakerVars, pricingVars, trip, answer, waited, hung>>

Tick ==
  /\ \A t \in Calls :
       /\ ~At(t, "quote")
       /\ t \in inFlight /\ t \notin gaveUp => waited[t] < Patience(t)
  /\ BreakerTick
  /\ waited' = [t \in Calls |-> IF t \in inFlight /\ t \notin gaveUp THEN waited[t] + 1 ELSE waited[t]]
  /\ hung' = [t \in Calls |-> hung[t] + IF t \in inFlight /\ age'[t] = CallTimeout THEN 1 ELSE 0]
  /\ UNCHANGED <<pricingVars, trip, answer, gaveUp>>

\* Minutes are long; one may end at any time.
Minute ==
  /\ MinuteEnds
  /\ UNCHANGED <<breakerVars, trip, asking>>

Worker ==
  /\ RunSurgeTick \/ ExpireSurge
  /\ UNCHANGED <<breakerVars, trip, asking>>

-----------------------------------------------------------------------------
Ends(t) == ObserveAnswered(t) \/ ObserveFails(t) \/ QuoteEnds(t) \/ BillEnds(t)

Next ==
  \/ \E t \in Calls :
       \/ Forward(t) \/ ServeObserve(t) \/ Ends(t) \/ QuoteCall(t)
       \/ Complete(t) \/ GiveUp(t)
  \/ Tick \/ Minute \/ Worker

Spec == Init /\ [][Next]_vars

\* What the trip service and the timers do by themselves.
Progress(t) == QuoteCall(t) \/ GiveUp(t) \/ (age[t] = CallTimeout /\ Ends(t))

Fairness == WF_vars(Tick) /\ \A t \in Calls : WF_vars(Progress(t))

FairSpec == Spec /\ Fairness

-----------------------------------------------------------------------------
TypeOK ==
  /\ BreakerTypeOK /\ PricingTypeOK
  /\ trip \in [Calls -> [at : {"none", "in_progress", "completed"} \cup Waiting,
                         surge : 100 .. DefaultRates.maxSurge, estimate : Nat,
                         points : 0 .. MaxPoints, fare : Nat]]
  /\ answer \in [Calls -> {0} \cup 100 .. DefaultRates.maxSurge]
  /\ waited \in [Calls -> Nat] /\ hung \in [Calls -> Nat] /\ gaveUp \subseteq Calls
  /\ \A t \in Calls : t \in inFlight <=> trip[t].at \in Waiting \ {"quote"}

\* The estimate and the bill are pricing's fare at the surge of the request,
\* whether pricing or the fallback worked them out, and whatever the surge is
\* by the time of the bill.
BilledAsAgreed ==
  \A t \in Calls :
    /\ trip[t].at \in {"in_progress", "billing", "completed"} =>
         trip[t].estimate = ComputeFare(EstDistanceM, EstDurationS, trip[t].surge)
    /\ At(t, "completed") =>
         trip[t].fare = ComputeFare(DistanceM(trip[t].points), DurationS, trip[t].surge)

\* A rider is told that his request has failed, or a driver that his completion
\* has, while the trip service goes on with it, only if every call it made to
\* pricing took its full timeout.
GaveUpOnHung ==
  \A t \in gaveUp : IF At(t, "billing") THEN hung[t] = 1 ELSE At(t, "quoting") /\ hung[t] = 2

\* However pricing behaves, a request leads to a trip and a completion to a
\* bill.
PricingNeverBlocks ==
  \A t \in Calls :
    /\ trip[t].at \in Creating ~> At(t, "in_progress")
    /\ At(t, "billing") ~> At(t, "completed")

\* A probe ends: the breaker is never half open for good.
ProbeEnds == state = "HALF_OPEN" ~> state # "HALF_OPEN"

=============================================================================
