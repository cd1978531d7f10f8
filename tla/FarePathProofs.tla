--------------------------- MODULE FarePathProofs ---------------------------
(***************************************************************************)
(* Proofs about FarePath, for any number of callers, any timeouts of which *)
(* the cooldown is the longer, any surge life and any distances.           *)
(***************************************************************************)
EXTENDS FarePath, TLAPS

-----------------------------------------------------------------------------
(* Fares and surges.                                                       *)

\* Rounding a quotient of naturals gives a natural.
LEMMA RoundNat == ASSUME NEW n \in Nat, NEW d \in Nat \ {0} PROVE Round(n, d) \in Nat
<1>1. 2 * n + d \in Nat /\ 2 * d \in Nat /\ 2 * d > 0 OBVIOUS
<1> DEFINE x == 2 * n + d y == 2 * d
<1>2. x \in Nat /\ y \in Nat /\ y > 0 BY <1>1
<1> HIDE DEF x, y
<1>3. x \div y \in Nat BY <1>2
<1> QED BY <1>3 DEF Round, x, y

\* A surge is between 1 and maxSurge, and above 1 only with more demand than supply.
LEMMA SurgeRange ==
  ASSUME NEW d \in Nat, NEW s \in Nat
  PROVE  /\ SurgeFromRatio(d, s) \in 100 .. 300
         /\ SurgeFromRatio(d, s) > 100 => d > s
<1>1. CASE d = 0 \/ (s > 0 /\ d <= s) BY <1>1 DEF SurgeFromRatio
<1>2. CASE ~(d = 0 \/ (s > 0 /\ d <= s)) /\ s = 0 BY <1>2 DEF SurgeFromRatio, DefaultRates
<1>3. CASE ~(d = 0 \/ (s > 0 /\ d <= s)) /\ s # 0
  <2>1. 50 * (d - s) \in Nat /\ s \in Nat \ {0} /\ d > s BY <1>3
  <2>2. Round(50 * (d - s), s) \in Nat BY <2>1, RoundNat
  <2> QED BY <1>3, <2>1, <2>2 DEF SurgeFromRatio, DefaultRates, Least
<1> QED BY <1>1, <1>2, <1>3

\* The two fares are computed alike for any surge a trip can have.
LEMMA FaresAgree ==
  ASSUME NEW distanceM, NEW durationS, NEW s \in 100 .. 300
  PROVE  FallbackFare(distanceM, durationS, s) = ComputeFare(distanceM, durationS, s)
<1>1. Least(Greatest(s, 100), 300) = s BY DEF Least, Greatest
<1> QED BY <1>1 DEF FallbackFare, ComputeFare, Rates, DefaultRates

\* A fare is a natural number of paise.
LEMMA FareNat ==
  ASSUME NEW distanceM \in Nat, NEW durationS \in Nat, NEW s \in 100 .. 300
  PROVE  ComputeFare(distanceM, durationS, s) \in Nat
<1>1. Least(Greatest(s, 100), 300) = s BY DEF Least, Greatest
<1>2. Round(distanceM * 1500, 1000) \in Nat BY RoundNat
<1>3. Round(durationS * 200, 60) \in Nat BY RoundNat
<1> DEFINE sub == 3000 + Round(distanceM * 1500, 1000) + Round(durationS * 200, 60)
<1>4. sub \in Nat BY <1>2, <1>3
<1>5. ComputeFare(distanceM, durationS, s) = Greatest(5000, Round(sub * s, 100))
  BY <1>1 DEF ComputeFare, DefaultRates
<1> HIDE DEF sub
<1>6. sub * s \in Nat BY <1>4
<1>7. Round(sub * s, 100) \in Nat BY <1>6, RoundNat
<1> QED BY <1>5, <1>7 DEF Greatest

\* A distance is a natural number of metres.
LEMMA DistanceNat == ASSUME NEW points \in 0 .. MaxPoints PROVE DistanceM(points) \in Nat
<1>1. CASE points < 2 BY <1>1, RideAssumption DEF DistanceM, RideAssumption
<1>2. CASE ~(points < 2)
  <2>1. points - 1 \in Nat /\ LegM \in Nat BY <1>2, RideAssumption DEF RideAssumption
  <2>2. (points - 1) * LegM \in Nat BY <2>1
  <2> QED BY <1>2, <2>2 DEF DistanceM
<1> QED BY <1>1, <1>2

-----------------------------------------------------------------------------
(* What a step does to the breaker and to pricing.                         *)

BreakerStep ==
  \/ \E c \in Calls : Admit(c) \/ OnSuccess(c) \/ OnFailure(c)
  \/ BreakerTick
  \/ UNCHANGED breakerVars

PricingStep == Observe \/ RunSurgeTick \/ ExpireSurge \/ MinuteEnds \/ UNCHANGED pricingVars

\* Every step of the fare path is one of the breaker, and one of pricing.
LEMMA StepParts == ASSUME [Next]_vars PROVE BreakerStep /\ PricingStep
<1> USE DEF BreakerStep, PricingStep, Reject
<1>1. ASSUME NEW t \in Calls, Forward(t) PROVE BreakerStep /\ PricingStep BY <1>1 DEF Forward
<1>2. ASSUME NEW t \in Calls, ServeObserve(t) PROVE BreakerStep /\ PricingStep BY <1>2 DEF ServeObserve
<1>3. ASSUME NEW t \in Calls, ObserveAnswered(t) PROVE BreakerStep /\ PricingStep BY <1>3 DEF ObserveAnswered
<1>4. ASSUME NEW t \in Calls, ObserveFails(t) PROVE BreakerStep /\ PricingStep BY <1>4 DEF ObserveFails
<1>5. ASSUME NEW t \in Calls, QuoteEnds(t) PROVE BreakerStep /\ PricingStep BY <1>5 DEF QuoteEnds
<1>6. ASSUME NEW t \in Calls, BillEnds(t) PROVE BreakerStep /\ PricingStep BY <1>6 DEF BillEnds
<1>7. ASSUME NEW t \in Calls, QuoteCall(t) PROVE BreakerStep /\ PricingStep BY <1>7 DEF QuoteCall
<1>8. ASSUME NEW t \in Calls, Complete(t) PROVE BreakerStep /\ PricingStep BY <1>8 DEF Complete
<1>9. ASSUME NEW t \in Calls, GiveUp(t) PROVE BreakerStep /\ PricingStep BY <1>9 DEF GiveUp
<1>10. CASE Tick BY <1>10 DEF Tick
<1>11. CASE Minute BY <1>11 DEF Minute
<1>12. CASE Worker BY <1>12 DEF Worker
<1>13. CASE UNCHANGED vars BY <1>13 DEF vars
<1> QED BY <1>1, <1>2, <1>3, <1>4, <1>5, <1>6, <1>7, <1>8, <1>9, <1>10, <1>11, <1>12, <1>13 DEF Next, Ends

-----------------------------------------------------------------------------
(* The breaker.                                                            *)

USE ThresholdAssumption, TimeoutAssumption DEF ThresholdAssumption, TimeoutAssumption

\* While the breaker is open every call in flight is older than the opening.
OlderThanOpening == state = "OPEN" => \A c \in inFlight : age[c] >= sinceOpen

BreakerInv == BreakerTypeOK /\ OlderThanOpening /\ ProbesAlone

\* A call that begins or has ended is of an age it may have.
LEMMA NewAge ==
  /\ 0 \in 0 .. CallTimeout
  /\ [c \in Calls |-> 0] \in [Calls -> 0 .. CallTimeout]
  /\ \A f \in [Calls -> 0 .. CallTimeout], c \in Calls :
       [f EXCEPT ![c] = 0] \in [Calls -> 0 .. CallTimeout]
<1>1. 0 \in 0 .. CallTimeout OBVIOUS
<1> DEFINE Ages == 0 .. CallTimeout
<1>2. 0 \in Ages BY <1>1
<1> HIDE DEF Ages
<1>3. [c \in Calls |-> 0] \in [Calls -> Ages] BY <1>2
<1>4. ASSUME NEW f \in [Calls -> Ages], NEW c \in Calls PROVE [f EXCEPT ![c] = 0] \in [Calls -> Ages]
  BY <1>2
<1> QED BY <1>1, <1>3, <1>4 DEF Ages

LEMMA BreakerInitInv == BreakerInit => BreakerInv
<1> SUFFICES ASSUME BreakerInit PROVE BreakerInv OBVIOUS
<1>1. age \in [Calls -> 0 .. CallTimeout] BY NewAge DEF BreakerInit
<1>2. probing \in BOOLEAN BY Zenon DEF BreakerInit
<1>3. failures \in 0 .. FailureThreshold /\ sinceOpen \in 0 .. ResetTimeout BY DEF BreakerInit
<1>4. BreakerTypeOK BY <1>1, <1>2, <1>3 DEF BreakerInit, BreakerTypeOK
<1> QED BY <1>4 DEF BreakerInit, BreakerInv, OlderThanOpening, ProbesAlone

\* No call is left in flight by the time a probe is admitted.
LEMMA CooledDown ==
  ASSUME BreakerInv, state = "OPEN", sinceOpen >= ResetTimeout
  PROVE  inFlight = {}
BY DEF BreakerInv, BreakerTypeOK, OlderThanOpening

LEMMA AdmitInv == ASSUME BreakerInv, NEW c \in Calls, Admit(c) PROVE BreakerInv'
<1> USE DEF BreakerInv, BreakerTypeOK
<1>1. age' \in [Calls -> 0 .. CallTimeout] BY NewAge DEF Admit
<1>5. BreakerTypeOK' BY <1>1 DEF Admit
<1>2. CASE state = "CLOSED" BY <1>5, <1>2 DEF Admit, OlderThanOpening, ProbesAlone
<1>3. CASE state = "OPEN"
  <2>1. inFlight = {} BY <1>3, CooledDown DEF Admit, CanRequest
  <2>2. inFlight' = {c} /\ probing' /\ state' = "HALF_OPEN" BY <1>3, <2>1 DEF Admit
  <2> QED BY <1>5, <2>2 DEF OlderThanOpening, ProbesAlone
<1>4. CASE state = "HALF_OPEN" BY <1>4 DEF Admit, CanRequest, ProbesAlone
<1> QED BY <1>2, <1>3, <1>4

LEMMA SuccessInv == ASSUME BreakerInv, NEW c \in Calls, OnSuccess(c) PROVE BreakerInv'
<1> USE DEF BreakerInv, BreakerTypeOK
<1>1. age' \in [Calls -> 0 .. CallTimeout] BY NewAge DEF OnSuccess, Ended
<1>2. state' = "CLOSED" /\ failures' = 0 /\ sinceOpen' = ResetTimeout /\ inFlight' \subseteq Calls
  BY DEF OnSuccess, Ended
<1>3. probing' \in BOOLEAN BY Zenon DEF OnSuccess
<1> QED BY <1>1, <1>2, <1>3 DEF OlderThanOpening, ProbesAlone

LEMMA FailureInv == ASSUME BreakerInv, NEW c \in Calls, OnFailure(c) PROVE BreakerInv'
<1> USE DEF BreakerInv, BreakerTypeOK
<1>4. age' \in [Calls -> 0 .. CallTimeout] BY NewAge DEF OnFailure, Ended
<1>5. probing' \in BOOLEAN BY Zenon DEF OnFailure
<1>6. failures' \in 0 .. FailureThreshold BY DEF OnFailure, AtMost
<1>1. BreakerTypeOK' BY <1>4, <1>5, <1>6 DEF OnFailure, Ended
<1>2. CASE Opens
  <2>1. state' = "OPEN" /\ sinceOpen' = 0 BY <1>2 DEF OnFailure
  <2>2. \A d \in inFlight' : age'[d] >= 0 BY <1>1
  <2> QED BY <1>1, <2>1, <2>2 DEF OlderThanOpening, ProbesAlone
<1>3. CASE ~Opens
  <2>1. state' = state /\ sinceOpen' = sinceOpen /\ state # "HALF_OPEN" BY <1>3 DEF OnFailure, Opens
  <2>2. \A d \in inFlight' : d \in inFlight /\ age'[d] = age[d] BY DEF OnFailure, Ended
  <2> QED BY <1>1, <2>1, <2>2 DEF OlderThanOpening, ProbesAlone
<1> QED BY <1>2, <1>3

LEMMA TickInv == ASSUME BreakerInv, BreakerTick PROVE BreakerInv'
<1> USE DEF BreakerInv, BreakerTypeOK
<1>1. BreakerTypeOK' BY DEF BreakerTick, AtMost
<1>2. \A c \in inFlight : age'[c] = age[c] + 1 BY DEF BreakerTick
<1>3. OlderThanOpening' BY <1>2 DEF BreakerTick, AtMost, OlderThanOpening
<1>4. ProbesAlone' BY DEF BreakerTick, ProbesAlone
<1> QED BY <1>1, <1>3, <1>4

LEMMA BreakerStepInv == ASSUME BreakerInv, BreakerStep PROVE BreakerInv'
<1>1. CASE UNCHANGED breakerVars
  BY <1>1 DEF breakerVars, breaker, BreakerInv, BreakerTypeOK, OlderThanOpening, ProbesAlone
<1> QED BY <1>1, AdmitInv, SuccessInv, FailureInv, TickInv DEF BreakerStep

\* While it cools down an open breaker admits nothing, and only a success older
\* than the opening closes it.
LEMMA RestsStep ==
  ASSUME BreakerInv, BreakerStep, state = "OPEN", sinceOpen < ResetTimeout
  PROVE  /\ inFlight' \subseteq inFlight
         /\ state' # "OPEN" =>
              \E c \in inFlight \ inFlight' : age[c] \in sinceOpen .. CallTimeout
<1> USE DEF BreakerInv, BreakerTypeOK
<1>1. ASSUME NEW c \in Calls, Admit(c) PROVE FALSE BY <1>1 DEF Admit, CanRequest
<1>2. ASSUME NEW c \in Calls, OnSuccess(c)
      PROVE  inFlight' = inFlight \ {c} /\ c \in inFlight /\ age[c] \in sinceOpen .. CallTimeout
  BY <1>2 DEF OnSuccess, Ended, OlderThanOpening
<1>3. ASSUME NEW c \in Calls, OnFailure(c) PROVE inFlight' \subseteq inFlight /\ state' = "OPEN"
  BY <1>3 DEF OnFailure, Ended
<1>4. CASE BreakerTick BY <1>4 DEF BreakerTick
<1>5. CASE UNCHANGED breakerVars BY <1>5 DEF breakerVars, breaker
<1> QED BY <1>1, <1>2, <1>3, <1>4, <1>5 DEF BreakerStep

-----------------------------------------------------------------------------
(* The surge.                                                              *)

USE SurgeAssumption DEF SurgeAssumption

\* The longer ago the excess, the shorter the life the surge has left.
SurgeInv ==
  /\ PricingTypeOK
  /\ closed.demand > closed.supply => sinceExcess = 0
  /\ surge > 100 => sinceExcess + ttl <= SurgeTtl

LEMMA PricingInitInv == PricingInit => SurgeInv
BY DEF PricingInit, SurgeInv, PricingTypeOK, DefaultRates

LEMMA MinuteInv == ASSUME SurgeInv, MinuteEnds PROVE SurgeInv'
<1> USE DEF SurgeInv, PricingTypeOK, DefaultRates
<1>1. PICK supply \in 0 .. MaxSupply :
        /\ closed' = [demand |-> demand, supply |-> supply]
        /\ sinceExcess' = IF demand > supply THEN 0 ELSE Least(sinceExcess + 1, SurgeTtl + 1)
  BY DEF MinuteEnds, CloseBucket
<1>2. /\ demand' = 0 /\ surge' = surge
      /\ ttl' = IF surge > 0 THEN ttl - 1 ELSE 0
      /\ surge > 0 => ttl > 0
  BY DEF MinuteEnds, CloseBucket
<1>3. closed' \in [demand : Nat, supply : Nat] /\ closed'.demand = demand /\ closed'.supply = supply
  BY <1>1
<1>4. sinceExcess' \in 0 .. SurgeTtl + 1 BY <1>1 DEF Least
<1>5. ttl' \in 0 .. SurgeTtl BY <1>2
<1>6. closed'.demand > closed'.supply => sinceExcess' = 0 BY <1>1, <1>3
<1>7. surge' > 100 => sinceExcess' + ttl' <= SurgeTtl BY <1>1, <1>2 DEF Least
<1> QED BY <1>2, <1>3, <1>4, <1>5, <1>6, <1>7

LEMMA WorkerInv == ASSUME SurgeInv, RunSurgeTick PROVE SurgeInv'
<1> DEFINE m == SurgeFromRatio(closed.demand, closed.supply)
<1>1. closed.demand \in Nat /\ closed.supply \in Nat BY DEF SurgeInv, PricingTypeOK
<1>2. m \in 100 .. 300 /\ (m > 100 => closed.demand > closed.supply) BY <1>1, SurgeRange
<1> HIDE DEF m
<1>3. surge' = m /\ ttl' = SurgeTtl /\ UNCHANGED <<demand, closed, sinceExcess>> BY DEF RunSurgeTick, m
<1> QED BY <1>2, <1>3 DEF SurgeInv, PricingTypeOK, DefaultRates

LEMMA PricingStepInv == ASSUME SurgeInv, PricingStep PROVE SurgeInv'
<1>1. CASE Observe BY <1>1 DEF Observe, SurgeInv, PricingTypeOK, DefaultRates
<1>2. CASE ExpireSurge BY <1>2 DEF ExpireSurge, SurgeInv, PricingTypeOK, DefaultRates
<1>3. CASE UNCHANGED pricingVars BY <1>3 DEF pricingVars, SurgeInv, PricingTypeOK, DefaultRates
<1> QED BY <1>1, <1>2, <1>3, MinuteInv, WorkerInv DEF PricingStep

-----------------------------------------------------------------------------
(* The trips, and those who wait for them.                                 *)

Labels == {"none", "in_progress", "completed"} \cup Waiting
TripRows == [at : Labels, surge : 100 .. 300, estimate : Nat, points : 0 .. MaxPoints, fare : Nat]

Shape ==
  /\ trip \in [Calls -> TripRows]
  /\ answer \in [Calls -> {0} \cup 100 .. 300]
  /\ waited \in [Calls -> Nat] /\ hung \in [Calls -> Nat] /\ gaveUp \subseteq Calls

Calling(t) == t \in inFlight <=> trip[t].at \in {"observing", "quoting", "billing"}

\* What was waited and how many calls took their full time follow from the age
\* of the call in flight and, for a quote, from the time the observe took.
Full(w) == IF w = CallTimeout THEN 1 ELSE 0
Waits(t) ==
  /\ trip[t].at \in {"none", "in_progress", "completed"} => waited[t] = 0 /\ hung[t] = 0
  /\ trip[t].at \in {"observing", "billing"} => waited[t] = age[t] /\ hung[t] = Full(age[t])
  /\ At(t, "quote") => waited[t] <= CallTimeout /\ hung[t] = Full(waited[t])
  /\ At(t, "quoting") =>
       \E w \in 0 .. CallTimeout : waited[t] = w + age[t] /\ hung[t] = Full(w) + Full(age[t])
  /\ t \in gaveUp => \/ At(t, "quoting") /\ waited[t] = 2 * CallTimeout
                     \/ At(t, "billing") /\ waited[t] = CallTimeout

Agreed(t) ==
  /\ trip[t].at \in {"in_progress", "billing", "completed"} =>
       trip[t].estimate = ComputeFare(EstDistanceM, EstDurationS, trip[t].surge)
  /\ At(t, "completed") =>
       trip[t].fare = ComputeFare(DistanceM(trip[t].points), DurationS, trip[t].surge)

TripInv(t) == Calling(t) /\ Waits(t) /\ Agreed(t)
IInv == BreakerInv /\ SurgeInv /\ Shape /\ \A t \in Calls : TripInv(t)

LEMMA InvTypeOK == ASSUME IInv PROVE TypeOK
<1>1. BreakerTypeOK /\ PricingTypeOK BY DEF IInv, BreakerInv, SurgeInv
<1>2. \A t \in Calls : Calling(t) BY DEF IInv, TripInv
<1>3. DefaultRates.maxSurge = 300 BY DEF DefaultRates
<1> QED BY <1>1, <1>2, <1>3 DEF IInv, Shape, TripRows, Labels, Calling, TypeOK, Waiting, Creating

LEMMA InvAgreed == ASSUME IInv PROVE BilledAsAgreed
BY DEF IInv, TripInv, Agreed, BilledAsAgreed

LEMMA InvGaveUp == ASSUME IInv PROVE GaveUpOnHung
<1> SUFFICES ASSUME NEW t \in gaveUp
    PROVE IF At(t, "billing") THEN hung[t] = 1 ELSE At(t, "quoting") /\ hung[t] = 2
  BY DEF GaveUpOnHung
<1>1. t \in Calls /\ age[t] \in 0 .. CallTimeout BY DEF IInv, Shape, BreakerInv, BreakerTypeOK
<1>2. Waits(t) BY <1>1 DEF IInv, TripInv
<1>3. CASE At(t, "billing") /\ waited[t] = CallTimeout BY <1>2, <1>3 DEF Waits, At, Full
<1>4. CASE At(t, "quoting") /\ waited[t] = 2 * CallTimeout
  <2>1. PICK w \in 0 .. CallTimeout : waited[t] = w + age[t] /\ hung[t] = Full(w) + Full(age[t])
    BY <1>2, <1>4 DEF Waits
  <2>2. w = CallTimeout /\ age[t] = CallTimeout BY <1>1, <1>4, <2>1
  <2> QED BY <1>4, <2>1, <2>2 DEF At, Full
<1> QED BY <1>2, <1>3, <1>4 DEF Waits

\* What an action of one trip leaves of the others.
Untouched(u) ==
  /\ trip'[u] = trip[u] /\ waited'[u] = waited[u] /\ hung'[u] = hung[u] /\ age'[u] = age[u]
  /\ u \in inFlight' <=> u \in inFlight
  /\ u \in gaveUp' <=> u \in gaveUp

LEMMA UntouchedInv == ASSUME NEW u \in Calls, TripInv(u), Untouched(u) PROVE TripInv(u)'
<1>1. Calling(u)' BY DEF TripInv, Untouched, Calling
<1>2. Waits(u)' BY DEF TripInv, Untouched, Waits, At
<1>3. Agreed(u)' BY DEF TripInv, Untouched, Agreed, At
<1> QED BY <1>1, <1>2, <1>3 DEF TripInv

\* To show of an action of t: the shape, the row of t, and that the others are left alone.
LEMMA OneTrip ==
  ASSUME IInv, [Next]_vars, NEW t \in Calls, Shape', TripInv(t)',
         \A u \in Calls \ {t} : Untouched(u)
  PROVE  IInv'
<1>1. BreakerInv' /\ SurgeInv' BY StepParts, BreakerStepInv, PricingStepInv DEF IInv
<1>2. \A u \in Calls \ {t} : TripInv(u)' BY UntouchedInv DEF IInv
<1> QED BY <1>1, <1>2 DEF IInv

-----------------------------------------------------------------------------
(* One lemma for each action of a trip.                                    *)

\* A call that begins or ends leaves the other calls as they are.
LEMMA AdmitFrame ==
  ASSUME IInv, NEW t \in Calls, Admit(t)
  PROVE  /\ t \in inFlight' /\ age'[t] = 0
         /\ \A u \in Calls \ {t} : age'[u] = age[u] /\ (u \in inFlight' <=> u \in inFlight)
BY DEF Admit, IInv, BreakerInv, BreakerTypeOK

LEMMA EndedFrame ==
  ASSUME IInv, NEW t \in Calls, Ended(t)
  PROVE  /\ t \notin inFlight' /\ age'[t] = 0
         /\ \A u \in Calls \ {t} : age'[u] = age[u] /\ (u \in inFlight' <=> u \in inFlight)
BY DEF Ended, IInv, BreakerInv, BreakerTypeOK

LEMMA RejectFrame ==
  ASSUME NEW t, Reject(t)
  PROVE  t \notin inFlight' /\ age' = age /\ inFlight' = inFlight
BY DEF Reject, breakerVars

\* The rows the actions write are rows.
LEMMA LabelRow ==
  ASSUME NEW row \in TripRows, NEW label \in Labels
  PROVE  [row EXCEPT !.at = label] \in TripRows
<1> HIDE DEF Labels
<1> QED BY DEF TripRows

LEMMA SurgeRow ==
  ASSUME NEW row \in TripRows, NEW s \in 100 .. 300
  PROVE  [row EXCEPT !.at = "quote", !.surge = s] \in TripRows
<1>1. "quote" \in Labels BY DEF Labels, Waiting, Creating
<1> DEFINE S == 100 .. 300 P == 0 .. MaxPoints
           R == [at : Labels, surge : S, estimate : Nat, points : P, fare : Nat]
<1>2. row \in R /\ s \in S BY DEF TripRows
<1> HIDE DEF S, P
<1>3. [row EXCEPT !.at = "quote", !.surge = s] \in R BY <1>1, <1>2
<1> QED BY <1>3 DEF TripRows, S, P

LEMMA InsertRow ==
  ASSUME NEW row \in TripRows, NEW n \in Nat
  PROVE  [row EXCEPT !.at = "in_progress", !.estimate = n] \in TripRows
<1>1. "in_progress" \in Labels BY DEF Labels, Waiting, Creating
<1> DEFINE S == 100 .. 300 P == 0 .. MaxPoints
           R == [at : Labels, surge : S, estimate : Nat, points : P, fare : Nat]
<1>2. row \in R /\ n \in Nat BY DEF TripRows
<1> HIDE DEF S, P
<1>3. [row EXCEPT !.at = "in_progress", !.estimate = n] \in R BY <1>1, <1>2
<1> QED BY <1>3 DEF TripRows, S, P

LEMMA PointsRow ==
  ASSUME NEW row \in TripRows, NEW p \in 0 .. MaxPoints
  PROVE  [row EXCEPT !.at = "billing", !.points = p] \in TripRows
<1>1. "billing" \in Labels BY DEF Labels, Waiting, Creating
<1> DEFINE S == 100 .. 300 P == 0 .. MaxPoints
           R == [at : Labels, surge : S, estimate : Nat, points : P, fare : Nat]
<1>2. row \in R /\ p \in P BY DEF TripRows
<1> HIDE DEF S, P
<1>3. [row EXCEPT !.at = "billing", !.points = p] \in R BY <1>1, <1>2
<1> QED BY <1>3 DEF TripRows, S, P

LEMMA BillRow ==
  ASSUME NEW row \in TripRows, NEW p \in 0 .. MaxPoints, NEW n \in Nat
  PROVE  [row EXCEPT !.at = "completed", !.points = p, !.fare = n] \in TripRows
<1>1. "completed" \in Labels BY DEF Labels, Waiting, Creating
<1> DEFINE S == 100 .. 300 P == 0 .. MaxPoints
           R == [at : Labels, surge : S, estimate : Nat, points : P, fare : Nat]
<1>2. row \in R /\ p \in P /\ n \in Nat BY DEF TripRows
<1> HIDE DEF S, P
<1>3. [row EXCEPT !.at = "completed", !.points = p, !.fare = n] \in R BY <1>1, <1>2
<1> QED BY <1>3 DEF TripRows, S, P

\* What a row that is written leaves of the others.
LEMMA NewRow ==
  ASSUME Shape, NEW t \in Calls, NEW r \in TripRows, trip' = [trip EXCEPT ![t] = r]
  PROVE  /\ trip' \in [Calls -> TripRows] /\ trip'[t] = r
         /\ \A u \in Calls \ {t} : trip'[u] = trip[u]
<1> HIDE DEF TripRows
<1> QED BY DEF Shape

\* A trip that goes on to another label keeps its other fields.
LEMMA GotoRow ==
  ASSUME Shape, NEW t \in Calls,
         NEW label \in Labels, Goto(t, label)
  PROVE  /\ trip' \in [Calls -> TripRows]
         /\ trip'[t] = [trip[t] EXCEPT !.at = label]
         /\ \A u \in Calls \ {t} : trip'[u] = trip[u]
<1> DEFINE r == [trip[t] EXCEPT !.at = label]
<1>1. r \in TripRows BY LabelRow DEF Shape
<1>2. trip' = [trip EXCEPT ![t] = r] BY DEF Goto, Shape
<1> QED BY <1>1, <1>2, NewRow

LEMMA ForwardInv == ASSUME IInv, NEW t \in Calls, Forward(t) PROVE IInv'
<1>1. [Next]_vars BY DEF Next
<1>2. Shape /\ At(t, "none") /\ UNCHANGED asking BY DEF IInv, Forward
<1>3. waited[t] = 0 /\ hung[t] = 0 /\ t \notin gaveUp BY <1>2 DEF IInv, TripInv, Waits, At
<1>4. CASE Admit(t) /\ Goto(t, "observing")
  <2>1. /\ trip' \in [Calls -> TripRows]
        /\ trip'[t] = [trip[t] EXCEPT !.at = "observing"]
        /\ \A u \in Calls \ {t} : trip'[u] = trip[u]
    BY <1>2, <1>4, GotoRow DEF Labels, Waiting, Creating
  <2>2. Shape' BY <1>2, <2>1 DEF Shape, asking
  <2>3. trip'[t].at = "observing" BY <1>2, <2>1 DEF Shape, TripRows
  <2>4. /\ t \in inFlight' /\ age'[t] = 0
        /\ \A u \in Calls \ {t} : age'[u] = age[u] /\ (u \in inFlight' <=> u \in inFlight)
    BY <1>4, AdmitFrame
  <2>5. TripInv(t)' BY <1>2, <1>3, <2>3, <2>4 DEF TripInv, Calling, Waits, Agreed, At, Full, asking
  <2>6. \A u \in Calls \ {t} : Untouched(u) BY <1>2, <2>1, <2>4 DEF Untouched, asking
  <2> QED BY <1>1, <2>2, <2>5, <2>6, OneTrip
<1>5. CASE Reject(t) /\ Goto(t, "quote")
  <2>1. /\ trip' \in [Calls -> TripRows]
        /\ trip'[t] = [trip[t] EXCEPT !.at = "quote"]
        /\ \A u \in Calls \ {t} : trip'[u] = trip[u]
    BY <1>2, <1>5, GotoRow DEF Labels, Waiting, Creating
  <2>2. Shape' BY <1>2, <2>1 DEF Shape, asking
  <2>3. trip'[t].at = "quote" BY <1>2, <2>1 DEF Shape, TripRows
  <2>4. t \notin inFlight' /\ age' = age /\ inFlight' = inFlight BY <1>5, RejectFrame
  <2>5. TripInv(t)' BY <1>2, <1>3, <2>3, <2>4 DEF TripInv, Calling, Waits, Agreed, At, Full, asking
  <2>6. \A u \in Calls \ {t} : Untouched(u) BY <1>2, <2>1, <2>4 DEF Untouched, asking
  <2> QED BY <1>1, <2>2, <2>5, <2>6, OneTrip
<1> QED BY <1>4, <1>5 DEF Forward

LEMMA ServeObserveInv == ASSUME IInv, NEW t \in Calls, ServeObserve(t) PROVE IInv'
<1>1. [Next]_vars BY DEF Next
<1>2. CurrentSurge \in 100 .. 300 BY DEF CurrentSurge, IInv, SurgeInv, PricingTypeOK, DefaultRates
<1>3. Shape' BY <1>2 DEF ServeObserve, IInv, Shape
<1>4. \A u \in Calls : Untouched(u) BY DEF ServeObserve, Untouched, breakerVars
<1>5. TripInv(t)' BY <1>4, UntouchedInv DEF IInv
<1> QED BY <1>1, <1>3, <1>4, <1>5, OneTrip

LEMMA ObserveAnsweredInv == ASSUME IInv, NEW t \in Calls, ObserveAnswered(t) PROVE IInv'
<1>1. [Next]_vars BY DEF Next, Ends
<1>2. Shape /\ TripInv(t) /\ trip[t].at = "observing" /\ age[t] \in 0 .. CallTimeout
  BY DEF IInv, ObserveAnswered, At, BreakerInv, BreakerTypeOK
<1>3. answer[t] \in 100 .. 300 BY <1>2 DEF Shape, ObserveAnswered
<1>4. trip' = [trip EXCEPT ![t].at = "quote", ![t].surge = answer[t]]
  /\ answer' = [answer EXCEPT ![t] = 0] /\ UNCHANGED <<waited, gaveUp, hung>>
  BY DEF ObserveAnswered
<1> DEFINE r == [trip[t] EXCEPT !.at = "quote", !.surge = answer[t]]
<1>10. r \in TripRows BY <1>2, <1>3, SurgeRow DEF Shape
<1>11. r.at = "quote" BY <1>2 DEF Shape, TripRows
<1>12. trip' = [trip EXCEPT ![t] = r] BY <1>2, <1>4 DEF Shape
<1> HIDE DEF r
<1>5. trip'[t].at = "quote" /\ trip' \in [Calls -> TripRows] /\ \A u \in Calls \ {t} : trip'[u] = trip[u]
  BY <1>2, <1>10, <1>11, <1>12, NewRow
<1>6. Shape' BY <1>2, <1>4, <1>5 DEF Shape
<1>7. /\ t \notin inFlight' /\ age'[t] = 0
      /\ \A u \in Calls \ {t} : age'[u] = age[u] /\ (u \in inFlight' <=> u \in inFlight)
  BY EndedFrame DEF ObserveAnswered, OnSuccess
<1>8. TripInv(t)' BY <1>2, <1>4, <1>5, <1>7 DEF TripInv, Calling, Waits, Agreed, At
<1>9. \A u \in Calls \ {t} : Untouched(u) BY <1>4, <1>5, <1>7 DEF Untouched
<1> QED BY <1>1, <1>6, <1>8, <1>9, OneTrip

LEMMA ObserveFailsInv == ASSUME IInv, NEW t \in Calls, ObserveFails(t) PROVE IInv'
<1>1. [Next]_vars BY DEF Next, Ends
<1>2. Shape /\ TripInv(t) /\ trip[t].at = "observing" /\ age[t] \in 0 .. CallTimeout
  BY DEF IInv, ObserveFails, At, BreakerInv, BreakerTypeOK
<1>4. Goto(t, "quote") /\ answer' = [answer EXCEPT ![t] = 0] /\ UNCHANGED <<waited, gaveUp, hung>>
  BY DEF ObserveFails
<1>5. trip'[t] = [trip[t] EXCEPT !.at = "quote"] /\ trip' \in [Calls -> TripRows]
  /\ \A u \in Calls \ {t} : trip'[u] = trip[u]
  BY <1>2, <1>4, GotoRow DEF Labels, Waiting, Creating
<1>6. Shape' BY <1>2, <1>4, <1>5 DEF Shape
<1>7. /\ t \notin inFlight' /\ age'[t] = 0
      /\ \A u \in Calls \ {t} : age'[u] = age[u] /\ (u \in inFlight' <=> u \in inFlight)
  BY EndedFrame DEF ObserveFails, OnFailure
<1>10. trip'[t].at = "quote" BY <1>2, <1>5 DEF Shape, TripRows
<1>8. TripInv(t)' BY <1>2, <1>4, <1>7, <1>10 DEF TripInv, Calling, Waits, Agreed, At
<1>9. \A u \in Calls \ {t} : Untouched(u) BY <1>4, <1>5, <1>7 DEF Untouched
<1> QED BY <1>1, <1>6, <1>8, <1>9, OneTrip

\* A quote ends, one way or the other, and the trip is inserted.
LEMMA InsertInv ==
  ASSUME IInv, [Next]_vars, NEW t \in Calls, trip[t].at \in {"quote", "quoting"},
         NEW n \in Nat, n = ComputeFare(EstDistanceM, EstDurationS, trip[t].surge), Insert(t, n),
         t \notin inFlight',
         \A u \in Calls \ {t} : age'[u] = age[u] /\ (u \in inFlight' <=> u \in inFlight)
  PROVE  IInv'
<1>1. Shape BY DEF IInv
<1> DEFINE r == [trip[t] EXCEPT !.at = "in_progress", !.estimate = n]
<1>2. r \in TripRows BY <1>1, InsertRow DEF Shape
<1>3. r.at = "in_progress" /\ r.estimate = n /\ r.surge = trip[t].surge BY <1>1 DEF Shape, TripRows
<1>4. trip' = [trip EXCEPT ![t] = r] BY <1>1 DEF Shape, Insert
<1> HIDE DEF r
<1>5. trip'[t] = r /\ trip' \in [Calls -> TripRows] /\ \A u \in Calls \ {t} : trip'[u] = trip[u]
  BY <1>1, <1>2, <1>4, NewRow
<1>6. /\ waited' = [waited EXCEPT ![t] = 0] /\ hung' = [hung EXCEPT ![t] = 0]
      /\ gaveUp' = gaveUp \ {t} /\ answer' = answer
  BY DEF Insert, Told
<1>7. Shape' BY <1>1, <1>5, <1>6 DEF Shape
<1>8. waited'[t] = 0 /\ hung'[t] = 0 /\ t \notin gaveUp' BY <1>1, <1>6 DEF Shape
<1>9. Calling(t)' /\ Waits(t)' BY <1>3, <1>5, <1>8 DEF Calling, Waits, At
<1>10. Agreed(t)' BY <1>3, <1>5 DEF Agreed, At
<1>11. \A u \in Calls \ {t} : Untouched(u) BY <1>1, <1>5, <1>6 DEF Untouched, Shape
<1> QED BY <1>7, <1>9, <1>10, <1>11, OneTrip DEF TripInv

\* The two ways to estimate a fare give the same natural.
LEMMA Estimates ==
  ASSUME IInv, NEW t \in Calls
  PROVE  /\ ComputeFare(EstDistanceM, EstDurationS, trip[t].surge) \in Nat
         /\ QuoteFallback(t) = ComputeFare(EstDistanceM, EstDurationS, trip[t].surge)
<1>1. trip[t].surge \in 100 .. 300 BY DEF IInv, Shape, TripRows
<1>2. EstDistanceM \in Nat BY RideAssumption DEF RideAssumption
<1>3. EstDurationS \in Nat BY <1>2, RoundNat DEF EstDurationS
<1> QED BY <1>1, <1>2, <1>3, FareNat, FaresAgree DEF QuoteFallback

LEMMA QuoteCallInv == ASSUME IInv, NEW t \in Calls, QuoteCall(t) PROVE IInv'
<1>1. [Next]_vars BY DEF Next
<1>2. Shape /\ TripInv(t) /\ trip[t].at = "quote" BY DEF IInv, QuoteCall, At
<1>3. CASE Admit(t) /\ Goto(t, "quoting") /\ UNCHANGED asking
  <2>1. /\ trip' \in [Calls -> TripRows]
        /\ trip'[t] = [trip[t] EXCEPT !.at = "quoting"]
        /\ \A u \in Calls \ {t} : trip'[u] = trip[u]
    BY <1>2, <1>3, GotoRow DEF Labels, Waiting, Creating
  <2>2. Shape' BY <1>2, <1>3, <2>1 DEF Shape, asking
  <2>3. trip'[t].at = "quoting" BY <1>2, <2>1 DEF Shape, TripRows
  <2>4. /\ t \in inFlight' /\ age'[t] = 0
        /\ \A u \in Calls \ {t} : age'[u] = age[u] /\ (u \in inFlight' <=> u \in inFlight)
    BY <1>3, AdmitFrame
  <2>5. waited[t] \in 0 .. CallTimeout /\ hung[t] = Full(waited[t]) /\ t \notin gaveUp
    BY <1>2 DEF TripInv, Waits, At, Shape
  <2>6. waited'[t] = waited[t] + age'[t] /\ hung'[t] = Full(waited[t]) + Full(age'[t])
    BY <1>3, <2>4, <2>5 DEF asking, Full
  <2>7. Calling(t)' /\ Waits(t)' BY <1>3, <2>3, <2>4, <2>5, <2>6 DEF Calling, Waits, At, asking
  <2>8. Agreed(t)' BY <2>3 DEF Agreed, At
  <2>9. \A u \in Calls \ {t} : Untouched(u) BY <1>3, <2>1, <2>4 DEF Untouched, asking
  <2> QED BY <1>1, <2>2, <2>7, <2>8, <2>9, OneTrip DEF TripInv
<1>4. CASE Reject(t) /\ Insert(t, QuoteFallback(t))
  <2>1. t \notin inFlight' /\ age' = age /\ inFlight' = inFlight BY <1>4, RejectFrame
  <2> QED BY <1>1, <1>2, <1>4, <2>1, Estimates, InsertInv
<1> QED BY <1>3, <1>4 DEF QuoteCall

LEMMA QuoteEndsInv == ASSUME IInv, NEW t \in Calls, QuoteEnds(t) PROVE IInv'
<1>1. [Next]_vars BY DEF Next, Ends
<1>2. trip[t].at = "quoting" BY DEF QuoteEnds, At
<1>3. Ended(t) BY DEF QuoteEnds, OnSuccess, OnFailure
<1>4. Insert(t, ComputeFare(EstDistanceM, EstDurationS, trip[t].surge))
  BY Estimates DEF QuoteEnds
<1> QED BY <1>1, <1>2, <1>3, <1>4, Estimates, EndedFrame, InsertInv

\* The bill ends, or needs no call.
LEMMA BillInv ==
  ASSUME IInv, [Next]_vars, NEW t \in Calls, NEW p \in 0 .. MaxPoints, NEW n \in Nat,
         n = ComputeFare(DistanceM(p), DurationS, trip[t].surge), Bill(t, p, n),
         trip[t].at \in {"in_progress", "billing"},
         t \notin inFlight',
         \A u \in Calls \ {t} : age'[u] = age[u] /\ (u \in inFlight' <=> u \in inFlight)
  PROVE  IInv'
<1>1. Shape /\ Agreed(t) BY DEF IInv, TripInv
<1> DEFINE r == [trip[t] EXCEPT !.at = "completed", !.points = p, !.fare = n]
<1>2. r \in TripRows BY <1>1, BillRow DEF Shape
<1>3. /\ r.at = "completed" /\ r.points = p /\ r.fare = n
      /\ r.surge = trip[t].surge /\ r.estimate = trip[t].estimate
  BY <1>1 DEF Shape, TripRows
<1>4. trip' = [trip EXCEPT ![t] = r] BY <1>1 DEF Shape, Bill
<1> HIDE DEF r
<1>5. trip'[t] = r /\ trip' \in [Calls -> TripRows] /\ \A u \in Calls \ {t} : trip'[u] = trip[u]
  BY <1>1, <1>2, <1>4, NewRow
<1>6. /\ waited' = [waited EXCEPT ![t] = 0] /\ hung' = [hung EXCEPT ![t] = 0]
      /\ gaveUp' = gaveUp \ {t} /\ answer' = answer
  BY DEF Bill, Told
<1>7. Shape' BY <1>1, <1>5, <1>6 DEF Shape
<1>8. waited'[t] = 0 /\ hung'[t] = 0 /\ t \notin gaveUp' BY <1>1, <1>6 DEF Shape
<1>9. Calling(t)' /\ Waits(t)' BY <1>3, <1>5, <1>8 DEF Calling, Waits, At
<1>10. Agreed(t)' BY <1>1, <1>3, <1>5 DEF Agreed, At
<1>11. \A u \in Calls \ {t} : Untouched(u) BY <1>1, <1>5, <1>6 DEF Untouched, Shape
<1> QED BY <1>7, <1>9, <1>10, <1>11, OneTrip DEF TripInv

\* The two ways to work out a bill give the same natural.
LEMMA Bills ==
  ASSUME IInv, NEW t \in Calls, NEW p \in 0 .. MaxPoints
  PROVE  /\ ComputeFare(DistanceM(p), DurationS, trip[t].surge) \in Nat
         /\ BillFallback(t, p) = ComputeFare(DistanceM(p), DurationS, trip[t].surge)
<1>1. trip[t].surge \in 100 .. 300 BY DEF IInv, Shape, TripRows
<1>2. DurationS \in Nat /\ DistanceM(p) \in Nat BY RideAssumption, DistanceNat DEF RideAssumption
<1> QED BY <1>1, <1>2, FareNat, FaresAgree DEF BillFallback

LEMMA CompleteInv == ASSUME IInv, NEW t \in Calls, Complete(t) PROVE IInv'
<1>1. [Next]_vars BY DEF Next
<1>2. Shape /\ TripInv(t) /\ trip[t].at = "in_progress" BY DEF IInv, Complete, At
<1>3. PICK p \in 0 .. MaxPoints :
        \/ /\ Admit(t)
           /\ trip' = [trip EXCEPT ![t].at = "billing", ![t].points = p]
           /\ UNCHANGED asking
        \/ Reject(t) /\ Bill(t, p, BillFallback(t, p))
  BY DEF Complete
<1>4. CASE Admit(t) /\ trip' = [trip EXCEPT ![t].at = "billing", ![t].points = p] /\ UNCHANGED asking
  <2> DEFINE r == [trip[t] EXCEPT !.at = "billing", !.points = p]
  <2>1. r \in TripRows BY <1>2, PointsRow DEF Shape
  <2>2. r.at = "billing" /\ r.surge = trip[t].surge /\ r.estimate = trip[t].estimate
    BY <1>2 DEF Shape, TripRows
  <2>3. trip' = [trip EXCEPT ![t] = r] BY <1>2, <1>4 DEF Shape
  <2> HIDE DEF r
  <2>4. trip'[t] = r /\ trip' \in [Calls -> TripRows] /\ \A u \in Calls \ {t} : trip'[u] = trip[u]
    BY <1>2, <2>1, <2>3, NewRow
  <2>5. Shape' BY <1>2, <1>4, <2>4 DEF Shape, asking
  <2>6. /\ t \in inFlight' /\ age'[t] = 0
        /\ \A u \in Calls \ {t} : age'[u] = age[u] /\ (u \in inFlight' <=> u \in inFlight)
    BY <1>4, AdmitFrame
  <2>7. waited'[t] = 0 /\ hung'[t] = 0 /\ t \notin gaveUp' BY <1>2, <1>4 DEF TripInv, Waits, At, asking
  <2>8. Calling(t)' /\ Waits(t)' BY <2>2, <2>4, <2>6, <2>7 DEF Calling, Waits, At, Full
  <2>9. Agreed(t)' BY <1>2, <2>2, <2>4 DEF TripInv, Agreed, At
  <2>10. \A u \in Calls \ {t} : Untouched(u) BY <1>4, <2>4, <2>6 DEF Untouched, asking
  <2> QED BY <1>1, <2>5, <2>8, <2>9, <2>10, OneTrip DEF TripInv
<1>5. CASE Reject(t) /\ Bill(t, p, BillFallback(t, p))
  <2>1. t \notin inFlight' /\ age' = age /\ inFlight' = inFlight BY <1>5, RejectFrame
  <2> QED BY <1>1, <1>2, <1>5, <2>1, Bills, BillInv
<1> QED BY <1>3, <1>4, <1>5

LEMMA BillEndsInv == ASSUME IInv, NEW t \in Calls, BillEnds(t) PROVE IInv'
<1>1. [Next]_vars BY DEF Next, Ends
<1>2. trip[t].at = "billing" /\ trip[t].points \in 0 .. MaxPoints
  BY DEF BillEnds, At, IInv, Shape, TripRows
<1>3. Ended(t) BY DEF BillEnds, OnSuccess, OnFailure
<1>4. Bill(t, trip[t].points, ComputeFare(DistanceM(trip[t].points), DurationS, trip[t].surge))
  BY <1>2, Bills DEF BillEnds
<1> QED BY <1>1, <1>2, <1>3, <1>4, Bills, EndedFrame, BillInv

LEMMA GiveUpInv == ASSUME IInv, NEW t \in Calls, GiveUp(t) PROVE IInv'
<1>1. [Next]_vars BY DEF Next
<1>2. /\ Shape /\ TripInv(t) /\ age[t] \in 0 .. CallTimeout
      /\ trip[t].at \in Waiting /\ waited[t] = Patience(t)
      /\ gaveUp' = gaveUp \cup {t}
      /\ UNCHANGED <<inFlight, age, trip, answer, waited, hung>>
  BY DEF IInv, GiveUp, BreakerInv, BreakerTypeOK, breakerVars
<1>3. Shape' BY <1>2 DEF Shape
<1>4. \/ At(t, "quoting") /\ waited[t] = 2 * CallTimeout
      \/ At(t, "billing") /\ waited[t] = CallTimeout
  <2>1. Waits(t) /\ waited[t] \in Nat BY <1>2 DEF TripInv, Shape
  <2>2. trip[t].at # "billing" => waited[t] = 2 * CallTimeout
    BY <1>2, GatewayAssumption DEF GatewayAssumption, Patience, At
  <2>3. trip[t].at = "billing" => waited[t] = CallTimeout BY <1>2 DEF Patience, At
  <2>4. trip[t].at = "observing" => waited[t] <= CallTimeout BY <1>2, <2>1 DEF Waits
  <2>5. trip[t].at = "quote" => waited[t] <= CallTimeout BY <2>1 DEF Waits, At
  <2>6. trip[t].at \in {"observing", "quote", "quoting", "billing"} BY <1>2 DEF Waiting, Creating
  <2> QED BY <2>1, <2>2, <2>3, <2>4, <2>5, <2>6 DEF At
<1>5. Calling(t)' /\ Agreed(t)' BY <1>2 DEF TripInv, Calling, Agreed, At
<1>6. Waits(t)' BY <1>2, <1>4 DEF TripInv, Waits, At
<1>7. \A u \in Calls \ {t} : Untouched(u) BY <1>2 DEF Untouched
<1> QED BY <1>1, <1>3, <1>5, <1>6, <1>7, OneTrip DEF TripInv

LEMMA TickTripsInv == ASSUME IInv, Tick PROVE IInv'
<1>1. BreakerInv' /\ SurgeInv'
  BY StepParts, BreakerStepInv, PricingStepInv DEF IInv, Next
<1>2. /\ \A t \in Calls : ~At(t, "quote") /\ (t \in inFlight /\ t \notin gaveUp => waited[t] < Patience(t))
      /\ \A c \in inFlight : age[c] < CallTimeout
      /\ age' = [c \in Calls |-> age[c] + IF c \in inFlight THEN 1 ELSE 0]
      /\ waited' = [t \in Calls |-> IF t \in inFlight /\ t \notin gaveUp THEN waited[t] + 1 ELSE waited[t]]
      /\ hung' = [t \in Calls |-> hung[t] + IF t \in inFlight /\ age'[t] = CallTimeout THEN 1 ELSE 0]
      /\ inFlight' = inFlight /\ trip' = trip /\ answer' = answer /\ gaveUp' = gaveUp
  BY DEF Tick, BreakerTick
<1>3. Shape BY DEF IInv
<1>4. Shape' BY <1>2, <1>3 DEF Shape
<1>5. ASSUME NEW t \in Calls PROVE TripInv(t)'
  <2>1. Calling(t) /\ Waits(t) /\ Agreed(t) /\ age[t] \in 0 .. CallTimeout /\ waited[t] \in Nat /\ hung[t] \in Nat
    BY <1>3 DEF IInv, TripInv, BreakerInv, BreakerTypeOK, Shape
  <2>2. Calling(t)' /\ Agreed(t)' BY <1>2, <2>1 DEF Calling, Agreed, At
  <2>3. CASE t \notin inFlight
    <3>1. waited'[t] = waited[t] /\ hung'[t] = hung[t] BY <1>2, <2>1, <2>3
    <3>2. trip[t].at \in {"none", "in_progress", "completed"}
      BY <1>2, <1>3, <2>1, <2>3 DEF Calling, At, Shape, TripRows, Labels, Waiting, Creating
    <3>3. Waits(t)' BY <1>2, <2>1, <3>1, <3>2 DEF Waits, At
    <3> QED BY <2>2, <3>3 DEF TripInv
  <2>4. CASE t \in inFlight
    <3>1. age[t] < CallTimeout /\ age'[t] = age[t] + 1 /\ hung'[t] = hung[t] + Full(age'[t])
      BY <1>2, <2>1, <2>4 DEF Full
    <3>2. Full(age[t]) = 0 BY <3>1 DEF Full
    <3>3. t \notin gaveUp /\ waited'[t] = waited[t] + 1
      BY <1>2, <2>1, <2>4, <3>1 DEF Waits, At
    <3>4. CASE trip[t].at \in {"observing", "billing"}
      <4>1. waited[t] = age[t] /\ hung[t] = Full(age[t]) BY <2>1, <3>4 DEF Waits
      <4>2. waited'[t] = age'[t] /\ hung'[t] = Full(age'[t]) BY <2>1, <3>1, <3>2, <3>3, <4>1 DEF Full
      <4>3. trip'[t].at \in {"observing", "billing"} /\ t \notin gaveUp' BY <1>2, <3>3, <3>4
      <4>5. ~At(t, "quote")' /\ ~At(t, "quoting")' BY <4>3 DEF At
      <4>4. Waits(t)' BY <4>2, <4>3, <4>5 DEF Waits
      <4> QED BY <2>2, <4>4 DEF TripInv
    <3>5. CASE trip[t].at = "quoting"
      <4>1. PICK w \in 0 .. CallTimeout : waited[t] = w + age[t] /\ hung[t] = Full(w) + Full(age[t])
        BY <2>1, <3>5 DEF Waits, At
      <4>2. waited'[t] = w + age'[t] /\ hung'[t] = Full(w) + Full(age'[t])
        BY <2>1, <3>1, <3>2, <3>3, <4>1 DEF Full
      <4>3. trip'[t].at = "quoting" /\ t \notin gaveUp' BY <1>2, <3>3, <3>5
      <4>4. \E v \in 0 .. CallTimeout : waited'[t] = v + age'[t] /\ hung'[t] = Full(v) + Full(age'[t])
        BY <4>2
      <4>5. Waits(t)' BY <4>3, <4>4 DEF Waits, At
      <4> QED BY <2>2, <4>5 DEF TripInv
    <3> QED BY <2>1, <2>4, <3>4, <3>5 DEF Calling
  <2> QED BY <2>3, <2>4
<1> QED BY <1>1, <1>4, <1>5 DEF IInv

\* Minutes and the worker leave the trips and the breaker alone.
LEMMA SurgeStepsInv == ASSUME IInv, (Minute \/ Worker \/ UNCHANGED vars) PROVE IInv'
<1>1. BreakerInv' /\ SurgeInv' BY StepParts, BreakerStepInv, PricingStepInv DEF IInv, Next
<1>2. UNCHANGED <<inFlight, age, trip, answer, waited, gaveUp, hung>>
  BY DEF Minute, Worker, vars, breakerVars, asking
<1>3. Shape' BY <1>2 DEF IInv, Shape
<1>4. \A u \in Calls : Untouched(u) BY <1>2 DEF Untouched
<1>5. \A u \in Calls : TripInv(u)' BY <1>4, UntouchedInv DEF IInv
<1> QED BY <1>1, <1>3, <1>5 DEF IInv

-----------------------------------------------------------------------------
(* The theorems.                                                           *)

LEMMA InitInv == Init => IInv
<1> SUFFICES ASSUME Init PROVE IInv OBVIOUS
<1>1. BreakerInv /\ SurgeInv BY BreakerInitInv, PricingInitInv DEF Init
<1>2. inFlight = {} /\ trip = [t \in Calls |-> NoTrip] /\ answer = [t \in Calls |-> 0]
      /\ waited = [t \in Calls |-> 0] /\ gaveUp = {} /\ hung = [t \in Calls |-> 0]
  BY DEF Init, BreakerInit
<1>3. NoTrip \in TripRows /\ NoTrip.at = "none"
  <2>1. 0 \in 0 .. MaxPoints BY RideAssumption DEF RideAssumption
  <2> QED BY <2>1 DEF NoTrip, TripRows, Labels
<1> HIDE DEF NoTrip, TripRows
<1>4. Shape BY <1>2, <1>3 DEF Shape
<1>5. \A t \in Calls : TripInv(t) BY <1>2, <1>3 DEF TripInv, Calling, Waits, Agreed, At
<1> QED BY <1>1, <1>4, <1>5 DEF IInv

LEMMA NextInv == ASSUME IInv, [Next]_vars PROVE IInv'
BY ForwardInv, ServeObserveInv, ObserveAnsweredInv, ObserveFailsInv, QuoteCallInv, QuoteEndsInv,
   CompleteInv, BillEndsInv, GiveUpInv, TickTripsInv, SurgeStepsInv DEF Next, Ends

LEMMA Inductive == Spec => []IInv
BY InitInv, NextInv, PTL DEF Spec

\* The variables of the breaker, of pricing and of the trips keep their types,
\* and a trip has a call in flight exactly while it waits for one.
THEOREM TypeCorrect == Spec => []TypeOK
BY Inductive, InvTypeOK, PTL

\* A probe is never accompanied: no second call while the breaker is half open,
\* and none left from before.
THEOREM ProbeIsAlone == Spec => []ProbesAlone
<1>1. IInv => ProbesAlone BY DEF IInv, BreakerInv
<1> QED BY <1>1, Inductive, PTL

\* Until its cooldown is over an open breaker lets nothing through, and closes
\* on nothing but the success of a call that it admitted before it opened.
THEOREM OpenBreakerRests == Spec => OpenRests
<1>1. IInv /\ [Next]_vars =>
        [state = "OPEN" /\ sinceOpen < ResetTimeout =>
           /\ inFlight' \subseteq inFlight
           /\ state' # "OPEN" =>
                \E c \in inFlight \ inFlight' : age[c] \in sinceOpen .. CallTimeout]_breakerVars
  BY StepParts, RestsStep DEF IInv
<1> QED BY <1>1, Inductive, PTL DEF Spec, OpenRests

\* A surge above 1 outlives the demand by SurgeTtl minutes at most, even if the
\* worker stops.
THEOREM SurgeGoes == Spec => []SurgeDecays
<1>1. IInv => SurgeDecays
  BY DEF IInv, SurgeInv, PricingTypeOK, SurgeDecays, CurrentSurge
<1> QED BY <1>1, Inductive, PTL

\* The rider is billed by the rates and the surge of his request, whoever
\* computes the fare and whatever happened to the surge since.
THEOREM BillIsAsAgreed == Spec => []BilledAsAgreed
BY Inductive, InvAgreed, PTL

\* Nobody is told of a failure unless pricing kept every call waiting for its
\* full timeout.
THEOREM OnlyHungCallsFail == Spec => []GaveUpOnHung
BY Inductive, InvGaveUp, PTL

-----------------------------------------------------------------------------
(* What the pure functions of fare.js promise.                             *)

\* A quotient grows with what is divided.
LEMMA DivGrows ==
  ASSUME NEW x \in Nat, NEW y \in Nat, x <= y, NEW c \in Nat \ {0}
  PROVE  x \div c <= y \div c
<1> DEFINE p == x \div c q == y \div c
<1>1. p \in Nat /\ q \in Nat /\ p * c <= x /\ y < (q + 1) * c
  OBVIOUS
<1> HIDE DEF p, q
<1>2. p * c < (q + 1) * c
  BY <1>1
<1>3. p < q + 1
  <2>1. SUFFICES ASSUME p >= q + 1 PROVE FALSE
    BY <1>1
  <2>2. p * c >= (q + 1) * c
    BY <1>1, <2>1
  <2> QED BY <1>1, <1>2, <2>2
<1> QED BY <1>1, <1>3 DEF p, q

LEMMA RoundGrows ==
  ASSUME NEW m \in Nat, NEW n \in Nat, m <= n, NEW d \in Nat \ {0}
  PROVE  Round(m, d) <= Round(n, d)
<1>1. 2 * m + d \in Nat /\ 2 * n + d \in Nat /\ 2 * m + d <= 2 * n + d /\ 2 * d \in Nat \ {0}
  OBVIOUS
<1> QED BY <1>1, DivGrows DEF Round

\* A longer or slower ride never costs less, nor does a higher surge, however
\* distance, time and total are rounded; no ride costs less than the minimum,
\* and a surge beyond the cap does not count.
THEOREM FareGrows ==
  ASSUME NEW a \in Nat, NEW b \in Nat, a <= b, NEW u \in Nat, NEW v \in Nat, u <= v,
         NEW s \in Nat, NEW t \in Nat, s <= t
  PROVE  /\ ComputeFare(a, u, s) <= ComputeFare(b, v, t)
         /\ ComputeFare(a, u, s) >= DefaultRates.minFarePaise
         /\ ComputeFare(a, u, s) <= ComputeFare(a, u, DefaultRates.maxSurge)
<1> DEFINE clamp(x) == Least(Greatest(x, 100), 300)
           sub(x, y) == 3000 + Round(x * 1500, 1000) + Round(y * 200, 60)
<1>1. ASSUME NEW x \in Nat, NEW y \in Nat, NEW z \in Nat
      PROVE  ComputeFare(x, y, z) = Greatest(5000, Round(sub(x, y) * clamp(z), 100))
  BY DEF ComputeFare, DefaultRates
<1>2. ASSUME NEW x \in Nat, NEW y \in Nat PROVE sub(x, y) \in Nat
  BY RoundNat
<1>3. sub(a, u) <= sub(b, v)
  <2>1. Round(a * 1500, 1000) <= Round(b * 1500, 1000)
    BY RoundGrows
  <2>2. Round(u * 200, 60) <= Round(v * 200, 60)
    BY RoundGrows
  <2>3. /\ Round(a * 1500, 1000) \in Nat /\ Round(b * 1500, 1000) \in Nat
        /\ Round(u * 200, 60) \in Nat /\ Round(v * 200, 60) \in Nat
    BY RoundNat
  <2> QED BY <2>1, <2>2, <2>3
<1>4. ASSUME NEW x \in Nat, NEW y \in Nat, x <= y
      PROVE  clamp(x) \in Nat /\ clamp(y) \in Nat /\ clamp(x) <= clamp(y) /\ clamp(x) <= clamp(300)
  BY <1>4 DEF Least, Greatest
<1>5. clamp(300) \in Nat
  BY DEF Least, Greatest
<1>6. ASSUME NEW f \in Nat, NEW g \in Nat, f <= g, NEW x \in Nat, NEW y \in Nat, x <= y
      PROVE  Greatest(5000, Round(f * x, 100)) <= Greatest(5000, Round(g * y, 100))
  <2>1. f * x \in Nat /\ g * y \in Nat /\ f * x <= g * y
    <3>1. f * x <= g * x /\ g * x <= g * y
      BY <1>6
    <3> QED BY <3>1
  <2>2. Round(f * x, 100) <= Round(g * y, 100)
    BY <2>1, RoundGrows
  <2>3. Round(f * x, 100) \in Nat /\ Round(g * y, 100) \in Nat
    BY <2>1, RoundNat
  <2> QED BY <2>2, <2>3 DEF Greatest
<1> HIDE DEF clamp, sub
<1>7. ComputeFare(a, u, s) <= ComputeFare(b, v, t)
  <2>1. sub(a, u) \in Nat /\ sub(b, v) \in Nat
    BY <1>2
  <2>2. clamp(s) \in Nat /\ clamp(t) \in Nat /\ clamp(s) <= clamp(t)
    BY <1>4
  <2>3. Greatest(5000, Round(sub(a, u) * clamp(s), 100)) <= Greatest(5000, Round(sub(b, v) * clamp(t), 100))
    BY <1>3, <1>6, <2>1, <2>2
  <2> QED BY <1>1, <2>3
<1>8. ComputeFare(a, u, s) <= ComputeFare(a, u, 300)
  <2>1. sub(a, u) \in Nat /\ sub(a, u) <= sub(a, u)
    BY <1>2
  <2>2. clamp(s) \in Nat /\ clamp(s) <= clamp(300)
    <3>1. s <= s
      OBVIOUS
    <3> QED BY <1>4, <3>1
  <2>3. Greatest(5000, Round(sub(a, u) * clamp(s), 100)) <= Greatest(5000, Round(sub(a, u) * clamp(300), 100))
    BY <1>5, <1>6, <2>1, <2>2
  <2> QED BY <1>1, <2>3
<1>9. ComputeFare(a, u, s) >= 5000
  <2>1. Round(sub(a, u) * clamp(s), 100) \in Nat
    <3>1. sub(a, u) \in Nat /\ clamp(s) \in Nat
      BY <1>2, <1>4
    <3>2. sub(a, u) * clamp(s) \in Nat
      BY <3>1
    <3> QED BY <3>2, RoundNat
  <2> QED BY <1>1, <2>1 DEF Greatest
<1> QED BY <1>7, <1>8, <1>9 DEF DefaultRates

\* A surge is between 1 and the cap; more demand never lowers it and more
\* supply never raises it, in spite of its rounding and its three cases.
THEOREM SurgeGrows ==
  ASSUME NEW d \in Nat, NEW e \in Nat, d <= e, NEW r \in Nat, NEW s \in Nat, r <= s
  PROVE  /\ SurgeFromRatio(d, s) \in 100 .. DefaultRates.maxSurge
         /\ SurgeFromRatio(d, s) <= SurgeFromRatio(e, r)
<1>1. SurgeFromRatio(d, s) \in 100 .. 300 /\ SurgeFromRatio(e, r) \in 100 .. 300
  BY SurgeRange
<1>2. CASE SurgeFromRatio(d, s) = 100
  <2>1. SurgeFromRatio(e, r) >= 100
    BY <1>1
  <2> QED BY <1>1, <1>2, <2>1 DEF DefaultRates
<1>3. CASE r = 0 /\ e > 0
  BY <1>1, <1>3 DEF SurgeFromRatio, DefaultRates
<1>4. CASE SurgeFromRatio(d, s) # 100 /\ ~(r = 0 /\ e > 0)
  <2>1. d > 0 /\ ~(s > 0 /\ d <= s)
    BY <1>4 DEF SurgeFromRatio
  <2>2. r > 0 /\ s > 0 /\ d > s /\ e > r
    BY <1>4, <2>1
  <2>3. /\ SurgeFromRatio(d, s) = Least(300, 100 + Round(50 * (d - s), s))
        /\ SurgeFromRatio(e, r) = Least(300, 100 + Round(50 * (e - r), r))
    BY <2>2 DEF SurgeFromRatio, DefaultRates
  <2>4. Round(50 * (d - s), s) <= Round(50 * (e - r), r)
    <3> DEFINE x == 2 * (50 * (d - s)) + s
               y == 2 * (50 * (e - r)) + r
               p == x \div (2 * s)
               q == y \div (2 * r)
    <3>1. x \in Nat /\ y \in Nat /\ 2 * s \in Nat \ {0} /\ 2 * r \in Nat \ {0}
      BY <2>2
    <3>2. x * r <= y * s
      <4>1. x = 100 * d - 99 * s /\ y = 100 * e - 99 * r
        BY <2>2
      <4>2. d * r <= e * s
        <5>1. d * r <= e * r /\ e * r <= e * s
          OBVIOUS
        <5> QED BY <5>1
      <4>3. x * r = 100 * (d * r) - 99 * (s * r) /\ y * s = 100 * (e * s) - 99 * (s * r)
        BY <4>1
      <4> QED BY <4>2, <4>3
    <3> HIDE DEF x, y
    <3>3. p \in Nat /\ q \in Nat /\ p * (2 * s) <= x /\ y < (q + 1) * (2 * r)
      BY <3>1
    <3> HIDE DEF p, q
    <3>4. (p * (2 * s)) * r <= x * r /\ y * s < ((q + 1) * (2 * r)) * s
      BY <2>2, <3>1, <3>3
    <3>5. p * (2 * s * r) < (q + 1) * (2 * s * r)
      BY <3>1, <3>2, <3>3, <3>4
    <3>6. p < q + 1
      <4>1. 2 * s * r \in Nat
        OBVIOUS
      <4>2. SUFFICES ASSUME p >= q + 1 PROVE FALSE
        BY <3>3
      <4>3. p * (2 * s * r) >= (q + 1) * (2 * s * r)
        BY <3>3, <4>1, <4>2
      <4> QED BY <3>3, <3>5, <4>1, <4>3
    <3> QED BY <3>3, <3>6 DEF Round, p, q, x, y
  <2>5. Round(50 * (d - s), s) \in Nat /\ Round(50 * (e - r), r) \in Nat
    BY <2>2, RoundNat
  <2>6. \A m, n \in Nat : m <= n => Least(300, 100 + m) <= Least(300, 100 + n)
    BY DEF Least
  <2>7. SurgeFromRatio(d, s) <= SurgeFromRatio(e, r)
    BY <2>3, <2>4, <2>5, <2>6
  <2> QED BY <1>1, <2>7 DEF DefaultRates
<1>5. CASE SurgeFromRatio(d, s) # 100 /\ e = 0
  BY <1>5 DEF SurgeFromRatio
<1> QED BY <1>1, <1>2, <1>3, <1>4, <1>5 DEF DefaultRates

\* A rider whose ride was neither longer nor slower than estimated pays no
\* more than he was told, and no less if it was neither shorter nor faster;
\* the surge that came meanwhile does not count, and the minimum does.
BillFollowsRide ==
  \A t \in Calls : At(t, "completed") =>
    /\ trip[t].fare >= DefaultRates.minFarePaise
    /\ DistanceM(trip[t].points) <= EstDistanceM /\ DurationS <= EstDurationS =>
         trip[t].fare <= trip[t].estimate
    /\ DistanceM(trip[t].points) >= EstDistanceM /\ DurationS >= EstDurationS =>
         trip[t].fare >= trip[t].estimate

\* Estimate and bill of every completed trip are in that relation.
THEOREM NoSurpriseBill == Spec => []BillFollowsRide
<1>1. IInv /\ BilledAsAgreed => BillFollowsRide
  <2> SUFFICES ASSUME IInv, BilledAsAgreed, NEW t \in Calls, At(t, "completed")
               PROVE  /\ trip[t].fare >= DefaultRates.minFarePaise
                      /\ DistanceM(trip[t].points) <= EstDistanceM /\ DurationS <= EstDurationS =>
                           trip[t].fare <= trip[t].estimate
                      /\ DistanceM(trip[t].points) >= EstDistanceM /\ DurationS >= EstDurationS =>
                           trip[t].fare >= trip[t].estimate
    BY DEF BillFollowsRide
  <2> DEFINE m == DistanceM(trip[t].points)
             s == trip[t].surge
  <2>1. /\ trip[t].estimate = ComputeFare(EstDistanceM, EstDurationS, s)
        /\ trip[t].fare = ComputeFare(m, DurationS, s)
    BY DEF BilledAsAgreed, At
  <2>2. s \in Nat /\ trip[t].points \in 0 .. MaxPoints
    <3>1. trip[t] \in TripRows
      BY DEF IInv, Shape
    <3>2. trip[t].surge \in 100 .. 300 /\ trip[t].points \in 0 .. MaxPoints
      BY <3>1 DEF TripRows
    <3>3. \A x \in 100 .. 300 : x \in Nat
      OBVIOUS
    <3> QED BY <3>2, <3>3
  <2>3. m \in Nat /\ EstDistanceM \in Nat /\ DurationS \in Nat /\ EstDurationS \in Nat
    <3>1. EstDistanceM \in Nat /\ DurationS \in Nat
      BY RideAssumption DEF RideAssumption
    <3>2. EstDurationS \in Nat
      BY <3>1, RoundNat DEF EstDurationS
    <3>3. m \in Nat
      BY <2>2, DistanceNat
    <3> QED BY <3>1, <3>2, <3>3
  <2> HIDE DEF m, s
  <2>4. ComputeFare(m, DurationS, s) >= DefaultRates.minFarePaise
    <3>1. m <= m /\ DurationS <= DurationS /\ s <= s
      BY <2>2, <2>3
    <3> QED BY <2>2, <2>3, <3>1, FareGrows
  <2>5. s <= s
    BY <2>2
  <2>6. m <= EstDistanceM /\ DurationS <= EstDurationS =>
          ComputeFare(m, DurationS, s) <= ComputeFare(EstDistanceM, EstDurationS, s)
    BY <2>2, <2>3, <2>5, FareGrows
  <2>7. m >= EstDistanceM /\ DurationS >= EstDurationS =>
          ComputeFare(m, DurationS, s) >= ComputeFare(EstDistanceM, EstDurationS, s)
    <3>1. m >= EstDistanceM /\ DurationS >= EstDurationS =>
            EstDistanceM <= m /\ EstDurationS <= DurationS
      BY <2>3
    <3>2. EstDistanceM <= m /\ EstDurationS <= DurationS =>
            ComputeFare(EstDistanceM, EstDurationS, s) <= ComputeFare(m, DurationS, s)
      BY <2>2, <2>3, <2>5, FareGrows
    <3>3. /\ ComputeFare(m, DurationS, s) \in Nat
          /\ ComputeFare(EstDistanceM, EstDurationS, s) \in Nat
      <4>1. s \in 100 .. 300
        BY DEF IInv, Shape, TripRows, s
      <4> QED BY <2>3, <4>1, FareNat
    <3> QED BY <3>1, <3>2, <3>3
  <2> QED BY <2>1, <2>4, <2>6, <2>7 DEF m
<1> QED BY <1>1, Inductive, BillIsAsAgreed, PTL

=============================================================================
