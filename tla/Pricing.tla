------------------------------ MODULE Pricing -------------------------------
(***************************************************************************)
(* The pricing service: the fare of a distance, a duration and a surge     *)
(* (fare.js), and the surge of one cell, worked out every minute from the  *)
(* demand and the supply counted in the minute before (server.js).         *)
(*                                                                         *)
(* Money is in paise, distances are the whole metres of haversineM, a      *)
(* surge is in hundredths.  Counters and surge are keys of Redis; what one *)
(* request does to them is one step.                                       *)
(***************************************************************************)
EXTENDS Integers

CONSTANTS
  SurgeTtl,   \* SURGE_TTL_S, in minutes
  MaxSupply   \* bound: drivers who ping in the cell in a minute

ASSUME SurgeAssumption == SurgeTtl \in Nat \ {0} /\ MaxSupply \in Nat

VARIABLES
  demand,          \* counted in the current minute
  closed,          \* counted in the minute before
  surge,           \* surge:{cell}, 0 when there is none
  ttl,             \* ends of a minute it has left
  sinceExcess      \* history: ends of a minute since one with more demand
                   \* than supply, SurgeTtl + 1 for more

pricingVars == <<demand, closed, surge, ttl, sinceExcess>>

-----------------------------------------------------------------------------
(* fare.js                                                                 *)

DefaultRates == [basePaise |-> 3000, perKmPaise |-> 1500, perMinPaise |-> 200,
                 minFarePaise |-> 5000, maxSurge |-> 300]

Least(m, n) == IF m < n THEN m ELSE n
Greatest(m, n) == IF m > n THEN m ELSE n
\* Math.round(n / d)
Round(n, d) == (2 * n + d) \div (2 * d)

ComputeFare(distanceM, durationS, s) ==
  LET subtotal == DefaultRates.basePaise
                  + Round(distanceM * DefaultRates.perKmPaise, 1000)
                  + Round(durationS * DefaultRates.perMinPaise, 60)
  IN Greatest(DefaultRates.minFarePaise,
              Round(subtotal * Least(Greatest(s, 100), DefaultRates.maxSurge), 100))

SurgeFromRatio(d, s) ==
  IF d = 0 \/ (s > 0 /\ d <= s) THEN 100
  ELSE IF s = 0 THEN DefaultRates.maxSurge
  ELSE Least(DefaultRates.maxSurge, 100 + Round(50 * (d - s), s))

-----------------------------------------------------------------------------
(* server.js                                                               *)

PricingInit ==
  /\ demand = 0 /\ closed = [demand |-> 0, supply |-> 0]
  /\ surge = 0 /\ ttl = 0 /\ sinceExcess = SurgeTtl + 1

CurrentSurge == IF surge = 0 THEN 100 ELSE surge

\* The ride request of an observe is counted; it answers with CurrentSurge.
Observe == demand' = demand + 1 /\ UNCHANGED <<closed, surge, ttl, sinceExcess>>

\* The worker runs about once a minute: a minute may see it never or twice.
RunSurgeTick ==
  /\ closed.demand + closed.supply > 0
  /\ surge' = SurgeFromRatio(closed.demand, closed.supply)
  /\ ttl' = SurgeTtl
  /\ UNCHANGED <<demand, closed, sinceExcess>>

\* Redis drops the key some time within the last minute of its life.
ExpireSurge ==
  /\ surge > 0 /\ ttl = 0
  /\ surge' = 0
  /\ UNCHANGED <<demand, closed, ttl, sinceExcess>>

\* The drivers who have pinged in a minute count from its end on.
CloseBucket ==
  /\ \E supply \in 0 .. MaxSupply :
       /\ closed' = [demand |-> demand, supply |-> supply]
       /\ sinceExcess' = IF demand > supply THEN 0 ELSE Least(sinceExcess + 1, SurgeTtl + 1)
  /\ demand' = 0

\* Mutant: the key is written without a life.
MinuteEndsKept == CloseBucket /\ UNCHANGED <<surge, ttl>>

MinuteEnds ==
  /\ surge > 0 => ttl > 0
  /\ CloseBucket
  /\ ttl' = IF surge > 0 THEN ttl - 1 ELSE 0
  /\ UNCHANGED surge

-----------------------------------------------------------------------------
PricingTypeOK ==
  /\ demand \in Nat
  /\ closed \in [demand : Nat, supply : Nat]
  /\ surge \in {0} \cup 100 .. DefaultRates.maxSurge
  /\ ttl \in 0 .. SurgeTtl
  /\ sinceExcess \in 0 .. SurgeTtl + 1

\* Whether the worker runs or not, a surge above 1 is gone SurgeTtl + 1 minutes
\* after the last minute in which there was more demand than supply.
SurgeDecays == CurrentSurge > 100 => sinceExcess <= SurgeTtl

=============================================================================
