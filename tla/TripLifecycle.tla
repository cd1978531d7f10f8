--------------------------- MODULE TripLifecycle ---------------------------
(***************************************************************************)
(* What the trip aggregate promises its readers: the life of each trip     *)
(* (the comment on top of trip-service/state.js), the driver it keeps from *)
(* the match on, the amount it ends with, and that the facts the saga      *)
(* lives on are announced with the change they report, once.               *)
(***************************************************************************)
EXTENDS Naturals, Sequences

CONSTANTS
  Trips, Drivers,
  NoDriver,          \* a trip without a driver
  Fares,             \* the fares a ride can come to
  CancellationFee    \* the fee for cancelling on a driver

VARIABLES
  status,  \* each trip's status
  driver,  \* its driver
  due,     \* what it ended up costing the rider
  facts    \* the events announced of it, oldest first

lifeVars == <<status, driver, due, facts>>

Fact(key, d, amount) == [key |-> key, driver |-> d, amount |-> amount]

Init ==
  /\ status = [t \in Trips |-> "none"]
  /\ driver = [t \in Trips |-> NoDriver]
  /\ due = [t \in Trips |-> 0]
  /\ facts = [t \in Trips |-> <<>>]

Move(t, from, to) == status[t] \in from /\ status' = [status EXCEPT ![t] = to]
Announce(t, fact) == facts' = [facts EXCEPT ![t] = Append(@, fact)]
Charge(t, amount) == due' = [due EXCEPT ![t] = amount]

Request(t) ==
  /\ Move(t, {"none"}, "requested")
  /\ Announce(t, Fact("ride.requested", NoDriver, 0))
  /\ UNCHANGED <<driver, due>>

Match(t, d) ==
  /\ Move(t, {"requested"}, "matched")
  /\ driver' = [driver EXCEPT ![t] = d]
  /\ UNCHANGED <<due, facts>>

Unmatch(t) == Move(t, {"requested"}, "no_drivers") /\ UNCHANGED <<driver, due, facts>>
Arrive(t) == Move(t, {"matched"}, "driver_arriving") /\ UNCHANGED <<driver, due, facts>>
Start(t) == Move(t, {"driver_arriving"}, "in_progress") /\ UNCHANGED <<driver, due, facts>>

Complete(t, fare) ==
  /\ Move(t, {"in_progress"}, "completed")
  /\ Charge(t, fare)
  /\ Announce(t, Fact("trip.completed", driver[t], fare))
  /\ UNCHANGED driver

\* Nobody is let down yet: no fee.
Withdraw(t) ==
  /\ Move(t, {"requested"}, "cancelled")
  /\ Announce(t, Fact("trip.cancelled", NoDriver, 0))
  /\ UNCHANGED <<driver, due>>

CancelOnDriver(t) ==
  /\ Move(t, {"matched", "driver_arriving"}, "cancelled")
  /\ Charge(t, CancellationFee)
  /\ Announce(t, Fact("trip.cancelled", driver[t], CancellationFee))
  /\ UNCHANGED driver

Next ==
  \E t \in Trips :
    \/ Request(t) \/ Unmatch(t) \/ Arrive(t) \/ Start(t)
    \/ Withdraw(t) \/ CancelOnDriver(t)
    \/ \E d \in Drivers : Match(t, d)
    \/ \E fare \in Fares : Complete(t, fare)

Spec == Init /\ [][Next]_lifeVars

=============================================================================
