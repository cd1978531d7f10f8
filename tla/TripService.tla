---------------------------- MODULE TripService ----------------------------
(***************************************************************************)
(* The trip aggregate (trip-service): HTTP requests of riders and drivers, *)
(* each a transaction that locks the trip's row, decides from the row it   *)
(* read and, for a completion, keeps the lock while it asks for the fare;  *)
(* and the consumers of what matching and payment publish, which update    *)
(* the same rows.                                                          *)
(*                                                                         *)
(* The consumers take a message effect at most once (OutboxDelivery), in   *)
(* any order: a queue's deliveries are handled concurrently.  Matching and *)
(* payment are here as the messages they can send.                         *)
(***************************************************************************)
EXTENDS Naturals, Sequences

CONSTANTS
  Trips, Drivers,
  NoDriver,          \* the NULL of trips.driver_id
  Requests,          \* HTTP requests in progress at the same time
  Fares,             \* fares pricing or the fallback can come to
  CancellationFee,   \* CANCELLATION_FEE_PAISE
  MaxFaults          \* bound: transactions, calls and deliveries that fail

ASSUME DriverAssumption == NoDriver \notin Drivers
ASSUME MoneyAssumption == Fares \subseteq Nat \ {0} /\ CancellationFee \in Nat
ASSUME FaultsAssumption == MaxFaults \in Nat

VARIABLES
  trip,     \* trips table: status, driver, fare, fee and payment of each trip
  outbox,   \* the events recorded of each trip, oldest first
  pc,       \* each request: idle, locked or committed
  ask,      \* what it asks for: a trip and the status it shall get
  read,     \* the row it read under the lock
  freed,    \* trips whose driver was told to go back online
  sent,     \* messages of matching and payment
  handled,  \* those of them that took effect
  parked,   \* those of them in the dead-letter queue
  faults

request == <<pc, ask, read>>
messages == <<sent, handled, parked>>
vars == <<trip, outbox, request, freed, messages, faults>>

Statuses == {"none", "requested", "matched", "driver_arriving", "in_progress",
             "completed", "cancelled", "no_drivers"}

NoRow == [status |-> "none", driver |-> NoDriver, fare |-> 0, fee |-> 0,
          payment |-> "pending"]

NoAsk == <<>>

Event(key, d, amount) == [key |-> key, driver |-> d, amount |-> amount]
Message(key, t, d) == [key |-> key, trip |-> t, driver |-> d]

Init ==
  /\ trip = [t \in Trips |-> NoRow]
  /\ outbox = [t \in Trips |-> <<>>]
  /\ pc = [r \in Requests |-> "idle"]
  /\ ask = [r \in Requests |-> NoAsk]
  /\ read = [r \in Requests |-> NoRow]
  /\ freed = {}
  /\ sent = {} /\ handled = {} /\ parked = {}
  /\ faults = 0

Fault == faults < MaxFaults /\ faults' = faults + 1

-----------------------------------------------------------------------------
(* The state machine (state.js).                                           *)

\* Mutant: TRANSITIONS lets a rider leave a ride that is under way.
CanTransitionMidRide(from, to) ==
  \/ from = "requested" /\ to = "cancelled"
  \/ from = "matched" /\ to \in {"driver_arriving", "cancelled"}
  \/ from = "driver_arriving" /\ to \in {"in_progress", "cancelled"}
  \/ from = "in_progress" /\ to \in {"completed", "cancelled"}

\* What a request may ask of a trip; the consumer of matching's events has
\* the two other transitions in its WHERE clause.
CanTransition(from, to) ==
  \/ from = "requested" /\ to = "cancelled"
  \/ from = "matched" /\ to \in {"driver_arriving", "cancelled"}
  \/ from = "driver_arriving" /\ to \in {"in_progress", "cancelled"}
  \/ from = "in_progress" /\ to = "completed"

\* Mutant: FEE_ON_CANCEL forgets a driver who has not set out yet.
CancelFeeOnArrival(status) ==
  IF status = "driver_arriving" THEN CancellationFee ELSE 0

CancelFee(status) ==
  IF status \in {"matched", "driver_arriving"} THEN CancellationFee ELSE 0

-----------------------------------------------------------------------------
(* Requests.                                                               *)

\* Mutant: the SELECT without FOR UPDATE.
RowFreeAlways(t) == TRUE

\* SELECT ... FOR UPDATE waits for the transaction that has the row.
RowFree(t) == \A r \in Requests : ~(pc[r] = "locked" /\ ask[r].trip = t)

\* POST /api/trips: the row and its event in one transaction.
Create(t) ==
  /\ trip[t].status = "none"
  /\ trip' = [trip EXCEPT ![t].status = "requested"]
  /\ outbox' = [outbox EXCEPT ![t] = Append(@, Event("ride.requested", NoDriver, 0))]
  /\ UNCHANGED <<request, freed, messages, faults>>

\* A rider cancels, or the trip's driver moves it on: the row is locked, read
\* and the request accepted.  A refused one changes nothing: neither that of
\* a driver who does not have the trip.
Begin(r, t, next) ==
  /\ pc[r] = "idle" /\ RowFree(t)
  /\ CanTransition(trip[t].status, next)
  /\ pc' = [pc EXCEPT ![r] = "locked"]
  /\ ask' = [ask EXCEPT ![r] = [trip |-> t, next |-> next]]
  /\ read' = [read EXCEPT ![r] = trip[t]]
  /\ UNCHANGED <<trip, outbox, freed, messages, faults>>

Finish(r) ==
  /\ pc' = [pc EXCEPT ![r] = "idle"]
  /\ ask' = [ask EXCEPT ![r] = NoAsk]
  /\ read' = [read EXCEPT ![r] = NoRow]

\* The UPDATE of a cancellation, the fee taken from the row that was read.
CancelledRow(row, fee) ==
  [row EXCEPT !.status = "cancelled", !.fee = fee,
              !.payment = IF fee = 0 THEN "waived" ELSE @]

\* The UPDATE and the event of an accepted request, committed together; the
\* fare is the quote, or the fallback when pricing does not answer.
Write(r) ==
  LET t == ask[r].trip
      next == ask[r].next
      fee == CancelFee(read[r].status)
  IN \/ /\ next = "cancelled"
        /\ trip' = [trip EXCEPT ![t] = CancelledRow(@, fee)]
        /\ outbox' = [outbox EXCEPT ![t] =
                        Append(@, Event("trip.cancelled", read[r].driver, fee))]
     \/ /\ next = "completed"
        /\ \E fare \in Fares :
             /\ trip' = [trip EXCEPT ![t].status = next, ![t].fare = fare]
             /\ outbox' = [outbox EXCEPT ![t] =
                             Append(@, Event("trip.completed", read[r].driver, fare))]
     \/ /\ next \in {"driver_arriving", "in_progress"}
        /\ trip' = [trip EXCEPT ![t].status = next]
        /\ UNCHANGED outbox

Ends(r) == ask[r].next \in {"cancelled", "completed"} /\ read[r].driver # NoDriver

\* COMMIT.  If it fails after all, or the process dies with it, nobody is
\* left to send the driver back online.
Commit(r) ==
  /\ pc[r] = "locked"
  /\ Write(r)
  /\ \/ Ends(r) /\ pc' = [pc EXCEPT ![r] = "committed"] /\ UNCHANGED <<ask, read, faults>>
     \/ ~Ends(r) /\ Finish(r) /\ UNCHANGED faults
     \/ Ends(r) /\ Finish(r) /\ Fault
  /\ UNCHANGED <<freed, messages>>

\* A statement fails or the process dies: ROLLBACK.
Abort(r) ==
  /\ pc[r] = "locked" /\ Fault
  /\ Finish(r)
  /\ UNCHANGED <<trip, outbox, freed, messages>>

\* Mutant: the driver is sent back online before the commit.
FreeDriverEarly(r) ==
  /\ pc[r] \in {"locked", "committed"} /\ Ends(r)
  /\ freed' = freed \cup {ask[r].trip}
  /\ IF pc[r] = "committed" THEN Finish(r) ELSE UNCHANGED request
  /\ UNCHANGED <<trip, outbox, messages, faults>>

\* The call to location-service, whose errors are ignored.
FreeDriver(r) ==
  /\ pc[r] = "committed"
  /\ \/ freed' = freed \cup {ask[r].trip} /\ UNCHANGED faults
     \/ UNCHANGED freed /\ Fault
  /\ Finish(r)
  /\ UNCHANGED <<trip, outbox, messages>>

-----------------------------------------------------------------------------
(* What the other services publish.                                        *)

Assigned(t, d) == Message("ride.driver_assigned", t, d)
Unmatched(t) == Message("ride.unmatched", t, NoDriver)
Payment(key, t) == Message(key, t, NoDriver)

Decided(t) == Unmatched(t) \in sent \/ \E d \in Drivers : Assigned(t, d) \in sent

Send(m) == sent' = sent \cup {m}
           /\ UNCHANGED <<trip, outbox, request, freed, handled, parked, faults>>

\* A driver accepts.  The rider may have cancelled in the meantime: the
\* dispatcher looks for that between its offers only.
Assign(t, d) == outbox[t] # <<>> /\ ~Decided(t) /\ Send(Assigned(t, d))

\* Every candidate declined.
GiveUp(t) == outbox[t] # <<>> /\ ~Decided(t) /\ Send(Unmatched(t))

\* Mutant: the payment service charges a cancellation without a fee.
OwedWithoutFee(t) ==
  \E i \in DOMAIN outbox[t] : outbox[t][i].key \in {"trip.completed", "trip.cancelled"}

Owed(t) == \E i \in DOMAIN outbox[t] : outbox[t][i].amount > 0
Settled(t) == {Payment("payment.captured", t), Payment("payment.failed", t)} \cap sent # {}

\* The fare or the fee is captured or given up, once.
Settle(t) ==
  /\ Owed(t) /\ ~Settled(t)
  /\ \E key \in {"payment.captured", "payment.failed"} : Send(Payment(key, t))

\* The rider has the captured fare of a ride refunded.
Refund(t) ==
  /\ trip[t].status = "completed"
  /\ Payment("payment.captured", t) \in sent
  /\ Payment("payment.refunded", t) \notin sent
  /\ Send(Payment("payment.refunded", t))

-----------------------------------------------------------------------------
(* The consumers.                                                          *)

Pending(m) == m \in sent \ (handled \cup parked)

\* Mutant: the UPDATE without AND status='requested'.
OpenAlways(row) == TRUE

\* WHERE ... AND status='requested'
Open(row) == row.status = "requested"

\* Mutant: the consumer's queue is bound to assignments only.
MatchingKeysAssigned == {"ride.driver_assigned"}

MatchingKeys == {"ride.driver_assigned", "ride.unmatched"}

MatchingRow(row, m) ==
  IF m.key = "ride.driver_assigned"
  THEN [row EXCEPT !.driver = m.driver, !.status = "matched"]
  ELSE [row EXCEPT !.status = "no_drivers", !.payment = "waived"]

\* The UPDATE of an open trip waits for a transaction that has the row, and
\* looks again at the row that transaction leaves.
HandleMatching(m) ==
  /\ Pending(m) /\ m.key \in MatchingKeys
  /\ \/ Open(trip[m.trip]) /\ RowFree(m.trip)
        /\ trip' = [trip EXCEPT ![m.trip] = MatchingRow(@, m)]
     \/ ~Open(trip[m.trip]) /\ UNCHANGED trip
  /\ handled' = handled \cup {m}
  /\ UNCHANGED <<outbox, request, freed, sent, parked, faults>>

PaymentKeys == {"payment.captured", "payment.failed", "payment.refunded"}


PaymentStatus(key) ==
  CASE key = "payment.captured" -> "captured"
    [] key = "payment.failed" -> "failed"
    [] key = "payment.refunded" -> "refunded"

HandlePayment(m) ==
  /\ Pending(m) /\ m.key \in PaymentKeys /\ RowFree(m.trip)
  /\ trip' = [trip EXCEPT ![m.trip].payment = PaymentStatus(m.key)]
  /\ handled' = handled \cup {m}
  /\ UNCHANGED <<outbox, request, freed, sent, parked, faults>>

\* The handler throws: its claim rolls back, the message is dead-lettered.
Park(m) ==
  /\ Pending(m) /\ Fault
  /\ parked' = parked \cup {m}
  /\ UNCHANGED <<trip, outbox, request, freed, sent, handled>>

-----------------------------------------------------------------------------
NextStatuses == {"driver_arriving", "in_progress", "completed", "cancelled"}

Next ==
  \/ \E t \in Trips : Create(t) \/ GiveUp(t) \/ Settle(t) \/ Refund(t)
  \/ \E t \in Trips, d \in Drivers : Assign(t, d)
  \/ \E r \in Requests :
       \/ \E t \in Trips, next \in NextStatuses : Begin(r, t, next)
       \/ Commit(r) \/ Abort(r) \/ FreeDriver(r)
  \/ \E m \in sent : HandleMatching(m) \/ HandlePayment(m) \/ Park(m)

Spec == Init /\ [][Next]_vars

\* A transaction that holds a row ends, a call is made, and the messages that
\* have been sent are consumed.  Nothing is assumed of riders, drivers and
\* faults, nor that matching decides a request or payment settles a charge.
Fairness ==
  /\ \A r \in Requests : WF_vars(Commit(r) \/ Abort(r)) /\ WF_vars(FreeDriver(r))
  /\ \A t \in Trips :
       /\ WF_vars(\E m \in sent : m.trip = t /\ HandleMatching(m))
       /\ WF_vars(\E m \in sent : m.trip = t /\ HandlePayment(m))

FairSpec == Spec /\ Fairness

-----------------------------------------------------------------------------
(* Properties.                                                             *)

Rows == [status : Statuses, driver : Drivers \cup {NoDriver}, fare : {0} \cup Fares,
         fee : {0, CancellationFee},
         payment : {"pending", "waived", "captured", "failed", "refunded"}]
Events == [key : {"ride.requested", "trip.completed", "trip.cancelled"},
           driver : Drivers \cup {NoDriver}, amount : Nat]
Messages == [key : MatchingKeys \cup PaymentKeys, trip : Trips,
             driver : Drivers \cup {NoDriver}]

\* Every variable keeps its shape; a request that was answered has left
\* nothing that a later one could mistake for its own.
TypeOK ==
  /\ trip \in [Trips -> Rows]
  /\ outbox \in [Trips -> Seq(Events)]
  /\ pc \in [Requests -> {"idle", "locked", "committed"}]
  /\ ask \in [Requests -> {NoAsk} \cup [trip : Trips, next : NextStatuses]]
  /\ read \in [Requests -> Rows]
  /\ \A r \in Requests : IF pc[r] = "idle" THEN ask[r] = NoAsk /\ read[r] = NoRow
                                           ELSE ask[r] # NoAsk
  /\ freed \subseteq Trips
  /\ sent \subseteq Messages /\ handled \subseteq sent /\ parked \subseteq sent
  /\ faults \in Nat

\* Whoever holds a row's lock decides from the row as it is, and alone: no
\* rider, driver or message of the broker changes it before the commit, for
\* however long the fare takes.
LockedRowIsCurrent ==
  \A r \in Requests : pc[r] = "locked" =>
    /\ trip[ask[r].trip] = read[r]
    /\ CanTransition(read[r].status, ask[r].next)
    /\ \A s \in Requests \ {r} : pc[s] = "locked" => ask[s].trip # ask[r].trip

\* The events of a trip whose row is such.
Story(row) ==
  LET start == Event("ride.requested", NoDriver, 0) IN
  CASE row.status = "none" -> <<>>
    [] row.status = "completed" -> <<start, Event("trip.completed", row.driver, row.fare)>>
    [] row.status = "cancelled" -> <<start, Event("trip.cancelled", row.driver, row.fee)>>
    [] OTHER -> <<start>>

\* The outbox tells exactly what happened to the row: one ending at most, with
\* the driver and the amount the row has, and none before the trip has ended.
OutboxTellsTheRow == \A t \in Trips : outbox[t] = Story(trip[t])

HasDriver(row) == row.driver # NoDriver

\* Money follows the driver: only a trip that a driver accepted can cost its
\* rider anything, a cancelled one exactly the fee, and only what costs
\* nothing is waived.
FeeForTheDriver ==
  \A t \in Trips :
    LET row == trip[t] IN
    /\ row.status \in {"matched", "driver_arriving", "in_progress", "completed"}
         => HasDriver(row)
    /\ row.status \in {"none", "requested", "no_drivers"} => ~HasDriver(row)
    /\ row.fee = IF row.status = "cancelled" /\ HasDriver(row) THEN CancellationFee ELSE 0
    /\ row.fare > 0 <=> row.status = "completed"
    /\ row.payment = "waived" =>
         row.status = "no_drivers" \/ (row.status = "cancelled" /\ row.fee = 0)

\* A payment status other than pending or waived is one that the payment
\* service reported, of a trip that had ended and cost something.
PaymentWasReported ==
  \A t \in Trips :
    trip[t].payment \in {"captured", "failed", "refunded"} =>
      /\ \E m \in handled : m.trip = t /\ m.key \in PaymentKeys
                            /\ PaymentStatus(m.key) = trip[t].payment
      /\ trip[t].fare + trip[t].fee > 0

\* A driver is sent back online only once the trip is over for good.
OnlyEndedTripsFree ==
  \A t \in freed : trip[t].status \in {"completed", "cancelled"} /\ HasDriver(trip[t])

\* The trips table and its outbox implement the life of a trip.
Lifecycle == INSTANCE TripLifecycle WITH
  status <- [t \in Trips |-> trip[t].status],
  driver <- [t \in Trips |-> trip[t].driver],
  due <- [t \in Trips |-> trip[t].fare + trip[t].fee],
  facts <- outbox
ImplementsLifecycle == Lifecycle!Spec

ParkedOf(t, keys) == \E m \in parked : m.trip = t /\ m.key \in keys

\* Once matching has sent what became of a trip, as matched or as unmatched,
\* the trip does not stay requested: that takes effect, or the rider's
\* cancellation did before, or the message ended in the dead-letter queue.
RequestsAreDecided ==
  \A t \in Trips :
    Decided(t) ~> (trip[t].status # "requested" \/ ParkedOf(t, MatchingKeys))


\* A driver who is assigned to a trip still requested gets the trip, or is sent
\* back online when the rider cancels instead.
AssignedDriverFreed ==
  \A t \in Trips, d \in Drivers :
    (Assigned(t, d) \in sent /\ trip[t].status = "requested")
      ~> (trip[t].driver = d \/ t \in freed \/ Assigned(t, d) \in parked)

=============================================================================
