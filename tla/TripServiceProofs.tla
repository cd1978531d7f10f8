------------------------- MODULE TripServiceProofs -------------------------
(***************************************************************************)
(* Proofs about the trip aggregate, for every set of trips, drivers,       *)
(* requests and fares and any number of faults: the row lock makes each    *)
(* request decide from the current row, hence the table and its outbox     *)
(* implement TripLifecycle and the money follows the driver.               *)
(***************************************************************************)
EXTENDS TripService, SequenceTheorems, TLAPS

Ended(row) == row.status \in {"completed", "cancelled"}
Reported == {"captured", "failed", "refunded"}

\* FeeForTheDriver, of one row.
Sound(row) ==
  /\ row.status \in {"matched", "driver_arriving", "in_progress", "completed"}
       => HasDriver(row)
  /\ row.status \in {"none", "requested", "no_drivers"} => ~HasDriver(row)
  /\ row.fee = IF row.status = "cancelled" /\ HasDriver(row) THEN CancellationFee ELSE 0
  /\ row.fare > 0 <=> row.status = "completed"
  /\ row.payment = "waived" =>
       row.status = "no_drivers" \/ (row.status = "cancelled" /\ row.fee = 0)

\* Assignments name a driver; payments are of trips that cost something.
MessagesSound ==
  \A m \in sent :
    /\ m.key = "ride.driver_assigned" => m.driver \in Drivers
    /\ m.key \in PaymentKeys => trip[m.trip].fare + trip[m.trip].fee > 0

\* A request that has committed, but not yet called, has ended its trip.
CommittedEnded ==
  \A r \in Requests : pc[r] = "committed" =>
    Ended(trip[ask[r].trip]) /\ HasDriver(trip[ask[r].trip])

Inv ==
  /\ TypeOK /\ LockedRowIsCurrent /\ OutboxTellsTheRow /\ FeeForTheDriver
  /\ MessagesSound /\ CommittedEnded /\ PaymentWasReported /\ OnlyEndedTripsFree

-----------------------------------------------------------------------------
LEMMA SoundRows == FeeForTheDriver <=> \A t \in Trips : Sound(trip[t])
  BY DEF FeeForTheDriver, Sound

LEMMA NoRowTyped == NoRow \in Rows
  BY DEF NoRow, Rows, Statuses

LEMMA InitInv == Init => Inv
<1> SUFFICES ASSUME Init PROVE Inv
  OBVIOUS
<1> USE DEF Init
<1>1. TypeOK
  BY NoRowTyped, FaultsAssumption DEF TypeOK
<1>2. \A t \in Trips : Sound(trip[t])
  <2>1. Sound(NoRow) BY DEF Sound, NoRow, HasDriver
  <2> QED BY <2>1
<1>3. OutboxTellsTheRow
  BY DEF OutboxTellsTheRow, Story, NoRow
<1>4. PaymentWasReported
  BY DEF PaymentWasReported, NoRow
<1> QED
  BY <1>1, <1>2, <1>3, <1>4, SoundRows
  DEF Inv, LockedRowIsCurrent, MessagesSound, CommittedEnded, OnlyEndedTripsFree

-----------------------------------------------------------------------------
(* One row changes.                                                        *)

\* A row that has ended keeps what it cost and who drove.
Keeps(old, new) ==
  Ended(old) =>
    new.status = old.status /\ new.driver = old.driver
      /\ new.fare = old.fare /\ new.fee = old.fee

\* What every transaction does: one row and its events move on together.
Change(t, new) ==
  /\ new \in Rows /\ Sound(new) /\ Keeps(trip[t], new)
  /\ trip' = [trip EXCEPT ![t] = new]
  /\ outbox' = [outbox EXCEPT ![t] = Story(new)]
  /\ new.payment \in Reported =>
       /\ \E m \in handled' : m.trip = t /\ m.key \in PaymentKeys
                              /\ PaymentStatus(m.key) = new.payment
       /\ new.fare + new.fee > 0

LEMMA RowAmounts ==
  ASSUME NEW row \in Rows
  PROVE  /\ row.fare \in Nat /\ row.fee \in Nat
         /\ row.driver \in Drivers \cup {NoDriver} /\ row.status \in Statuses
<1>1. /\ row.fare \in {0} \cup Fares /\ row.fee \in {0, CancellationFee}
      /\ row.driver \in Drivers \cup {NoDriver} /\ row.status \in Statuses
  BY DEF Rows
<1>2. (\A f \in Fares : f \in Nat) /\ CancellationFee \in Nat BY MoneyAssumption
<1>3. row.fare \in Nat
  <2>1. row.fare = 0 \/ row.fare \in Fares BY <1>1
  <2> QED BY <2>1, <1>2
<1>4. row.fee \in Nat
  <2>1. row.fee = 0 \/ row.fee = CancellationFee BY <1>1
  <2> QED BY <2>1, <1>2
<1> QED BY <1>1, <1>3, <1>4

LEMMA EventTyped ==
  ASSUME NEW key \in {"ride.requested", "trip.completed", "trip.cancelled"},
         NEW d \in Drivers \cup {NoDriver}, NEW amount \in Nat
  PROVE  Event(key, d, amount) \in Events
  BY DEF Event, Events

LEMMA StoryTyped ==
  ASSUME NEW row \in Rows
  PROVE  Story(row) \in Seq(Events)
<1>1. /\ Event("ride.requested", NoDriver, 0) \in Events
      /\ Event("trip.completed", row.driver, row.fare) \in Events
      /\ Event("trip.cancelled", row.driver, row.fee) \in Events
  BY EventTyped, RowAmounts
<1> HIDE DEF Event
<1> QED BY <1>1 DEF Story

LEMMA CostsEnded ==
  ASSUME NEW row \in Rows, Sound(row), row.fare + row.fee > 0
  PROVE  Ended(row)
<1>1. row.fare > 0 \/ row.fee > 0 BY RowAmounts
<1>2. row.fee > 0 => row.status = "cancelled" BY DEF Sound
<1> QED BY <1>1, <1>2 DEF Sound, Ended

LEMMA RowsKept ==
  ASSUME Inv, NEW t \in Trips, NEW new, Change(t, new),
         handled \subseteq handled', sent' = sent, freed' = freed
  PROVE  /\ trip' \in [Trips -> Rows] /\ outbox' \in [Trips -> Seq(Events)]
         /\ OutboxTellsTheRow' /\ FeeForTheDriver' /\ MessagesSound'
         /\ PaymentWasReported' /\ OnlyEndedTripsFree'
<1> USE DEF Inv, Change
<1>1. trip' \in [Trips -> Rows] /\ outbox' \in [Trips -> Seq(Events)]
  BY StoryTyped DEF TypeOK
<1>2. \A u \in Trips : /\ trip'[u] = IF u = t THEN new ELSE trip[u]
                       /\ outbox'[u] = IF u = t THEN Story(new) ELSE outbox[u]
  BY DEF TypeOK
<1>3. OutboxTellsTheRow'
  BY <1>2 DEF OutboxTellsTheRow, Story, Event
<1>4. FeeForTheDriver'
  <2>1. \A u \in Trips : Sound(trip[u]) BY SoundRows
  <2>2. \A u \in Trips : Sound(trip'[u]) BY <1>2, <2>1
  <2> QED BY <2>2 DEF FeeForTheDriver, Sound, HasDriver
<1>5. MessagesSound'
  <2> SUFFICES ASSUME NEW m \in sent, m.key \in PaymentKeys
               PROVE  trip'[m.trip].fare + trip'[m.trip].fee > 0
    BY DEF MessagesSound
  <2>1. m.trip \in Trips /\ trip[m.trip].fare + trip[m.trip].fee > 0
    BY DEF MessagesSound, TypeOK, Messages
  <2>2. Ended(trip[m.trip])
    BY <2>1, CostsEnded, SoundRows DEF TypeOK
  <2> QED BY <1>2, <2>1, <2>2 DEF Keeps
<1>6. PaymentWasReported'
  BY <1>2 DEF PaymentWasReported, Reported
<1>7. OnlyEndedTripsFree'
  BY <1>2 DEF OnlyEndedTripsFree, Keeps, Ended, HasDriver, TypeOK
<1> QED BY <1>1, <1>3, <1>4, <1>5, <1>6, <1>7

\* A change that no request's transaction makes leaves the requests alone,
\* for it waits for the row.
LEMMA RequestsKept ==
  ASSUME Inv, NEW t \in Trips, NEW new, Change(t, new), RowFree(t), UNCHANGED request
  PROVE  LockedRowIsCurrent' /\ CommittedEnded'
<1> USE DEF Inv, Change, request
<1>1. \A u \in Trips : trip'[u] = IF u = t THEN new ELSE trip[u]
  BY DEF TypeOK
<1>2. \A r \in Requests : pc[r] # "idle" => ask[r].trip \in Trips
  BY DEF TypeOK, NoAsk
<1>3. LockedRowIsCurrent'
  BY <1>1, <1>2 DEF LockedRowIsCurrent, RowFree
<1>4. CommittedEnded'
  BY <1>1, <1>2 DEF CommittedEnded, Keeps, Ended, HasDriver
<1> QED BY <1>3, <1>4

-----------------------------------------------------------------------------
(* Requests.                                                               *)

LEMMA CreateInv ==
  ASSUME Inv, NEW t \in Trips, Create(t)
  PROVE  Inv'
<1> DEFINE new == [trip[t] EXCEPT !.status = "requested"]
<1> USE DEF Inv, Create, request, messages
<1>1. trip[t] \in Rows /\ Sound(trip[t]) /\ outbox[t] = <<>>
  BY SoundRows DEF TypeOK, OutboxTellsTheRow, Story
<1>2. new \in Rows /\ Sound(new) /\ new.status = "requested"
  BY <1>1 DEF Rows, Statuses, Sound, HasDriver
<1>3. Story(new) = Append(outbox[t], Event("ride.requested", NoDriver, 0))
  BY <1>1, <1>2 DEF Story
<1>4. new.payment \notin Reported
  BY <1>1, CostsEnded, RowAmounts DEF PaymentWasReported, Reported, Ended
<1>5. Change(t, new)
  BY <1>1, <1>2, <1>3, <1>4 DEF Change, Keeps, Ended, TypeOK
<1>6. RowFree(t)
  BY DEF RowFree, LockedRowIsCurrent, CanTransition
<1> HIDE DEF new
<1>7. /\ trip' \in [Trips -> Rows] /\ outbox' \in [Trips -> Seq(Events)]
      /\ OutboxTellsTheRow' /\ FeeForTheDriver' /\ MessagesSound'
      /\ PaymentWasReported' /\ OnlyEndedTripsFree'
  BY <1>5, RowsKept
<1>8. LockedRowIsCurrent' /\ CommittedEnded'
  BY <1>5, <1>6, RequestsKept
<1> QED BY <1>7, <1>8 DEF TypeOK

LEMMA BeginInv ==
  ASSUME Inv, NEW r \in Requests, NEW t \in Trips, NEW next \in NextStatuses,
         Begin(r, t, next)
  PROVE  Inv'
<1> USE DEF Inv, Begin, messages
<1>1. TypeOK'
  BY DEF TypeOK, NoAsk
<1>2. LockedRowIsCurrent'
  BY DEF LockedRowIsCurrent, RowFree, TypeOK
<1>3. CommittedEnded'
  BY DEF CommittedEnded, TypeOK, Ended, HasDriver
<1> QED
  BY <1>1, <1>2, <1>3
  DEF OutboxTellsTheRow, FeeForTheDriver, Story, HasDriver, MessagesSound,
      PaymentWasReported, OnlyEndedTripsFree

-----------------------------------------------------------------------------
(* Messages.                                                               *)

LEMMA SendInv ==
  ASSUME Inv, NEW m \in Messages, Send(m),
         m.key = "ride.driver_assigned" => m.driver \in Drivers,
         m.key \in PaymentKeys => trip[m.trip].fare + trip[m.trip].fee > 0
  PROVE  Inv'
<1> USE DEF Inv, Send, request
<1>1. TypeOK'
  BY DEF TypeOK
<1>2. MessagesSound'
  BY DEF MessagesSound
<1> QED
  BY <1>1, <1>2
  DEF LockedRowIsCurrent, OutboxTellsTheRow, FeeForTheDriver, Story, HasDriver,
      CommittedEnded, Ended, PaymentWasReported, OnlyEndedTripsFree

LEMMA MessageTyped ==
  ASSUME NEW key \in MatchingKeys \cup PaymentKeys, NEW t \in Trips,
         NEW d \in Drivers \cup {NoDriver}
  PROVE  Message(key, t, d) \in Messages
  BY DEF Message, Messages

LEMMA MatchingInv ==
  ASSUME Inv, NEW t \in Trips, GiveUp(t) \/ \E d \in Drivers : Assign(t, d)
  PROVE  Inv'
<1>1. CASE GiveUp(t)
  <2>1. Unmatched(t) \in Messages
    BY MessageTyped DEF Unmatched, MatchingKeys
  <2> QED BY <1>1, <2>1, SendInv DEF GiveUp, Unmatched, Message, PaymentKeys
<1>2. ASSUME NEW d \in Drivers, Assign(t, d) PROVE Inv'
  <2>1. Assigned(t, d) \in Messages
    BY MessageTyped DEF Assigned, MatchingKeys
  <2> QED BY <1>2, <2>1, SendInv DEF Assign, Assigned, Message, PaymentKeys
<1> QED BY <1>1, <1>2

\* Only a trip that costs something has an event with an amount.
LEMMA OwedCosts ==
  ASSUME Inv, NEW t \in Trips, Owed(t)
  PROVE  trip[t].fare + trip[t].fee > 0
<1>1. PICK i \in DOMAIN outbox[t] : outbox[t][i].amount > 0
  BY DEF Owed
<1>2. trip[t] \in Rows /\ Sound(trip[t]) /\ outbox[t] = Story(trip[t])
  BY SoundRows DEF Inv, TypeOK, OutboxTellsTheRow
<1>3. trip[t].status \in {"completed", "cancelled"}
        /\ outbox[t][i].amount \in {0, IF trip[t].status = "completed" THEN trip[t].fare
                                                                      ELSE trip[t].fee}
  BY <1>1, <1>2 DEF Story, Event
<1> QED BY <1>1, <1>2, <1>3, RowAmounts

LEMMA SettleInv ==
  ASSUME Inv, NEW t \in Trips, Settle(t) \/ Refund(t)
  PROVE  Inv'
<1>1. trip[t].fare + trip[t].fee > 0
  <2>1. CASE Settle(t) BY <2>1, OwedCosts DEF Settle
  <2>2. CASE Refund(t)
    BY <2>2 DEF Refund, Inv, MessagesSound, Payment, Message, PaymentKeys
  <2> QED BY <2>1, <2>2
<1>2. PICK key \in PaymentKeys : Send(Payment(key, t))
  BY DEF Settle, Refund, PaymentKeys
<1>3. Payment(key, t) \in Messages
  BY MessageTyped DEF Payment
<1> QED BY <1>1, <1>2, <1>3, SendInv DEF Payment, Message, PaymentKeys

LEMMA ParkInv ==
  ASSUME Inv, NEW m \in sent, Park(m)
  PROVE  Inv'
  BY FaultsAssumption
  DEF Inv, Park, Pending, Fault, request, TypeOK, LockedRowIsCurrent, OutboxTellsTheRow,
      FeeForTheDriver, Story, HasDriver, CommittedEnded, Ended, MessagesSound,
      PaymentWasReported, OnlyEndedTripsFree

LEMMA AppendTwo ==
  ASSUME NEW a \in Events, NEW b \in Events
  PROVE  Append(<<a>>, b) = <<a, b>>
<1> DEFINE s == Append(<<a>>, b)
           u == <<a, b>>
<1>1. <<a>> \in Seq(Events) /\ u \in Seq(Events) /\ Len(u) = 2 /\ u[1] = a /\ u[2] = b
  OBVIOUS
<1>2. s \in Seq(Events) /\ Len(s) = 2 /\ s[1] = a /\ s[2] = b
  BY <1>1, AppendProperties
<1> HIDE DEF s, u
<1>3. \A i \in 1 .. Len(s) : s[i] = u[i]
  BY <1>1, <1>2
<1>4. s = u
  BY <1>1, <1>2, <1>3, SeqEqual
<1> QED BY <1>4 DEF s, u

\* No payment is reported of a trip under way.
LEMMA UnderWayUnreported ==
  ASSUME Inv, NEW t \in Trips, ~Ended(trip[t])
  PROVE  trip[t].payment \notin Reported
<1>1. trip[t] \in Rows /\ Sound(trip[t])
  BY SoundRows DEF Inv, TypeOK
<1> QED BY <1>1, CostsEnded DEF Inv, PaymentWasReported, Reported

\* The request's lock and snapshot.
LEMMA Locked ==
  ASSUME Inv, NEW r \in Requests, pc[r] = "locked"
  PROVE  LET t == ask[r].trip IN
         /\ t \in Trips /\ ask[r].next \in NextStatuses
         /\ ask[r] # NoAsk
         /\ trip[t] = read[r] /\ trip[t] \in Rows /\ Sound(trip[t])
         /\ outbox[t] = <<Event("ride.requested", NoDriver, 0)>>
         /\ CanTransition(trip[t].status, ask[r].next) /\ ~Ended(trip[t])
         /\ trip[t].payment \notin Reported \cup {"waived"}
<1> DEFINE t == ask[r].trip
<1>1. t \in Trips /\ ask[r].next \in NextStatuses /\ ask[r] # NoAsk
  BY DEF Inv, TypeOK
<1>2. trip[t] = read[r] /\ CanTransition(trip[t].status, ask[r].next)
  BY DEF Inv, LockedRowIsCurrent
<1>3. trip[t] \in Rows /\ Sound(trip[t])
  BY <1>1, SoundRows DEF Inv, TypeOK
<1>4. ~Ended(trip[t]) /\ trip[t].status \notin {"none", "no_drivers"}
  BY <1>2 DEF CanTransition, Ended
<1>5. outbox[t] = <<Event("ride.requested", NoDriver, 0)>>
  BY <1>1, <1>4 DEF Inv, OutboxTellsTheRow, Story, Ended
<1>6. trip[t].payment \notin Reported \cup {"waived"}
  BY <1>1, <1>3, <1>4, UnderWayUnreported DEF Sound, Ended
<1> QED BY <1>1, <1>2, <1>3, <1>4, <1>5, <1>6

\* Whatever the request asks for, its transaction is a sound change of its row.
LEMMA WriteChanges ==
  ASSUME Inv, NEW r \in Requests, pc[r] = "locked", Write(r), UNCHANGED handled
  PROVE  \E new : /\ Change(ask[r].trip, new)
                  /\ Ends(r) => Ended(new) /\ HasDriver(new)
<1> DEFINE t == ask[r].trip
           next == ask[r].next
           fee == CancelFee(read[r].status)
<1>1. /\ t \in Trips /\ next \in NextStatuses
      /\ trip[t] = read[r] /\ trip[t] \in Rows /\ Sound(trip[t])
      /\ outbox[t] = <<Event("ride.requested", NoDriver, 0)>>
      /\ CanTransition(trip[t].status, next) /\ ~Ended(trip[t])
      /\ trip[t].payment \notin Reported \cup {"waived"}
  BY Locked
<1>2. outbox \in [Trips -> Seq(Events)] /\ trip \in [Trips -> Rows]
  BY DEF Inv, TypeOK
<1>3. CASE next = "cancelled"
  <2> DEFINE new == CancelledRow(trip[t], fee)
  <2>1. trip' = [trip EXCEPT ![t] = new]
          /\ outbox' = [outbox EXCEPT ![t] = Append(@, Event("trip.cancelled", trip[t].driver, fee))]
    BY <1>1, <1>2, <1>3 DEF Write
  <2>2. fee = IF HasDriver(trip[t]) THEN CancellationFee ELSE 0
    BY <1>1, <1>3 DEF CancelFee, CanTransition, Sound, HasDriver
  <2>3. new \in Rows /\ new.status = "cancelled" /\ new.driver = trip[t].driver /\ new.fee = fee
    BY <1>1, <2>2 DEF CancelledRow, Rows, Statuses
  <2>4. Sound(new) /\ new.payment \notin Reported
    BY <1>1, <1>3, <2>2 DEF CancelledRow, Sound, HasDriver, Rows, Reported, CanTransition
  <2>5. Append(outbox[t], Event("trip.cancelled", trip[t].driver, fee)) = Story(new)
    <3> HIDE DEF fee, new
    <3>1. Story(new) = <<Event("ride.requested", NoDriver, 0),
                         Event("trip.cancelled", trip[t].driver, fee)>>
      BY <2>3 DEF Story
    <3>2. /\ Event("ride.requested", NoDriver, 0) \in Events
          /\ Event("trip.cancelled", trip[t].driver, fee) \in Events
      BY <1>1, <2>3, EventTyped, RowAmounts
    <3> QED BY <1>1, <3>1, <3>2, AppendTwo
  <2>6. Change(t, new) /\ (Ends(r) => Ended(new) /\ HasDriver(new))
    <3> HIDE DEF fee, new
    <3> QED BY <1>1, <1>2, <2>1, <2>3, <2>4, <2>5 DEF Change, Keeps, Ended, Ends, HasDriver
  <2> QED BY <2>6
<1>4. CASE next = "completed"
  <2>1. PICK fare \in Fares :
          /\ trip' = [trip EXCEPT ![t].status = "completed", ![t].fare = fare]
          /\ outbox' = [outbox EXCEPT ![t] =
                          Append(@, Event("trip.completed", trip[t].driver, fare))]
    BY <1>1, <1>4 DEF Write
  <2> DEFINE new == [trip[t] EXCEPT !.status = "completed", !.fare = fare]
  <2>2. trip' = [trip EXCEPT ![t] = new]
    BY <1>2, <2>1
  <2>3. new \in Rows /\ new.status = "completed" /\ new.driver = trip[t].driver
          /\ new.fare = fare /\ new.payment = trip[t].payment
    BY <1>1 DEF Rows, Statuses
  <2>4. Sound(new)
    BY <1>1, <1>4, MoneyAssumption DEF Sound, HasDriver, CanTransition, Rows
  <2>5. Append(outbox[t], Event("trip.completed", trip[t].driver, fare)) = Story(new)
    <3> HIDE DEF new
    <3>1. Story(new) = <<Event("ride.requested", NoDriver, 0),
                         Event("trip.completed", trip[t].driver, fare)>>
      BY <2>3 DEF Story
    <3>2. /\ Event("ride.requested", NoDriver, 0) \in Events
          /\ Event("trip.completed", trip[t].driver, fare) \in Events
      BY <1>1, <2>3, EventTyped, RowAmounts
    <3> QED BY <1>1, <3>1, <3>2, AppendTwo
  <2>6. Change(t, new) /\ (Ends(r) => Ended(new) /\ HasDriver(new))
    <3> HIDE DEF new
    <3> QED BY <1>1, <1>2, <2>1, <2>2, <2>3, <2>4, <2>5 DEF Change, Keeps, Ended, Ends, HasDriver
  <2> QED BY <2>6
<1>5. CASE next \in {"driver_arriving", "in_progress"}
  <2> DEFINE new == [trip[t] EXCEPT !.status = next]
  <2>1. trip' = [trip EXCEPT ![t] = new] /\ outbox' = outbox
    BY <1>1, <1>2, <1>5 DEF Write
  <2>2. new \in Rows /\ new.status = next /\ new.payment = trip[t].payment
    BY <1>1, <1>5 DEF Rows, Statuses
  <2>3. Sound(new)
    BY <1>1, <1>5 DEF Sound, HasDriver, CanTransition, Rows
  <2>4. outbox[t] = Story(new)
    BY <1>1, <1>5, <2>2 DEF Story
  <2>5. Change(t, new)
    <3> HIDE DEF new
    <3> QED BY <1>1, <1>2, <2>1, <2>2, <2>3, <2>4 DEF Change, Keeps
  <2>6. ~Ends(r)
    BY <1>5 DEF Ends
  <2> QED BY <2>5, <2>6
<1> QED BY <1>1, <1>3, <1>4, <1>5 DEF NextStatuses

LEMMA CommitInv ==
  ASSUME Inv, NEW r \in Requests, Commit(r)
  PROVE  Inv'
<1> DEFINE t == ask[r].trip
<1>1. pc[r] = "locked" /\ Write(r) /\ UNCHANGED <<freed, messages>>
  BY DEF Commit
<1>2. PICK new : Change(t, new) /\ (Ends(r) => Ended(new) /\ HasDriver(new))
  BY <1>1, WriteChanges DEF messages
<1>3. t \in Trips /\ ask[r] # NoAsk
  BY <1>1, Locked
<1>4. /\ trip' \in [Trips -> Rows] /\ outbox' \in [Trips -> Seq(Events)]
      /\ OutboxTellsTheRow' /\ FeeForTheDriver' /\ MessagesSound'
      /\ PaymentWasReported' /\ OnlyEndedTripsFree'
  BY <1>1, <1>2, <1>3, RowsKept DEF messages
<1>5. TypeOK'
  <2>1. \/ pc' = [pc EXCEPT ![r] = "committed"] /\ UNCHANGED <<ask, read, faults>>
        \/ Finish(r) /\ faults' \in Nat
    BY FaultsAssumption DEF Commit, Fault, Inv, TypeOK
  <2>2. CASE pc' = [pc EXCEPT ![r] = "committed"] /\ UNCHANGED <<ask, read, faults>>
    BY <1>1, <1>3, <1>4, <2>2 DEF Inv, TypeOK, messages
  <2>3. CASE Finish(r) /\ faults' \in Nat
    BY <1>1, <1>4, <2>3, NoRowTyped DEF Inv, TypeOK, Finish, messages
  <2> QED BY <2>1, <2>2, <2>3
<1>6. \A u \in Trips : trip'[u] = IF u = t THEN new ELSE trip[u]
  BY <1>2 DEF Change, Inv, TypeOK
<1>7. \A s \in Requests \ {r} : pc'[s] = pc[s] /\ ask'[s] = ask[s] /\ read'[s] = read[s]
  BY DEF Inv, TypeOK, Commit, Finish
<1>8. pc'[r] \in {"idle", "committed"} /\ (pc'[r] = "committed" => Ends(r) /\ ask'[r] = ask[r])
  BY DEF Inv, TypeOK, Commit, Finish
<1>9. \A s \in Requests : pc[s] # "idle" => ask[s].trip \in Trips
  BY DEF Inv, TypeOK, NoAsk
<1>10. LockedRowIsCurrent'
  BY <1>1, <1>6, <1>7, <1>8, <1>9 DEF Inv, LockedRowIsCurrent
<1>11. CommittedEnded'
  <2>1. pc'[r] = "committed" => Ended(trip'[t]) /\ HasDriver(trip'[t]) /\ ask'[r].trip = t
    BY <1>2, <1>3, <1>6, <1>8
  <2>2. \A u \in Trips : Ended(trip[u]) /\ HasDriver(trip[u])
                             => Ended(trip'[u]) /\ HasDriver(trip'[u])
    BY <1>2, <1>6 DEF Change, Keeps, Ended, HasDriver
  <2> QED BY <1>7, <1>9, <2>1, <2>2 DEF Inv, CommittedEnded, Ended, HasDriver
<1> QED BY <1>4, <1>5, <1>10, <1>11 DEF Inv

LEMMA FinishInv ==
  ASSUME Inv, NEW r \in Requests, Abort(r) \/ FreeDriver(r)
  PROVE  Inv'
<1> USE DEF Inv
<1>1. UNCHANGED <<trip, outbox, messages>> /\ Finish(r) /\ faults' \in Nat
  BY FaultsAssumption DEF Abort, FreeDriver, Fault, TypeOK
<1>2. freed' = freed \/ (pc[r] = "committed" /\ freed' = freed \cup {ask[r].trip})
  BY DEF Abort, FreeDriver
<1>3. pc[r] # "idle" => ask[r].trip \in Trips
  BY DEF TypeOK, NoAsk
<1>4. TypeOK'
  BY <1>1, <1>2, <1>3, NoRowTyped DEF TypeOK, Finish, messages
<1>5. OnlyEndedTripsFree'
  BY <1>1, <1>2 DEF OnlyEndedTripsFree, CommittedEnded, Ended, HasDriver
<1>6. LockedRowIsCurrent' /\ CommittedEnded'
  BY <1>1 DEF LockedRowIsCurrent, CommittedEnded, Ended, HasDriver, Finish, TypeOK
<1> QED
  BY <1>1, <1>4, <1>5, <1>6
  DEF OutboxTellsTheRow, FeeForTheDriver, Story, HasDriver, MessagesSound,
      PaymentWasReported, messages

-----------------------------------------------------------------------------
(* Consumers.                                                              *)

LEMMA HandleMatchingInv ==
  ASSUME Inv, NEW m \in sent, HandleMatching(m)
  PROVE  Inv'
<1> USE DEF Inv, request
<1> DEFINE t == m.trip
<1>1. t \in Trips /\ m.key \in MatchingKeys /\ handled' = handled \cup {m}
        /\ UNCHANGED <<request, freed, sent, parked, faults, outbox>>
  BY DEF HandleMatching, TypeOK, Messages
<1>2. CASE ~Open(trip[t])
  <2>1. trip' = trip
    BY <1>2 DEF HandleMatching
  <2>2. TypeOK' /\ PaymentWasReported'
    BY <1>1, <2>1 DEF TypeOK, PaymentWasReported
  <2> QED
    BY <1>1, <2>1, <2>2
    DEF LockedRowIsCurrent, OutboxTellsTheRow, FeeForTheDriver, Story, HasDriver,
        CommittedEnded, Ended, MessagesSound, OnlyEndedTripsFree
<1>3. CASE Open(trip[t])
  <2> DEFINE new == MatchingRow(trip[t], m)
  <2>1. RowFree(t) /\ trip' = [trip EXCEPT ![t] = new]
    BY <1>3 DEF HandleMatching
  <2>2. /\ trip[t] \in Rows /\ Sound(trip[t]) /\ trip[t].status = "requested"
        /\ trip[t].payment \notin Reported \cup {"waived"}
    BY <1>1, <1>3, SoundRows, UnderWayUnreported DEF TypeOK, Open, Sound, Ended
  <2>3. m.key = "ride.driver_assigned" => m.driver \in Drivers /\ m.driver # NoDriver
    BY DriverAssumption DEF MessagesSound
  <2>4. new \in Rows /\ Sound(new) /\ new.payment \notin Reported
          /\ new.status \in {"matched", "no_drivers"}
    BY <2>2, <2>3, <1>1 DEF MatchingRow, Rows, Statuses, Sound, HasDriver, Reported
  <2>5. outbox[t] = Story(new)
    BY <1>1, <2>2, <2>4 DEF OutboxTellsTheRow, Story
  <2>6. Change(t, new)
    <3> HIDE DEF new
    <3> QED BY <1>1, <2>1, <2>2, <2>4, <2>5 DEF Change, Keeps, Ended, TypeOK
  <2> HIDE DEF new
  <2>7. /\ trip' \in [Trips -> Rows] /\ outbox' \in [Trips -> Seq(Events)]
        /\ OutboxTellsTheRow' /\ FeeForTheDriver' /\ MessagesSound'
        /\ PaymentWasReported' /\ OnlyEndedTripsFree'
    BY <1>1, <2>6, RowsKept
  <2>8. LockedRowIsCurrent' /\ CommittedEnded'
    BY <1>1, <2>1, <2>6, RequestsKept
  <2> QED BY <1>1, <2>7, <2>8 DEF TypeOK
<1> QED BY <1>2, <1>3

LEMMA HandlePaymentInv ==
  ASSUME Inv, NEW m \in sent, HandlePayment(m)
  PROVE  Inv'
<1> USE DEF Inv, request
<1> DEFINE t == m.trip
           new == [trip[t] EXCEPT !.payment = PaymentStatus(m.key)]
<1>1. t \in Trips /\ m.key \in PaymentKeys /\ handled' = handled \cup {m}
        /\ UNCHANGED <<request, freed, sent, parked, faults, outbox>> /\ RowFree(t)
  BY DEF HandlePayment, TypeOK, Messages
<1>2. PaymentStatus(m.key) \in Reported
  BY <1>1 DEF PaymentStatus, PaymentKeys, Reported
<1>3. trip[t] \in Rows /\ Sound(trip[t]) /\ trip[t].fare + trip[t].fee > 0
  BY <1>1, SoundRows DEF TypeOK, MessagesSound
<1>4. new \in Rows /\ Sound(new) /\ new.payment = PaymentStatus(m.key)
  BY <1>2, <1>3 DEF Rows, Sound, HasDriver, Reported
<1>5. new.status = trip[t].status /\ new.driver = trip[t].driver
        /\ new.fare = trip[t].fare /\ new.fee = trip[t].fee
  BY <1>3 DEF Rows
<1>6. outbox[t] = Story(new)
  BY <1>1, <1>5 DEF OutboxTellsTheRow, Story
<1>7. trip' = [trip EXCEPT ![t] = new]
  BY <1>1 DEF HandlePayment, TypeOK
<1> HIDE DEF new
<1>8. Change(t, new)
  BY <1>1, <1>2, <1>3, <1>4, <1>5, <1>6, <1>7 DEF Change, Keeps, TypeOK
<1>9. /\ trip' \in [Trips -> Rows] /\ outbox' \in [Trips -> Seq(Events)]
      /\ OutboxTellsTheRow' /\ FeeForTheDriver' /\ MessagesSound'
      /\ PaymentWasReported' /\ OnlyEndedTripsFree'
  BY <1>1, <1>8, RowsKept
<1>10. LockedRowIsCurrent' /\ CommittedEnded'
  BY <1>1, <1>8, RequestsKept
<1> QED BY <1>1, <1>9, <1>10 DEF TypeOK

-----------------------------------------------------------------------------
(* Every step, and the theorems.                                           *)

LEMMA StutterInv == Inv /\ UNCHANGED vars => Inv'
  BY DEF Inv, vars, request, messages, TypeOK, LockedRowIsCurrent, OutboxTellsTheRow,
         FeeForTheDriver, Story, HasDriver, MessagesSound, CommittedEnded, Ended,
         PaymentWasReported, OnlyEndedTripsFree

LEMMA NextInv ==
  ASSUME Inv, Next
  PROVE  Inv'
<1>1. ASSUME NEW t \in Trips, Create(t) PROVE Inv'
  BY <1>1, CreateInv
<1>2. ASSUME NEW t \in Trips, GiveUp(t) \/ \E d \in Drivers : Assign(t, d) PROVE Inv'
  BY <1>2, MatchingInv
<1>3. ASSUME NEW t \in Trips, Settle(t) \/ Refund(t) PROVE Inv'
  BY <1>3, SettleInv
<1>4. ASSUME NEW r \in Requests, NEW t \in Trips, NEW next \in NextStatuses, Begin(r, t, next)
      PROVE  Inv'
  BY <1>4, BeginInv
<1>5. ASSUME NEW r \in Requests, Commit(r) PROVE Inv'
  BY <1>5, CommitInv
<1>6. ASSUME NEW r \in Requests, Abort(r) \/ FreeDriver(r) PROVE Inv'
  BY <1>6, FinishInv
<1>7. ASSUME NEW m \in sent, HandleMatching(m) PROVE Inv'
  BY <1>7, HandleMatchingInv
<1>8. ASSUME NEW m \in sent, HandlePayment(m) PROVE Inv'
  BY <1>8, HandlePaymentInv
<1>9. ASSUME NEW m \in sent, Park(m) PROVE Inv'
  BY <1>9, ParkInv
<1> QED
  BY <1>1, <1>2, <1>3, <1>4, <1>5, <1>6, <1>7, <1>8, <1>9 DEF Next

\* The inductive invariant: types, the lock's protection and the consistency
\* of rows, events and messages hold together in every reachable state.
THEOREM Invariant == Spec => []Inv
<1>1. Init => Inv BY InitInv
<1>2. Inv /\ [Next]_vars => Inv' BY NextInv, StutterInv
<1> QED BY <1>1, <1>2, PTL DEF Spec

\* Type correctness of trip-service: every variable keeps its shape, and an
\* answered request leaves nothing behind.
THEOREM TypeCorrect == Spec => []TypeOK
<1>1. Inv => TypeOK BY DEF Inv
<1> QED BY <1>1, Invariant, PTL

\* SELECT ... FOR UPDATE protects the decision of every request: the row it
\* read is the row until its commit, however long pricing takes to answer.
THEOREM LockProtects == Spec => []LockedRowIsCurrent
<1>1. Inv => LockedRowIsCurrent BY DEF Inv
<1> QED BY <1>1, Invariant, PTL

\* The outbox holds exactly the events of what happened to each row.
THEOREM OutboxFaithful == Spec => []OutboxTellsTheRow
<1>1. Inv => OutboxTellsTheRow BY DEF Inv
<1> QED BY <1>1, Invariant, PTL

\* A trip costs its rider something only if a driver accepted it, and the
\* fee, the fare and the waiver follow from how it ended.
THEOREM MoneyFollowsDriver == Spec => []FeeForTheDriver
<1>1. Inv => FeeForTheDriver BY DEF Inv
<1> QED BY <1>1, Invariant, PTL

\* A trip shows a payment as captured, failed or refunded only if the payment
\* service said so of a trip that cost something.
THEOREM ReportedPaymentsOnly == Spec => []PaymentWasReported
<1>1. Inv => PaymentWasReported BY DEF Inv
<1> QED BY <1>1, Invariant, PTL

\* The driver of a trip still under way is never sent back online by it.
THEOREM DriversFreedAtTheEnd == Spec => []OnlyEndedTripsFree
<1>1. Inv => OnlyEndedTripsFree BY DEF Inv
<1> QED BY <1>1, Invariant, PTL

-----------------------------------------------------------------------------
(* The refinement.                                                         *)

StatusOf == [t \in Trips |-> trip[t].status]
DriverOf == [t \in Trips |-> trip[t].driver]
DueOf == [t \in Trips |-> trip[t].fare + trip[t].fee]

\* How an update of one row looks to the reader of TripLifecycle.
LEMMA RowSeen ==
  ASSUME TypeOK, NEW t \in Trips, NEW new, trip' = [trip EXCEPT ![t] = new]
  PROVE  /\ StatusOf' = [StatusOf EXCEPT ![t] = new.status]
         /\ DriverOf' = [DriverOf EXCEPT ![t] = new.driver]
         /\ DueOf' = [DueOf EXCEPT ![t] = new.fare + new.fee]
         /\ new.driver = trip[t].driver => DriverOf' = DriverOf
         /\ new.fare + new.fee = trip[t].fare + trip[t].fee => DueOf' = DueOf
         /\ new.status = trip[t].status => StatusOf' = StatusOf
  BY DEF TypeOK, StatusOf, DriverOf, DueOf

LEMMA InitSeen == Init => Lifecycle!Init
  BY DEF Init, NoRow, Lifecycle!Init

Seen == <<StatusOf, DriverOf, DueOf, outbox>>

LEMMA CreateSeen ==
  ASSUME Inv, NEW t \in Trips, Create(t)
  PROVE  Lifecycle!Request(t)
<1> DEFINE new == [trip[t] EXCEPT !.status = "requested"]
<1>1. trip' = [trip EXCEPT ![t] = new] /\ trip[t].status = "none"
        /\ outbox' = [outbox EXCEPT ![t] = Append(@, Event("ride.requested", NoDriver, 0))]
  BY DEF Create, Inv, TypeOK
<1>2. new.status = "requested" /\ new.driver = trip[t].driver
        /\ new.fare = trip[t].fare /\ new.fee = trip[t].fee
  BY DEF Inv, TypeOK, Rows
<1> HIDE DEF new
<1>3. /\ StatusOf' = [StatusOf EXCEPT ![t] = new.status]
      /\ new.driver = trip[t].driver => DriverOf' = DriverOf
      /\ new.fare + new.fee = trip[t].fare + trip[t].fee => DueOf' = DueOf
  BY <1>1, RowSeen DEF Inv
<1>4. /\ StatusOf' = [StatusOf EXCEPT ![t] = "requested"] /\ DriverOf' = DriverOf
      /\ DueOf' = DueOf
  BY <1>2, <1>3
<1> QED
  BY <1>1, <1>4 DEF Lifecycle!Request, Lifecycle!Move, Lifecycle!Announce, Lifecycle!Fact,
                    StatusOf, DriverOf, DueOf, Event

LEMMA LifeStep ==
  ASSUME NEW t \in Trips,
         \/ Lifecycle!Arrive(t) \/ Lifecycle!Start(t) \/ Lifecycle!Unmatch(t)
         \/ Lifecycle!Withdraw(t) \/ Lifecycle!CancelOnDriver(t)
         \/ \E d \in Drivers : Lifecycle!Match(t, d)
         \/ \E fare \in Fares : Lifecycle!Complete(t, fare)
  PROVE  Lifecycle!Next
  BY DEF Lifecycle!Next

\* A commit is the step its request asked for.
LEMMA CommitSeen ==
  ASSUME Inv, NEW r \in Requests, Commit(r)
  PROVE  Lifecycle!Next
<1>0. PICK t \in Trips : t = ask[r].trip
  BY Locked DEF Commit
<1> DEFINE next == ask[r].next
           fee == CancelFee(read[r].status)
<1>1. /\ t \in Trips /\ next \in NextStatuses
      /\ trip[t] = read[r] /\ trip[t] \in Rows /\ Sound(trip[t])
      /\ CanTransition(trip[t].status, next)
  BY <1>0, Locked DEF Commit
<1>2. outbox \in [Trips -> Seq(Events)] /\ trip \in [Trips -> Rows] /\ TypeOK
  BY DEF Inv, TypeOK
<1>3. Write(r)
  BY DEF Commit
<1>4. trip[t].status = StatusOf[t] /\ trip[t].driver = DriverOf[t]
        /\ trip[t].fare = 0 /\ trip[t].fee = 0
  BY <1>1, RowAmounts DEF StatusOf, DriverOf, Sound, CanTransition
<1>5. CASE next = "cancelled"
  <2> DEFINE new == CancelledRow(trip[t], fee)
  <2>1. trip' = [trip EXCEPT ![t] = new]
          /\ outbox' = [outbox EXCEPT ![t] = Append(@, Event("trip.cancelled", trip[t].driver, fee))]
    BY <1>0, <1>1, <1>2, <1>3, <1>5 DEF Write
  <2>2. new.status = "cancelled" /\ new.driver = trip[t].driver /\ new.fare = 0 /\ new.fee = fee
    BY <1>1, <1>4 DEF CancelledRow, Rows
  <2>3. fee \in Nat /\ 0 + fee = fee
    BY MoneyAssumption DEF CancelFee
  <2> HIDE DEF new, fee
  <2>4. /\ StatusOf' = [StatusOf EXCEPT ![t] = new.status]
        /\ DueOf' = [DueOf EXCEPT ![t] = new.fare + new.fee]
        /\ new.driver = trip[t].driver => DriverOf' = DriverOf
        /\ new.fare + new.fee = trip[t].fare + trip[t].fee => DueOf' = DueOf
    BY <1>1, <1>2, <2>1, RowSeen
  <2>5. /\ StatusOf' = [StatusOf EXCEPT ![t] = "cancelled"] /\ DriverOf' = DriverOf
        /\ DueOf' = [DueOf EXCEPT ![t] = fee]
        /\ fee = 0 => DueOf' = DueOf
    BY <1>4, <2>2, <2>3, <2>4
  <2>6. CASE trip[t].status = "requested"
    <3>1. fee = 0 /\ trip[t].driver = NoDriver
      BY <1>1, <2>6 DEF fee, CancelFee, Sound, HasDriver
    <3>2. Lifecycle!Withdraw(t)
      BY <1>4, <2>1, <2>5, <2>6, <3>1
      DEF Lifecycle!Withdraw, Lifecycle!Move, Lifecycle!Announce, Lifecycle!Fact,
          StatusOf, DriverOf, DueOf, Event
    <3> QED BY <3>2, LifeStep
  <2>7. CASE trip[t].status \in {"matched", "driver_arriving"}
    <3>1. fee = CancellationFee
      BY <1>1, <2>7 DEF fee, CancelFee
    <3>2. Lifecycle!CancelOnDriver(t)
      BY <1>4, <2>1, <2>5, <2>7, <3>1
      DEF Lifecycle!CancelOnDriver, Lifecycle!Move, Lifecycle!Announce, Lifecycle!Charge,
          Lifecycle!Fact, StatusOf, DriverOf, DueOf, Event
    <3> QED BY <3>2, LifeStep
  <2> QED BY <1>1, <1>5, <2>6, <2>7 DEF CanTransition
<1>6. CASE next = "completed"
  <2>1. PICK fare \in Fares :
          /\ trip' = [trip EXCEPT ![t].status = "completed", ![t].fare = fare]
          /\ outbox' = [outbox EXCEPT ![t] =
                          Append(@, Event("trip.completed", trip[t].driver, fare))]
    BY <1>0, <1>1, <1>3, <1>6 DEF Write
  <2> DEFINE new == [trip[t] EXCEPT !.status = "completed", !.fare = fare]
  <2>2. trip' = [trip EXCEPT ![t] = new]
    BY <1>2, <2>1
  <2>3. new.status = "completed" /\ new.driver = trip[t].driver /\ new.fare = fare /\ new.fee = 0
    BY <1>1, <1>4 DEF Rows
  <2>4. fare + 0 = fare
    BY MoneyAssumption
  <2> HIDE DEF new
  <2>5. /\ StatusOf' = [StatusOf EXCEPT ![t] = new.status]
        /\ DueOf' = [DueOf EXCEPT ![t] = new.fare + new.fee]
        /\ new.driver = trip[t].driver => DriverOf' = DriverOf
    BY <1>1, <1>2, <2>2, RowSeen
  <2>6. /\ StatusOf' = [StatusOf EXCEPT ![t] = "completed"] /\ DriverOf' = DriverOf
        /\ DueOf' = [DueOf EXCEPT ![t] = fare]
    BY <2>3, <2>4, <2>5
  <2>7. Lifecycle!Complete(t, fare)
    BY <1>1, <1>4, <1>6, <2>1, <2>6
    DEF CanTransition, Lifecycle!Complete, Lifecycle!Move, Lifecycle!Announce, Lifecycle!Charge,
        Lifecycle!Fact, StatusOf, DriverOf, DueOf, Event
  <2> QED BY <2>7, LifeStep
<1>7. CASE next \in {"driver_arriving", "in_progress"}
  <2> DEFINE new == [trip[t] EXCEPT !.status = next]
  <2>1. trip' = [trip EXCEPT ![t] = new] /\ outbox' = outbox
    <3>1. trip' = [trip EXCEPT ![t].status = next] /\ outbox' = outbox
      BY <1>0, <1>3, <1>7 DEF Write
    <3> QED BY <1>2, <3>1
  <2>2. new.status = next /\ new.driver = trip[t].driver
          /\ new.fare = trip[t].fare /\ new.fee = trip[t].fee
    BY <1>1 DEF Rows
  <2> HIDE DEF new
  <2>3. /\ StatusOf' = [StatusOf EXCEPT ![t] = new.status]
        /\ new.driver = trip[t].driver => DriverOf' = DriverOf
        /\ new.fare + new.fee = trip[t].fare + trip[t].fee => DueOf' = DueOf
    BY <1>1, <1>2, <2>1, RowSeen
  <2>4. /\ StatusOf' = [StatusOf EXCEPT ![t] = next] /\ DriverOf' = DriverOf /\ DueOf' = DueOf
    BY <2>2, <2>3
  <2>5. Lifecycle!Arrive(t) \/ Lifecycle!Start(t)
    BY <1>1, <1>4, <1>7, <2>1, <2>4
    DEF CanTransition, Lifecycle!Arrive, Lifecycle!Start, Lifecycle!Move,
        StatusOf, DriverOf, DueOf
  <2> QED BY <2>5, LifeStep
<1> QED BY <1>1, <1>5, <1>6, <1>7 DEF NextStatuses

\* A message of matching decides an open trip, or is ignored; a message of
\* payment does not show.
LEMMA HandleSeen ==
  ASSUME Inv, NEW m \in sent, HandleMatching(m) \/ HandlePayment(m)
  PROVE  Lifecycle!Next \/ UNCHANGED Seen
<1> DEFINE t == m.trip
<1>1. t \in Trips /\ outbox' = outbox /\ TypeOK /\ trip[t] \in Rows
  BY DEF HandleMatching, HandlePayment, Inv, TypeOK, Messages
<1>2. CASE HandlePayment(m)
  <2> DEFINE new == [trip[t] EXCEPT !.payment = PaymentStatus(m.key)]
  <2>1. trip' = [trip EXCEPT ![t] = new]
    BY <1>1, <1>2 DEF HandlePayment, TypeOK
  <2>2. new.status = trip[t].status /\ new.driver = trip[t].driver
          /\ new.fare = trip[t].fare /\ new.fee = trip[t].fee
    BY <1>1 DEF Rows
  <2> HIDE DEF new
  <2>3. /\ new.status = trip[t].status => StatusOf' = StatusOf
        /\ new.driver = trip[t].driver => DriverOf' = DriverOf
        /\ new.fare + new.fee = trip[t].fare + trip[t].fee => DueOf' = DueOf
    BY <1>1, <2>1, RowSeen
  <2> QED BY <1>1, <2>2, <2>3 DEF Seen
<1>3. CASE HandleMatching(m) /\ ~Open(trip[t])
  BY <1>1, <1>3 DEF HandleMatching, Seen, StatusOf, DriverOf, DueOf
<1>4. CASE HandleMatching(m) /\ Open(trip[t])
  <2> DEFINE new == MatchingRow(trip[t], m)
  <2>1. trip' = [trip EXCEPT ![t] = new] /\ m.key \in MatchingKeys
    BY <1>4 DEF HandleMatching
  <2>2. StatusOf[t] = "requested"
    BY <1>1, <1>4 DEF Open, StatusOf
  <2>3. new.fare = trip[t].fare /\ new.fee = trip[t].fee
          /\ IF m.key = "ride.driver_assigned"
             THEN new.status = "matched" /\ new.driver = m.driver
             ELSE new.status = "no_drivers" /\ new.driver = trip[t].driver
    BY <1>1 DEF Rows, MatchingRow
  <2>4. m.key = "ride.driver_assigned" => m.driver \in Drivers
    BY DEF Inv, MessagesSound
  <2> HIDE DEF new
  <2>5. /\ StatusOf' = [StatusOf EXCEPT ![t] = new.status]
        /\ DriverOf' = [DriverOf EXCEPT ![t] = new.driver]
        /\ new.driver = trip[t].driver => DriverOf' = DriverOf
        /\ new.fare + new.fee = trip[t].fare + trip[t].fee => DueOf' = DueOf
    BY <1>1, <2>1, RowSeen
  <2>6. CASE m.key = "ride.driver_assigned"
    <3>1. /\ StatusOf' = [StatusOf EXCEPT ![t] = "matched"]
          /\ DriverOf' = [DriverOf EXCEPT ![t] = m.driver] /\ DueOf' = DueOf
      BY <2>3, <2>5, <2>6
    <3>2. Lifecycle!Match(t, m.driver)
      BY <1>1, <2>2, <3>1
      DEF Lifecycle!Match, Lifecycle!Move, StatusOf, DriverOf, DueOf
    <3> QED BY <1>1, <2>4, <2>6, <3>2, LifeStep
  <2>7. CASE m.key # "ride.driver_assigned"
    <3>1. /\ StatusOf' = [StatusOf EXCEPT ![t] = "no_drivers"]
          /\ DriverOf' = DriverOf /\ DueOf' = DueOf
      BY <2>3, <2>5, <2>7
    <3>2. Lifecycle!Unmatch(t)
      BY <1>1, <2>2, <3>1
      DEF Lifecycle!Unmatch, Lifecycle!Move, StatusOf, DriverOf, DueOf
    <3> QED BY <1>1, <3>2, LifeStep
  <2> QED BY <2>6, <2>7
<1> QED BY <1>2, <1>3, <1>4

LEMMA StepSeen ==
  ASSUME Inv, [Next]_vars
  PROVE  [Lifecycle!Next]_(Lifecycle!lifeVars)
<1>1. UNCHANGED Seen => UNCHANGED Lifecycle!lifeVars
  BY DEF Seen, StatusOf, DriverOf, DueOf, Lifecycle!lifeVars
<1>2. UNCHANGED <<trip, outbox>> => UNCHANGED Seen
  BY DEF Seen, StatusOf, DriverOf, DueOf
<1>3. ASSUME NEW t \in Trips, Create(t) PROVE Lifecycle!Next
  BY <1>3, CreateSeen DEF Lifecycle!Next
<1>4. ASSUME NEW t \in Trips,
             GiveUp(t) \/ (\E d \in Drivers : Assign(t, d)) \/ Settle(t) \/ Refund(t)
      PROVE  UNCHANGED <<trip, outbox>>
  BY <1>4 DEF GiveUp, Assign, Settle, Refund, Send
<1>5. ASSUME NEW r \in Requests, Commit(r) PROVE Lifecycle!Next
  BY <1>5, CommitSeen
<1>6. ASSUME NEW r \in Requests,
             (\E t \in Trips, next \in NextStatuses : Begin(r, t, next))
               \/ Abort(r) \/ FreeDriver(r)
      PROVE  UNCHANGED <<trip, outbox>>
  BY <1>6 DEF Begin, Abort, FreeDriver
<1>7. ASSUME NEW m \in sent, HandleMatching(m) \/ HandlePayment(m)
      PROVE  Lifecycle!Next \/ UNCHANGED Seen
  BY <1>7, HandleSeen
<1>8. ASSUME NEW m \in sent, Park(m) PROVE UNCHANGED <<trip, outbox>>
  BY <1>8 DEF Park
<1>9. UNCHANGED vars => UNCHANGED <<trip, outbox>>
  BY DEF vars
<1> QED
  BY <1>1, <1>2, <1>3, <1>4, <1>5, <1>6, <1>7, <1>8, <1>9 DEF Next

\* The trips table, its lock and its outbox implement the life of a trip:
\* every step of the service is a step of TripLifecycle or does not show.
THEOREM Implements == Spec => ImplementsLifecycle
<1>1. Init => Lifecycle!Init
  BY InitSeen
<1>2. Inv /\ [Next]_vars => [Lifecycle!Next]_(Lifecycle!lifeVars)
  BY StepSeen
<1> QED BY <1>1, <1>2, Invariant, PTL DEF Spec, ImplementsLifecycle, Lifecycle!Spec

=============================================================================
