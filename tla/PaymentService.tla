--------------------------- MODULE PaymentService ---------------------------
(***************************************************************************)
(* The payment service (services/payment-service): the consumer of         *)
(* payments.charge, the TTL retry queue, the provider call and the refund  *)
(* endpoint, one action per database transaction, provider answer or       *)
(* broker hand-over.                                                       *)
(*                                                                         *)
(* A delivery is a worker that goes                                        *)
(*   claim -> charge -> capture | settle [-> commit] -> ack | nack         *)
(* and every arrow is a point where the process may die.  Transactions     *)
(* that hold their row lock across no await are single steps; the two that *)
(* do hold it (the retry hand-over, which awaits the broker, and the       *)
(* refund, which awaits the provider) are several steps with the row       *)
(* locked in between.                                                      *)
(*                                                                         *)
(* A queue maps a message to the number of copies it holds.  RabbitMQ      *)
(* keeps order, but ten handlers run side by side (prefetch 10), so the    *)
(* order in which they act is free.                                        *)
(***************************************************************************)
EXTENDS Naturals, FiniteSets

CONSTANTS
  Trips,          \* trips whose charges are under way
  Workers,        \* concurrent deliveries (prefetch)
  Refunders,      \* concurrent refund requests
  MaxAttempts,    \* PAYMENT_MAX_ATTEMPTS
  PoolSize,       \* connections of the pg pool
  MaxDuplicates,  \* bound: redeliveries and republications
  MaxCrashes,     \* bound: process crashes
  MaxFaults       \* bound: failed transactions, broker confirms, lost answers

ASSUME AttemptsAssumption == MaxAttempts \in Nat \ {0}
ASSUME PoolAssumption == PoolSize \in Nat \ {0}
ASSUME WorkersAssumption == IsFiniteSet(Workers)
ASSUME BoundsAssumption ==
  MaxDuplicates \in Nat /\ MaxCrashes \in Nat /\ MaxFaults \in Nat

Kinds == {"trip_fare", "cancellation_fee"}
Jobs == [trip : Trips, kind : Kinds]
Fare(t) == [trip |-> t, kind |-> "trip_fare"]
CancelFee(t) == [trip |-> t, kind |-> "cancellation_fee"]

Statuses == {"absent", "processing", "captured", "failed", "refunded"}
Events == {"payment.captured", "payment.failed", "payment.refunded"}

-----------------------------------------------------------------------------
(* Messages of the work queue: the two events it is bound to, and the      *)
(* charge job that comes back from the retry queue.  Only whether the      *)
(* amount is zero matters.                                                 *)

Completed(t) == [key |-> "trip.completed", trip |-> t, kind |-> "none", amount |-> 1]
Cancelled(t, fee) == [key |-> "trip.cancelled", trip |-> t, kind |-> "none", amount |-> fee]
RetryJob(j) == [key |-> "payments.charge", trip |-> j.trip, kind |-> j.kind, amount |-> 1]

Message == {Completed(t) : t \in Trips}
             \cup {Cancelled(t, fee) : t \in Trips, fee \in {0, 1}}
             \cup {RetryJob(j) : j \in Jobs}
NoMessage == [key |-> "none"]
NoTrip == "none"

\* Mutant: feePaise >= 0, a free cancellation is charged too.
ChargeableWithoutFee(m) == m.key = "trip.cancelled" => m.amount >= 0

\* The handler ignores a cancellation without a fee.
Chargeable(m) == m.key = "trip.cancelled" => m.amount > 0

JobOf(m) ==
  [trip |-> m.trip,
   kind |-> CASE m.key = "trip.completed" -> "trip_fare"
              [] m.key = "trip.cancelled" -> "cancellation_fee"
              [] OTHER -> m.kind]

\* What the trip service decided, and the event that tells us of it.
Outcomes == {"completed", "cancelled_fee", "cancelled_free"}
EventOf(t, o) == CASE o = "completed" -> Completed(t)
                   [] o = "cancelled_fee" -> Cancelled(t, 1)
                   [] OTHER -> Cancelled(t, 0)

-----------------------------------------------------------------------------
VARIABLES
  row,        \* payments table: status and attempts of each (trip, kind)
  announced,  \* outbox: announcements written, by job and event
  work, retry, dlq,            \* copies of each message in the three queues
  pc, handling, retryable,     \* each delivery: where it is, its message,
                               \* and chargeErr.retryable # false
  rpc, rtrip, \* each refund request: where it is, its trip
  leaked,     \* pool connections never released
  charged, refunds,            \* the provider's books, by job
  outcome,    \* what the trip service published for each trip
  dups, crashes, faults        \* disturbances so far

db == <<row, announced>>
broker == <<work, retry, dlq>>
handler == <<pc, handling, retryable>>
refunder == <<rpc, rtrip>>
books == <<charged, refunds>>
env == <<outcome, dups, crashes, faults>>
vars == <<db, broker, handler, refunder, leaked, books, env>>

Put(q, m) == [q EXCEPT ![m] = @ + 1]
Take(q, m) == [q EXCEPT ![m] = @ - 1]

Busy(w) == pc[w] # "idle"
Job(w) == JobOf(handling[w])

\* Mutant: the refund reads its payment without FOR UPDATE.
LockedByRetryOnly(j) == \E w \in Workers : pc[w] = "commit" /\ Job(w) = j

\* Row locks held across an await.
Locked(j) ==
  \/ \E w \in Workers : pc[w] = "commit" /\ Job(w) = j
  \/ \E r \in Refunders : rpc[r] # "idle" /\ Fare(rtrip[r]) = j

\* pool.connect() resolves only while a connection is left.
HasConnection ==
  leaked + Cardinality({w \in Workers : pc[w] = "commit"})
         + Cardinality({r \in Refunders : rpc[r] # "idle"}) < PoolSize

Goto(w, label) == pc' = [pc EXCEPT ![w] = label]
Announce(j, e) == announced' = [announced EXCEPT ![j][e] = @ + 1]
SetRow(j, status, attempts) ==
  row' = [row EXCEPT ![j] = [status |-> status, attempts |-> attempts]]

Fault == faults < MaxFaults /\ faults' = faults + 1 /\ UNCHANGED <<outcome, dups, crashes>>

Init ==
  /\ row = [j \in Jobs |-> [status |-> "absent", attempts |-> 0]]
  /\ announced = [j \in Jobs |-> [e \in Events |-> 0]]
  /\ work = [m \in Message |-> 0]
  /\ retry = [m \in Message |-> 0]
  /\ dlq = [m \in Message |-> 0]
  /\ pc = [w \in Workers |-> "idle"]
  /\ handling = [w \in Workers |-> NoMessage]
  /\ retryable = [w \in Workers |-> TRUE]
  /\ rpc = [r \in Refunders |-> "idle"]
  /\ rtrip = [r \in Refunders |-> NoTrip]
  /\ leaked = 0
  /\ charged = [j \in Jobs |-> 0]
  /\ refunds = [j \in Jobs |-> 0]
  /\ outcome = [t \in Trips |-> "open"]
  /\ dups = 0 /\ crashes = 0 /\ faults = 0

-----------------------------------------------------------------------------
(* The environment: the trip service's outbox and the broker.              *)

\* A trip ends once, and its event reaches the work queue.
Publish(t, o) ==
  /\ outcome[t] = "open"
  /\ outcome' = [outcome EXCEPT ![t] = o]
  /\ work' = Put(work, EventOf(t, o))
  /\ UNCHANGED <<db, retry, dlq, handler, refunder, leaked, books, dups, crashes, faults>>

Duplicate(m) ==
  /\ dups < MaxDuplicates
  /\ dups' = dups + 1
  /\ work' = Put(work, m)
  /\ UNCHANGED <<db, retry, dlq, handler, refunder, leaked, books, outcome, crashes, faults>>

\* The poller of the trip service rolled its batch back after the publish.
Republish(t) == outcome[t] # "open" /\ Duplicate(EventOf(t, outcome[t]))

\* The broker connection drops: the unacknowledged message is queued again
\* while the handler, which does not notice, runs on.
Redeliver(w) == Busy(w) /\ Duplicate(handling[w])

\* The TTL of a parked job ends: dead-lettered back into the work queue.
Expire(m) ==
  /\ retry[m] > 0
  /\ retry' = Take(retry, m)
  /\ work' = Put(work, m)
  /\ UNCHANGED <<db, dlq, handler, refunder, leaked, books, env>>

\* The process dies and restarts: open transactions roll back, leaked
\* connections are gone, unacknowledged messages are queued again.
Crash ==
  /\ crashes < MaxCrashes
  /\ crashes' = crashes + 1
  /\ work' = [m \in Message |->
                work[m] + Cardinality({w \in Workers : Busy(w) /\ handling[w] = m})]
  /\ pc' = [w \in Workers |-> "idle"]
  /\ handling' = [w \in Workers |-> NoMessage]
  /\ retryable' = [w \in Workers |-> TRUE]
  /\ rpc' = [r \in Refunders |-> "idle"]
  /\ rtrip' = [r \in Refunders |-> NoTrip]
  /\ leaked' = 0
  /\ UNCHANGED <<db, retry, dlq, books, outcome, dups, faults>>

-----------------------------------------------------------------------------
(* One delivery: the subscribe() handler and processCharge.                *)

Deliver(w, m) ==
  /\ ~Busy(w)
  /\ work[m] > 0
  /\ work' = Take(work, m)
  /\ handling' = [handling EXCEPT ![w] = m]
  /\ Goto(w, IF Chargeable(m) THEN "claim" ELSE "ack")
  /\ UNCHANGED <<db, retry, dlq, retryable, refunder, leaked, books, env>>

\* Mutant: any row that exists already counts as handled, a retry included.
ClaimInsertOnly(w) ==
  LET j == Job(w) IN
  /\ pc[w] = "claim"
  /\ HasConnection
  /\ ~Locked(j)
  /\ IF row[j].status = "absent"
     THEN SetRow(j, "processing", 0) /\ Goto(w, "charge")
     ELSE UNCHANGED row /\ Goto(w, "ack")
  /\ UNCHANGED <<announced, broker, handling, retryable, refunder, leaked, books, env>>

\* Insert the row, or lock and re-evaluate the one that is there.  The
\* no-op return commits but never releases its connection.
Claim(w) ==
  LET j == Job(w) IN
  /\ pc[w] = "claim"
  /\ HasConnection
  /\ ~Locked(j)
  /\ \/ /\ row[j].status = "absent"
        /\ SetRow(j, "processing", 0)
        /\ Goto(w, "charge")
        /\ UNCHANGED leaked
     \/ /\ row[j].status = "processing" /\ row[j].attempts < MaxAttempts
        /\ Goto(w, "charge")
        /\ UNCHANGED <<row, leaked>>
     \/ /\ row[j].status # "absent"
        /\ ~(row[j].status = "processing" /\ row[j].attempts < MaxAttempts)
        /\ leaked' = leaked + 1
        /\ Goto(w, "ack")
        /\ UNCHANGED row
  /\ UNCHANGED <<announced, broker, handling, retryable, refunder, books, env>>

\* A failed claim throws; the insert may have committed all the same.
ClaimFault(w) ==
  LET j == Job(w) IN
  /\ pc[w] = "claim" /\ ~Locked(j)
  /\ Fault
  /\ \/ UNCHANGED row
     \/ row[j].status = "absent" /\ SetRow(j, "processing", 0)
  /\ Goto(w, "nack")
  /\ UNCHANGED <<announced, broker, handling, retryable, refunder, leaked, books>>

\* Mutant: the capture does not await the provider.
ChargeUnawaited(w) ==
  /\ pc[w] = "charge"
  /\ Goto(w, "capture")
  /\ UNCHANGED <<db, broker, handling, retryable, refunder, leaked, books, env>>

Charge(w) ==
  /\ pc[w] = "charge"
  /\ charged' = [charged EXCEPT ![Job(w)] = @ + 1]
  /\ Goto(w, "capture")
  /\ UNCHANGED <<db, broker, handling, retryable, refunder, leaked, refunds, env>>

Decline(w) ==
  /\ pc[w] = "charge"
  /\ retryable' \in {[retryable EXCEPT ![w] = again] : again \in BOOLEAN}
  /\ Goto(w, "settle")
  /\ UNCHANGED <<db, broker, handling, refunder, leaked, books, env>>

\* The provider took the money and its answer was lost.
AnswerLost(w) ==
  /\ pc[w] = "charge"
  /\ Fault
  /\ charged' = [charged EXCEPT ![Job(w)] = @ + 1]
  /\ Goto(w, "settle")
  /\ UNCHANGED <<db, broker, handling, retryable, refunder, leaked, refunds>>

\* Mutants: the UPDATE matches any status; it matches every status but its
\* own; it asks for an attempt too many; the announcement is outside its guard.
CaptureAnyRow(j) ==
  SetRow(j, "captured", row[j].attempts + 1) /\ Announce(j, "payment.captured")
CaptureUncaptured(j) ==
  IF row[j].status # "captured" THEN CaptureAnyRow(j) ELSE UNCHANGED db
CaptureWithinBudget(j) ==
  IF row[j].status = "processing" /\ row[j].attempts + 1 < MaxAttempts
  THEN CaptureAnyRow(j)
  ELSE UNCHANGED db
CaptureAndAlwaysAnnounce(j) ==
  /\ IF row[j].status = "processing"
     THEN SetRow(j, "captured", row[j].attempts + 1)
     ELSE UNCHANGED row
  /\ Announce(j, "payment.captured")

\* UPDATE ... WHERE status='processing' and its announcement.
CaptureRow(j) ==
  IF row[j].status = "processing"
  THEN SetRow(j, "captured", row[j].attempts + 1) /\ Announce(j, "payment.captured")
  ELSE UNCHANGED db

Capture(w) ==
  /\ pc[w] = "capture"
  /\ HasConnection
  /\ ~Locked(Job(w))
  /\ CaptureRow(Job(w))
  /\ Goto(w, "ack")
  /\ UNCHANGED <<broker, handling, retryable, refunder, leaked, books, env>>

\* An error in that transaction, its commit included, lands in the same
\* catch block as a declined charge, as a retryable one.
CaptureFault(w) ==
  /\ pc[w] = "capture" /\ ~Locked(Job(w))
  /\ Fault
  /\ UNCHANGED db \/ CaptureRow(Job(w))
  /\ Goto(w, "settle")
  /\ UNCHANGED <<broker, handling, retryable, refunder, leaked, books>>

\* Mutant: attempts > MAX_ATTEMPTS.
LastAttemptLate(w) == row[Job(w)].attempts + 1 > MaxAttempts \/ ~retryable[w]

LastAttempt(w) == row[Job(w)].attempts + 1 >= MaxAttempts \/ ~retryable[w]

FailRow(j) == SetRow(j, "failed", row[j].attempts + 1) /\ Announce(j, "payment.failed")

\* The charge failed.  A retry is handed to the broker first, under the row
\* lock, and the attempt is counted by the commit that follows.
Settle(w) ==
  LET j == Job(w) IN
  /\ pc[w] = "settle"
  /\ HasConnection
  /\ ~Locked(j)
  /\ \/ /\ row[j].status # "processing"
        /\ Goto(w, "ack")
        /\ UNCHANGED <<db, retry>>
     \/ /\ row[j].status = "processing" /\ LastAttempt(w)
        /\ FailRow(j)
        /\ Goto(w, "ack")
        /\ UNCHANGED retry
     \/ /\ row[j].status = "processing" /\ ~LastAttempt(w)
        /\ retry' = Put(retry, RetryJob(j))
        /\ Goto(w, "commit")
        /\ UNCHANGED db
  /\ UNCHANGED <<work, dlq, handling, retryable, refunder, leaked, books, env>>

\* The settlement throws: before the hand-over, after it with the broker's
\* confirm lost, or with the commit of the failure done.
SettleFault(w) ==
  LET j == Job(w) IN
  /\ pc[w] = "settle" /\ ~Locked(j)
  /\ Fault
  /\ \/ UNCHANGED <<db, retry>>
     \/ /\ row[j].status = "processing" /\ LastAttempt(w)
        /\ FailRow(j)
        /\ UNCHANGED retry
     \/ /\ row[j].status = "processing" /\ ~LastAttempt(w)
        /\ retry' = Put(retry, RetryJob(j))
        /\ UNCHANGED db
  /\ Goto(w, "nack")
  /\ UNCHANGED <<work, dlq, handling, retryable, refunder, leaked, books>>

CountAttempt(j) == SetRow(j, row[j].status, row[j].attempts + 1)

CommitRetry(w) ==
  /\ pc[w] = "commit"
  /\ CountAttempt(Job(w))
  /\ Goto(w, "ack")
  /\ UNCHANGED <<announced, broker, handling, retryable, refunder, leaked, books, env>>

CommitFault(w) ==
  /\ pc[w] = "commit"
  /\ Fault
  /\ UNCHANGED row \/ CountAttempt(Job(w))
  /\ Goto(w, "nack")
  /\ UNCHANGED <<announced, broker, handling, retryable, refunder, leaked, books>>

Finish(w) ==
  /\ Goto(w, "idle")
  /\ handling' = [handling EXCEPT ![w] = NoMessage]
  /\ retryable' = [retryable EXCEPT ![w] = TRUE]
  /\ UNCHANGED <<db, work, retry, refunder, leaked, books, env>>

Ack(w) == pc[w] = "ack" /\ Finish(w) /\ UNCHANGED dlq

\* A handler that threw: to the dead-letter queue, never requeued.
Nack(w) == pc[w] = "nack" /\ Finish(w) /\ dlq' = Put(dlq, handling[w])

-----------------------------------------------------------------------------
(* POST /api/payments/:tripId/refund, which keeps its transaction open     *)
(* across the provider call.                                               *)

RefundBegin(r, t) ==
  /\ rpc[r] = "idle"
  /\ HasConnection
  /\ ~Locked(Fare(t))
  /\ row[Fare(t)].status = "captured"
  /\ rpc' = [rpc EXCEPT ![r] = "calling"]
  /\ rtrip' = [rtrip EXCEPT ![r] = t]
  /\ UNCHANGED <<db, broker, handler, leaked, books, env>>

RefundAccepted(r) ==
  /\ rpc[r] = "calling"
  /\ refunds' = [refunds EXCEPT ![Fare(rtrip[r])] = @ + 1]
  /\ rpc' = [rpc EXCEPT ![r] = "called"]
  /\ UNCHANGED <<db, broker, handler, rtrip, leaked, charged, env>>

RefundEnd(r) ==
  /\ rpc' = [rpc EXCEPT ![r] = "idle"]
  /\ rtrip' = [rtrip EXCEPT ![r] = NoTrip]
  /\ UNCHANGED <<broker, handler, leaked, books>>

RefundDeclined(r) == rpc[r] = "calling" /\ RefundEnd(r) /\ UNCHANGED <<db, env>>

RefundCommit(r) ==
  LET j == Fare(rtrip[r]) IN
  /\ rpc[r] = "called"
  /\ SetRow(j, "refunded", row[j].attempts)
  /\ Announce(j, "payment.refunded")
  /\ RefundEnd(r)
  /\ UNCHANGED env

RefundFault(r) == rpc[r] = "called" /\ Fault /\ RefundEnd(r) /\ UNCHANGED db

-----------------------------------------------------------------------------
Handle(w) ==
  \/ Claim(w) \/ Charge(w) \/ Decline(w) \/ Capture(w) \/ Settle(w)
  \/ CommitRetry(w) \/ Ack(w) \/ Nack(w)
HandlerFault(w) ==
  ClaimFault(w) \/ AnswerLost(w) \/ CaptureFault(w) \/ SettleFault(w) \/ CommitFault(w)
Refund(r) ==
  \/ \E t \in Trips : RefundBegin(r, t)
  \/ RefundAccepted(r) \/ RefundDeclined(r) \/ RefundCommit(r) \/ RefundFault(r)

Next ==
  \/ \E t \in Trips, o \in Outcomes : Publish(t, o)
  \/ \E t \in Trips : Republish(t)
  \/ \E m \in Message : Expire(m)
  \/ Crash
  \/ \E w \in Workers, m \in Message : Deliver(w, m)
  \/ \E w \in Workers : Redeliver(w) \/ Handle(w) \/ HandlerFault(w)
  \/ \E r \in Refunders : Refund(r)

Spec == Init /\ [][Next]_vars

\* Started continuations run (event loop), the broker hands over what it
\* holds, the provider answers within its request timeout; PostgreSQL queues
\* those waiting for a row lock and the pool those waiting for a connection,
\* hence strong fairness of the steps that need either.  Nothing is assumed
\* of the trip service, of riders, or of faults.
Fairness ==
  /\ \A m \in Message : WF_vars(Expire(m)) /\ WF_vars(\E w \in Workers : Deliver(w, m))
  /\ \A w \in Workers :
       /\ WF_vars(Charge(w) \/ Decline(w))
       /\ SF_vars(Claim(w) \/ Capture(w) \/ Settle(w))
       /\ WF_vars(CommitRetry(w) \/ Ack(w) \/ Nack(w))
  /\ \A r \in Refunders :
       WF_vars(RefundAccepted(r) \/ RefundDeclined(r) \/ RefundCommit(r))

FairSpec == Spec /\ Fairness

-----------------------------------------------------------------------------
(* Properties.                                                             *)

\* Every variable keeps its shape; no payment counts more attempts than the
\* budget PAYMENT_MAX_ATTEMPTS allows.
TypeOK ==
  /\ row \in [Jobs -> [status : Statuses, attempts : 0 .. MaxAttempts]]
  /\ announced \in [Jobs -> [Events -> Nat]]
  /\ work \in [Message -> Nat] /\ retry \in [Message -> Nat] /\ dlq \in [Message -> Nat]
  /\ pc \in [Workers -> {"idle", "claim", "charge", "capture", "settle",
                         "commit", "ack", "nack"}]
  /\ handling \in [Workers -> Message \cup {NoMessage}]
  /\ retryable \in [Workers -> BOOLEAN]
  /\ rpc \in [Refunders -> {"idle", "calling", "called"}]
  /\ rtrip \in [Refunders -> Trips \cup {NoTrip}]
  /\ leaked \in Nat
  /\ charged \in [Jobs -> Nat] /\ refunds \in [Jobs -> Nat]
  /\ outcome \in [Trips -> Outcomes \cup {"open"}]
  /\ dups \in Nat /\ crashes \in Nat /\ faults \in Nat

\* A payment that is still processing has an attempt left, whichever
\* deliveries count attempts on it: claim would drop it as handled otherwise,
\* and nothing would ever settle it.
RetryBudget == \A j \in Jobs : row[j].status = "processing" => row[j].attempts < MaxAttempts

\* The charge the trip service asked for, if any.
Asked(j) == \/ j.kind = "trip_fare" /\ outcome[j.trip] = "completed"
            \/ j.kind = "cancellation_fee" /\ outcome[j.trip] = "cancelled_fee"

Settled(j) == row[j].status \in {"captured", "failed", "refunded"}

\* Something will still work on the job: a copy queued or parked, or a
\* delivery that has not yet decided to acknowledge.
Charges(m, j) == Chargeable(m) /\ JobOf(m) = j
Carried(j) ==
  \/ \E m \in Message : Charges(m, j) /\ (work[m] > 0 \/ retry[m] > 0)
  \/ \E w \in Workers : pc[w] \notin {"idle", "ack"} /\ Charges(handling[w], j)
DeadLettered(j) == \E m \in Message : Charges(m, j) /\ dlq[m] > 0

\* A charge that was asked for is settled, or something still carries it; it
\* can end in the dead-letter queue only after a fault.  The hazard is the
\* hand-over between queue, handler and retry queue: a message acknowledged
\* before its successor exists, or a crash between the two.
NoLostCharge ==
  \A j \in Jobs : Asked(j) =>
    Settled(j) \/ Carried(j) \/ (faults > 0 /\ DeadLettered(j))

\* The outbox announces a settlement exactly once and never the opposite one
\* too, whatever is redelivered, repeated or interrupted: the announcement is
\* in the transaction that flips the status, behind its status guard.
Count(b) == IF b THEN 1 ELSE 0
AnnouncedOnce ==
  \A j \in Jobs :
    /\ announced[j]["payment.captured"] = Count(row[j].status \in {"captured", "refunded"})
    /\ announced[j]["payment.failed"] = Count(row[j].status = "failed")
    /\ announced[j]["payment.refunded"] = Count(row[j].status = "refunded")

\* Money is asked for only as the trip ended: never for an open trip or a
\* free cancellation, never a fare and a cancellation fee for one trip.
OnlyAskedIsCharged ==
  \A j \in Jobs : charged[j] > 0 \/ row[j].status # "absent" => Asked(j)

\* With every message delivered once and no failure, retries alone never
\* charge twice, and the provider's books equal ours: one charge for each
\* captured payment, plus the one whose answer is being recorded.
ChargesRecorded ==
  dups + crashes + faults = 0 =>
    \A j \in Jobs :
      charged[j] = Count(row[j].status \in {"captured", "refunded"})
        + Cardinality({w \in Workers : pc[w] = "capture" /\ Job(w) = j})

\* Concurrent refund requests of one trip refund it once: the row stays
\* locked across the provider call.  (A crash or a failed commit after that
\* call is the exception, hence the premise.)
RefundsRecorded ==
  crashes + faults = 0 =>
    \A j \in Jobs :
      refunds[j] = Count(row[j].status = "refunded")
        + Cardinality({r \in Refunders : rpc[r] = "called" /\ Fare(rtrip[r]) = j})

\* Of two deliveries settling one payment the first decides: a settled
\* payment never returns to processing and never changes its result, a
\* refund of a captured one excepted.
SettledIsFinal ==
  [][\A j \in Jobs : Settled(j) =>
       \/ row'[j] = row[j]
       \/ row[j].status = "captured" /\ row'[j].status = "refunded"]_vars

\* The payments table, its outbox and the provider's books implement the
\* ledger: no charge is captured whose money was not taken, no fare refunded
\* whose money was not returned, whatever is lost, repeated or interrupted
\* between a transaction and the provider call before or after it.
DueOf(o) == CASE o = "open" -> "undecided"
              [] o = "completed" -> "trip_fare"
              [] o = "cancelled_fee" -> "cancellation_fee"
              [] OTHER -> "nothing"
ResultOf(status) == CASE status = "absent" -> "none"
                      [] status = "processing" -> "pending"
                      [] OTHER -> status
Ledger == INSTANCE PaymentLedger WITH
  due <- [t \in Trips |-> DueOf(outcome[t])],
  result <- [j \in Jobs |-> ResultOf(row[j].status)],
  taken <- charged,
  returned <- refunds
ImplementsLedger == Ledger!Spec

\* Every charge asked for is eventually captured or fails for good, or is
\* dead-lettered after a fault, in spite of duplicates, concurrent deliveries
\* and crashes.
EveryChargeSettles == \A j \in Jobs : Asked(j) ~> (Settled(j) \/ DeadLettered(j))

\* "A trip can NEVER be double-charged" (payment-service/src/server.js:20):
\* the provider's books hold at most one charge for each job.
NeverDoubleCharged == \A j \in Jobs : charged[j] <= 1

=============================================================================
