# Ridemesh in TLA+

Models of the Ridemesh ride-hailing backend: what its services do to their
databases, to Redis and to the broker, model-checked by TLC on small instances
and, for the core, proved by TLAPS for every value of the constants.

File names below are relative to the repository (`src/`).

## 1. Inventory

| Component | State it keeps | Operations | Talks to |
|---|---|---|---|
| trip-service (`services/trip-service`) | `trips`, `trip_route_points`, `outbox`, `processed_messages` (PostgreSQL) | request a trip; rider cancels; driver moves it on; record a breadcrumb; consume matching's and payment's events | pricing (fare, surge) and location (driver status) by HTTP; the broker through its outbox |
| matching-service | Redis: `lock:driver:*`, `offer:*`, `offer:resp:*`, `dispatch:cancelled:*`, `dedupe:*`; dispatch loops in memory | consume `ride.requested` (search, lock, offer, wait, assign or cascade), consume `trip.cancelled`, answer an offer | location and user by HTTP; publishes directly to the broker |
| location-service | Redis: geo shards, `driver:shard:*`, `driver:status:*`, `driver:trip:*`, supply counters; sockets in memory | connect, disconnect, ping, forward answers and statuses, nearby search, set status | matching, trip |
| payment-service | `payments`, `outbox`; RabbitMQ retry queue | consume `trip.completed`/`trip.cancelled`/retried jobs, refund | the payment provider; the broker through its outbox |
| pricing-service | Redis: demand counters, surge per cell | quote, observe a request, surge tick | reads location's supply counters |
| notification-service | Redis `dedupe:*` | consume every event | - |
| gateway | Redis rate-limit counters | authenticate, limit, proxy | all public APIs |
| user-service | `users` | register, login, batch read | - |
| shared: outbox | the `outbox` tables | enqueue in a transaction; poll, publish, mark | broker |
| shared: rabbit | one connection, one confirm channel | publish with confirm, subscribe, dead-letter, reconnect | broker |
| shared: lock, idempotency, http | Redis keys; one breaker for each callee | acquire/release, `seenBefore`, `callService` | Redis |

One ride crosses them as a choreographed saga (`docs/adr/003-choreography-saga.md`):
`ride.requested` -> dispatch -> `ride.driver_assigned` | `ride.unmatched` -> trip
row -> driver completes, or rider cancels -> `trip.completed` | `trip.cancelled`
-> charge -> `payment.captured` | `payment.failed` -> trip row.

**What is hard here.** Handlers run concurrently (prefetch 10 or 20) and yield at
every `await`; messages are delivered at least once and in no useful order;
processes die between a commit and the call that follows it; a provider or
service call may have succeeded although its answer is lost; Redis reads and
writes are separate round trips; time limits (offer window, lock TTL, retry TTL)
race the answers they wait for. `PROJECT.json` lists the places, under "hazards".

**What makes each component correct.**

- *payment*: a charge asked for is never lost and settles in the end; it is
  announced once; a settled payment keeps its result; only what the trip's end
  asks for is charged; the provider's books agree with ours.
- *outbox and consumers*: a recorded event takes effect exactly once or is
  dead-lettered; replicas never publish one row from two batches.
- *trip*: the row follows the life in `state.js`; fee, fare, payment status, driver and
  outbox agree with it; nobody decides from a stale row; a driver is released
  only after the trip's end.
- *dispatch*: one offer at a time for a driver; a driver is on one
  trip at most; only an accepted offer assigns; every request is decided; a late
  answer decides nothing.
- *presence*: a driver's status is what his rides and his sockets say.
- *geo index*: a driver is in one shard, the one remembered for him; a search finds
  those who stayed, once.
- *breaker*: it admits nothing until its cooldown is over; one probe, alone, while half open.
- *pricing*: the quote and its fallback agree; the rider pays at the surge of his
  request; a surge does not outlive its cause; pricing never blocks a trip.
- *gateway*: no identity passes more than the limit in one window.

## 2. Modules

| Module | What it is |
|---|---|
| `PaymentLedger` | abstract: what a trip's end makes due, the result entered for it, the money taken and returned |
| `PaymentService` | payment-service as transactions, provider answers and broker hand-overs; implements `PaymentLedger` |
| `PaymentServiceProofs` | its theorems about one charge |
| `PaymentBooksProofs` | its theorems about the provider's books and the ledger |
| `EventLog` | abstract: recorded events take effect once, or are parked |
| `OutboxDelivery` | outbox table, pollers, broker, deduplicating consumer; implements `EventLog` |
| `OutboxDeliveryProofs` | its theorems |
| `TripLifecycle` | abstract: the life of a trip, its driver, cost and facts |
| `TripService` | trip-service's requests and consumers; implements `TripLifecycle` |
| `TripServiceProofs` | its theorems |
| `Matching` | abstract: offers, acceptances and the one decision of a trip |
| `Dispatch` | matching-service's loops, driver locks, offers and answers, and the deduplication it shares with notification-service; implements `Matching` |
| `DispatchProofs` | its theorems about locks, assignments and decisions |
| `MatchingProofs` | its theorem that it implements `Matching` |
| `LocationService` | the drivers' sockets, status keys and sharded GEO index |
| `LocationServiceProofs` | its theorems |
| `CircuitBreaker` | the breaker of `callService`, with several calls in flight and their timers |
| `Pricing` | fare and surge functions; the demand, supply and surge of one cell |
| `FarePath` | composes the two with the gateway and trip-service's three calls to pricing |
| `FarePathProofs` | the theorems of the three |
| `MC*` | what TLC needs besides: symmetry |

### PaymentService

`row` is the `payments` table (`absent` before the insert), `announced` the
outbox, `work`, `retry`, `dlq` the queues as counts of copies, `charged` and
`refunds` the provider's books, `outcome` what trip-service published. A delivery
is a worker going through `processCharge`:

    Deliver -> Claim -> Charge | Decline | AnswerLost
            -> Capture -> Ack
            -> Settle [-> CommitRetry] -> Ack          (any step: -> Nack)

A transaction is one step when no `await` of another system happens while its row is
locked. The retry hand-over awaits the broker's confirm under the row lock
(server.js 144-147) and the refund awaits the provider (219), so these are
several steps, with the row `Locked` in between. `*Fault` actions are the error paths, each
with both outcomes of the statement that failed: a commit or a confirm may have gone
through although the answer did not arrive. `leaked` counts the connections the
no-op return of the claim keeps (96-99); `HasConnection` is `pool.connect()`.
A provider charge is counted when the provider takes the money.

The refinement maps the row to the entry of a charge and the provider's books to the
money of the ledger. The ledger takes money as often as it is asked: that a charge is
taken once is not what the code does (`payment_double`), that none is entered untaken is.

### OutboxDelivery

`row` is the outbox table with its open transactions: an id is taken at the
INSERT and becomes visible at the COMMIT, so rows can appear out of order. A
poller's `batch` is what its transaction holds locked and `sent` what of it is
published; both vanish with a rollback, the publications do not. `bound` says
whether the consumer's queue exists: the exchange confirms and drops what no
queue is bound for. A delivery goes `claim -> apply -> ack | nack` (`processedOnce`); its
claim waits for an open claim of the same id. The refinement maps an event to
`none`, `recorded`, `parked` or `effected`.

### TripService

`trip` is the row, `outbox` the events of each trip in order. A request is
`Begin` (lock, read, check), `Commit` or `Abort`, and for one that ends a trip with a
driver `FreeDriver`, the unawaited call to location-service. The row stays locked
between `Begin` and `Commit`: a completion asks pricing for the fare in between
(server.js 215-273). Refused requests change nothing and are left out. The
consumers take each message at most once (`OutboxDelivery` shows why) and in any
order; matching and payment appear as the messages they may send. A fare is one
of `Fares`: distances and their floating-point sums are abstracted.

### Dispatch

Each trip has one loop, `dispatchTrip`, and `pc` says before which of its round
trips it is:

    none -> queued -> search -> check -> lock -> wait -> assign -> announce -> unlock -> done
                        ^         |  ^     |       |
                        |         |  +-----+       +-> decline -> check
                        |         +-> exhausted -> done          (any step: -> failed)
                   `Handle`, if the message is not marked yet

`cands` is the rest of the candidate list, read once by `Search`: any drivers not
on a trip at that moment, in any order, since scores, distances and
who happens to be online are free. `lock` names the loop whose token a driver's
lock holds, and `Release` is the Lua script's compare-and-delete. `offer`,
`answer` are an offer's record and its response list: an offer that was answered, deleted or has
expired is `closed`, because an answer is refused for all three alike. `respondToOffer` goes
`Read` (GET), `Flip` (SET), `Push` (LPUSH), `Acknowledge` (EXPIRE and the HTTP answer), any other
step may come between two of them, and each may fail, its effect done or not
(`ReplyFails`). So the loop is woken before the driver is answered: he may be
announced for a trip of which he heard an error. SET NX, the storing of the offer and
its emission are one step: what is between them is seen by nobody else.

Time is what the code compares: a lock (20 s) and an offer (25 s) do not expire during
the window (15 s) they are for (`Open`), and may at any time after it. Dedupe keys
and cancellation flags do not expire. A loop that throws is dead-lettered and leaves its lock
to expire; a crash queues the message again, marked.

The refinement takes the offers made and open as they are, an offer as accepted whose first
answer pushed is an acceptance, an acceptance the
loop has read as the one that finds the trip its driver, and the publications as decisions. Locks, lists and
the places of the loops are gone: that a driver has one open offer, and a trip one driver, is
all they are for. A driver's trips over time are not in `Matching`: there the code fails (`dispatch_booked`).

`Dispatch` takes candidates to be distinct; with several shards a search may
return a driver twice, which is `LocationService`'s `FoundOnce`.

### LocationService

`status`, `trip`, `shard` are the keys `driver:status`, `driver:trip` and
`driver:shard`, `geo` the GEO sets, `open` the sockets whose listeners are
attached. A handler under way is a row of `task`, and `at` says before which of its
Redis commands it is:

    connect     read -> online -> online_trip
    disconnect  leave -> offline -> offline_trip -> forget -> drop -> unset
    ping        locate -> move -> add -> set
    on_trip     book -> book_trip
    online      online -> online_trip

The connection handler attaches the listeners of `disconnect` and `driver:ping` only
after its awaits (sockets.js 59-67): `CloseUnheard` is a socket that closes before. `Book` and
`EndRide` are the calls of dispatcher and trip service, `EndRideLost` one whose
failure nobody notices. `search` is one `findNearby`: each shard answers at a
time of its own (`SearchShard`) with what `ASC COUNT` can leave of its set
(`Nearest`: who is nearer is free), then the statuses are read (`Found`). A position is
the shard it falls into, and every driver is in range.

The code serialises nothing here, so its promises hold with exceptions, and the
properties name them exactly, through history variables: `tangled` (index updates of one driver
overlapped, or a crash cut one), `strayed` (a status was read before a booking and
written after it, or the call at the end of a ride was lost), `crossed` (connects and
disconnects overlapped, a socket closed unheard or after a newer one opened, or a
ride ended with no socket left), `disturbed` (changed while a search was under way).
All but `tangled` are left again: a clean booking, a lone reconnect, a new search.

Assumed of the environment: a driver has one ride at a time (`dispatch_booked` shows
that the dispatcher does not ensure it) and the meta Redis is durable. A lost GEO
shard (`Restart`) comes back with the drivers' pings, as ADR-002 says of a "Redis restart";
that document does not hold of the meta Redis: pings restore `driver:shard` but never
`driver:status`, so drivers who stay connected would not be found.

### CircuitBreaker, Pricing, FarePath

`CircuitBreaker` is the class of `shared/src/http.js` and the calls behind it: `Admit` or
`Reject` on the spot, then `OnSuccess` or `OnFailure` in any order. Time goes by in ticks; no tick
passes a call's timer. `Pricing` has `ComputeFare` and `SurgeFromRatio` over integers (paise,
metres, surges in hundredths; `Round` is `Math.round`), the worker (`RunSurgeTick`, which
a minute may see never or twice) and the key's life. A trip of `FarePath` goes

    none -> observing -> quote -> quoting -> in_progress -> billing -> completed

with a fallback at each call, when it is rejected, fails or times out. Calls of all
trips share the breaker. `waited` is the timer of who asked: the gateway (10 s) for a request,
the location service's own call (5 s) for a completion. `hung` counts the calls that took
all their time. A trip whose caller gave up goes on (`gaveUp`).

## 3. Runs

| Run | Instance | What it shows |
|---|---|---|
| `payment` | 1 trip, 2 deliveries, 2 refunds, 2 attempts, pool of 3, 1 duplicate, 1 crash, 1 fault | the payment row, the outbox, the queues and the provider's books agree; `PaymentLedger` implemented; a settled payment is final; every charge settles or is dead-lettered |
| `payment_double` | 1 duplicate | violated: "can NEVER be double-charged" |
| `payment_leak` | 2 trips, pool of 1, 1 duplicate | violated: every charge settles |
| `outbox` | 2 events, 2 pollers, 2 deliveries, batches of 2, queue bound in time, 1 of each disturbance | disjoint batches; `EventLog` implemented; nothing is lost, every event is handled |
| `trip` | 2 trips, 2 drivers, 2 requests, 2 fares, 1 fault | the row, its outbox, money and driver agree; `TripLifecycle` implemented; what matching and payment report takes effect or is dead-lettered |
| `trip_stranded` | 1 trip, 1 driver, no fault | violated: the assigned driver gets the trip or is released |
| `dispatch_safety` | 2 trips, 1 driver, 1 answer at a time, 1 of each disturbance | an open offer holds its lock; one decision for a trip; `Matching` implemented |
| `dispatch_live` | 1 trip, 2 drivers, lists of 2, 2 answers at a time, 1 crash, 1 fault | with a cascade and answers that interleave: only who accepted first of all is assigned, every loop ends, every lock is freed |
| `dispatch_booked` | 2 trips, 1 driver, no disturbance | violated: no double booking |
| `dispatch_dropped` | 1 trip, 1 driver, no disturbance | violated: every request is decided |
| `location` | 2 drivers, 2 shards, 1 trip, 2 handlers at a time, 5 in all, limit 1, 1 crash or restart | index, status, trip and sockets agree, and a search finds whom it should, outside the named windows |
| `fare` | 2 trips, breaker of 2 failures, call 1, gateway 2, cooldown 3 ticks | the bill is as agreed; surges end; pricing never blocks; the breaker admits nothing while it cools down, and probes; nobody gives up on work that goes on unless every call hung |

**Why these bounds.** Payments of different trips meet only in the pool: one
trip with both its kinds of charge is enough but for the leak, which has two.
Two deliveries, a duplicate and a budget of two attempts let a late success
meet a spent budget, a retry meet a redelivery, and a crash fall between any two
steps. The pool of three is smaller than what four actors may ask for, and
larger than what one duplicate can leak. Two pollers race for the
rows of two events; a LIMIT smaller than what is there, and a queue bound after the first
poll, are left to the theorems, which hold for any of them. Two
deliveries of one event race for its claim. Two requests, each on its trip or both on
one, are the rider against the driver. Loops meet at a driver and in
what they know of his status: two trips and one driver contend for his lock, let it expire
and take it over. `dispatch_live` has two drivers for the cascade and two
answers under way, to one offer or to two, so that an acceptance and a rejection of one driver cross. In `location` two handlers overlap
at any of their commands, and five let a driver connect, ping, be booked, disconnect and
reconnect, in any order; a limit of one is reached by either driver. In `fare` two
callers are what it takes for a call admitted before the breaker opened to end after; a tick stands for
5 s, and the cooldown of three ticks (two in the code) leaves one between a call's time and
its end; the distances and duration make surged, unsurged and rounded fares. `MaxSockets`,
`MaxHandlers`, `MaxSupply` and `MaxPoints` bound what users do. The counters
`MaxDuplicates`, `MaxCrashes`, `MaxFaults`, `MaxRollbacks`, `MaxFailures` bound the
disturbances only, so that the state space is finite. Deadlock checking is off:
a system in which every ride has ended and no disturbance is left stops.
Symmetry is used in `dispatch_safety` and `location`, which have no liveness property.

**Fairness.** Continuations run (event loop), the broker delivers what it holds
and expires what it parks, pollers tick, an open transaction ends and
PostgreSQL wakes those who wait for its lock: weak fairness, strong for steps that
compete for a row lock or a pool connection, which both serve waiters in order. A provider
call answers, one way or another. Redis wakes a blocked pop when its time is up and
expires its keys. Riders, drivers, the outcome of trips and
disturbances get no fairness. In `fare`, time goes on, timers fire and trip-service
goes on after each call; whether and when pricing answers is left open, and so is whether the surge worker runs.
`location` has no liveness property: its handlers are bounded rows of commands. `trip` assumes
nothing of matching and payment: its two properties start from a message they have
sent. Neither do the dispatch runs of notification-service and the answers under way.
That matching decides every request is false (`dispatch_dropped`); that payment settles every charge or
dead-letters it is what `payment` shows and, with as many duplicates as the pool has connections, `payment_leak` refutes.

## 4. Where the code and its documents disagree

1. **A trip can be charged twice** (`payment_double`). The payment row is
   released before the provider call; a duplicate delivered during the call
   finds it `processing` and charges as well. Only one capture is recorded, the
   other charge is at the provider alone. A provider that enforces the uniqueness of
   the receipt would prevent it; the mock does not.
2. **Duplicates use up the pool** (`payment_leak`). `return` at
   payment-service/src/server.js:98 skips `client.release()`.
3. **A driver can be stranded** (`trip_stranded`). A cancellation that
   overtakes `ride.driver_assigned` finds no driver to release.
4. **A driver can be assigned to two trips** (`dispatch_booked`). The candidate list is
   read once and his status never again: a loop that reaches him after another
   has matched and unlocked him offers him its trip too. The lock does what it
   should (`OfferHoldsLock`); ADR-005 relies on the status flip.
5. **A request can be dropped** (`dispatch_dropped`). Matching and notification
   mark the same `dedupe:<messageId>`; whoever is second skips the event.

Three more have no run of their own: each is a step or two of a model, and the property of a
passing run says what holds in spite of it. The first is listed under "findings" with that property.

6. **An open breaker may close at once.** http.js:14-15 has OPEN "reject immediately without
   touching the network for `resetTimeoutMs`". But `onSuccess` (:45-49) closes the breaker whatever
   its state: with five calls failed and a sixth, admitted before, still in flight, the breaker
   opens, the sixth succeeds a moment later, and the next call goes to the network without any
   cooldown. `OpenRests` states what is left: no call is admitted during the cooldown, and nothing
   ends it early but the success of a call that was in flight at the opening.
7. **A second or late answer is acknowledged.** The flip of an offer is not the
   compare-and-set that dispatch.js:144 and ADR-005 call it: `Read` and `Flip` are separate, so
   a second answer, or an acceptance that arrives as the window ends, is acknowledged as
   well (dispatch.js:30 says it is refused). No assignment is wrong for that, since the first
   answer decides (`AssignmentsWereAccepted`); but a driver may be told that he has a trip he has not, and
   the other way round (see `Dispatch`).
8. **What no queue is bound for is lost.** Without the `mandatory`
   flag a broker confirms what it cannot route: a poller that publishes before its consumer
   has ever bound its queue marks rows as published that nobody gets, so `NothingLost`
   is checked and proved for `BoundAtStart` only.

## 5. Proofs

Each `*Proofs` module extends its component and proves, for all constants that satisfy the
named assumptions, theorems of `Spec` (fairness plays no role). The type invariants
of all modules but `PaymentService` are theorems and in no run.

*PaymentServiceProofs.* The base is `BaseInv`: types; a busy worker has a message
and, past its claim, a row that exists (`RowClaimed`); a worker or refund that holds a
row across an `await` holds one in the right status, alone (`CommitHolds`, `RefundHolds`);
a processing row has budget left (`RetryBudget`). `SettledStaysSettled` and
`AnnouncedExactlyOnce` follow step by step: the announcement is in the step
that flips the status. `NothingElseCharged` needs that every chargeable copy was
asked for (`AskedInv`), `ChargeNeverLost` that a retry handed over before its commit
keeps the job without the worker that will commit it (`KeptInv`): a charge is
acknowledged only after its row was settled or a retry parked.

*PaymentBooksProofs.* `ChargesRecorded` counts deliveries, and no count is inductive: what is, while nothing was
delivered twice, crashed or failed (`CalmInv`), is that a charge has one carrier: a copy queued,
one parked for a retry or a delivery at work, and none once it is settled (`OneCarrier`); the
provider's books stand at what the row says or, with the carrier at `capture`, one
ahead of it (`Booked`). `ChargedOnce` follows: under these conditions
server.js:20 is right. `RefundsRecorded` stands duplicates, too: the row lock is held across the call,
so the one refund that was accepted and not committed is the lock's holder (`RefundInv`). For the ledger the counts do not
matter, only that money comes first, disturbed or not: a delivery at `capture` has taken its
money, a refund past its call has returned it (`ActedFirst`). Each
action is then a step of `PaymentLedger` or a stutter, a crash included, since what a
process knows is in no variable of the ledger. `MoneyMovesFirst` is proved of the ledger's steps
alone and holds of the service because it implements them.

*OutboxDeliveryProofs.* `Inv` says that batches are disjoint, that every copy is of
a recorded event (`CopiesRecorded`) and that an open claim is the only one of its event
and the event not processed (`ClaimsHold`); each step then is one of
`EventLog` or a stutter. `Delivered` adds `LostInv`: the queue is bound, and what was
published is handled or on its way. It assumes `BoundAtStart`; `NothingLost` is false without it.

*TripServiceProofs.* `Inv` joins the checked invariants to what their induction
needs: an assignment names a driver and a reported payment is of a trip that cost
something (`MessagesSound`), and a committed request has ended a trip with a driver
(`CommittedEnded`). The refinement proof shows each action to be one step of `TripLifecycle`
or a stutter.

*DispatchProofs.* `Inv` joins `TypeOK`, `OfferHoldsLock` and a protocol. The lock part
is inductive with the types: a loop takes a lock from nobody, gives back only
its own, and the lock of an open offer does not expire. For the rest, a trip that
seeks a driver (`Seeking`: its loop is before a match, or its message is not
marked) has no announcement and no acceptance taken; one that found him has taken his and has not
announced it; and a loop past its start has its message marked, so that a crash makes it
nothing that seeks again. `DecidedOnce` follows because an announcement
is made from these states only and leaves them, `AssignmentsWereAccepted` because
the first answer pushed for an offer stays the first, whatever is pushed after it. The lemma
`Undisturbed` covers every step that neither takes an answer nor announces.

*MatchingProofs.* The refinement needs one invariant more, `OfferedOnce`: whoever is still on a loop's list has not been
offered its trip, and an offer's answer presupposes the offer. That a trip is offered to one driver at a
time is the loop's program counter, that a driver has one open offer is `OfferHoldsLock`, and that an acceptance is
taken before any decision is the protocol of `DispatchProofs`. Each action is a step of `Matching` or a
stutter; `Crash`, `Fail` and the end of a window only let offers lapse. `OneDriverATrip` follows from the steps
of `Matching` alone.

*LocationServiceProofs.* `IInv` joins the types to four inductive parts. `IndexInv`: an update under way
is alone and knows the only shard its driver can be in (`IndexTask`), which gives `IndexedOnce`.
`RideInv`: past its booking a ride shows in the keys and no handler is left that would overwrite them
(`RideShows`). `PresenceInv`: while a disconnect is under way its driver has no socket, and a
driver without one is online only as long as a handler is about to say otherwise. `HitInv`: what a shard
answered still holds of every undisturbed driver, and an answer misses one only if it is full;
`FoundOnce` then follows from `IndexedOnce`. Each part is preserved command by command; one lemma a part covers
the commands that leave it alone (`IndexKept`, `RideKept`, `PresenceKept`, `RestHits`). Of the constants
only `DriversAssumption` (finitely many drivers), `NoneAssumption` and `LimitAssumption` are used.

*FarePathProofs.* The breaker's invariant says how old the calls in flight can be: those admitted before it
opened are older than the time it has been open, so by `TimeoutAssumption` none is left when the
cooldown ends, and the probe is alone; for the same reason a success
that closes an open breaker early is one of theirs (`OpenBreakerRests`). The fare's says that a trip's surge is within pricing's cap, which
makes the fallback, that does not clamp it, equal to `ComputeFare`. The clocks' relates what the caller has
waited to the ages of the calls and to those that hung. `FareGrows` and `SurgeGrows` are about the functions of
`fare.js`, for all numbers: rounding each component, and rounding a quotient, keeps their order. With `BilledAsAgreed` they
give `NoSurpriseBill`, which compares a bill with the estimate the rider was told.

Not proved, only model-checked: the liveness properties, for TLAPS has no support for fairness and ENABLED.
Every other property of a passing run is a theorem. The five violated ones are false, of the code and of the models.

## 6. Plan

Modelled, checked and proved: the core (payment, outbox, trip, dispatch), presence and
geo index, the breaker, pricing and their path through a trip. What would come next:

1. `RabbitClient`: reconnect, channels and delivery tags (`shared/src/rabbit.js:75`).
2. `PaymentPool`: which request a released connection belongs to.
3. Trip, dispatch and payment composed over their abstract specifications
   (`TripLifecycle`, `Matching`, `PaymentLedger`).
4. The gateway's window counter.

## 7. Not modelled

Authentication, users, metrics, logging, and scripts have no protocol
to check; of the gateway the timer is modelled, its rate limiter is not. Geohash, haversine and ranking compute
on floats. Timestamps are abstracted to the orders of events they allow; how long a driver has been
idle only ranks him. Of breadcrumbs a bill counts any number: which of those under way
at the completion are billed is not promised. `FarePath` has no crash of trip-service: its creation is one
transaction (`TripService`) and its breaker is memory. Channels, delivery tags and the
identity of pool connections are missing from every model; two hazards wait for them.
