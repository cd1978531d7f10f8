--------------------------- MODULE OutboxDelivery ---------------------------
(***************************************************************************)
(* One event stream from producer to consumer: the outbox table a domain   *)
(* transaction writes to, the pollers that publish it (shared/outbox.js),  *)
(* the broker (shared/rabbit.js) and a consumer that claims each messageId *)
(* in the transaction of its effect (trip-service/db.js, processedOnce).   *)
(*                                                                         *)
(* An event is the id of its outbox row, taken from the table's sequence   *)
(* when the row is inserted, hence before, and in another order than, the  *)
(* commits.  A poller's batch is the set of rows its transaction holds     *)
(* locked; what it has published of them is not marked before it commits.  *)
(***************************************************************************)
EXTENDS Naturals, FiniteSets

CONSTANTS
  Ids,            \* ids of the outbox rows
  Pollers,        \* replicas of the producer, one poller each
  Consumers,      \* concurrent deliveries of the consumer (prefetch)
  BatchSize,      \* rows a poll takes
  BoundAtStart,   \* whether the consumer's queue exists when polling begins
  MaxRollbacks,   \* bound: batches rolled back
  MaxDuplicates,  \* bound: redeliveries
  MaxCrashes,     \* bound: crashes of the consumer process
  MaxFailures     \* bound: handlers that throw

ASSUME IdsAssumption == Ids \subseteq Nat \ {0}
ASSUME ConsumersAssumption == IsFiniteSet(Consumers)
ASSUME BatchAssumption == BatchSize \in Nat \ {0}
ASSUME BoundsAssumption ==
  /\ BoundAtStart \in BOOLEAN
  /\ {MaxRollbacks, MaxDuplicates, MaxCrashes, MaxFailures} \subseteq Nat

VARIABLES
  row,           \* outbox row of each id: none, open (its transaction runs),
                 \* aborted, unpublished or published
  batch, sent,   \* each poller: the rows it holds, those of them published
  bound,         \* the consumer's queue is declared and bound
  queue,         \* copies of each event in the queue
  dlq,           \* events in the dead-letter queue
  pc, hand,      \* each delivery: where it is, its event
  processed,     \* processed_messages table of the consumer
  applied,       \* how often the consumer's mutation of each event committed
  rollbacks, dups, crashes, failures   \* disturbances so far

producer == <<row, batch, sent, rollbacks>>
broker == <<bound, queue, dlq, dups>>
consumer == <<pc, hand, processed, applied, crashes, failures>>
vars == <<producer, broker, consumer>>

NoId == 0   \* the sequence starts at 1
Goto(c, label) == pc' = [pc EXCEPT ![c] = label]
Enqueue(e) == queue' = [queue EXCEPT ![e] = @ + 1]

Init ==
  /\ row = [e \in Ids |-> "none"]
  /\ batch = [p \in Pollers |-> {}]
  /\ sent = [p \in Pollers |-> {}]
  /\ bound = BoundAtStart
  /\ queue = [e \in Ids |-> 0]
  /\ dlq = {}
  /\ pc = [c \in Consumers |-> "idle"]
  /\ hand = [c \in Consumers |-> NoId]
  /\ processed = {}
  /\ applied = [e \in Ids |-> 0]
  /\ rollbacks = 0 /\ dups = 0 /\ crashes = 0 /\ failures = 0

-----------------------------------------------------------------------------
(* The domain transaction that enqueues an event.                          *)

SetRow(e, status) == row' = [row EXCEPT ![e] = status]

\* INSERT takes the next id of the sequence.
EnqueueEvent(e) ==
  /\ row[e] = "none" /\ \A d \in Ids : d < e => row[d] # "none"
  /\ SetRow(e, "open")
  /\ UNCHANGED <<batch, sent, rollbacks, broker, consumer>>

Commit(e) ==
  /\ row[e] = "open"
  /\ SetRow(e, "unpublished")
  /\ UNCHANGED <<batch, sent, rollbacks, broker, consumer>>

Abort(e) ==
  /\ row[e] = "open"
  /\ SetRow(e, "aborted")
  /\ UNCHANGED <<batch, sent, rollbacks, broker, consumer>>

-----------------------------------------------------------------------------
(* A tick of the poller.                                                   *)

\* Mutant: the SELECT without FOR UPDATE SKIP LOCKED.
FreeUnlocked(e) == row[e] = "unpublished"

\* Committed rows without published_at that no other poller has locked.
Free(e) == row[e] = "unpublished" /\ \A p \in Pollers : e \notin batch[p]

\* SELECT ... ORDER BY id LIMIT n FOR UPDATE SKIP LOCKED
Select(p) ==
  LET free == {e \in Ids : Free(e)} IN
  /\ batch[p] = {} /\ free # {}
  /\ \E rows \in SUBSET free :
       /\ rows = free \/ Cardinality(rows) = BatchSize
       /\ Cardinality(rows) <= BatchSize
       /\ \A d \in rows, e \in free \ rows : d < e
       /\ batch' = [batch EXCEPT ![p] = rows]
  /\ UNCHANGED <<row, sent, rollbacks, broker, consumer>>

\* The next row goes out: the exchange copies it to the queue, or drops it,
\* and confirms it either way.
Publish(p, e) ==
  /\ e \in batch[p] \ sent[p]
  /\ \A d \in batch[p] \ sent[p] : e <= d
  /\ IF bound THEN Enqueue(e) ELSE UNCHANGED queue
  /\ sent' = [sent EXCEPT ![p] = @ \cup {e}]
  /\ UNCHANGED <<row, batch, rollbacks, bound, dlq, dups, consumer>>

\* Mutant: the rows are marked before they are all published.
CommitBatchEarly(p) ==
  /\ batch[p] # {}
  /\ row' = [e \in Ids |-> IF e \in batch[p] THEN "published" ELSE row[e]]
  /\ batch' = [batch EXCEPT ![p] = {}]
  /\ sent' = [sent EXCEPT ![p] = {}]
  /\ UNCHANGED <<rollbacks, broker, consumer>>

\* published_at is set for the whole batch, with the commit.
CommitBatch(p) ==
  /\ batch[p] # {} /\ sent[p] = batch[p]
  /\ row' = [e \in Ids |-> IF e \in batch[p] THEN "published" ELSE row[e]]
  /\ batch' = [batch EXCEPT ![p] = {}]
  /\ sent' = [sent EXCEPT ![p] = {}]
  /\ UNCHANGED <<rollbacks, broker, consumer>>

\* A publication is not confirmed (whether or not the broker has it), the
\* commit fails or the process dies: everything published stays unmarked.
Rollback(p) ==
  /\ batch[p] # {}
  /\ rollbacks < MaxRollbacks
  /\ rollbacks' = rollbacks + 1
  /\ batch' = [batch EXCEPT ![p] = {}]
  /\ sent' = [sent EXCEPT ![p] = {}]
  /\ \/ UNCHANGED queue
     \/ bound /\ \E e \in batch[p] \ sent[p] :
                   (\A d \in batch[p] \ sent[p] : e <= d) /\ Enqueue(e)
  /\ UNCHANGED <<row, bound, dlq, dups, consumer>>

-----------------------------------------------------------------------------
(* The consumer: startConsumer of the bus, processedOnce of the service.   *)

\* The consumer declares its queue and binds it to the exchange; it does so
\* again, to no effect, after every reconnect.
Bind ==
  /\ bound' = TRUE
  /\ UNCHANGED <<producer, queue, dlq, dups, consumer>>

Deliver(c, e) ==
  /\ pc[c] = "idle" /\ queue[e] > 0
  /\ queue' = [queue EXCEPT ![e] = @ - 1]
  /\ hand' = [hand EXCEPT ![c] = e]
  /\ Goto(c, "claim")
  /\ UNCHANGED <<producer, bound, dlq, dups, processed, applied, crashes, failures>>

\* Mutant: the claim does not look whether the message was processed.
ClaimAgain(c) ==
  /\ pc[c] = "claim"
  /\ \A b \in Consumers : ~(pc[b] = "apply" /\ hand[b] = hand[c])
  /\ Goto(c, "apply")
  /\ UNCHANGED <<producer, broker, hand, processed, applied, crashes, failures>>

\* INSERT ... ON CONFLICT DO NOTHING: an insert of the same messageId that
\* has not ended makes this one wait, one that has committed makes it skip.
Claim(c) ==
  /\ pc[c] = "claim"
  /\ \A b \in Consumers : ~(pc[b] = "apply" /\ hand[b] = hand[c])
  /\ Goto(c, IF hand[c] \in processed THEN "ack" ELSE "apply")
  /\ UNCHANGED <<producer, broker, hand, processed, applied, crashes, failures>>

\* The mutation and the claim commit together.
Effect(c) ==
  /\ processed' = processed \cup {hand[c]}
  /\ applied' = [applied EXCEPT ![hand[c]] = @ + 1]

Apply(c) ==
  /\ pc[c] = "apply"
  /\ Effect(c)
  /\ Goto(c, "ack")
  /\ UNCHANGED <<producer, broker, hand, crashes, failures>>

\* The handler throws: before its commit, or from a commit that went through.
Fail(c) ==
  /\ pc[c] \in {"claim", "apply"}
  /\ failures < MaxFailures
  /\ failures' = failures + 1
  /\ UNCHANGED <<processed, applied>> \/ (pc[c] = "apply" /\ Effect(c))
  /\ Goto(c, "nack")
  /\ UNCHANGED <<producer, broker, hand, crashes>>

Release(c) == Goto(c, "idle") /\ hand' = [hand EXCEPT ![c] = NoId]

Ack(c) ==
  /\ pc[c] = "ack"
  /\ Release(c)
  /\ UNCHANGED <<producer, broker, processed, applied, crashes, failures>>

\* Mutant: the handler's error is swallowed, no dead-letter queue.
NackDropped(c) ==
  /\ pc[c] = "nack"
  /\ Release(c)
  /\ UNCHANGED <<producer, broker, processed, applied, crashes, failures>>

Nack(c) ==
  /\ pc[c] = "nack"
  /\ dlq' = dlq \cup {hand[c]}
  /\ Release(c)
  /\ UNCHANGED <<producer, bound, queue, dups, processed, applied, crashes, failures>>

\* The connection drops: the broker queues the unacknowledged copy again,
\* while the handler, which does not notice, runs on.
Redeliver(c) ==
  /\ pc[c] # "idle" /\ dups < MaxDuplicates
  /\ dups' = dups + 1
  /\ Enqueue(hand[c])
  /\ UNCHANGED <<producer, bound, dlq, consumer>>

\* The consumer process dies: its open claims roll back and whatever it had
\* not acknowledged is queued again.
Crash ==
  /\ crashes < MaxCrashes
  /\ crashes' = crashes + 1
  /\ queue' = [e \in Ids |-> queue[e] + Cardinality({c \in Consumers : hand[c] = e})]
  /\ pc' = [c \in Consumers |-> "idle"]
  /\ hand' = [c \in Consumers |-> NoId]
  /\ UNCHANGED <<producer, bound, dlq, dups, processed, applied, failures>>

-----------------------------------------------------------------------------
Next ==
  \/ \E e \in Ids : EnqueueEvent(e) \/ Commit(e) \/ Abort(e)
  \/ \E p \in Pollers :
       Select(p) \/ (\E e \in Ids : Publish(p, e)) \/ CommitBatch(p) \/ Rollback(p)
  \/ Bind
  \/ \E c \in Consumers :
       \/ \E e \in Ids : Deliver(c, e)
       \/ Claim(c) \/ Apply(c) \/ Fail(c) \/ Ack(c) \/ Nack(c) \/ Redeliver(c)
  \/ Crash

Spec == Init /\ [][Next]_vars

\* The poller ticks for ever, a broker confirms what it gets, the consumer
\* process comes up, and PostgreSQL wakes who waits for a claim.  Nothing is
\* assumed of domain transactions or of disturbances.
Fairness ==
  /\ \A p \in Pollers :
       WF_vars(Select(p) \/ (\E e \in Ids : Publish(p, e)) \/ CommitBatch(p))
  /\ WF_vars(Bind)
  /\ \A e \in Ids : WF_vars(\E c \in Consumers : Deliver(c, e))
  /\ \A c \in Consumers :
       WF_vars(Claim(c)) /\ WF_vars(Apply(c)) /\ WF_vars(Ack(c) \/ Nack(c))

FairSpec == Spec /\ Fairness

-----------------------------------------------------------------------------
(* Properties.                                                             *)

\* Every variable keeps its shape; a poller has published rows of its batch
\* only, so that nothing it rolled back counts as published later.
TypeOK ==
  /\ row \in [Ids -> {"none", "open", "aborted", "unpublished", "published"}]
  /\ batch \in [Pollers -> SUBSET Ids] /\ sent \in [Pollers -> SUBSET Ids]
  /\ \A p \in Pollers : sent[p] \subseteq batch[p]
  /\ bound \in BOOLEAN
  /\ queue \in [Ids -> Nat] /\ dlq \subseteq Ids
  /\ pc \in [Consumers -> {"idle", "claim", "apply", "ack", "nack"}]
  /\ hand \in [Consumers -> Ids \cup {NoId}]
  /\ processed \subseteq Ids /\ applied \in [Ids -> Nat]
  /\ {rollbacks, dups, crashes, failures} \subseteq Nat

\* Pollers work on disjoint batches of committed, unmarked rows: what
\* FOR UPDATE SKIP LOCKED is for.
DisjointBatches ==
  \A p \in Pollers : \A e \in batch[p] :
    /\ row[e] = "unpublished"
    /\ \A q \in Pollers \ {p} : e \notin batch[q]

Recorded(e) == row[e] \in {"unpublished", "published"}

\* Copies of the event that will still be handled.
InFlight(e) ==
  queue[e] > 0 \/ \E c \in Consumers : hand[c] = e /\ pc[c] \in {"claim", "apply", "nack"}

\* A recorded event that has had no effect is still to be published, on its
\* way, or dead-lettered: no order of publication, mark, delivery, commit,
\* acknowledgement and crash loses it.
NothingLost ==
  \A e \in Ids : Recorded(e) /\ e \notin processed =>
    row[e] = "unpublished" \/ InFlight(e) \/ e \in dlq

\* The stream implements the log of events that take effect once: each
\* step records, parks or applies one event, or changes nothing a user sees.
LogState ==
  [e \in Ids |-> CASE e \in processed -> "effected"
                   [] e \in dlq /\ e \notin processed -> "parked"
                   [] Recorded(e) /\ e \notin processed \cup dlq -> "recorded"
                   [] OTHER -> "none"]
Log == INSTANCE EventLog WITH state <- LogState, effects <- applied
ImplementsEventLog == Log!Spec

\* Every recorded event eventually takes effect or waits in the dead-letter
\* queue, with several pollers and deliveries and in spite of rollbacks,
\* redeliveries and crashes.
EveryEventHandled == \A e \in Ids : Recorded(e) ~> (e \in processed \/ e \in dlq)

=============================================================================
