------------------------ MODULE OutboxDeliveryProofs ------------------------
(***************************************************************************)
(* Proofs about the event stream, for every set of events, pollers and     *)
(* deliveries and any number of disturbances: it implements EventLog, and  *)
(* once the consumer's queue exists it loses nothing.                      *)
(***************************************************************************)
EXTENDS OutboxDelivery, FiniteSetTheorems, TLAPS

\* Whatever is queued, in hand, dead-lettered or processed was recorded.
CopiesRecorded ==
  /\ \A e \in Ids : queue[e] > 0 => Recorded(e)
  /\ \A c \in Consumers : pc[c] # "idle" => hand[c] \in Ids /\ Recorded(hand[c])
  /\ \A c \in Consumers : pc[c] = "idle" => hand[c] = NoId
  /\ \A e \in dlq \cup processed : Recorded(e)

\* The claim in processed_messages is the only way to an effect.
ClaimsHold ==
  /\ \A e \in Ids : applied[e] = IF e \in processed THEN 1 ELSE 0
  /\ \A c \in Consumers :
       pc[c] = "apply" =>
         /\ hand[c] \notin processed
         /\ \A b \in Consumers : pc[b] = "apply" /\ hand[b] = hand[c] => b = c

Inv == TypeOK /\ DisjointBatches /\ CopiesRecorded /\ ClaimsHold

-----------------------------------------------------------------------------
LEMMA IdsNat == \A e \in Ids : e \in Nat /\ e # NoId
  BY IdsAssumption DEF NoId

LEMMA InitInv == Init => Inv
  BY BoundsAssumption
  DEF Init, Inv, TypeOK, DisjointBatches, CopiesRecorded, ClaimsHold, Recorded

LEMMA InHand ==
  ASSUME Inv, NEW c \in Consumers, pc[c] # "idle"
  PROVE  hand[c] \in Ids /\ Recorded(hand[c])
  BY DEF Inv, CopiesRecorded

\* The number of copies a crash puts back.
LEMMA Requeued ==
  ASSUME NEW e
  PROVE  LET held == {c \in Consumers : hand[c] = e} IN
         Cardinality(held) \in Nat /\ (Cardinality(held) > 0 <=> held # {})
<1> DEFINE held == {c \in Consumers : hand[c] = e}
<1>1. IsFiniteSet(held) BY ConsumersAssumption, FS_Subset
<1> QED BY <1>1, FS_CardinalityType, FS_EmptySet

-----------------------------------------------------------------------------
(* Producer.                                                               *)

ProducerStep ==
  \/ \E e \in Ids : EnqueueEvent(e) \/ Commit(e) \/ Abort(e)
  \/ \E p \in Pollers :
       Select(p) \/ (\E e \in Ids : Publish(p, e)) \/ CommitBatch(p) \/ Rollback(p)

LEMMA ProducerInv ==
  ASSUME Inv, ProducerStep
  PROVE  Inv'
<1> USE DEF Inv, ProducerStep, producer, broker, consumer
<1>1. UNCHANGED <<dlq, pc, hand, processed, applied>>
  BY DEF EnqueueEvent, Commit, Abort, Select, Publish, CommitBatch, Rollback
<1>2. TypeOK'
  BY DEF TypeOK, EnqueueEvent, Commit, Abort, Select, Publish, CommitBatch, Rollback, SetRow, Enqueue
<1>3. \A e \in Ids : Recorded(e) => Recorded(e)'
  BY DEF TypeOK, Recorded, EnqueueEvent, Commit, Abort, Select, Publish, CommitBatch, Rollback,
         SetRow, DisjointBatches
<1>4. \A e \in Ids : queue'[e] > 0 => queue[e] > 0 \/ Recorded(e)
  BY DEF TypeOK, Recorded, EnqueueEvent, Commit, Abort, Select, Publish, CommitBatch, Rollback,
         DisjointBatches, Enqueue
<1>5. DisjointBatches'
  <2>1. CASE \E e \in Ids : EnqueueEvent(e) \/ Commit(e) \/ Abort(e)
    BY <2>1 DEF EnqueueEvent, Commit, Abort, SetRow, DisjointBatches, TypeOK
  <2>2. CASE \E p \in Pollers : Select(p)
    BY <2>2 DEF Select, Free, DisjointBatches, TypeOK
  <2>3. CASE \E p \in Pollers, e \in Ids : Publish(p, e)
    BY <2>3 DEF Publish, DisjointBatches
  <2>4. CASE \E p \in Pollers : CommitBatch(p)
    BY <2>4 DEF CommitBatch, DisjointBatches, TypeOK
  <2>5. CASE \E p \in Pollers : Rollback(p)
    BY <2>5 DEF Rollback, DisjointBatches, TypeOK
  <2> QED BY <2>1, <2>2, <2>3, <2>4, <2>5
<1>6. CopiesRecorded'
  BY <1>1, <1>3, <1>4 DEF CopiesRecorded, TypeOK
<1>7. ClaimsHold'
  BY <1>1 DEF ClaimsHold
<1> QED BY <1>2, <1>5, <1>6, <1>7

-----------------------------------------------------------------------------
(* Consumer.                                                               *)

LEMMA ConsumerInv ==
  ASSUME Inv, NEW c \in Consumers,
         \/ \E e \in Ids : Deliver(c, e)
         \/ Claim(c) \/ Apply(c) \/ Fail(c) \/ Ack(c) \/ Nack(c) \/ Redeliver(c)
  PROVE  Inv'
<1> USE DEF Inv, producer, broker, consumer
<1>1. UNCHANGED <<row, batch, sent>>
  BY DEF Deliver, Claim, Apply, Fail, Ack, Nack, Redeliver
<1>2. DisjointBatches' /\ \A e : Recorded(e)' <=> Recorded(e)
  BY <1>1 DEF DisjointBatches, Recorded
<1>3. pc[c] # "idle" => hand[c] \in Ids
  BY InHand
<1>4. TypeOK'
  BY <1>1, <1>3 DEF TypeOK, Deliver, Claim, Apply, Fail, Ack, Nack, Redeliver, Release, Effect,
                    Enqueue, Goto
<1>5. CopiesRecorded'
  BY <1>2, <1>3 DEF CopiesRecorded, TypeOK, Deliver, Claim, Apply, Fail, Ack, Nack, Redeliver, Release,
                    Effect, Enqueue, Goto
<1>6. ClaimsHold'
  <2>1. CASE \E e \in Ids : Deliver(c, e)
    BY <2>1 DEF ClaimsHold, TypeOK, Deliver, Goto
  <2>2. CASE Claim(c)
    BY <2>2 DEF ClaimsHold, TypeOK, Claim, Goto
  <2>3. CASE Apply(c) \/ Fail(c)
    BY <1>3, <2>3 DEF ClaimsHold, TypeOK, Apply, Fail, Effect, Goto
  <2>4. CASE Ack(c) \/ Nack(c)
    BY <2>4 DEF ClaimsHold, TypeOK, Ack, Nack, Release, Goto
  <2>5. CASE Redeliver(c)
    BY <2>5 DEF ClaimsHold, Redeliver
  <2> QED BY <2>1, <2>2, <2>3, <2>4, <2>5
<1> QED BY <1>2, <1>4, <1>5, <1>6

LEMMA CrashInv ==
  ASSUME Inv, Crash
  PROVE  Inv'
<1> USE DEF Inv, producer
<1>1. \A e \in Ids : /\ queue'[e] \in Nat
                     /\ queue'[e] > 0 => queue[e] > 0 \/ \E c \in Consumers : hand[c] = e
  <2> SUFFICES ASSUME NEW e \in Ids
               PROVE  /\ queue'[e] \in Nat
                      /\ queue'[e] > 0 => queue[e] > 0 \/ \E c \in Consumers : hand[c] = e
    OBVIOUS
  <2> DEFINE held == {c \in Consumers : hand[c] = e}
  <2>1. queue[e] \in Nat /\ queue'[e] = queue[e] + Cardinality(held)
    BY DEF Crash, TypeOK
  <2>2. Cardinality(held) \in Nat /\ (Cardinality(held) > 0 <=> held # {})
    BY Requeued
  <2>3. held # {} => \E c \in Consumers : hand[c] = e
    OBVIOUS
  <2> HIDE DEF held
  <2> QED BY <2>1, <2>2, <2>3
<1>2. TypeOK'
  BY <1>1 DEF Crash, TypeOK
<1>3. CopiesRecorded'
  BY <1>1, IdsNat DEF Crash, CopiesRecorded, Recorded
<1>4. DisjointBatches' /\ ClaimsHold'
  BY DEF Crash, DisjointBatches, ClaimsHold
<1> QED BY <1>2, <1>3, <1>4

LEMMA NextInv == Inv /\ [Next]_vars => Inv'
<1> SUFFICES ASSUME Inv, [Next]_vars PROVE Inv'
  OBVIOUS
<1>1. CASE Bind
  BY <1>1 DEF Bind, producer, consumer, Inv, TypeOK, DisjointBatches, CopiesRecorded, ClaimsHold,
              Recorded
<1>2. CASE UNCHANGED vars
  BY <1>2 DEF vars, producer, broker, consumer, Inv, TypeOK, DisjointBatches, CopiesRecorded,
              ClaimsHold, Recorded
<1> QED BY <1>1, <1>2, ProducerInv, ConsumerInv, CrashInv DEF Next, ProducerStep

LEMMA Invariant == Spec => []Inv
<1>1. Init => Inv BY InitInv
<1>2. Inv /\ [Next]_vars => Inv' BY NextInv
<1> QED BY <1>1, <1>2, PTL DEF Spec

\* Batches stay disjoint and types correct, however pollers, deliveries and
\* crashes interleave.
THEOREM TypeCorrect == Spec => []TypeOK
<1>1. Inv => TypeOK BY DEF Inv
<1> QED BY <1>1, Invariant, PTL

\* No two pollers ever hold, and so publish, the same row.
THEOREM BatchesDisjoint == Spec => []DisjointBatches
<1>1. Inv => DisjointBatches BY DEF Inv
<1> QED BY <1>1, Invariant, PTL

-----------------------------------------------------------------------------
(* The event log.                                                          *)

LEMMA SameLog ==
  ASSUME UNCHANGED <<processed, dlq, applied>>, \A e \in Ids : Recorded(e)' <=> Recorded(e)
  PROVE  UNCHANGED Log!logVars
  BY DEF Log!logVars, LogState

LEMMA StepsLog ==
  ASSUME Inv, [Next]_vars
  PROVE  [Log!Next]_(Log!logVars)
<1> USE DEF Inv, producer, broker, consumer
<1>1. CASE \E e \in Ids : Commit(e)
  <2>1. PICK e \in Ids : Commit(e) BY <1>1
  <2>2. /\ UNCHANGED <<processed, dlq, applied>>
        /\ ~Recorded(e) /\ Recorded(e)' /\ \A d \in Ids \ {e} : Recorded(d)' <=> Recorded(d)
    BY <2>1 DEF Commit, SetRow, Recorded, TypeOK
  <2>3. e \notin processed \cup dlq
    BY <2>2 DEF CopiesRecorded
  <2>4. LogState[e] = "none" /\ LogState' = [LogState EXCEPT ![e] = "recorded"]
    BY <2>2, <2>3 DEF LogState
  <2>5. Log!Record(e)
    BY <2>2, <2>4 DEF Log!Record, Log!Move
  <2> QED BY <2>5 DEF Log!Next
<1>2. ASSUME NEW c \in Consumers, pc[c] = "apply", Effect(c), UNCHANGED <<row, dlq>>
      PROVE  Log!Next
  <2> DEFINE e == hand[c]
  <2>1. e \in Ids /\ Recorded(e) /\ e \notin processed
    BY <1>2, InHand DEF ClaimsHold
  <2>2. processed' = processed \cup {e} /\ applied' = [applied EXCEPT ![e] = @ + 1]
    BY <1>2 DEF Effect
  <2>3. \A d : Recorded(d)' <=> Recorded(d)
    BY <1>2 DEF Recorded
  <2> HIDE DEF e
  <2>4. LogState[e] \in {"recorded", "parked"} /\ LogState' = [LogState EXCEPT ![e] = "effected"]
    BY <1>2, <2>1, <2>2, <2>3 DEF LogState
  <2>5. Log!Effect(e)
    BY <2>2, <2>4 DEF Log!Effect, Log!Move
  <2> QED BY <2>1, <2>5 DEF Log!Next
<1>3. CASE \E c \in Consumers : Nack(c)
  <2>1. PICK c \in Consumers : Nack(c) BY <1>3
  <2> DEFINE e == hand[c]
  <2>2. e \in Ids /\ Recorded(e) /\ dlq' = dlq \cup {e} /\ UNCHANGED <<row, processed, applied>>
    BY <2>1, InHand DEF Nack
  <2>3. \A d : Recorded(d)' <=> Recorded(d)
    BY <2>2 DEF Recorded
  <2> HIDE DEF e
  <2>4. CASE e \in processed \cup dlq
    <3>1. LogState' = LogState BY <2>2, <2>3, <2>4 DEF LogState
    <3> QED BY <2>2, <3>1 DEF Log!logVars
  <2>5. CASE e \notin processed \cup dlq
    <3>1. LogState[e] = "recorded" /\ LogState' = [LogState EXCEPT ![e] = "parked"]
      BY <2>2, <2>3, <2>5 DEF LogState
    <3>2. Log!Park(e) BY <2>2, <3>1 DEF Log!Park, Log!Move
    <3> QED BY <2>2, <3>2 DEF Log!Next
  <2> QED BY <2>4, <2>5
<1>4. CASE \E c \in Consumers : Apply(c) \/ Fail(c)
  <2>1. PICK c \in Consumers : Apply(c) \/ Fail(c) BY <1>4
  <2>2. UNCHANGED <<row, dlq>> /\ (UNCHANGED <<processed, applied>> \/ (pc[c] = "apply" /\ Effect(c)))
    BY <2>1 DEF Apply, Fail
  <2> QED BY <1>2, <2>2, SameLog DEF Recorded
<1>5. CASE UNCHANGED <<processed, dlq, applied>> /\ \A e \in Ids : Recorded(e)' <=> Recorded(e)
  BY <1>5, SameLog
<1>6. ASSUME ~(\E e \in Ids : Commit(e)), ~(\E c \in Consumers : Nack(c) \/ Apply(c) \/ Fail(c))
      PROVE  UNCHANGED <<processed, dlq, applied>> /\ \A e \in Ids : Recorded(e)' <=> Recorded(e)
  <2>1. UNCHANGED <<processed, dlq, applied>>
    BY <1>6 DEF Next, vars, EnqueueEvent, Abort, Select, Publish, CommitBatch, Rollback, Bind, Deliver,
                Claim, Ack, Redeliver, Crash
  <2>2. row' = row \/ (\E e \in Ids : EnqueueEvent(e) \/ Abort(e)) \/ (\E p \in Pollers : CommitBatch(p))
    BY <1>6 DEF Next, vars, Select, Publish, Rollback, Bind, Deliver, Claim, Ack, Redeliver, Crash
  <2>3. \A e \in Ids : Recorded(e)' <=> Recorded(e)
    BY <2>2 DEF Recorded, EnqueueEvent, Abort, SetRow, CommitBatch, DisjointBatches, TypeOK
  <2> QED BY <2>1, <2>3
<1> QED BY <1>1, <1>3, <1>4, <1>5, <1>6

\* Every behaviour of the stream is one of the event log: an effect takes
\* place only after its event was recorded, and exactly once.
THEOREM Implements == Spec => ImplementsEventLog
<1>1. Init => Log!Init
  BY DEF Init, Log!Init, LogState, Recorded
<1>2. Inv /\ [Next]_vars => [Log!Next]_(Log!logVars)
  BY StepsLog
<1> QED BY <1>1, <1>2, Invariant, PTL DEF Spec, ImplementsEventLog, Log!Spec

-----------------------------------------------------------------------------
(* With the consumer's queue in place, nothing is lost.                    *)

Handled(e) == e \in processed \/ e \in dlq \/ InFlight(e)

\* Published rows, marked or not, are handled or still on their way; a
\* delivery acknowledges only what was processed.
LostInv ==
  /\ bound
  /\ \A p \in Pollers : \A e \in sent[p] : Handled(e)
  /\ \A e \in Ids : row[e] = "published" => Handled(e)
  /\ \A c \in Consumers : pc[c] = "ack" => hand[c] \in processed

\* No step loses what was handed to the broker.
LEMMA HandledStays ==
  ASSUME Inv, LostInv, [Next]_vars, NEW e \in Ids, Handled(e)
  PROVE  Handled(e)'
<1> USE DEF Inv, producer, broker, consumer
<1>1. processed \subseteq processed' /\ dlq \subseteq dlq'
  BY DEF Next, vars, EnqueueEvent, Commit, Abort, Select, Publish, CommitBatch, Rollback, Bind,
         Deliver, Claim, Apply, Fail, Effect, Ack, Nack, Redeliver, Crash
<1>2. CASE e \in processed \/ e \in dlq
  BY <1>1, <1>2 DEF Handled
<1>3. CASE ProducerStep \/ Bind \/ UNCHANGED vars
  <2>1. UNCHANGED <<pc, hand>> /\ (queue[e] > 0 => queue'[e] > 0)
    BY <1>3 DEF ProducerStep, vars, EnqueueEvent, Commit, Abort, Select, Publish, CommitBatch,
         Rollback, Bind, Enqueue, TypeOK
  <2> QED BY <1>1, <2>1 DEF Handled, InFlight
<1>4. CASE Crash
  <2>1. queue[e] > 0 \/ (\E c \in Consumers : hand[c] = e) => queue'[e] > 0
    <3> DEFINE held == {c \in Consumers : hand[c] = e}
    <3>1. queue[e] \in Nat /\ queue'[e] = queue[e] + Cardinality(held)
      BY <1>4 DEF Crash, TypeOK
    <3>2. Cardinality(held) \in Nat /\ (Cardinality(held) > 0 <=> held # {})
      BY Requeued
    <3>3. (\E c \in Consumers : hand[c] = e) => held # {}
      OBVIOUS
    <3> HIDE DEF held
    <3> QED BY <3>1, <3>2, <3>3
  <2> QED BY <1>1, <2>1 DEF Handled, InFlight
<1>5. ASSUME NEW c \in Consumers,
             \/ \E d \in Ids : Deliver(c, d)
             \/ Claim(c) \/ Apply(c) \/ Fail(c) \/ Ack(c) \/ Nack(c) \/ Redeliver(c),
             e \notin processed, e \notin dlq
      PROVE  Handled(e)'
  <2>1. \A b \in Consumers \ {c} : pc'[b] = pc[b] /\ hand'[b] = hand[b]
    BY <1>5 DEF Deliver, Claim, Apply, Fail, Ack, Nack, Redeliver, Release, Goto, TypeOK
  <2>2. CASE \E b \in Consumers \ {c} : hand[b] = e /\ pc[b] \in {"claim", "apply", "nack"}
    BY <2>1, <2>2 DEF Handled, InFlight
  <2>3. CASE hand[c] = e /\ pc[c] \in {"claim", "apply", "nack"}
    BY <1>5, <2>3 DEF Handled, InFlight, Deliver, Claim, Apply, Fail, Ack, Nack, Redeliver, Release,
                      Goto, Effect, TypeOK
  <2>4. CASE queue[e] > 0
    BY <1>5, <2>4 DEF Handled, InFlight, Deliver, Claim, Apply, Fail, Ack, Nack, Redeliver, Enqueue,
                      Goto, TypeOK
  <2> QED BY <1>5, <2>2, <2>3, <2>4 DEF Handled, InFlight
<1> QED BY <1>2, <1>3, <1>4, <1>5 DEF Next, ProducerStep

LEMMA NextLost == Inv /\ LostInv /\ [Next]_vars => LostInv'
<1> SUFFICES ASSUME Inv, LostInv, [Next]_vars PROVE LostInv'
  OBVIOUS
<1> USE DEF Inv, producer, broker, consumer
<1>1. bound'
  BY DEF LostInv, Next, vars, EnqueueEvent, Commit, Abort, Select, Publish, CommitBatch, Rollback,
         Bind, Deliver, Claim, Apply, Fail, Ack, Nack, Redeliver, Crash
<1>2. \A p \in Pollers : \A e \in sent'[p] : Handled(e)'
  <2> SUFFICES ASSUME NEW p \in Pollers, NEW e \in sent'[p] PROVE Handled(e)'
    OBVIOUS
  <2>1. CASE e \in sent[p]
    BY <2>1, HandledStays DEF LostInv, TypeOK
  <2>2. CASE e \notin sent[p]
    <3>1. Publish(p, e) /\ e \in Ids
      BY <2>2 DEF TypeOK, Next, vars, EnqueueEvent, Commit, Abort, Select, Publish, CommitBatch,
           Rollback, Bind, Deliver, Claim, Apply, Fail, Ack, Nack, Redeliver, Crash
    <3>2. queue'[e] > 0 BY <3>1 DEF LostInv, Publish, Enqueue, TypeOK
    <3> QED BY <3>2 DEF Handled, InFlight
  <2> QED BY <2>1, <2>2
<1>3. \A e \in Ids : row'[e] = "published" => Handled(e)'
  <2> SUFFICES ASSUME NEW e \in Ids, row'[e] = "published" PROVE Handled(e)'
    OBVIOUS
  <2>1. row[e] = "published" \/ \E p \in Pollers : e \in sent[p]
    BY DEF TypeOK, Next, vars, EnqueueEvent, Commit, Abort, SetRow, Select, Publish, CommitBatch,
           Rollback, Bind, Deliver, Claim, Apply, Fail, Ack, Nack, Redeliver, Crash
  <2> QED BY <2>1, HandledStays DEF LostInv
<1>4. \A c \in Consumers : pc'[c] = "ack" => hand'[c] \in processed'
  <2>1. processed \subseteq processed'
    BY DEF Next, vars, EnqueueEvent, Commit, Abort, Select, Publish, CommitBatch, Rollback, Bind,
           Deliver, Claim, Apply, Fail, Effect, Ack, Nack, Redeliver, Crash
  <2>2. CASE UNCHANGED <<pc, hand>>
    BY <2>1, <2>2 DEF LostInv
  <2>3. CASE \E c \in Consumers, e \in Ids : Deliver(c, e)
    BY <2>1, <2>3 DEF LostInv, Deliver, Goto, TypeOK
  <2>4. CASE \E c \in Consumers : Claim(c)
    BY <2>1, <2>4 DEF LostInv, Claim, Goto, TypeOK
  <2>5. CASE \E c \in Consumers : Apply(c) \/ Fail(c)
    BY <2>1, <2>5 DEF LostInv, Apply, Fail, Effect, Goto, TypeOK
  <2>6. CASE \E c \in Consumers : Ack(c) \/ Nack(c)
    BY <2>1, <2>6 DEF LostInv, Ack, Nack, Release, Goto, TypeOK
  <2>7. CASE Crash
    BY <2>7 DEF Crash
  <2> QED BY <2>2, <2>3, <2>4, <2>5, <2>6, <2>7
          DEF Next, vars, EnqueueEvent, Commit, Abort, Select, Publish, CommitBatch, Rollback, Bind,
              Redeliver
<1> QED BY <1>1, <1>2, <1>3, <1>4 DEF LostInv

\* If the consumer's queue exists when polling begins, no recorded event is
\* ever lost: it took effect, waits in the dead-letter queue, is on its way or
\* still unpublished.
THEOREM Delivered ==
  ASSUME BoundAtStart
  PROVE  Spec => []NothingLost
<1>1. Init => LostInv
  BY BoundAtStart DEF Init, LostInv, Handled
<1>2. Inv /\ LostInv /\ [Next]_vars => LostInv'
  BY NextLost
<1>3. LostInv => NothingLost
  BY DEF LostInv, NothingLost, Handled, Recorded
<1> QED BY <1>1, <1>2, <1>3, Invariant, PTL DEF Spec
=============================================================================
