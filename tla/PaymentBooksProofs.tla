------------------------- MODULE PaymentBooksProofs -------------------------
(***************************************************************************)
(* Proofs about the provider's books: without a disturbance a charge has   *)
(* one carrier at a time, hence is taken once; refunds are made once as    *)
(* long as nothing crashes or fails; and, disturbed or not, the service    *)
(* implements the ledger.                                                  *)
(***************************************************************************)
EXTENDS PaymentServiceProofs

\* A set of at most one element counts as whether it has one.
LEMMA CountOfOne ==
  ASSUME NEW S, \A x, y \in S : x = y
  PROVE  Cardinality(S) = Count(S # {})
<1>1. CASE S = {}
  BY <1>1, FS_EmptySet DEF Count
<1>2. CASE S # {}
  <2>1. PICK x \in S : S = {x} BY <1>2
  <2>2. Cardinality({x}) = 1 BY FS_Singleton
  <2> QED BY <1>2, <2>1, <2>2 DEF Count
<1> QED BY <1>1, <1>2

-----------------------------------------------------------------------------
(* One carrier.                                                            *)

Calm == dups + crashes + faults = 0

\* A message that will be handled, and a delivery that will still decide on
\* its row.  One at "commit" no longer does: its retry is parked.
Waits(m) == Chargeable(m) /\ work[m] + retry[m] > 0
AtWork(w) == pc[w] \in {"claim", "charge", "capture", "settle"}

OneCopy ==
  /\ \A m \in Message : Waits(m) => work[m] + retry[m] = 1
  /\ \A m, n \in Message : Waits(m) /\ Waits(n) /\ JobOf(m) = JobOf(n) => m = n
OneDelivery ==
  \A v, w \in Workers : AtWork(v) /\ AtWork(w) /\ Job(v) = Job(w) => v = w
CopyOrDelivery ==
  \A m \in Message, w \in Workers : Waits(m) /\ AtWork(w) => Job(w) # JobOf(m)

\* Nothing carries a charge that is settled.
CarriedUnsettled ==
  /\ \A m \in Message : Waits(m) => ~Settled(JobOf(m))
  /\ \A w \in Workers : AtWork(w) => ~Settled(Job(w))

\* The books, with the one answer that may be on its way to its row.
Answered(j) == \E w \in Workers : pc[w] = "capture" /\ Job(w) = j
Booked(j) ==
  charged[j] = Count(row[j].status \in {"captured", "refunded"}) + Count(Answered(j))

OneCarrier == OneCopy /\ OneDelivery /\ CopyOrDelivery /\ CarriedUnsettled
CalmInv == Calm => OneCarrier /\ \A j \in Jobs : Booked(j)

LEMMA NoSum == \A a, b, c \in Nat : a + b + c = 0 => a = 0 /\ b = 0 /\ c = 0
  OBVIOUS

LEMMA InitCalm == Init => CalmInv
<1> SUFFICES ASSUME Init PROVE CalmInv
  OBVIOUS
<1>1. \A m \in Message : ~Waits(m)
  BY DEF Init, Waits
<1>2. \A w \in Workers : ~AtWork(w) /\ pc[w] # "capture"
  BY DEF Init, AtWork
<1>3. \A j \in Jobs : charged[j] = 0 /\ row[j].status = "absent"
  BY DEF Init
<1> QED
  BY <1>1, <1>2, <1>3 DEF CalmInv, OneCarrier, OneCopy, OneDelivery, CopyOrDelivery,
     CarriedUnsettled, Booked, Answered, Count

\* A calm step follows a calm state, and is neither a fault nor a crash nor
\* a duplicate.
LEMMA CalmBefore ==
  ASSUME BaseInv, [Next]_vars, Calm'
  PROVE  Calm
<1>1. dups \in Nat /\ crashes \in Nat /\ faults \in Nat
  BY DEF BaseInv, TypeOK
<1>2. dups' >= dups /\ crashes' >= crashes /\ faults' >= faults
  BY <1>1 DEF Next, vars, env, Publish, Republish, Redeliver, Duplicate, Expire, Crash, Deliver,
     Handle, HandlerFault, Claim, ClaimFault, Charge, Decline, AnswerLost, Capture, CaptureFault,
     Settle, SettleFault, CommitRetry, CommitFault, Ack, Nack, Finish, Fault, Refund, RefundBegin,
     RefundAccepted, RefundDeclined, RefundCommit, RefundFault
<1>3. dups' \in Nat /\ crashes' \in Nat /\ faults' \in Nat
  BY NextBase DEF BaseInv, TypeOK
<1>4. dups' + crashes' + faults' = 0
  BY DEF Calm
<1>5. dups' = 0 /\ crashes' = 0 /\ faults' = 0
  BY <1>3, <1>4, NoSum
<1>6. dups = 0 /\ crashes = 0 /\ faults = 0
  BY <1>1, <1>2, <1>5
<1> QED BY <1>6 DEF Calm

LEMMA CalmSteps ==
  ASSUME BaseInv, AskedInv, [Next]_vars, Calm'
  PROVE  \/ \E t \in Trips, o \in Outcomes : Publish(t, o)
         \/ \E m \in Message : Expire(m)
         \/ \E w \in Workers, m \in Message : Deliver(w, m)
         \/ \E w \in Workers :
              \/ Claim(w) \/ Charge(w) \/ Decline(w) \/ Capture(w) \/ Settle(w)
              \/ CommitRetry(w) \/ Ack(w)
         \/ \E r \in Refunders : Refund(r)
         \/ UNCHANGED vars
<1>1. dups \in Nat /\ crashes \in Nat /\ faults \in Nat
  BY DEF BaseInv, TypeOK
<1>2. Calm BY CalmBefore
<1>3. dups = 0 /\ crashes = 0 /\ faults = 0
  BY <1>1, <1>2, NoSum DEF Calm
<1>4. ~Crash /\ (\A m \in Message : ~Duplicate(m)) /\ ~Fault
  <2>1. dups' \in Nat /\ crashes' \in Nat /\ faults' \in Nat
    BY NextBase DEF BaseInv, TypeOK
  <2>2. dups' = 0 /\ crashes' = 0 /\ faults' = 0
    BY <2>1, NoSum DEF Calm
  <2> QED BY <1>3, <2>2 DEF Crash, Duplicate, Fault
<1>5. \A t \in Trips : ~Republish(t)
  BY <1>4, EventOfType DEF Republish, BaseInv, TypeOK
<1>6. \A w \in Workers : ~Redeliver(w)
  BY <1>4 DEF Redeliver, Busy, BaseInv, HandlesMessage
<1>7. \A w \in Workers : ~HandlerFault(w)
  BY <1>4 DEF HandlerFault, ClaimFault, AnswerLost, CaptureFault, SettleFault, CommitFault
<1>8. \A w \in Workers : ~Nack(w)
  BY <1>3 DEF Nack, AskedInv, InHand
<1> QED BY <1>4, <1>5, <1>6, <1>7, <1>8 DEF Next, Handle

-----------------------------------------------------------------------------
(* The moves of a carrier.                                                 *)

\* A delivery goes on, or leaves its charge: settled, or with nothing to do.
LEMMA CarrierGoesOn ==
  ASSUME BaseInv, OneCarrier, NEW w \in Workers, UNCHANGED <<work, retry>>,
         \A v \in Workers : v # w => pc'[v] = pc[v] /\ handling'[v] = handling[v],
         AtWork(w)' => AtWork(w) /\ handling'[w] = handling[w],
         \A j \in Jobs : Settled(j)' => Settled(j) \/ (j = Job(w) /\ AtWork(w) /\ ~AtWork(w)')
  PROVE  OneCarrier'
<1>1. \A m \in Message : (Waits(m)' <=> Waits(m)) /\ JobOf(m) \in Jobs
  BY JobOfType DEF Waits, Chargeable
<1>2. \A v \in Workers : AtWork(v)' => /\ AtWork(v) /\ Job(v)' = Job(v)
                                       /\ Job(v) \in Jobs
  <2>1. \A v \in Workers : AtWork(v) => Job(v) \in Jobs
    BY JobInJobs DEF AtWork
  <2> QED BY <2>1 DEF AtWork, Job
<1>3. OneCopy'
  BY <1>1 DEF OneCarrier, OneCopy
<1>4. OneDelivery' /\ CopyOrDelivery'
  BY <1>1, <1>2 DEF OneCarrier, OneDelivery, CopyOrDelivery
<1>5. \A m \in Message : Waits(m)' => ~Settled(JobOf(m))'
  BY <1>1 DEF OneCarrier, CarriedUnsettled, CopyOrDelivery
<1>6. ASSUME NEW v \in Workers, AtWork(v)' PROVE ~(Settled(Job(v))')
  <2>1. Settled(Job(v))' => Settled(Job(v)) \/ (Job(v) = Job(w) /\ AtWork(w) /\ ~AtWork(w)')
    <3>1. Job(v)' = Job(v) /\ Job(v) \in Jobs BY <1>2, <1>6
    <3>2. \A j \in Jobs : j = Job(v)' => (Settled(Job(v))' <=> Settled(j)')
      BY DEF Settled
    <3> QED BY <3>1, <3>2
  <2>2. AtWork(v) /\ ~Settled(Job(v))
    BY <1>2, <1>6 DEF OneCarrier, CarriedUnsettled
  <2>3. Job(v) = Job(w) /\ AtWork(w) => v = w
    BY <2>2 DEF OneCarrier, OneDelivery
  <2> QED BY <1>6, <2>1, <2>2, <2>3
<1> QED BY <1>3, <1>4, <1>5, <1>6 DEF OneCarrier, CarriedUnsettled

\* Steps that touch no carrier and settle nothing.
LEMMA CarrierRests ==
  ASSUME BaseInv, OneCarrier, UNCHANGED <<pc, handling>>,
         \A m \in Message : work'[m] + retry'[m] = work[m] + retry[m],
         \A j \in Jobs : Settled(j)' => Settled(j)
  PROVE  OneCarrier'
<1>1. \A m \in Message : (Waits(m)' <=> Waits(m)) /\ JobOf(m) \in Jobs
  BY JobOfType DEF Waits, Chargeable
<1>2. \A v \in Workers : (AtWork(v)' <=> AtWork(v)) /\ Job(v)' = Job(v)
  BY DEF AtWork, Job
<1>3. \A v \in Workers : AtWork(v) => Job(v) \in Jobs
  BY JobInJobs DEF AtWork
<1>4. \A v \in Workers : Settled(Job(v))' <=> row'[Job(v)].status \in {"captured", "failed", "refunded"}
  BY <1>2 DEF Settled
<1>5. OneCopy'
  BY <1>1 DEF OneCarrier, OneCopy
<1>6. OneDelivery' /\ CopyOrDelivery'
  BY <1>1, <1>2 DEF OneCarrier, OneDelivery, CopyOrDelivery
<1>7. CarriedUnsettled'
  BY <1>1, <1>2, <1>3, <1>4 DEF OneCarrier, CarriedUnsettled, Settled
<1> QED BY <1>5, <1>6, <1>7 DEF OneCarrier

\* A delivery takes the one copy.
LEMMA CarrierDelivered ==
  ASSUME BaseInv, OneCarrier, NEW w \in Workers, NEW m \in Message, Deliver(w, m)
  PROVE  OneCarrier'
<1>1. /\ pc[w] = "idle" /\ work[m] > 0 /\ UNCHANGED <<retry, row>>
      /\ \A v \in Workers : v # w => pc'[v] = pc[v] /\ handling'[v] = handling[v]
      /\ pc'[w] = (IF Chargeable(m) THEN "claim" ELSE "ack") /\ handling'[w] = m
      /\ work'[m] = work[m] - 1
      /\ \A n \in Message : n # m => work'[n] = work[n]
  BY DEF Deliver, Busy, Goto, Take, db, BaseInv, TypeOK
<1>2. \A n \in Message : work[n] \in Nat /\ retry[n] \in Nat
  BY DEF BaseInv, TypeOK
<1>3. \A n \in Message : JobOf(n) \in Jobs /\ (Settled(JobOf(n))' <=> Settled(JobOf(n)))
  BY <1>1, JobOfType DEF Settled
<1>4. \A n \in Message : Waits(n)' => Waits(n) /\ n # m /\ work'[n] + retry'[n] = work[n] + retry[n]
  <2>1. Chargeable(m) => work[m] + retry[m] = 1
    BY <1>1, <1>2 DEF OneCarrier, OneCopy, Waits
  <2>2. ~Waits(m)'
    BY <1>1, <1>2, <2>1 DEF Waits, Chargeable
  <2> QED BY <1>1, <2>2 DEF Waits, Chargeable
<1>5. \A v \in Workers : v # w => (AtWork(v)' <=> AtWork(v)) /\ Job(v)' = Job(v)
  BY <1>1 DEF AtWork, Job
<1>6. Job(w)' = JobOf(m) /\ (AtWork(w)' => Waits(m))
  BY <1>1, <1>2 DEF AtWork, Job, Waits
<1>7. OneCopy'
  BY <1>4 DEF OneCarrier, OneCopy
<1>8. OneDelivery'
  BY <1>5, <1>6 DEF OneCarrier, OneDelivery, CopyOrDelivery
<1>9. CopyOrDelivery'
  BY <1>4, <1>5, <1>6 DEF OneCarrier, OneCopy, CopyOrDelivery
<1>10. \A n \in Message : Waits(n)' => ~Settled(JobOf(n))'
  BY <1>3, <1>4 DEF OneCarrier, CarriedUnsettled
<1>11. \A v \in Workers : AtWork(v)' => ~Settled(Job(v))'
  BY <1>1, <1>3, <1>5, <1>6 DEF OneCarrier, CarriedUnsettled, Settled
<1> QED BY <1>7, <1>8, <1>9, <1>10, <1>11 DEF OneCarrier, CarriedUnsettled

\* A delivery hands its charge over to the retry queue.
LEMMA CarrierParked ==
  ASSUME BaseInv, OneCarrier, NEW w \in Workers, AtWork(w), ~AtWork(w)',
         retry' = Put(retry, RetryJob(Job(w))), UNCHANGED <<work, row, handling>>,
         \A v \in Workers : v # w => pc'[v] = pc[v]
  PROVE  OneCarrier'
<1> DEFINE p == RetryJob(Job(w))
<1>1. Job(w) \in Jobs
  BY JobInJobs DEF AtWork
<1>2. p \in Message /\ JobOf(p) = Job(w) /\ Chargeable(p)
  BY <1>1, RetryJobType
<1> HIDE DEF p
<1>3. \A n \in Message : work[n] \in Nat /\ retry[n] \in Nat
  BY DEF BaseInv, TypeOK
<1>4. retry'[p] = retry[p] + 1 /\ \A n \in Message : n # p => retry'[n] = retry[n]
  <2>1. retry \in [Message -> Nat] /\ retry' = [retry EXCEPT ![p] = @ + 1]
    BY DEF BaseInv, TypeOK, Put, p
  <2> QED BY <1>2, <2>1
<1>5. \A n \in Message : Waits(n) => JobOf(n) # Job(w)
  BY DEF OneCarrier, CopyOrDelivery
<1>6. work[p] = 0 /\ retry[p] = 0
  BY <1>2, <1>3, <1>5 DEF Waits
<1>7. \A n \in Message : n # p => (Waits(n)' <=> Waits(n)) /\ work'[n] + retry'[n] = work[n] + retry[n]
  BY <1>4 DEF Waits, Chargeable
<1>8. \A v \in Workers : (AtWork(v)' => AtWork(v) /\ v # w) /\ Job(v)' = Job(v)
  BY DEF AtWork, Job
<1>9. OneCopy'
  BY <1>2, <1>4, <1>5, <1>6, <1>7 DEF OneCarrier, OneCopy
<1>10. OneDelivery'
  BY <1>8 DEF OneCarrier, OneDelivery
<1>11. CopyOrDelivery'
  BY <1>2, <1>7, <1>8 DEF OneCarrier, CopyOrDelivery, OneDelivery
<1>12. CarriedUnsettled'
  <2>1. \A n \in Message : Settled(JobOf(n))' <=> Settled(JobOf(n))
    BY DEF Settled
  <2>2. \A v \in Workers : Settled(Job(v))' <=> Settled(Job(v))
    BY <1>8 DEF Settled
  <2> QED BY <1>2, <1>7, <1>8, <2>1, <2>2 DEF OneCarrier, CarriedUnsettled
<1> QED BY <1>9, <1>10, <1>11, <1>12 DEF OneCarrier

\* A trip that ends has no carrier yet.
LEMMA CarrierPublished ==
  ASSUME BaseInv, AskedInv, OneCarrier, NEW t \in Trips, NEW o \in Outcomes, Publish(t, o)
  PROVE  OneCarrier'
<1> DEFINE p == EventOf(t, o)
<1>1. p \in Message /\ JobOf(p).trip = t
  BY EventOfType DEF EventOf, Completed, Cancelled, JobOf
<1>2. \A n \in Message : work[n] \in Nat /\ retry[n] \in Nat /\ JobOf(n) \in Jobs
  BY JobOfType DEF BaseInv, TypeOK
<1>3. /\ outcome[t] = "open" /\ UNCHANGED <<row, pc, handling, retry>>
      /\ work' = Put(work, p)
  BY DEF Publish, db, handler
<1>4. \A j \in Jobs : j.trip = t => ~Asked(j)
  BY <1>3 DEF Asked
<1> HIDE DEF p
<1>5. work'[p] = work[p] + 1 /\ \A n \in Message : n # p => work'[n] = work[n]
  <2>1. work \in [Message -> Nat] /\ work' = [work EXCEPT ![p] = @ + 1]
    BY <1>3 DEF BaseInv, TypeOK, Put
  <2> QED BY <1>1, <2>1
<1>6. \A n \in Message : Waits(n) => JobOf(n).trip # t
  <2>1. \A n \in Message : Waits(n) => Asked(JobOf(n))
    BY <1>2 DEF Waits, AskedInv, AskedMessages
  <2> QED BY <1>2, <1>4, <2>1
<1>7. \A v \in Workers : AtWork(v) => Job(v).trip # t
  <2>1. \A v \in Workers : AtWork(v) => Asked(Job(v)) /\ Job(v) \in Jobs
    BY JobInJobs DEF AtWork, AskedInv, AskedMessages, InHand, Busy, BaseInv, HandlesMessage, Job
  <2> QED BY <1>4, <2>1
<1>8. \A n \in Message : n # p => (Waits(n)' <=> Waits(n)) /\ work'[n] + retry'[n] = work[n] + retry[n]
  BY <1>3, <1>5 DEF Waits, Chargeable
<1>9. Waits(p)' => work[p] = 0 /\ retry[p] = 0
  BY <1>1, <1>2, <1>6 DEF Waits, Chargeable
<1>10. \A v \in Workers : (AtWork(v)' <=> AtWork(v)) /\ Job(v)' = Job(v)
  BY <1>3 DEF AtWork, Job
<1>11. OneCopy'
  BY <1>1, <1>2, <1>3, <1>5, <1>6, <1>8, <1>9 DEF OneCarrier, OneCopy
<1>12. OneDelivery' /\ CopyOrDelivery'
  BY <1>1, <1>7, <1>8, <1>10 DEF OneCarrier, OneDelivery, CopyOrDelivery
<1>13. CarriedUnsettled'
  <2>1. \A j : Settled(j)' <=> Settled(j)
    BY <1>3 DEF Settled
  <2>2. ~Settled(JobOf(p))
    BY <1>1, <1>2, <1>4 DEF AskedInv, OnlyAskedIsCharged, Settled
  <2>3. \A v \in Workers : Settled(Job(v))' <=> Settled(Job(v))
    BY <1>3 DEF Settled, Job
  <2> QED BY <1>8, <1>10, <2>1, <2>2, <2>3 DEF OneCarrier, CarriedUnsettled
<1> QED BY <1>11, <1>12, <1>13 DEF OneCarrier

\* What a calm step of a delivery changes but for the books.
LEMMA CalmDelivery ==
  ASSUME BaseInv, NEW w \in Workers,
         Claim(w) \/ Charge(w) \/ Decline(w) \/ Capture(w) \/ Settle(w) \/ CommitRetry(w) \/ Ack(w)
  PROVE  /\ UNCHANGED work
         /\ \A v \in Workers : v # w => pc'[v] = pc[v] /\ handling'[v] = handling[v]
         /\ AtWork(w)' => AtWork(w) /\ handling'[w] = handling[w]
         /\ \A j \in Jobs : Settled(j)' => Settled(j) \/ (j = Job(w) /\ AtWork(w) /\ ~AtWork(w)')
         /\ retry' # retry => /\ AtWork(w) /\ ~AtWork(w)'
                              /\ retry' = Put(retry, RetryJob(Job(w)))
                              /\ UNCHANGED <<row, handling>>
<1> USE DEF BaseInv
<1>1. /\ UNCHANGED work
      /\ \A v \in Workers : v # w => pc'[v] = pc[v] /\ handling'[v] = handling[v]
      /\ AtWork(w)' => AtWork(w) /\ handling'[w] = handling[w]
  BY DEF Claim, Charge, Decline, Capture, Settle, CommitRetry, Ack, Finish, Goto, broker, handler,
     AtWork, TypeOK
<1>2. retry' # retry => /\ AtWork(w) /\ ~AtWork(w)'
                        /\ retry' = Put(retry, RetryJob(Job(w)))
                        /\ UNCHANGED <<row, handling>>
  BY DEF Claim, Charge, Decline, Capture, Settle, CommitRetry, Ack, Finish, Goto, broker, handler,
     db, AtWork, TypeOK
<1>3. ASSUME NEW j \in Jobs, Settled(j)', ~Settled(j)
      PROVE  j = Job(w) /\ AtWork(w) /\ ~AtWork(w)'
  <2>1. row' # row
    BY <1>3 DEF Settled
  <2>2. Capture(w) \/ (Settle(w) /\ row' # row)
    <3>1. pc[w] # "idle" => Job(w) \in Jobs
      BY JobInJobs
    <3>2. row \in Rows
      BY DEF TypeOK, Rows
    <3>3. ~(SetRow(Job(w), "processing", 0) /\ Job(w) \in Jobs)
      <4>1. SetRow(Job(w), "processing", 0) /\ Job(w) \in Jobs =>
              row'[Job(w)].status = "processing" /\ (j # Job(w) => row'[j] = row[j])
        BY <3>2, RowUpdate
      <4> QED BY <1>3, <4>1 DEF Settled
    <3>4. ~CommitRetry(w)
      <4>1. CommitRetry(w) => /\ row[Job(w)].status = "processing"
                              /\ SetRow(Job(w), "processing", row[Job(w)].attempts + 1)
                              /\ Job(w) \in Jobs
        BY <3>1 DEF CommitRetry, CountAttempt, CommitHolds
      <4>2. CommitRetry(w) => row'[Job(w)].status = "processing" /\ (j # Job(w) => row'[j] = row[j])
        BY <3>2, <4>1, RowUpdate
      <4> QED BY <1>3, <4>2 DEF Settled
    <3> QED BY <2>1, <3>1, <3>3, <3>4 DEF Claim, Charge, Decline, Ack, Finish, db
  <2>3. AtWork(w) /\ ~AtWork(w)'
    BY <2>1, <2>2 DEF Capture, Settle, Goto, AtWork, db, TypeOK
  <2>4. Job(w) \in Jobs /\ row \in Rows
    BY <2>3, JobInJobs DEF AtWork, TypeOK, Rows
  <2>5. \E s, a : SetRow(Job(w), s, a)
    BY <2>1, <2>2 DEF Capture, CaptureRow, Settle, FailRow, db
  <2>6. j # Job(w) => row'[j] = row[j]
    BY <2>4, <2>5, RowUpdate
  <2> QED BY <1>3, <2>3, <2>6 DEF Settled
<1> QED BY <1>1, <1>2, <1>3

LEMMA CarrierKept ==
  ASSUME BaseInv, AskedInv, OneCarrier, [Next]_vars, Calm'
  PROVE  OneCarrier'
<1>1. \A m \in Message : work[m] \in Nat /\ retry[m] \in Nat
  BY DEF BaseInv, TypeOK
<1>2. CASE \E t \in Trips, o \in Outcomes : Publish(t, o)
  BY <1>2, CarrierPublished
<1>3. CASE \E m \in Message : Expire(m)
  <2>1. PICK m \in Message : Expire(m) BY <1>3
  <2>2. work \in [Message -> Nat] /\ retry \in [Message -> Nat]
    BY DEF BaseInv, TypeOK
  <2>3. \A n \in Message : work'[n] + retry'[n] = work[n] + retry[n]
    <3>1. /\ \A n \in Message : n # m => work'[n] = work[n] /\ retry'[n] = retry[n]
          /\ work'[m] = work[m] + 1 /\ retry'[m] = retry[m] - 1
      BY <2>1, <2>2 DEF Expire, Put, Take
    <3>2. work'[m] + retry'[m] = work[m] + retry[m]
      BY <1>1, <3>1
    <3> QED BY <3>1, <3>2
  <2>4. UNCHANGED <<row, pc, handling>>
    BY <2>1 DEF Expire, db, handler
  <2> QED BY <2>3, <2>4, CarrierRests DEF Settled
<1>4. CASE \E w \in Workers, m \in Message : Deliver(w, m)
  BY <1>4, CarrierDelivered
<1>5. ASSUME NEW w \in Workers,
             Claim(w) \/ Charge(w) \/ Decline(w) \/ Capture(w) \/ Settle(w) \/ CommitRetry(w) \/ Ack(w)
      PROVE  OneCarrier'
  <2>1. CASE retry' = retry BY <1>5, <2>1, CalmDelivery, CarrierGoesOn
  <2>2. CASE retry' # retry
    BY <1>5, <2>2, CalmDelivery, CarrierParked
  <2> QED BY <2>1, <2>2
<1>6. CASE \E r \in Refunders : Refund(r)
  <2>1. PICK r \in Refunders : Refund(r) BY <1>6
  <2>2. UNCHANGED <<work, retry, pc, handling>>
    BY <2>1 DEF Refund, RefundBegin, RefundAccepted, RefundDeclined, RefundCommit, RefundFault,
       RefundEnd, broker, handler
  <2>3. \A j \in Jobs : Settled(j)' => Settled(j)
    <3> SUFFICES ASSUME NEW j \in Jobs, Settled(j)', ~Settled(j) PROVE FALSE
      OBVIOUS
    <3>1. RefundCommit(r)
      BY <2>1 DEF Refund, RefundBegin, RefundAccepted, RefundDeclined, RefundFault, db, Settled
    <3>2. rtrip[r] \in Trips /\ row[Fare(rtrip[r])].status = "captured"
      BY <3>1 DEF RefundCommit, BaseInv, RefundsTrip, RefundHolds
    <3>3. Fare(rtrip[r]) \in Jobs /\ row \in Rows
      BY <3>2, FareType DEF BaseInv, TypeOK, Rows
    <3>4. j # Fare(rtrip[r]) => row'[j] = row[j]
      BY <3>1, <3>3, RowUpdate DEF RefundCommit
    <3> QED BY <3>2, <3>4 DEF Settled
  <2> QED BY <2>2, <2>3, CarrierRests
<1>7. CASE UNCHANGED vars
  <2>1. UNCHANGED <<work, retry, pc, handling, row>>
    BY <1>7 DEF vars, broker, handler, db
  <2> QED BY <2>1, CarrierRests DEF Settled
<1> QED BY <1>2, <1>3, <1>4, <1>5, <1>6, <1>7, CalmSteps

-----------------------------------------------------------------------------
(* The books of charges.                                                   *)

Paid(j) == row[j].status \in {"captured", "refunded"}

\* Only a capture makes a payment a paid one, and nothing undoes it.
LEMMA PaidByCapture ==
  ASSUME BaseInv, [Next]_vars, NEW j \in Jobs
  PROVE  /\ Paid(j) => Paid(j)'
         /\ Paid(j)' /\ ~Paid(j) => row[j].status = "processing" /\ row'[j].status = "captured"
  BY RowSteps DEF RowStep, Paid

\* Nobody else's answer comes or goes with a step of one delivery.
LEMMA OtherAnswers ==
  ASSUME BaseInv, NEW w \in Workers, NEW j \in Jobs,
         \A v \in Workers : v # w => pc'[v] = pc[v] /\ handling'[v] = handling[v]
  PROVE  \A v \in Workers : v # w =>
           ((pc'[v] = "capture" /\ Job(v)' = j) <=> (pc[v] = "capture" /\ Job(v) = j))
  BY DEF Job

LEMMA ChargeBooked ==
  ASSUME BaseInv, OneCarrier, [Next]_vars, NEW w \in Workers, Charge(w),
         NEW j \in Jobs, Booked(j)
  PROVE  Booked(j)'
<1>1. /\ pc[w] = "charge" /\ pc'[w] = "capture" /\ UNCHANGED <<row, handling>>
      /\ \A v \in Workers : v # w => pc'[v] = pc[v] /\ handling'[v] = handling[v]
  BY DEF Charge, Goto, db, BaseInv, TypeOK
<1>2. Job(w) \in Jobs /\ Job(w)' = Job(w)
  BY <1>1, JobInJobs DEF Job
<1>3. charged'[Job(w)] = charged[Job(w)] + 1 /\ \A i \in Jobs : i # Job(w) => charged'[i] = charged[i]
  BY <1>2 DEF Charge, BaseInv, TypeOK
<1>4. CASE j = Job(w)
  <2>1. ~Answered(j)
    BY <1>1, <1>4 DEF Answered, OneCarrier, OneDelivery, AtWork
  <2>2. Answered(j)'
    BY <1>1, <1>2, <1>4 DEF Answered
  <2>3. charged[j] = Count(row[j].status \in {"captured", "refunded"})
    BY <2>1 DEF Booked, Count
  <2>4. charged'[j] = Count(row[j].status \in {"captured", "refunded"}) + 1
    BY <1>3, <1>4, <2>3
  <2> QED BY <1>1, <2>2, <2>4 DEF Booked, Count
<1>5. CASE j # Job(w)
  <2>1. Answered(j)' <=> Answered(j)
    BY <1>1, <1>2, <1>5, OtherAnswers DEF Answered
  <2> QED BY <1>1, <1>3, <1>5, <2>1 DEF Booked, Count
<1> QED BY <1>4, <1>5

LEMMA CaptureBooked ==
  ASSUME BaseInv, OneCarrier, [Next]_vars, NEW w \in Workers, Capture(w),
         NEW j \in Jobs, Booked(j)
  PROVE  Booked(j)'
<1>1. /\ pc[w] = "capture" /\ pc'[w] = "ack" /\ UNCHANGED <<charged, handling>>
      /\ \A v \in Workers : v # w => pc'[v] = pc[v] /\ handling'[v] = handling[v]
  BY DEF Capture, Goto, books, BaseInv, TypeOK
<1>2. Job(w) \in Jobs /\ row \in Rows
  BY <1>1, JobInJobs DEF BaseInv, TypeOK, Rows
<1>3. row[Job(w)].status = "processing"
  <2>1. ~Settled(Job(w)) /\ row[Job(w)].status # "absent" /\ row[Job(w)].status \in Statuses
    BY <1>1, <1>2 DEF OneCarrier, CarriedUnsettled, AtWork, BaseInv, RowClaimed, Rows
  <2> QED BY <2>1 DEF Settled, Statuses
<1>4. /\ row'[Job(w)].status = "captured"
      /\ \A i \in Jobs : i # Job(w) => row'[i] = row[i]
  <2>1. SetRow(Job(w), "captured", row[Job(w)].attempts + 1)
    BY <1>3 DEF Capture, CaptureRow
  <2> QED BY <1>2, <2>1, RowUpdate
<1>5. CASE j = Job(w)
  <2>1. Answered(j)
    BY <1>1, <1>5 DEF Answered
  <2>2. ~Answered(j)'
    <3>1. \A v \in Workers : v # w => ~(pc[v] = "capture" /\ Job(v) = j)
      BY <1>1, <1>5 DEF OneCarrier, OneDelivery, AtWork
    <3> QED BY <1>1, <3>1, OtherAnswers DEF Answered
  <2> QED BY <1>1, <1>3, <1>4, <1>5, <2>1, <2>2 DEF Booked, Count
<1>6. CASE j # Job(w)
  <2>1. Answered(j)' <=> Answered(j)
    BY <1>1, <1>6, OtherAnswers DEF Answered, Job
  <2> QED BY <1>1, <1>4, <1>6, <2>1 DEF Booked, Count
<1> QED BY <1>5, <1>6

LEMMA RestBooked ==
  ASSUME BaseInv, AskedInv, OneCarrier, [Next]_vars, Calm', NEW j \in Jobs, Booked(j)
  PROVE  Booked(j)'
<1>1. CASE \E w \in Workers : Charge(w)
  BY <1>1, ChargeBooked
<1>2. CASE \E w \in Workers : Capture(w)
  BY <1>2, CaptureBooked
<1>3. CASE \E w \in Workers : Claim(w) \/ Decline(w) \/ Settle(w) \/ CommitRetry(w) \/ Ack(w)
  <2>1. PICK w \in Workers : Claim(w) \/ Decline(w) \/ Settle(w) \/ CommitRetry(w) \/ Ack(w)
    BY <1>3
  <2>2. /\ UNCHANGED charged /\ pc[w] # "capture" /\ pc'[w] # "capture"
        /\ \A v \in Workers : v # w => pc'[v] = pc[v] /\ handling'[v] = handling[v]
    BY <2>1 DEF Claim, Decline, Settle, CommitRetry, Ack, Finish, Goto, books, BaseInv, TypeOK
  <2>3. Answered(j)' <=> Answered(j)
    BY <2>2, OtherAnswers DEF Answered
  <2>4. Paid(j)' <=> Paid(j)
    <3> SUFFICES ASSUME ~Paid(j), Paid(j)' PROVE FALSE
      BY PaidByCapture
    <3>1. row'[j].status = "captured" /\ row[j].status = "processing" /\ row' # row
      BY PaidByCapture
    <3>2. Job(w) \in Jobs /\ row \in Rows
      BY <2>1, <3>1, JobInJobs DEF Claim, Decline, Settle, CommitRetry, Ack, Finish, db, BaseInv,
         TypeOK, Rows
    <3>3. \E s, a : s # "captured" /\ SetRow(Job(w), s, a)
      BY <2>1, <3>1 DEF Claim, Decline, Settle, FailRow, CommitRetry, CountAttempt, CommitHolds,
         BaseInv, Ack, Finish, db
    <3> QED BY <3>1, <3>2, <3>3, RowUpdate
  <2> QED BY <2>2, <2>3, <2>4 DEF Booked, Paid, Count
<1>4. CASE \E w \in Workers, m \in Message : Deliver(w, m)
  <2>1. PICK w \in Workers, m \in Message : Deliver(w, m) BY <1>4
  <2>2. /\ UNCHANGED <<charged, row>> /\ pc[w] # "capture" /\ pc'[w] # "capture"
        /\ \A v \in Workers : v # w => pc'[v] = pc[v] /\ handling'[v] = handling[v]
    BY <2>1 DEF Deliver, Busy, Goto, books, db, BaseInv, TypeOK
  <2>3. Answered(j)' <=> Answered(j)
    BY <2>2, OtherAnswers DEF Answered
  <2> QED BY <2>2, <2>3 DEF Booked, Count
<1>5. CASE \E r \in Refunders : Refund(r)
  <2>1. UNCHANGED <<charged, pc, handling>>
    BY <1>5 DEF Refund, RefundBegin, RefundAccepted, RefundDeclined, RefundCommit, RefundFault,
       RefundEnd, books, handler
  <2>2. Paid(j)' <=> Paid(j)
    <3> SUFFICES ASSUME ~Paid(j), Paid(j)' PROVE FALSE
      BY PaidByCapture
    <3>1. row'[j].status = "captured" /\ row' # row
      BY PaidByCapture
    <3>2. PICK r \in Refunders : RefundCommit(r)
      BY <1>5, <3>1 DEF Refund, RefundBegin, RefundAccepted, RefundDeclined, RefundFault, db
    <3>3. Fare(rtrip[r]) \in Jobs /\ row \in Rows
      BY <3>2, FareType DEF RefundCommit, BaseInv, RefundsTrip, TypeOK, Rows
    <3>4. row'[Fare(rtrip[r])].status = "refunded" /\ (j # Fare(rtrip[r]) => row'[j] = row[j])
      BY <3>2, <3>3, RowUpdate DEF RefundCommit
    <3> QED BY <3>1, <3>4 DEF Paid
  <2>3. Answered(j)' <=> Answered(j)
    BY <2>1 DEF Answered, Job
  <2> QED BY <2>1, <2>2, <2>3 DEF Booked, Paid, Count
<1>6. CASE \/ \E t \in Trips, o \in Outcomes : Publish(t, o)
           \/ \E m \in Message : Expire(m)
           \/ UNCHANGED vars
  <2>1. UNCHANGED <<charged, pc, handling, row>>
    BY <1>6 DEF Publish, Expire, vars, books, handler, db
  <2> QED BY <2>1 DEF Booked, Answered, Job, Count
<1> QED BY <1>1, <1>2, <1>3, <1>4, <1>5, <1>6, CalmSteps

LEMMA NextCalm == BaseInv /\ AskedInv /\ CalmInv /\ [Next]_vars => CalmInv'
<1> SUFFICES ASSUME BaseInv, AskedInv, CalmInv, [Next]_vars, Calm'
             PROVE  OneCarrier' /\ \A j \in Jobs : Booked(j)'
  BY DEF CalmInv
<1>1. OneCarrier /\ \A j \in Jobs : Booked(j)
  BY CalmBefore DEF CalmInv
<1> QED BY <1>1, CarrierKept, RestBooked

THEOREM CalmInvariant == Spec => []CalmInv
<1>1. Init => CalmInv BY InitCalm
<1>2. BaseInv /\ AskedInv /\ CalmInv /\ [Next]_vars => CalmInv' BY NextCalm
<1> QED BY <1>1, <1>2, Base, AskedInvariant, PTL DEF Spec

\* With every message delivered once and no failure, a charge has one
\* carrier at a time, through all its retries; so our books and the
\* provider's agree, but for the one answer that is being recorded.
THEOREM ChargesAreRecorded == Spec => []ChargesRecorded
<1>1. CalmInv => ChargesRecorded
  <2> SUFFICES ASSUME CalmInv, Calm, NEW j \in Jobs
               PROVE  charged[j] = Count(row[j].status \in {"captured", "refunded"})
                        + Cardinality({w \in Workers : pc[w] = "capture" /\ Job(w) = j})
    BY DEF ChargesRecorded, Calm
  <2> DEFINE S == {w \in Workers : pc[w] = "capture" /\ Job(w) = j}
  <2>1. \A v, w \in S : v = w
    BY DEF CalmInv, OneCarrier, OneDelivery, AtWork
  <2>2. Cardinality(S) = Count(S # {})
    BY <2>1, CountOfOne
  <2>3. Count(S # {}) = Count(Answered(j))
    BY DEF Answered, Count
  <2> QED BY <2>2, <2>3 DEF CalmInv, Booked
<1> QED BY <1>1, CalmInvariant, PTL

\* What payment-service/src/server.js:20 promises of every trip holds of those whose
\* messages come once and whose calls are answered: no double charge.
THEOREM ChargedOnce == Spec => [](dups + crashes + faults = 0 => NeverDoubleCharged)
<1>1. BaseInv /\ CalmInv => (dups + crashes + faults = 0 => NeverDoubleCharged)
  <2> SUFFICES ASSUME BaseInv, CalmInv, Calm, NEW j \in Jobs PROVE charged[j] <= 1
    BY DEF NeverDoubleCharged, Calm
  <2>1. ~(Answered(j) /\ row[j].status \in {"captured", "refunded"})
    BY DEF Answered, CalmInv, OneCarrier, CarriedUnsettled, AtWork, Settled
  <2> QED BY <2>1 DEF CalmInv, Booked, Count
<1> QED BY <1>1, Base, CalmInvariant, PTL

-----------------------------------------------------------------------------
(* The books of refunds.  Duplicates do them no harm.                      *)

Unbroken == crashes + faults = 0
Returning(j) == \E r \in Refunders : rpc[r] = "called" /\ Fare(rtrip[r]) = j
RefundBooked(j) == refunds[j] = Count(row[j].status = "refunded") + Count(Returning(j))
RefundInv == Unbroken => \A j \in Jobs : RefundBooked(j)

LEMMA NoSumOfTwo == \A a, b \in Nat : a + b = 0 => a = 0 /\ b = 0
  OBVIOUS

LEMMA FareOfTrip == \A t, u : Fare(t) = Fare(u) => t = u
  BY DEF Fare

LEMMA UnbrokenSteps ==
  ASSUME BaseInv, [Next]_vars, Unbroken'
  PROVE  Unbroken /\ ~Crash /\ ~Fault
<1>1. crashes \in Nat /\ faults \in Nat /\ crashes' \in Nat /\ faults' \in Nat
  BY NextBase DEF BaseInv, TypeOK
<1>2. crashes' >= crashes /\ faults' >= faults
  BY <1>1 DEF Next, vars, env, Publish, Republish, Redeliver, Duplicate, Expire, Crash, Deliver,
     Handle, HandlerFault, Claim, ClaimFault, Charge, Decline, AnswerLost, Capture, CaptureFault,
     Settle, SettleFault, CommitRetry, CommitFault, Ack, Nack, Finish, Fault, Refund, RefundBegin,
     RefundAccepted, RefundDeclined, RefundCommit, RefundFault
<1>3. crashes' = 0 /\ faults' = 0
  BY <1>1, NoSumOfTwo DEF Unbroken
<1>4. crashes = 0 /\ faults = 0
  BY <1>1, <1>2, <1>3
<1> QED BY <1>3, <1>4 DEF Unbroken, Crash, Fault

\* Steps of deliveries and of the environment leave the refunds alone.
LEMMA RefundsRest ==
  ASSUME BaseInv, [Next]_vars, ~Crash, \A r \in Refunders : ~Refund(r)
  PROVE  UNCHANGED <<rpc, rtrip, refunds>>
  BY DEF Next, vars, Publish, Republish, Redeliver, Duplicate, Expire, Deliver, Handle,
     HandlerFault, Claim, ClaimFault, Charge, Decline, AnswerLost, Capture, CaptureFault, Settle,
     SettleFault, CommitRetry, CommitFault, Ack, Nack, Finish, refunder, books

LEMMA RefundStep ==
  ASSUME BaseInv, [Next]_vars, NEW r \in Refunders, Refund(r), ~Fault,
         NEW j \in Jobs, RefundBooked(j)
  PROVE  RefundBooked(j)'
<1> USE DEF BaseInv
<1>1. \A s \in Refunders : rpc[s] # "idle" => rtrip[s] \in Trips /\ Fare(rtrip[s]) \in Jobs
  BY FareType DEF RefundsTrip
<1>2. CASE (\E t \in Trips : RefundBegin(r, t)) \/ RefundDeclined(r)
  <2>1. /\ UNCHANGED <<row, refunds>> /\ rpc[r] # "called" /\ rpc'[r] # "called"
        /\ \A s \in Refunders : s # r => rpc'[s] = rpc[s] /\ rtrip'[s] = rtrip[s]
    BY <1>2 DEF RefundBegin, RefundDeclined, RefundEnd, db, books, TypeOK
  <2>2. Returning(j)' <=> Returning(j)
    BY <2>1 DEF Returning
  <2> QED BY <2>1, <2>2 DEF RefundBooked, Count
<1>3. CASE RefundAccepted(r)
  <2>1. /\ UNCHANGED <<row, rtrip>> /\ rpc[r] = "calling" /\ rpc'[r] = "called"
        /\ \A s \in Refunders : s # r => rpc'[s] = rpc[s]
    BY <1>3 DEF RefundAccepted, db, TypeOK
  <2>2. /\ refunds'[Fare(rtrip[r])] = refunds[Fare(rtrip[r])] + 1
        /\ \A i \in Jobs : i # Fare(rtrip[r]) => refunds'[i] = refunds[i]
    BY <1>1, <1>3, <2>1 DEF RefundAccepted, TypeOK
  <2>3. CASE j = Fare(rtrip[r])
    <3>1. ~Returning(j)
      BY <2>1, <2>3, FareOfTrip DEF Returning, RefundHolds
    <3>2. Returning(j)'
      BY <2>1, <2>3 DEF Returning
    <3>3. row[j].status # "refunded"
      BY <2>1, <2>3 DEF RefundHolds
    <3> QED BY <2>1, <2>2, <2>3, <3>1, <3>2, <3>3 DEF RefundBooked, Count
  <2>4. CASE j # Fare(rtrip[r])
    <3>1. Returning(j)' <=> Returning(j)
      BY <2>1, <2>4 DEF Returning
    <3> QED BY <2>1, <2>2, <2>4, <3>1 DEF RefundBooked, Count
  <2> QED BY <2>3, <2>4
<1>4. CASE RefundCommit(r)
  <2>1. /\ UNCHANGED refunds /\ rpc[r] = "called" /\ rpc'[r] = "idle"
        /\ \A s \in Refunders : s # r => rpc'[s] = rpc[s] /\ rtrip'[s] = rtrip[s]
    BY <1>4 DEF RefundCommit, RefundEnd, books, TypeOK
  <2>2. /\ row'[Fare(rtrip[r])].status = "refunded"
        /\ \A i \in Jobs : i # Fare(rtrip[r]) => row'[i] = row[i]
    BY <1>1, <1>4, <2>1, RowUpdate DEF RefundCommit, TypeOK, Rows
  <2>3. CASE j = Fare(rtrip[r])
    <3>1. Returning(j) /\ row[j].status # "refunded"
      BY <2>1, <2>3 DEF Returning, RefundHolds
    <3>2. ~Returning(j)'
      BY <2>1, <2>3, FareOfTrip DEF Returning, RefundHolds
    <3> QED BY <2>1, <2>2, <2>3, <3>1, <3>2 DEF RefundBooked, Count
  <2>4. CASE j # Fare(rtrip[r])
    <3>1. Returning(j)' <=> Returning(j)
      BY <2>1, <2>4 DEF Returning
    <3> QED BY <2>1, <2>2, <2>4, <3>1 DEF RefundBooked, Count
  <2> QED BY <2>3, <2>4
<1> QED BY <1>2, <1>3, <1>4 DEF Refund, RefundFault

\* Only a refund request's commit makes a payment a refunded one.
LEMMA RefundedByCommit ==
  ASSUME BaseInv, [Next]_vars, \A r \in Refunders : ~Refund(r), NEW j \in Jobs
  PROVE  row'[j].status = "refunded" <=> row[j].status = "refunded"
<1>1. row[j].status = "refunded" => row'[j].status = "refunded"
  BY RowSteps DEF RowStep
<1>2. ASSUME row'[j].status = "refunded", row[j].status # "refunded" PROVE FALSE
  <2>1. row \in Rows /\ row' # row
    BY <1>2 DEF BaseInv, TypeOK, Rows
  <2>2. PICK w \in Workers : Handle(w) \/ HandlerFault(w)
    BY <2>1 DEF Next, vars, Publish, Republish, Redeliver, Duplicate, Expire, Crash, Deliver, db
  <2>3. pc[w] # "idle" => Job(w) \in Jobs
    BY JobInJobs
  <2>4. pc[w] = "commit" => row[Job(w)].status = "processing"
    BY DEF BaseInv, CommitHolds
  <2>5. \E s, a : pc[w] # "idle" /\ s # "refunded" /\ SetRow(Job(w), s, a)
    BY <2>1, <2>2, <2>4 DEF Handle, HandlerFault, Claim, ClaimFault, Charge, Decline, AnswerLost, Capture,
       CaptureFault, CaptureRow, Settle, SettleFault, FailRow, CommitRetry, CommitFault,
       CountAttempt, Ack, Nack, Finish, db
  <2> QED BY <1>2, <2>1, <2>3, <2>5, RowUpdate
<1> QED BY <1>1, <1>2

LEMMA NextRefund == BaseInv /\ RefundInv /\ [Next]_vars => RefundInv'
<1> SUFFICES ASSUME BaseInv, RefundInv, [Next]_vars, Unbroken', NEW j \in Jobs
             PROVE  RefundBooked(j)'
  BY DEF RefundInv
<1>1. RefundBooked(j) /\ ~Crash /\ ~Fault
  BY UnbrokenSteps DEF RefundInv
<1>2. CASE \E r \in Refunders : Refund(r)
  BY <1>1, <1>2, RefundStep
<1>3. CASE \A r \in Refunders : ~Refund(r)
  <2>1. Returning(j)' <=> Returning(j)
    BY <1>1, <1>3, RefundsRest DEF Returning
  <2> QED BY <1>1, <1>3, <2>1, RefundsRest, RefundedByCommit DEF RefundBooked, Count
<1> QED BY <1>2, <1>3

LEMMA InitRefund == Init => RefundInv
<1> SUFFICES ASSUME Init, NEW j \in Jobs PROVE RefundBooked(j)
  BY DEF RefundInv
<1>1. refunds[j] = 0 /\ row[j].status = "absent" /\ ~Returning(j)
  BY DEF Init, Returning
<1> QED BY <1>1 DEF RefundBooked, Count

THEOREM RefundInvariant == Spec => []RefundInv
<1>1. BaseInv /\ RefundInv /\ [Next]_vars => RefundInv' BY NextRefund
<1> QED BY <1>1, InitRefund, Base, PTL DEF Spec

\* However many requests race and whatever is delivered twice: unless a crash
\* or a failed commit follows the provider's answer, the money a fare brought
\* is returned once, for the row lock is held across the call.
THEOREM RefundsAreRecorded == Spec => []RefundsRecorded
<1>1. BaseInv /\ RefundInv => RefundsRecorded
  <2> SUFFICES ASSUME BaseInv, RefundInv, Unbroken, NEW j \in Jobs
               PROVE  refunds[j] = Count(row[j].status = "refunded")
                        + Cardinality({r \in Refunders : rpc[r] = "called" /\ Fare(rtrip[r]) = j})
    BY DEF RefundsRecorded, Unbroken
  <2> DEFINE S == {r \in Refunders : rpc[r] = "called" /\ Fare(rtrip[r]) = j}
  <2>1. \A r, s \in S : r = s
    BY FareOfTrip DEF BaseInv, RefundHolds
  <2>2. Cardinality(S) = Count(S # {})
    BY <2>1, CountOfOne
  <2>3. Count(S # {}) = Count(Returning(j))
    BY DEF Returning, Count
  <2> QED BY <2>2, <2>3 DEF RefundInv, RefundBooked
<1> QED BY <1>1, Base, RefundInvariant, PTL

-----------------------------------------------------------------------------
(* The ledger.                                                             *)

\* The provider acted before a delivery or a request goes on to record it.
TakenFirst == \A w \in Workers : pc[w] = "capture" => charged[Job(w)] > 0
ReturnedFirst == \A r \in Refunders : rpc[r] = "called" => refunds[Fare(rtrip[r])] > 0
ActedFirst == TakenFirst /\ ReturnedFirst

LEMMA BooksGrow ==
  ASSUME BaseInv, [Next]_vars, NEW j \in Jobs
  PROVE  charged'[j] >= charged[j] /\ refunds'[j] >= refunds[j]
<1>1. charged \in [Jobs -> Nat] /\ refunds \in [Jobs -> Nat]
  BY DEF BaseInv, TypeOK
<1>2. \/ UNCHANGED charged
      \/ \E k \in Jobs : charged' = [charged EXCEPT ![k] = @ + 1]
  BY JobInJobs
  DEF Next, vars, books, Publish, Republish, Redeliver, Duplicate, Expire, Crash, Deliver,
      Handle, HandlerFault, Claim, ClaimFault, Charge, Decline, AnswerLost, Capture, CaptureFault,
      Settle, SettleFault, CommitRetry, CommitFault, Ack, Nack, Finish, Refund, RefundBegin,
      RefundAccepted, RefundDeclined, RefundCommit, RefundFault, RefundEnd
<1>3. \/ UNCHANGED refunds
      \/ \E k \in Jobs : refunds' = [refunds EXCEPT ![k] = @ + 1]
  BY FareType
  DEF Next, vars, books, Publish, Republish, Redeliver, Duplicate, Expire, Crash, Deliver,
      Handle, HandlerFault, Claim, ClaimFault, Charge, Decline, AnswerLost, Capture, CaptureFault,
      Settle, SettleFault, CommitRetry, CommitFault, Ack, Nack, Finish, Refund, RefundBegin,
      RefundAccepted, RefundDeclined, RefundCommit, RefundFault, RefundEnd, BaseInv, RefundsTrip
<1> QED BY <1>1, <1>2, <1>3

LEMMA NextActed == BaseInv /\ ActedFirst /\ [Next]_vars => ActedFirst'
<1> SUFFICES ASSUME BaseInv, ActedFirst, [Next]_vars PROVE ActedFirst'
  OBVIOUS
<1>1. ASSUME NEW w \in Workers, pc'[w] = "capture" PROVE charged'[Job(w)'] > 0
  <2>1. \/ Charge(w)
        \/ pc[w] = "capture" /\ handling'[w] = handling[w]
    BY <1>1
    DEF BaseInv, TypeOK, Next, vars, handler, Publish, Republish, Redeliver, Duplicate, Expire,
        Crash, Deliver, Goto, Handle, HandlerFault, Claim, ClaimFault, Charge, Decline, AnswerLost,
        Capture, CaptureFault, Settle, SettleFault, CommitRetry, CommitFault, Ack, Nack, Finish,
        Refund, RefundBegin, RefundAccepted, RefundDeclined, RefundCommit, RefundFault, RefundEnd
  <2>2. CASE Charge(w)
    <3>1. Job(w) \in Jobs /\ Job(w)' = Job(w)
      BY <2>2, JobInJobs DEF Charge, Job
    <3>2. charged'[Job(w)] = charged[Job(w)] + 1 /\ charged[Job(w)] \in Nat
      BY <2>2, <3>1 DEF Charge, BaseInv, TypeOK
    <3> QED BY <3>1, <3>2
  <2>3. CASE pc[w] = "capture" /\ handling'[w] = handling[w]
    <3>1. Job(w) \in Jobs /\ Job(w)' = Job(w) /\ charged[Job(w)] > 0
      BY <2>3, JobInJobs DEF Job, ActedFirst, TakenFirst
    <3>2. charged'[Job(w)] >= charged[Job(w)]
      BY <3>1, BooksGrow
    <3>3. charged[Job(w)] \in Nat /\ charged'[Job(w)] \in Nat
      BY <3>1, NextBase DEF BaseInv, TypeOK
    <3> QED BY <3>1, <3>2, <3>3
  <2> QED BY <2>1, <2>2, <2>3
<1>2. ASSUME NEW r \in Refunders, rpc'[r] = "called" PROVE refunds'[Fare(rtrip'[r])] > 0
  <2>1. \/ RefundAccepted(r)
        \/ rpc[r] = "called" /\ rtrip'[r] = rtrip[r]
    BY <1>2
    DEF BaseInv, TypeOK, Next, vars, refunder, Publish, Republish, Redeliver, Duplicate, Expire,
        Crash, Deliver, Handle, HandlerFault, Claim, ClaimFault, Charge, Decline, AnswerLost,
        Capture, CaptureFault, Settle, SettleFault, CommitRetry, CommitFault, Ack, Nack, Finish,
        Refund, RefundBegin, RefundAccepted, RefundDeclined, RefundCommit, RefundFault, RefundEnd
  <2>2. Fare(rtrip[r]) \in Jobs
    BY <2>1, FareType DEF RefundAccepted, BaseInv, RefundsTrip
  <2>3. CASE RefundAccepted(r)
    <3>1. rtrip'[r] = rtrip[r] /\ refunds[Fare(rtrip[r])] \in Nat
            /\ refunds'[Fare(rtrip[r])] = refunds[Fare(rtrip[r])] + 1
      BY <2>2, <2>3 DEF RefundAccepted, BaseInv, TypeOK
    <3> QED BY <3>1
  <2>4. CASE rpc[r] = "called" /\ rtrip'[r] = rtrip[r]
    <3>1. refunds[Fare(rtrip[r])] > 0 /\ refunds'[Fare(rtrip[r])] >= refunds[Fare(rtrip[r])]
      BY <2>2, <2>4, BooksGrow DEF ActedFirst, ReturnedFirst
    <3>2. refunds[Fare(rtrip[r])] \in Nat /\ refunds'[Fare(rtrip[r])] \in Nat
      BY <2>2, NextBase DEF BaseInv, TypeOK
    <3> QED BY <2>4, <3>1, <3>2
  <2> QED BY <2>1, <2>3, <2>4
<1> QED BY <1>1, <1>2 DEF ActedFirst, TakenFirst, ReturnedFirst

LEMMA ActedInvariant == Spec => []ActedFirst
<1>1. Init => ActedFirst
  BY DEF Init, ActedFirst, TakenFirst, ReturnedFirst
<1> QED BY <1>1, NextActed, Base, PTL DEF Spec

-----------------------------------------------------------------------------
(* What the ledger sees, and how it moves.                                 *)

DueSeen == [t \in Trips |-> DueOf(outcome[t])]
ResultSeen == [j \in Jobs |-> ResultOf(row[j].status)]
Seen == <<DueSeen, ResultSeen, announced, charged, refunds>>

LEMMA ResultUpdate ==
  ASSUME row \in Rows, NEW k \in Jobs, NEW s, NEW a, SetRow(k, s, a)
  PROVE  ResultSeen' = [ResultSeen EXCEPT ![k] = ResultOf(s)]
<1>1. row'[k].status = s /\ \A i \in Jobs : i # k => row'[i] = row[i]
  BY RowUpdate
<1> QED BY <1>1 DEF ResultSeen

LEMMA DueOfAsked ==
  ASSUME TypeOK, NEW j \in Jobs, Asked(j)
  PROVE  DueSeen[j.trip] = j.kind
<1>1. j.trip \in Trips
  BY DEF Jobs
<1> QED BY <1>1 DEF Asked, DueOf, DueSeen

LEMMA LedgerNext ==
  ASSUME NEW j \in Jobs,
         \/ Ledger!Open(j) \/ Ledger!TakeMoney(j) \/ Ledger!Capture(j) \/ Ledger!Fail(j)
         \/ Ledger!ReturnMoney(j) \/ Ledger!Refund(j)
  PROVE  Ledger!Next
  BY DEF Ledger!Next, Ledger!Entries, Jobs

LEMMA PublishSeen ==
  ASSUME BaseInv, NEW t \in Trips, NEW o \in Outcomes, Publish(t, o)
  PROVE  Ledger!Next
<1>1. outcome[t] = "open" /\ outcome' = [outcome EXCEPT ![t] = o] /\ outcome \in [Trips -> Outcomes \cup {"open"}]
  BY DEF Publish, BaseInv, TypeOK
<1>2. DueSeen[t] = "undecided" /\ DueSeen' = [DueSeen EXCEPT ![t] = DueOf(o)]
  BY <1>1 DEF DueSeen, DueOf
<1>3. DueOf(o) \in Kinds \cup {"nothing"}
  BY DEF DueOf, Outcomes, Kinds
<1>4. ResultSeen' = ResultSeen /\ UNCHANGED <<announced, charged, refunds>>
  BY DEF Publish, db, books, ResultSeen
<1>5. Ledger!EndTrip(t, DueOf(o))
  BY <1>2, <1>4 DEF Ledger!EndTrip, DueSeen, ResultSeen
<1> QED BY <1>3, <1>5 DEF Ledger!Next

\* A claim that inserts the row opens the entry.
LEMMA ClaimSeen ==
  ASSUME BaseInv, AskedInv, NEW w \in Workers, Claim(w) \/ ClaimFault(w)
  PROVE  Ledger!Next \/ UNCHANGED Seen
<1> DEFINE j == Job(w)
<1>1. pc[w] = "claim" /\ j \in Jobs /\ row \in Rows /\ UNCHANGED <<announced, charged, refunds, outcome>>
  BY JobInJobs DEF Claim, ClaimFault, Fault, env, books, BaseInv, TypeOK, Rows
<1>2. DueSeen' = DueSeen
  BY <1>1 DEF DueSeen
<1>3. CASE row' = row
  BY <1>1, <1>2, <1>3 DEF Seen, ResultSeen
<1>4. CASE row[j].status = "absent" /\ SetRow(j, "processing", 0)
  <2>1. DueSeen[j.trip] = j.kind
    <3>1. Asked(j)
      BY <1>1 DEF AskedInv, AskedMessages, InHand, Busy, BaseInv, HandlesMessage, Job
    <3> QED BY <1>1, <3>1, DueOfAsked DEF BaseInv
  <2>2. ResultSeen[j] = "none" /\ ResultSeen' = [ResultSeen EXCEPT ![j] = "pending"]
    BY <1>1, <1>4, ResultUpdate DEF ResultSeen, ResultOf
  <2>3. Ledger!Open(j)
    BY <1>1, <1>2, <2>1, <2>2 DEF Ledger!Open, Ledger!Enter, DueSeen, ResultSeen
  <2> QED BY <1>1, <2>3, LedgerNext
<1> QED BY <1>3, <1>4 DEF Claim, ClaimFault

LEMMA ChargeSeen ==
  ASSUME BaseInv, AskedInv, NEW w \in Workers, Charge(w) \/ AnswerLost(w)
  PROVE  Ledger!Next
<1> DEFINE j == Job(w)
<1>1. /\ pc[w] = "charge" /\ j \in Jobs
      /\ UNCHANGED <<row, announced, refunds, outcome>> /\ charged' = [charged EXCEPT ![j] = @ + 1]
  BY JobInJobs DEF Charge, AnswerLost, Fault, env, db
<1>2. row[j].status # "absent"
  BY <1>1 DEF BaseInv, RowClaimed
<1>3. DueSeen[j.trip] = j.kind
  BY <1>1, <1>2, DueOfAsked DEF BaseInv, AskedInv, OnlyAskedIsCharged
<1>4. ResultSeen[j] # "none"
  BY <1>1, <1>2 DEF ResultSeen, ResultOf, BaseInv, TypeOK, Statuses
<1>5. DueSeen' = DueSeen /\ ResultSeen' = ResultSeen
  BY <1>1 DEF DueSeen, ResultSeen
<1>6. Ledger!TakeMoney(j)
  BY <1>1, <1>3, <1>4, <1>5 DEF Ledger!TakeMoney, DueSeen, ResultSeen
<1> QED BY <1>1, <1>6, LedgerNext

LEMMA CaptureSeen ==
  ASSUME BaseInv, ActedFirst, NEW w \in Workers, Capture(w) \/ CaptureFault(w)
  PROVE  Ledger!Next \/ UNCHANGED Seen
<1> DEFINE j == Job(w)
<1>1. /\ pc[w] = "capture" /\ j \in Jobs /\ row \in Rows
      /\ UNCHANGED <<charged, refunds, outcome>> /\ (UNCHANGED db \/ CaptureRow(j))
  BY JobInJobs DEF Capture, CaptureFault, Fault, env, books, BaseInv, TypeOK, Rows
<1>2. DueSeen' = DueSeen /\ charged[j] > 0
  BY <1>1 DEF DueSeen, ActedFirst, TakenFirst
<1>3. CASE UNCHANGED db
  BY <1>1, <1>2, <1>3 DEF Seen, ResultSeen, db
<1>4. CASE /\ row[j].status = "processing"
           /\ SetRow(j, "captured", row[j].attempts + 1) /\ Announce(j, "payment.captured")
  <2>1. ResultSeen[j] = "pending" /\ ResultSeen' = [ResultSeen EXCEPT ![j] = "captured"]
    BY <1>1, <1>4, ResultUpdate DEF ResultSeen, ResultOf
  <2>2. Ledger!Capture(j)
    BY <1>1, <1>2, <1>4, <2>1
    DEF Ledger!Capture, Ledger!Enter, Ledger!Announce, Announce, DueSeen, ResultSeen
  <2> QED BY <1>1, <2>2, LedgerNext
<1> QED BY <1>1, <1>3, <1>4 DEF CaptureRow

LEMMA SettleSeen ==
  ASSUME BaseInv, NEW w \in Workers, Settle(w) \/ SettleFault(w)
  PROVE  Ledger!Next \/ UNCHANGED Seen
<1> DEFINE j == Job(w)
<1>1. /\ pc[w] = "settle" /\ j \in Jobs /\ row \in Rows
      /\ UNCHANGED <<charged, refunds, outcome>>
      /\ UNCHANGED db \/ (row[j].status = "processing" /\ FailRow(j))
  BY JobInJobs DEF Settle, SettleFault, Fault, env, books, db, BaseInv, TypeOK, Rows
<1>2. DueSeen' = DueSeen
  BY <1>1 DEF DueSeen
<1>3. CASE UNCHANGED db
  BY <1>1, <1>2, <1>3 DEF Seen, ResultSeen, db
<1>4. CASE /\ row[j].status = "processing"
           /\ SetRow(j, "failed", row[j].attempts + 1) /\ Announce(j, "payment.failed")
  <2>1. ResultSeen[j] = "pending" /\ ResultSeen' = [ResultSeen EXCEPT ![j] = "failed"]
    BY <1>1, <1>4, ResultUpdate DEF ResultSeen, ResultOf
  <2>2. Ledger!Fail(j)
    BY <1>1, <1>2, <1>4, <2>1
    DEF Ledger!Fail, Ledger!Enter, Ledger!Announce, Announce, DueSeen, ResultSeen
  <2> QED BY <1>1, <2>2, LedgerNext
<1> QED BY <1>1, <1>3, <1>4 DEF FailRow

\* Counting an attempt, acknowledging and a declined charge do not show.
LEMMA RestSeen ==
  ASSUME BaseInv, NEW w \in Workers,
         Decline(w) \/ CommitRetry(w) \/ CommitFault(w) \/ Ack(w) \/ Nack(w)
  PROVE  UNCHANGED Seen
<1>1. UNCHANGED <<announced, charged, refunds, outcome>>
  BY DEF Decline, CommitRetry, CommitFault, Ack, Nack, Finish, Fault, env, books, db
<1>2. ResultSeen' = ResultSeen
  <2>1. CASE row' = row BY <2>1 DEF ResultSeen
  <2>2. CASE row' # row
    <3>1. /\ pc[w] = "commit" /\ Job(w) \in Jobs /\ row \in Rows
          /\ SetRow(Job(w), row[Job(w)].status, row[Job(w)].attempts + 1)
      BY <2>2, JobInJobs DEF Decline, CommitRetry, CommitFault, CountAttempt, Ack, Nack, Finish, db,
         BaseInv, TypeOK, Rows
    <3>2. ResultSeen' = [ResultSeen EXCEPT ![Job(w)] = ResultOf(row[Job(w)].status)]
      BY <3>1, ResultUpdate
    <3> QED BY <3>2 DEF ResultSeen
  <2> QED BY <2>1, <2>2
<1> QED BY <1>1, <1>2 DEF Seen, DueSeen

LEMMA RefundSeen ==
  ASSUME BaseInv, ActedFirst, NEW r \in Refunders, Refund(r)
  PROVE  Ledger!Next \/ UNCHANGED Seen
<1> DEFINE j == Fare(rtrip[r])
<1>1. UNCHANGED outcome /\ DueSeen' = DueSeen
  BY DEF Refund, RefundBegin, RefundAccepted, RefundDeclined, RefundCommit, RefundFault, Fault,
     env, DueSeen
<1>2. rpc[r] # "idle" => j \in Jobs /\ row[j].status = "captured" /\ row \in Rows
  BY FareType DEF BaseInv, RefundsTrip, RefundHolds, TypeOK, Rows
<1>3. CASE (\E t \in Trips : RefundBegin(r, t)) \/ RefundDeclined(r) \/ RefundFault(r)
  BY <1>1, <1>3 DEF RefundBegin, RefundDeclined, RefundFault, RefundEnd, db, books, Seen, ResultSeen
<1>4. CASE RefundAccepted(r)
  <2>1. /\ j \in Jobs /\ row[j].status = "captured"
        /\ UNCHANGED <<row, announced, charged>> /\ refunds' = [refunds EXCEPT ![j] = @ + 1]
    BY <1>2, <1>4 DEF RefundAccepted, db
  <2>2. ResultSeen[j] = "captured" /\ ResultSeen' = ResultSeen /\ j.kind = "trip_fare"
    BY <2>1 DEF ResultSeen, ResultOf, Fare
  <2>3. Ledger!ReturnMoney(j)
    BY <1>1, <2>1, <2>2 DEF Ledger!ReturnMoney, DueSeen, ResultSeen
  <2> QED BY <2>1, <2>3, LedgerNext
<1>5. CASE RefundCommit(r)
  <2>1. /\ j \in Jobs /\ row[j].status = "captured" /\ row \in Rows /\ refunds[j] > 0
        /\ UNCHANGED <<charged, refunds>>
        /\ SetRow(j, "refunded", row[j].attempts) /\ Announce(j, "payment.refunded")
    BY <1>2, <1>5 DEF RefundCommit, RefundEnd, books, ActedFirst, ReturnedFirst
  <2>2. ResultSeen[j] = "captured" /\ ResultSeen' = [ResultSeen EXCEPT ![j] = "refunded"]
    BY <2>1, ResultUpdate DEF ResultSeen, ResultOf
  <2>3. Ledger!Refund(j)
    BY <1>1, <2>1, <2>2
    DEF Ledger!Refund, Ledger!Enter, Ledger!Announce, Announce, DueSeen, ResultSeen
  <2> QED BY <2>1, <2>3, LedgerNext
<1> QED BY <1>3, <1>4, <1>5 DEF Refund

LEMMA StepSeen ==
  ASSUME BaseInv, AskedInv, ActedFirst, [Next]_vars
  PROVE  [Ledger!Next]_(Ledger!ledgerVars)
<1>1. UNCHANGED Seen => UNCHANGED Ledger!ledgerVars
  BY DEF Seen, DueSeen, ResultSeen, Ledger!ledgerVars
<1>2. ASSUME NEW w \in Workers, Handle(w) \/ HandlerFault(w)
      PROVE  Ledger!Next \/ UNCHANGED Seen
  BY <1>2, ClaimSeen, ChargeSeen, CaptureSeen, SettleSeen, RestSeen DEF Handle, HandlerFault
<1>3. \/ \E t \in Trips : Republish(t)
      \/ \E m \in Message : Expire(m)
      \/ Crash
      \/ \E w \in Workers, m \in Message : Deliver(w, m)
      \/ \E w \in Workers : Redeliver(w)
      \/ UNCHANGED vars
      => UNCHANGED Seen
  BY DEF Republish, Redeliver, Duplicate, Expire, Crash, Deliver, vars, db, books, env, Seen,
     DueSeen, ResultSeen
<1> QED BY <1>1, <1>2, <1>3, PublishSeen, RefundSeen DEF Next

\* The payments table, its outbox and the provider implement the ledger:
\* whatever is lost, repeated or interrupted, a fee is opened only as the
\* trip ended, captured only after its money was taken and refunded only
\* after it was returned.
THEOREM ImplementsTheLedger == Spec => ImplementsLedger
<1>1. Init => Ledger!Init
  BY DEF Init, Ledger!Init, Ledger!Entries, Jobs, DueOf, ResultOf
<1>2. BaseInv /\ AskedInv /\ ActedFirst /\ [Next]_vars => [Ledger!Next]_(Ledger!ledgerVars)
  BY StepSeen
<1> QED
  BY <1>1, <1>2, Base, AskedInvariant, ActedInvariant, PTL
  DEF Spec, ImplementsLedger, Ledger!Spec

-----------------------------------------------------------------------------
(* What holds of every ledger holds of the service.                        *)

MoneySeen(j) ==
  /\ ResultSeen[j] \in {"captured", "refunded"} => charged[j] > 0
  /\ ResultSeen[j] = "refunded" => refunds[j] > 0
  /\ ResultSeen[j] # "none" \/ charged[j] > 0 => DueSeen[j.trip] = j.kind
  /\ refunds[j] > 0 => j.kind = "trip_fare" /\ ResultSeen[j] \in {"captured", "refunded"}

LEMMA MoneyOfLedger == Ledger!MoneyFirst <=> \A j \in Jobs : MoneySeen(j)
<1>1. \A j \in Jobs : j.trip \in Trips /\ j.kind \in Kinds
  BY DEF Jobs
<1> QED BY <1>1 DEF Ledger!MoneyFirst, Ledger!Entries, Jobs, MoneySeen, DueSeen, ResultSeen

\* One step of the ledger, on one of its entries or at the end of a trip.
LEMMA MoneyKept ==
  ASSUME TypeOK, TypeOK', Ledger!Next, NEW j \in Jobs, \A i \in Jobs : MoneySeen(i)
  PROVE  MoneySeen(j)'
<1>0. /\ charged \in [Jobs -> Nat] /\ charged' \in [Jobs -> Nat]
      /\ refunds \in [Jobs -> Nat] /\ refunds' \in [Jobs -> Nat]
      /\ j.trip \in Trips /\ j.kind \in Kinds /\ "undecided" \notin Kinds
  BY DEF TypeOK, Jobs, Kinds
<1>1. MoneySeen(j)
  OBVIOUS
<1>2. ASSUME NEW t \in Trips, NEW what \in Kinds \cup {"nothing"}, Ledger!EndTrip(t, what)
      PROVE  MoneySeen(j)'
  <2>1. /\ DueSeen[t] = "undecided" /\ DueSeen' = [DueSeen EXCEPT ![t] = what]
        /\ ResultSeen' = ResultSeen /\ UNCHANGED <<charged, refunds>>
    BY <1>2 DEF Ledger!EndTrip, DueSeen, ResultSeen
  <2>2. DueSeen'[j.trip] = DueSeen[j.trip] \/ DueSeen[j.trip] = "undecided"
    BY <1>0, <2>1 DEF DueSeen
  <2> QED BY <1>0, <1>1, <2>1, <2>2 DEF MoneySeen
<1>3. ASSUME NEW k \in Jobs, Ledger!Open(k)
      PROVE  MoneySeen(j)'
  <2>1. /\ DueSeen[k.trip] = k.kind /\ DueSeen' = DueSeen /\ ResultSeen[k] = "none"
        /\ ResultSeen' = [ResultSeen EXCEPT ![k] = "pending"] /\ UNCHANGED <<charged, refunds>>
    BY <1>3 DEF Ledger!Open, Ledger!Enter, DueSeen, ResultSeen
  <2>2. IF k = j THEN ResultSeen'[j] = "pending" ELSE ResultSeen'[j] = ResultSeen[j]
    BY <2>1 DEF ResultSeen
  <2> QED BY <1>1, <2>1, <2>2 DEF MoneySeen
<1>4. ASSUME NEW k \in Jobs, Ledger!TakeMoney(k)
      PROVE  MoneySeen(j)'
  <2>1. /\ DueSeen[k.trip] = k.kind /\ DueSeen' = DueSeen /\ ResultSeen' = ResultSeen
        /\ charged' = [charged EXCEPT ![k] = @ + 1] /\ UNCHANGED refunds
    BY <1>4 DEF Ledger!TakeMoney, DueSeen, ResultSeen
  <2> QED BY <1>0, <1>1, <2>1 DEF MoneySeen
<1>5. ASSUME NEW k \in Jobs, Ledger!Capture(k)
      PROVE  MoneySeen(j)'
  <2>1. /\ charged[k] > 0 /\ DueSeen' = DueSeen /\ ResultSeen[k] = "pending"
        /\ ResultSeen' = [ResultSeen EXCEPT ![k] = "captured"] /\ UNCHANGED <<charged, refunds>>
    BY <1>5 DEF Ledger!Capture, Ledger!Enter, DueSeen, ResultSeen
  <2>2. IF k = j THEN ResultSeen'[j] = "captured" ELSE ResultSeen'[j] = ResultSeen[j]
    BY <2>1 DEF ResultSeen
  <2> QED BY <1>1, <2>1, <2>2 DEF MoneySeen
<1>6. ASSUME NEW k \in Jobs, Ledger!Fail(k)
      PROVE  MoneySeen(j)'
  <2>1. /\ DueSeen' = DueSeen /\ ResultSeen[k] = "pending"
        /\ ResultSeen' = [ResultSeen EXCEPT ![k] = "failed"] /\ UNCHANGED <<charged, refunds>>
    BY <1>6 DEF Ledger!Fail, Ledger!Enter, DueSeen, ResultSeen
  <2>2. IF k = j THEN ResultSeen'[j] = "failed" ELSE ResultSeen'[j] = ResultSeen[j]
    BY <2>1 DEF ResultSeen
  <2> QED BY <1>1, <2>1, <2>2 DEF MoneySeen
<1>7. ASSUME NEW k \in Jobs, Ledger!ReturnMoney(k)
      PROVE  MoneySeen(j)'
  <2>1. /\ k.kind = "trip_fare" /\ ResultSeen[k] = "captured" /\ DueSeen' = DueSeen
        /\ ResultSeen' = ResultSeen /\ refunds' = [refunds EXCEPT ![k] = @ + 1] /\ UNCHANGED charged
    BY <1>7 DEF Ledger!ReturnMoney, DueSeen, ResultSeen
  <2> QED BY <1>0, <1>1, <2>1 DEF MoneySeen
<1>8. ASSUME NEW k \in Jobs, Ledger!Refund(k)
      PROVE  MoneySeen(j)'
  <2>1. /\ refunds[k] > 0 /\ DueSeen' = DueSeen /\ ResultSeen[k] = "captured"
        /\ ResultSeen' = [ResultSeen EXCEPT ![k] = "refunded"] /\ UNCHANGED <<charged, refunds>>
    BY <1>8 DEF Ledger!Refund, Ledger!Enter, DueSeen, ResultSeen
  <2>2. IF k = j THEN ResultSeen'[j] = "refunded" ELSE ResultSeen'[j] = ResultSeen[j]
    BY <2>1 DEF ResultSeen
  <2> QED BY <1>1, <2>1, <2>2 DEF MoneySeen
<1> QED BY <1>2, <1>3, <1>4, <1>5, <1>6, <1>7, <1>8 DEF Ledger!Next, Ledger!Entries, Jobs

\* In spite of every crash, duplicate and lost answer: no payment is captured
\* or refunded whose money did not move first, and a trip's money moves for
\* the one charge its end asked for, so never for a fare and a fee.
THEOREM MoneyMovesFirst == Spec => []Ledger!MoneyFirst
<1>1. Init => Ledger!MoneyFirst
  BY DEF Init, Ledger!MoneyFirst, Ledger!Entries, Jobs, ResultOf
<1>2. TypeOK /\ TypeOK' /\ Ledger!MoneyFirst /\ [Ledger!Next]_(Ledger!ledgerVars)
        => Ledger!MoneyFirst'
  <2> SUFFICES ASSUME TypeOK, TypeOK', Ledger!MoneyFirst, [Ledger!Next]_(Ledger!ledgerVars)
               PROVE  Ledger!MoneyFirst'
    OBVIOUS
  <2>1. Ledger!MoneyFirst' <=> \A j \in Jobs : MoneySeen(j)'
    <3>1. \A j \in Jobs : j.trip \in Trips /\ j.kind \in Kinds
      BY DEF Jobs
    <3> QED BY <3>1 DEF Ledger!MoneyFirst, Ledger!Entries, Jobs, MoneySeen, DueSeen, ResultSeen
  <2>2. CASE Ledger!Next
    BY <2>1, <2>2, MoneyOfLedger, MoneyKept
  <2>3. CASE UNCHANGED Ledger!ledgerVars
    BY <2>3 DEF Ledger!ledgerVars, Ledger!MoneyFirst
  <2> QED BY <2>2, <2>3
<1> QED
  BY <1>1, <1>2, ImplementsTheLedger, TypeCorrect, PTL DEF Spec, ImplementsLedger, Ledger!Spec

=============================================================================
