------------------------ MODULE PaymentServiceProofs ------------------------
(***************************************************************************)
(* Proofs about the payment service, for every number of trips, concurrent *)
(* deliveries and refunds, any retry budget and any number of duplicates,  *)
(* crashes and faults.                                                     *)
(***************************************************************************)
EXTENDS PaymentService, FiniteSetTheorems, TLAPS

\* Every message is about one job, and keys are what they look like.
LEMMA JobOfType == \A m \in Message : JobOf(m) \in Jobs
  BY DEF Message, Completed, Cancelled, RetryJob, JobOf, Jobs, Kinds

LEMMA FareType == \A t \in Trips : Fare(t) \in Jobs
  BY DEF Fare, Jobs, Kinds

LEMMA RetryJobType ==
  \A j \in Jobs : RetryJob(j) \in Message /\ JobOf(RetryJob(j)) = j /\ Chargeable(RetryJob(j))
  BY DEF Message, RetryJob, JobOf, Jobs, Chargeable

LEMMA EventOfType == \A t \in Trips, o \in Outcomes : EventOf(t, o) \in Message
  BY DEF EventOf, Message, Outcomes

\* The messages and jobs in the hands of deliveries and refunds.
HandlesMessage == \A w \in Workers : pc[w] # "idle" => handling[w] \in Message
RefundsTrip == \A r \in Refunders : rpc[r] # "idle" => rtrip[r] \in Trips

\* A delivery past its claim found a row.
RowClaimed ==
  \A w \in Workers :
    pc[w] \in {"charge", "capture", "settle", "commit"} => row[Job(w)].status # "absent"

\* What the row locks held across an await protect: the row stays as it was
\* read, and its holder is alone.
CommitHolds ==
  \A w \in Workers :
    pc[w] = "commit" =>
      /\ row[Job(w)].status = "processing"
      /\ row[Job(w)].attempts + 1 < MaxAttempts
      /\ \A v \in Workers : pc[v] = "commit" /\ Job(v) = Job(w) => v = w
RefundHolds ==
  \A r \in Refunders :
    rpc[r] # "idle" =>
      /\ row[Fare(rtrip[r])].status = "captured"
      /\ \A s \in Refunders : rpc[s] # "idle" /\ rtrip[s] = rtrip[r] => s = r

BaseInv ==
  /\ TypeOK
  /\ HandlesMessage /\ RefundsTrip
  /\ RowClaimed
  /\ CommitHolds /\ RefundHolds
  /\ RetryBudget

-----------------------------------------------------------------------------
LEMMA InitBase == Init => BaseInv
  BY AttemptsAssumption
  DEF Init, BaseInv, TypeOK, HandlesMessage, RefundsTrip, RowClaimed, CommitHolds,
      RefundHolds, RetryBudget, Statuses, Events, Jobs, Kinds

LEMMA JobInJobs ==
  ASSUME BaseInv, NEW w \in Workers, pc[w] # "idle"
  PROVE  Job(w) \in Jobs
  BY JobOfType DEF BaseInv, HandlesMessage, Job


Protocol == HandlesMessage /\ RefundsTrip /\ RowClaimed /\ CommitHolds /\ RefundHolds /\ RetryBudget

\* What every step of a delivery does to rows and locks: it moves to label l,
\* and changes at most the row of its own job, which it may if nobody else
\* holds the lock.
DeliveryStep(w, l) ==
  /\ pc[w] # "idle" /\ pc' = [pc EXCEPT ![w] = l]
  /\ UNCHANGED <<handling, rpc, rtrip>>
  /\ l \in {"charge", "capture", "settle", "commit"} => row'[Job(w)].status # "absent"
  /\ l = "commit" =>
       /\ row' = row /\ ~Locked(Job(w))
       /\ row[Job(w)].status = "processing" /\ row[Job(w)].attempts + 1 < MaxAttempts
  /\ \/ row' = row
     \/ /\ l # "commit"
        /\ ~Locked(Job(w)) \/ pc[w] = "commit"
        /\ \E status \in Statuses \ {"absent"}, attempts \in 0 .. MaxAttempts :
             /\ status = "processing" => attempts < MaxAttempts
             /\ SetRow(Job(w), status, attempts)

LEMMA DeliveryStepProtocol ==
  ASSUME BaseInv, NEW w \in Workers, NEW l, DeliveryStep(w, l)
  PROVE  Protocol'
<1> USE DEF BaseInv
<1>1. Job(w) \in Jobs /\ row \in [Jobs -> [status : Statuses, attempts : 0 .. MaxAttempts]]
  BY JobInJobs DEF DeliveryStep, TypeOK
<1>2. pc[w] # "idle" /\ \A v \in Workers : pc'[v] = IF v = w THEN l ELSE pc[v]
  BY DEF DeliveryStep, TypeOK
<1>3. \A v \in Workers : Job(v)' = Job(v)
  BY DEF DeliveryStep, Job
<1>4. HandlesMessage'
  BY <1>2 DEF DeliveryStep, HandlesMessage
<1>5. RefundsTrip'
  BY DEF DeliveryStep, RefundsTrip
<1>6. \A v \in Workers : pc[v] # "idle" => Job(v) \in Jobs
  BY JobInJobs
<1>7. CASE row' = row
  <2>1. RowClaimed' BY <1>2, <1>3, <1>7 DEF DeliveryStep, RowClaimed
  <2>2. CommitHolds' BY <1>2, <1>3, <1>7 DEF DeliveryStep, CommitHolds, Locked
  <2>3. RefundHolds' /\ RetryBudget' BY <1>7 DEF DeliveryStep, RefundHolds, RetryBudget
  <2> QED BY <1>4, <1>5, <2>1, <2>2, <2>3 DEF Protocol
<1>8. CASE row' # row
  <2>1. PICK status \in Statuses \ {"absent"}, attempts \in 0 .. MaxAttempts :
          /\ status = "processing" => attempts < MaxAttempts
          /\ row' = [row EXCEPT ![Job(w)] = [status |-> status, attempts |-> attempts]]
    BY <1>8 DEF DeliveryStep, SetRow
  <2>2. l # "commit" /\ (~Locked(Job(w)) \/ pc[w] = "commit")
    BY <1>8 DEF DeliveryStep
  <2>3. row'[Job(w)] = [status |-> status, attempts |-> attempts]
    BY <1>1, <2>1
  <2>4. \A j \in Jobs : j # Job(w) => row'[j] = row[j]
    BY <1>1, <2>1
  <2>5. RowClaimed' BY <1>2, <1>3, <1>6, <2>3, <2>4 DEF RowClaimed
  <2>6. CommitHolds' BY <1>2, <1>3, <1>6, <2>2, <2>4 DEF CommitHolds, Locked
  <2>7. RefundHolds'
    <3> SUFFICES ASSUME NEW r \in Refunders, rpc[r] # "idle"
                 PROVE  /\ row'[Fare(rtrip[r])].status = "captured"
                        /\ \A s \in Refunders : rpc[s] # "idle" /\ rtrip[s] = rtrip[r] => s = r
      BY DEF RefundHolds, DeliveryStep
    <3>1. Fare(rtrip[r]) # Job(w)
      BY <2>2 DEF Locked, CommitHolds, RefundHolds
    <3> QED BY <3>1, <2>4, FareType DEF RefundHolds, RefundsTrip
  <2>8. RetryBudget' BY <2>1, <2>3, <2>4 DEF RetryBudget
  <2> QED BY <1>4, <1>5, <2>5, <2>6, <2>7, <2>8 DEF Protocol
<1> QED BY <1>7, <1>8
LEMMA DeliverProtocol ==
  ASSUME BaseInv, NEW w \in Workers, NEW m \in Message, Deliver(w, m)
  PROVE  Protocol'
<1> USE DEF BaseInv
<1>1. /\ pc[w] = "idle"
      /\ \A v \in Workers : v # w => pc'[v] = pc[v] /\ handling'[v] = handling[v]
      /\ pc'[w] \in {"claim", "ack"} /\ handling'[w] = m
      /\ UNCHANGED <<row, rpc, rtrip>>
  BY DEF Deliver, Goto, Busy, TypeOK, db, refunder
<1>2. \A v \in Workers : v # w => Job(v)' = Job(v)
  BY <1>1 DEF Job
<1>3. HandlesMessage' BY <1>1 DEF HandlesMessage
<1>4. RowClaimed' BY <1>1, <1>2 DEF RowClaimed
<1>5. CommitHolds' BY <1>1, <1>2 DEF CommitHolds
<1>6. RefundsTrip' /\ RefundHolds' /\ RetryBudget'
  BY <1>1 DEF RefundsTrip, RefundHolds, RetryBudget
<1> QED BY <1>3, <1>4, <1>5, <1>6 DEF Protocol

LEMMA FinishProtocol ==
  ASSUME BaseInv, NEW w \in Workers, Finish(w)
  PROVE  Protocol'
<1> USE DEF BaseInv
<1>1. /\ \A v \in Workers : v # w => pc'[v] = pc[v] /\ handling'[v] = handling[v]
      /\ pc'[w] = "idle"
      /\ UNCHANGED <<row, rpc, rtrip>>
  BY DEF Finish, Goto, TypeOK, db, refunder
<1>2. \A v \in Workers : v # w => Job(v)' = Job(v)
  BY <1>1 DEF Job
<1>3. HandlesMessage' BY <1>1 DEF HandlesMessage
<1>4. RowClaimed' BY <1>1, <1>2 DEF RowClaimed
<1>5. CommitHolds' BY <1>1, <1>2 DEF CommitHolds
<1>6. RefundsTrip' /\ RefundHolds' /\ RetryBudget'
  BY <1>1 DEF RefundsTrip, RefundHolds, RetryBudget
<1> QED BY <1>3, <1>4, <1>5, <1>6 DEF Protocol

\* Steps that touch neither rows nor deliveries nor refund requests.
LEMMA FrameProtocol ==
  ASSUME BaseInv, UNCHANGED <<row, pc, handling, rpc, rtrip>>
  PROVE  Protocol'
  BY DEF BaseInv, Protocol, HandlesMessage, RefundsTrip, RowClaimed, CommitHolds, RefundHolds,
         RetryBudget, Job

LEMMA CrashProtocol ==
  ASSUME BaseInv, Crash
  PROVE  Protocol'
  BY DEF BaseInv, Crash, db, Protocol, HandlesMessage, RefundsTrip, RowClaimed, CommitHolds,
         RefundHolds, RetryBudget

LEMMA RefundProtocol ==
  ASSUME BaseInv, NEW r \in Refunders, Refund(r)
  PROVE  Protocol'
<1> USE DEF BaseInv
<1>1. CASE \E t \in Trips : RefundBegin(r, t)
  <2>1. PICK t \in Trips : RefundBegin(r, t) BY <1>1
  <2>2. /\ \A s \in Refunders : s # r => rpc'[s] = rpc[s] /\ rtrip'[s] = rtrip[s]
        /\ rpc[r] = "idle" /\ rtrip'[r] = t
        /\ UNCHANGED <<row, pc, handling>>
    BY <2>1 DEF RefundBegin, TypeOK, db, handler
  <2>3. ~Locked(Fare(t)) /\ row[Fare(t)].status = "captured"
    BY <2>1 DEF RefundBegin
  <2>4. RefundsTrip' BY <2>2 DEF RefundsTrip
  <2>5. RefundHolds'
    <3>1. \A s \in Refunders : rpc[s] # "idle" => rtrip[s] # t
      BY <2>3 DEF Locked
    <3> QED BY <2>2, <2>3, <3>1 DEF RefundHolds
  <2>6. HandlesMessage' /\ RowClaimed' /\ CommitHolds' /\ RetryBudget'
    BY <2>2 DEF HandlesMessage, RowClaimed, CommitHolds, RetryBudget, Job
  <2> QED BY <2>4, <2>5, <2>6 DEF Protocol
<1>2. CASE RefundAccepted(r)
  <2>1. /\ \A s \in Refunders : rpc'[s] # "idle" => rpc[s] # "idle"
        /\ UNCHANGED <<row, pc, handling, rtrip>>
    BY <1>2 DEF RefundAccepted, TypeOK, db, handler
  <2> QED BY <2>1 DEF Protocol, HandlesMessage, RefundsTrip, RowClaimed, CommitHolds,
                      RefundHolds, RetryBudget, Job
<1>3. CASE RefundDeclined(r) \/ RefundFault(r)
  <2>1. /\ \A s \in Refunders : s # r => rpc'[s] = rpc[s] /\ rtrip'[s] = rtrip[s]
        /\ rpc'[r] = "idle"
        /\ UNCHANGED <<row, pc, handling>>
    BY <1>3 DEF RefundDeclined, RefundFault, RefundEnd, TypeOK, db, handler
  <2>2. RefundsTrip' /\ RefundHolds' BY <2>1 DEF RefundsTrip, RefundHolds
  <2> QED BY <2>1, <2>2 DEF Protocol, HandlesMessage, RowClaimed, CommitHolds, RetryBudget, Job
<1>4. CASE RefundCommit(r)
  <2> DEFINE j == Fare(rtrip[r])
  <2>1. /\ \A s \in Refunders : s # r => rpc'[s] = rpc[s] /\ rtrip'[s] = rtrip[s]
        /\ rpc[r] = "called" /\ rpc'[r] = "idle"
        /\ UNCHANGED <<pc, handling>>
    BY <1>4 DEF RefundCommit, RefundEnd, TypeOK, handler
  <2>2. j \in Jobs /\ row[j].status = "captured"
    BY <2>1, FareType DEF RefundsTrip, RefundHolds
  <2>3. /\ row'[j].status = "refunded"
        /\ \A k \in Jobs : k # j => row'[k] = row[k]
    BY <1>4, <2>2 DEF RefundCommit, SetRow, TypeOK
  <2>4. \A v \in Workers : pc[v] # "idle" => Job(v) \in Jobs
    BY JobInJobs
  <2>5. \A v \in Workers : Job(v)' = Job(v)
    BY <2>1 DEF Job
  <2>6. HandlesMessage' /\ RefundsTrip'
    BY <2>1 DEF HandlesMessage, RefundsTrip
  <2>7. RowClaimed' BY <2>1, <2>2, <2>3, <2>4, <2>5 DEF RowClaimed
  <2>8. CommitHolds' BY <2>1, <2>2, <2>3, <2>4, <2>5 DEF CommitHolds
  <2>9. RefundHolds'
    <3> SUFFICES ASSUME NEW s \in Refunders, rpc'[s] # "idle"
                 PROVE  /\ row'[Fare(rtrip'[s])].status = "captured"
                        /\ \A q \in Refunders : rpc'[q] # "idle" /\ rtrip'[q] = rtrip'[s] => q = s
      BY DEF RefundHolds
    <3>1. s # r /\ rpc[s] # "idle" /\ rtrip'[s] = rtrip[s] /\ rtrip[s] # rtrip[r]
      BY <2>1 DEF RefundHolds
    <3>2. Fare(rtrip[s]) # j /\ Fare(rtrip[s]) \in Jobs
      BY <2>1, <3>1, FareType DEF Fare, RefundsTrip
    <3> QED BY <2>1, <2>3, <3>1, <3>2 DEF RefundHolds
  <2>10. RetryBudget' BY <2>2, <2>3 DEF RetryBudget
  <2> QED BY <2>6, <2>7, <2>8, <2>9, <2>10 DEF Protocol
<1> QED BY <1>1, <1>2, <1>3, <1>4 DEF Refund

LEMMA CaptureRowStep ==
  ASSUME BaseInv, NEW j \in Jobs, CaptureRow(j)
  PROVE  \/ row' = row
         \/ row[j].status = "processing" /\ SetRow(j, "captured", row[j].attempts + 1)
  BY DEF CaptureRow, db

\* Every step of a handler, faults included, but the last.
LEMMA HandlerStep ==
  ASSUME BaseInv, NEW w \in Workers, Handle(w) \/ HandlerFault(w), ~Finish(w)
  PROVE  \E l : DeliveryStep(w, l)
<1> USE DEF BaseInv, Statuses
<1> DEFINE j == Job(w)
<1>1. pc[w] # "idle" => j \in Jobs
  BY JobInJobs
<1>2. pc[w] # "idle" => row[j] \in [status : Statuses, attempts : 0 .. MaxAttempts]
  BY <1>1 DEF TypeOK
<1>3. row[j].status = "processing" /\ pc[w] # "idle" => row[j].attempts < MaxAttempts
  BY <1>1 DEF RetryBudget
<1>4. pc[w] \in {"charge", "capture", "settle", "commit"} => row[j].status # "absent"
  BY DEF RowClaimed
<1>5. CASE Claim(w)
  <2>1. CASE row[j].status = "absent"
    <3>1. SetRow(j, "processing", 0)
      BY <1>5, <2>1 DEF Claim
    <3>2. row'[j].status # "absent" BY <1>1, <1>5, <3>1 DEF Claim, SetRow, TypeOK
    <3>3. DeliveryStep(w, "charge")
      BY <1>5, <2>1, <3>1, <3>2, AttemptsAssumption DEF Claim, Goto, DeliveryStep, refunder
    <3> QED BY <3>3
  <2>2. CASE row[j].status # "absent"
    <3>1. CASE pc' = [pc EXCEPT ![w] = "charge"] /\ row' = row
      BY <1>5, <2>2, <3>1 DEF Claim, DeliveryStep, refunder
    <3>2. CASE pc' = [pc EXCEPT ![w] = "ack"] /\ row' = row
      BY <1>5, <2>2, <3>2 DEF Claim, DeliveryStep, refunder
    <3> QED BY <1>5, <2>2, <3>1, <3>2 DEF Claim, Goto
  <2> QED BY <2>1, <2>2
<1>6. CASE ClaimFault(w)
  <2>1. DeliveryStep(w, "nack")
    BY <1>6, AttemptsAssumption DEF ClaimFault, Goto, DeliveryStep, refunder
  <2> QED BY <2>1
<1>7. CASE Charge(w)
  BY <1>4, <1>7 DEF Charge, Goto, DeliveryStep, refunder, db
<1>8. CASE Decline(w) \/ AnswerLost(w)
  <2>1. /\ pc[w] = "charge" /\ Goto(w, "settle")
        /\ UNCHANGED <<row, handling, rpc, rtrip>>
    BY <1>8 DEF Decline, AnswerLost, refunder, db
  <2> QED BY <1>4, <2>1 DEF Goto, DeliveryStep
<1>9. CASE Capture(w) \/ CaptureFault(w)
  <2>1. /\ pc[w] = "capture" /\ ~Locked(j) /\ UNCHANGED <<handling, rpc, rtrip>>
        /\ \/ row' = row
           \/ row[j].status = "processing" /\ SetRow(j, "captured", row[j].attempts + 1)
    BY <1>1, <1>9, CaptureRowStep DEF Capture, CaptureFault, refunder, db
  <2>2. row'[j].status # "absent"
    BY <1>1, <1>4, <2>1 DEF SetRow, TypeOK
  <2>3. \/ row' = row
        \/ \E status \in Statuses \ {"absent"}, attempts \in 0 .. MaxAttempts :
             /\ status = "processing" => attempts < MaxAttempts
             /\ SetRow(j, status, attempts)
    <3>1. row[j].status = "processing" => row[j].attempts + 1 \in 0 .. MaxAttempts
      BY <1>2, <1>3, <2>1, AttemptsAssumption
    <3> QED BY <2>1, <3>1
  <2>4. pc' = [pc EXCEPT ![w] = "ack"] \/ pc' = [pc EXCEPT ![w] = "settle"]
    BY <1>9 DEF Capture, CaptureFault, Goto
  <2> QED BY <2>1, <2>2, <2>3, <2>4 DEF DeliveryStep
<1>10. CASE Settle(w) \/ SettleFault(w)
  <2>1. pc[w] = "settle" /\ ~Locked(j) /\ UNCHANGED <<handling, rpc, rtrip>>
    BY <1>10 DEF Settle, SettleFault, refunder
  <2>2. CASE row' = row /\ pc' = [pc EXCEPT ![w] = "commit"]
    <3>1. row[j].status = "processing" /\ ~LastAttempt(w)
      BY <2>1, <2>2, <1>10 DEF Settle, SettleFault, Goto, TypeOK
    <3>2. row[j].attempts + 1 < MaxAttempts
      BY <1>2, <2>1, <3>1, AttemptsAssumption DEF LastAttempt
    <3> QED BY <2>1, <2>2, <3>1, <3>2 DEF DeliveryStep
  <2>3. CASE row' = row /\ (pc' = [pc EXCEPT ![w] = "ack"] \/ pc' = [pc EXCEPT ![w] = "nack"])
    BY <2>1, <2>3 DEF DeliveryStep
  <2>4. CASE /\ row[j].status = "processing" /\ SetRow(j, "failed", row[j].attempts + 1)
             /\ pc' = [pc EXCEPT ![w] = "ack"] \/ pc' = [pc EXCEPT ![w] = "nack"]
    <3>1. row[j].attempts + 1 \in 0 .. MaxAttempts
      BY <1>2, <1>3, <2>1, <2>4, AttemptsAssumption
    <3> QED BY <2>1, <2>4, <3>1 DEF DeliveryStep
  <2> QED BY <1>10, <2>2, <2>3, <2>4 DEF Settle, SettleFault, Goto, FailRow, db
<1>11. CASE CommitRetry(w) \/ CommitFault(w)
  <2>1. /\ pc[w] = "commit" /\ UNCHANGED <<handling, rpc, rtrip>>
        /\ row' = row \/ SetRow(j, "processing", row[j].attempts + 1)
        /\ pc' = [pc EXCEPT ![w] = "ack"] \/ pc' = [pc EXCEPT ![w] = "nack"]
    BY <1>11 DEF CommitRetry, CommitFault, CountAttempt, Goto, CommitHolds, refunder
  <2>2. row[j].attempts + 1 \in 0 .. MaxAttempts /\ row[j].attempts + 1 < MaxAttempts
    BY <1>2, <2>1, AttemptsAssumption DEF CommitHolds
  <2> QED BY <2>1, <2>2 DEF DeliveryStep
<1> QED BY <1>5, <1>6, <1>7, <1>8, <1>9, <1>10, <1>11 DEF Handle, HandlerFault, Ack, Nack

-----------------------------------------------------------------------------
(* Type correctness of every step.                                         *)

Rows == [Jobs -> [status : Statuses, attempts : 0 .. MaxAttempts]]

LEMMA DeliveryStepRow ==
  ASSUME BaseInv, NEW w \in Workers, NEW l, DeliveryStep(w, l)
  PROVE  row' \in Rows
<1>1. Job(w) \in Jobs /\ row \in Rows
  BY JobInJobs DEF DeliveryStep, BaseInv, TypeOK, Rows
<1> QED BY <1>1 DEF DeliveryStep, SetRow, Rows

LEMMA RefundRow ==
  ASSUME BaseInv, NEW r \in Refunders, Refund(r)
  PROVE  row' \in Rows
<1>1. row \in Rows
  BY DEF BaseInv, TypeOK, Rows
<1>2. CASE RefundCommit(r)
  <2>1. rtrip[r] \in Trips BY <1>2 DEF RefundCommit, BaseInv, RefundsTrip
  <2>2. row[Fare(rtrip[r])].attempts \in 0 .. MaxAttempts
    BY <1>1, <2>1, FareType DEF Rows
  <2> QED BY <1>1, <1>2, <2>2 DEF RefundCommit, SetRow, Rows, Statuses
<1> QED BY <1>1, <1>2 DEF Refund, RefundBegin, RefundAccepted, RefundDeclined, RefundFault, db

LEMMA HandlerType ==
  ASSUME BaseInv, NEW w \in Workers, Handle(w) \/ HandlerFault(w)
  PROVE  TypeOK'
<1> USE DEF BaseInv, db, broker, handler, refunder, books, env, Goto
<1>1. row' \in Rows
  <2>1. CASE Finish(w) BY <2>1 DEF TypeOK, Finish, Rows
  <2> QED BY <2>1, HandlerStep, DeliveryStepRow
<1>2. announced' \in [Jobs -> [Events -> Nat]]
  BY DEF TypeOK, Handle, HandlerFault, Claim, ClaimFault, Charge, Decline, AnswerLost, Capture,
         CaptureFault, CaptureRow, Settle, SettleFault, FailRow, CommitRetry, CommitFault, Ack,
         Nack, Finish, Announce
<1>3. work' \in [Message -> Nat] /\ dlq' \in [Message -> Nat]
  BY DEF TypeOK, Handle, HandlerFault, Claim, ClaimFault, Charge, Decline, AnswerLost, Capture,
         CaptureFault, Settle, SettleFault, CommitRetry, CommitFault, Ack, Nack, Finish, Put
<1>4. retry' \in [Message -> Nat]
  BY DEF TypeOK, Handle, HandlerFault, Claim, ClaimFault, Charge, Decline, AnswerLost, Capture,
         CaptureFault, Settle, SettleFault, CommitRetry, CommitFault, Ack, Nack, Finish, Put
<1>5. pc' \in [Workers -> {"idle", "claim", "charge", "capture", "settle",
                            "commit", "ack", "nack"}]
  BY DEF TypeOK, Handle, HandlerFault, Claim, ClaimFault, Charge, Decline, AnswerLost, Capture,
         CaptureFault, Settle, SettleFault, CommitRetry, CommitFault, Ack, Nack, Finish
<1>6. handling' \in [Workers -> Message \cup {NoMessage}] /\ retryable' \in [Workers -> BOOLEAN]
  BY DEF TypeOK, Handle, HandlerFault, Claim, ClaimFault, Charge, Decline, AnswerLost, Capture,
         CaptureFault, Settle, SettleFault, CommitRetry, CommitFault, Ack, Nack, Finish
<1>7. charged' \in [Jobs -> Nat] /\ refunds' \in [Jobs -> Nat] /\ leaked' \in Nat
  BY DEF TypeOK, Handle, HandlerFault, Claim, ClaimFault, Charge, Decline, AnswerLost, Capture,
         CaptureFault, Settle, SettleFault, CommitRetry, CommitFault, Ack, Nack, Finish
<1>8. /\ rpc' \in [Refunders -> {"idle", "calling", "called"}]
      /\ rtrip' \in [Refunders -> Trips \cup {NoTrip}]
      /\ outcome' \in [Trips -> Outcomes \cup {"open"}]
      /\ dups' \in Nat /\ crashes' \in Nat /\ faults' \in Nat
  BY DEF TypeOK, Handle, HandlerFault, Claim, ClaimFault, Charge, Decline, AnswerLost, Capture,
         CaptureFault, Settle, SettleFault, CommitRetry, CommitFault, Ack, Nack, Finish, Fault
<1> QED BY <1>1, <1>2, <1>3, <1>4, <1>5, <1>6, <1>7, <1>8 DEF TypeOK, Rows

LEMMA RefundType ==
  ASSUME BaseInv, NEW r \in Refunders, Refund(r)
  PROVE  TypeOK'
<1> USE DEF BaseInv, db, broker, handler, refunder, books, env
<1>1. row' \in Rows
  BY RefundRow
<1>2. announced' \in [Jobs -> [Events -> Nat]] /\ refunds' \in [Jobs -> Nat]
  BY DEF TypeOK, Refund, RefundBegin, RefundAccepted, RefundDeclined, RefundCommit, RefundFault,
         RefundEnd, Announce
<1>3. /\ rpc' \in [Refunders -> {"idle", "calling", "called"}]
      /\ rtrip' \in [Refunders -> Trips \cup {NoTrip}]
  BY DEF TypeOK, Refund, RefundBegin, RefundAccepted, RefundDeclined, RefundCommit, RefundFault,
         RefundEnd
<1>4. dups' \in Nat /\ crashes' \in Nat /\ faults' \in Nat
      /\ UNCHANGED <<broker, handler, leaked, charged, outcome>>
  BY DEF TypeOK, Refund, RefundBegin, RefundAccepted, RefundDeclined, RefundCommit, RefundFault,
         RefundEnd, Fault
<1> QED BY <1>1, <1>2, <1>3, <1>4 DEF TypeOK, Rows

\* The steps of the environment keep the payment side as it is, but for the
\* crash, which stops every delivery and refund.
LEMMA EnvironmentType ==
  ASSUME BaseInv,
         \/ \E t \in Trips, o \in Outcomes : Publish(t, o)
         \/ \E t \in Trips : Republish(t)
         \/ \E m \in Message : Expire(m)
         \/ \E w \in Workers : Redeliver(w)
  PROVE  TypeOK' /\ UNCHANGED <<row, announced, pc, handling, rpc, rtrip>>
<1> USE DEF BaseInv, db, broker, handler, refunder, books, env, Put, Take
<1>1. CASE \E t \in Trips, o \in Outcomes : Publish(t, o)
  BY <1>1, EventOfType DEF TypeOK, Publish
<1>2. ASSUME NEW m \in Message, Duplicate(m)
      PROVE  TypeOK' /\ UNCHANGED <<row, announced, pc, handling, rpc, rtrip>>
  BY <1>2 DEF TypeOK, Duplicate
<1>3. CASE \E t \in Trips : Republish(t)
  <2>1. PICK t \in Trips : outcome[t] # "open" /\ Duplicate(EventOf(t, outcome[t]))
    BY <1>3 DEF Republish
  <2>2. EventOf(t, outcome[t]) \in Message
    BY <2>1, EventOfType DEF TypeOK
  <2> QED BY <1>2, <2>1, <2>2
<1>4. CASE \E m \in Message : Expire(m)
  <2>1. PICK m \in Message : Expire(m) BY <1>4
  <2>2. retry[m] - 1 \in Nat /\ work[m] + 1 \in Nat BY <2>1 DEF Expire, TypeOK
  <2> QED BY <2>1, <2>2 DEF TypeOK, Expire
<1>5. CASE \E w \in Workers : Redeliver(w)
  BY <1>2, <1>5 DEF Redeliver, Busy, HandlesMessage
<1> QED BY <1>1, <1>3, <1>4, <1>5

LEMMA DeliverType ==
  ASSUME BaseInv, NEW w \in Workers, NEW m \in Message, Deliver(w, m)
  PROVE  TypeOK'
<1>1. work[m] - 1 \in Nat BY DEF Deliver, BaseInv, TypeOK
<1> QED BY <1>1 DEF BaseInv, TypeOK, Deliver, Take, Goto, db, refunder, books, env

LEMMA CrashType ==
  ASSUME BaseInv, Crash
  PROVE  TypeOK'
<1>1. \A m \in Message :
        Cardinality({w \in Workers : Busy(w) /\ handling[w] = m}) \in Nat
  BY WorkersAssumption, FS_Subset, FS_CardinalityType
<1> QED BY <1>1 DEF BaseInv, TypeOK, Crash, db, books

LEMMA NextBase == BaseInv /\ [Next]_vars => BaseInv'
<1> SUFFICES ASSUME BaseInv, [Next]_vars PROVE BaseInv'
  OBVIOUS
<1>1. ASSUME TypeOK', Protocol' PROVE BaseInv'
  BY <1>1 DEF BaseInv, Protocol
<1>2. CASE \/ \E t \in Trips, o \in Outcomes : Publish(t, o)
           \/ \E t \in Trips : Republish(t)
           \/ \E m \in Message : Expire(m)
           \/ \E w \in Workers : Redeliver(w)
  BY <1>1, <1>2, EnvironmentType, FrameProtocol
<1>3. CASE Crash
  BY <1>1, <1>3, CrashType, CrashProtocol
<1>4. CASE \E w \in Workers, m \in Message : Deliver(w, m)
  BY <1>1, <1>4, DeliverType, DeliverProtocol
<1>5. CASE \E w \in Workers : Handle(w) \/ HandlerFault(w)
  BY <1>1, <1>5, HandlerType, HandlerStep, DeliveryStepProtocol, FinishProtocol
<1>6. CASE \E r \in Refunders : Refund(r)
  BY <1>1, <1>6, RefundType, RefundProtocol
<1>7. CASE UNCHANGED vars
  <2>1. TypeOK'
    BY <1>7 DEF BaseInv, TypeOK, vars, db, broker, handler, refunder, books, env
  <2> QED BY <1>1, <1>7, <2>1, FrameProtocol DEF vars, db, handler, refunder
<1> QED BY <1>2, <1>3, <1>4, <1>5, <1>6, <1>7 DEF Next

\* The base invariant, from which every result below starts: types, the row
\* locks, and how rows, charges and the phases of workers agree.
THEOREM Base == Spec => []BaseInv
<1>1. Init => BaseInv BY InitBase
<1>2. BaseInv /\ [Next]_vars => BaseInv' BY NextBase
<1> QED BY <1>1, <1>2, PTL DEF Spec

\* The variables keep their types: in particular attempts never exceed
\* PAYMENT_MAX_ATTEMPTS, whichever deliveries count them.
THEOREM TypeCorrect == Spec => []TypeOK
<1>1. BaseInv => TypeOK BY DEF BaseInv
<1> QED BY <1>1, Base, PTL

\* A payment in processing always has an attempt of its budget left, so that
\* the claim of its next delivery never drops it as handled.
THEOREM BudgetLeft == Spec => []RetryBudget
<1>1. BaseInv => RetryBudget BY DEF BaseInv
<1> QED BY <1>1, Base, PTL

-----------------------------------------------------------------------------
(* Settled payments.                                                       *)

\* What a step may do to the row of a job, and what the outbox gets with it.
RowStep(j) ==
  \/ row'[j] = row[j] /\ announced'[j] = announced[j]
  \/ /\ row[j].status \in {"absent", "processing"} /\ row'[j].status = "processing"
     /\ announced'[j] = announced[j]
  \/ /\ row[j].status = "processing" /\ row'[j].status = "captured"
     /\ announced'[j] = [announced[j] EXCEPT !["payment.captured"] = @ + 1]
  \/ /\ row[j].status = "processing" /\ row'[j].status = "failed"
     /\ announced'[j] = [announced[j] EXCEPT !["payment.failed"] = @ + 1]
  \/ /\ row[j].status = "captured" /\ row'[j].status = "refunded"
     /\ announced'[j] = [announced[j] EXCEPT !["payment.refunded"] = @ + 1]

LEMMA RowUpdate ==
  ASSUME row \in Rows, NEW k \in Jobs, NEW status, NEW attempts, SetRow(k, status, attempts)
  PROVE  /\ row'[k].status = status
         /\ \A i \in Jobs : i # k => row'[i] = row[i]
  BY DEF Rows, SetRow

LEMMA AnnouncedUpdate ==
  ASSUME announced \in [Jobs -> [Events -> Nat]], NEW k \in Jobs, NEW e \in Events, Announce(k, e)
  PROVE  /\ announced'[k] = [announced[k] EXCEPT ![e] = @ + 1]
         /\ \A i \in Jobs : i # k => announced'[i] = announced[i]
  BY DEF Announce

LEMMA RowSteps ==
  ASSUME BaseInv, [Next]_vars, NEW j \in Jobs
  PROVE  RowStep(j)
<1> USE DEF BaseInv, RowStep
<1>1. row \in Rows /\ announced \in [Jobs -> [Events -> Nat]]
  BY DEF TypeOK, Rows
<1>2. CASE UNCHANGED db
  BY <1>2 DEF db
<1>3. ASSUME NEW w \in Workers, Handle(w) \/ HandlerFault(w)
      PROVE  RowStep(j)
  <2>1. CASE UNCHANGED db
    BY <1>2, <2>1
  <2>2. CASE ~UNCHANGED db
    <3>1. pc[w] \in {"claim", "capture", "settle", "commit"}
      BY <1>3, <2>2 DEF Handle, HandlerFault, Claim, ClaimFault, Charge, Decline, AnswerLost,
           Capture, CaptureFault, Settle, SettleFault, CommitRetry, CommitFault, Ack, Nack, Finish
    <3>2. Job(w) \in Jobs
      BY <3>1, JobInJobs
    <3>3. \/ /\ row[Job(w)].status = "absent" /\ SetRow(Job(w), "processing", 0)
             /\ UNCHANGED announced
          \/ /\ row[Job(w)].status = "processing"
             /\ SetRow(Job(w), "captured", row[Job(w)].attempts + 1)
             /\ Announce(Job(w), "payment.captured")
          \/ /\ row[Job(w)].status = "processing"
             /\ SetRow(Job(w), "failed", row[Job(w)].attempts + 1)
             /\ Announce(Job(w), "payment.failed")
          \/ /\ row[Job(w)].status = "processing"
             /\ SetRow(Job(w), "processing", row[Job(w)].attempts + 1)
             /\ UNCHANGED announced
      BY <1>3, <2>2
         DEF Handle, HandlerFault, Claim, ClaimFault, Charge, Decline, AnswerLost, Capture,
             CaptureFault, CaptureRow, Settle, SettleFault, FailRow, CommitRetry, CommitFault,
             CountAttempt, CommitHolds, Ack, Nack, Finish, db
    <3>4. "payment.captured" \in Events /\ "payment.failed" \in Events
      BY DEF Events
    <3> DEFINE k == Job(w)
    <3>5. k \in Jobs
      BY <3>2
    <3> HIDE DEF k
    <3>6. \A s, a : SetRow(k, s, a) => /\ row'[k].status = s
                                       /\ j # k => row'[j] = row[j]
      BY <1>1, <3>5, RowUpdate
    <3>7. \A e \in Events : Announce(k, e) =>
            /\ announced'[k] = [announced[k] EXCEPT ![e] = @ + 1]
            /\ j # k => announced'[j] = announced[j]
      BY <1>1, <3>5, AnnouncedUpdate
    <3> QED BY <3>3, <3>4, <3>6, <3>7 DEF k
  <2> QED BY <2>1, <2>2
<1>4. ASSUME NEW r \in Refunders, Refund(r)
      PROVE  RowStep(j)
  <2>1. CASE RefundCommit(r)
    <3> DEFINE k == Fare(rtrip[r])
    <3>1. k \in Jobs /\ row[k].status = "captured" /\ "payment.refunded" \in Events
      BY <2>1, FareType DEF RefundCommit, RefundsTrip, RefundHolds, Events
    <3>2. SetRow(k, "refunded", row[k].attempts) /\ Announce(k, "payment.refunded")
      BY <2>1 DEF RefundCommit
    <3> HIDE DEF k
    <3>3. row'[k].status = "refunded" /\ (j # k => row'[j] = row[j])
      BY <1>1, <3>1, <3>2, RowUpdate
    <3>4. /\ announced'[k] = [announced[k] EXCEPT !["payment.refunded"] = @ + 1]
          /\ j # k => announced'[j] = announced[j]
      BY <1>1, <3>1, <3>2, AnnouncedUpdate
    <3> QED BY <3>1, <3>3, <3>4
  <2> QED BY <1>2, <1>4, <2>1
          DEF Refund, RefundBegin, RefundAccepted, RefundDeclined, RefundFault
<1> QED BY <1>2, <1>3, <1>4
        DEF Next, vars, Publish, Republish, Redeliver, Duplicate, Expire, Crash, Deliver

\* Whatever is redelivered, repeated or interrupted, a settled payment keeps
\* its result; a captured one may still be refunded.
THEOREM SettledStaysSettled == Spec => SettledIsFinal
<1>1. BaseInv /\ [Next]_vars =>
        [\A j \in Jobs : Settled(j) =>
           \/ row'[j] = row[j]
           \/ row[j].status = "captured" /\ row'[j].status = "refunded"]_vars
  BY RowSteps DEF RowStep, Settled
<1> QED BY <1>1, Base, PTL DEF Spec, SettledIsFinal

\* Each settlement is announced once, and no other is.
THEOREM AnnouncedExactlyOnce == Spec => []AnnouncedOnce
<1>1. Init => AnnouncedOnce
  BY DEF Init, AnnouncedOnce, Count, Events
<1>2. BaseInv /\ AnnouncedOnce /\ [Next]_vars => AnnouncedOnce'
  <2> SUFFICES ASSUME BaseInv, AnnouncedOnce, [Next]_vars, NEW j \in Jobs
               PROVE  /\ announced'[j]["payment.captured"] =
                           Count(row'[j].status \in {"captured", "refunded"})
                      /\ announced'[j]["payment.failed"] = Count(row'[j].status = "failed")
                      /\ announced'[j]["payment.refunded"] = Count(row'[j].status = "refunded")
    BY DEF AnnouncedOnce, Count
  <2>1. announced[j] \in [Events -> Nat]
    BY DEF BaseInv, TypeOK
  <2>2. RowStep(j)
    BY RowSteps
  <2> QED BY <2>1, <2>2 DEF RowStep, AnnouncedOnce, Count, Events
<1> QED BY <1>1, <1>2, Base, PTL DEF Spec

-----------------------------------------------------------------------------
(* Only what a trip asked for is charged.                                  *)

\* A delivery at work on a message has found it chargeable, and fails only
\* when something failed.
InHand ==
  \A w \in Workers :
    /\ pc[w] \notin {"idle", "ack"} => Chargeable(handling[w])
    /\ pc[w] = "nack" => faults > 0

\* Every chargeable copy, queued, parked or in hand, was asked for.
AskedMessages ==
  \A m \in Message :
    Chargeable(m) /\ (work[m] > 0 \/ retry[m] > 0 \/ \E w \in Workers : Busy(w) /\ handling[w] = m)
      => Asked(JobOf(m))

AskedInv == InHand /\ AskedMessages /\ OnlyAskedIsCharged

LEMMA EventAsked ==
  ASSUME NEW t \in Trips, NEW o \in Outcomes, outcome[t] = o, Chargeable(EventOf(t, o))
  PROVE  Asked(JobOf(EventOf(t, o)))
  BY DEF EventOf, Chargeable, Asked, JobOf, Completed, Cancelled, Outcomes

LEMMA InitAsked == Init => AskedInv
  BY DEF Init, AskedInv, InHand, AskedMessages, OnlyAskedIsCharged, Busy

LEMMA HandlerAsked ==
  ASSUME BaseInv, AskedInv, NEW w \in Workers, Handle(w) \/ HandlerFault(w)
  PROVE  AskedInv'
<1> USE DEF BaseInv, AskedInv
<1>1. UNCHANGED <<work, outcome>> /\ faults' \in Nat /\ faults' >= faults
  BY DEF Handle, HandlerFault, Claim, ClaimFault, Charge, Decline, AnswerLost, Capture,
         CaptureFault, Settle, SettleFault, CommitRetry, CommitFault, Ack, Nack, Finish,
         Fault, broker, env, TypeOK
<1>2. \A j \in Jobs : Asked(j)' <=> Asked(j)
  BY <1>1 DEF Asked
<1>3. \A v \in Workers : v # w => pc'[v] = pc[v] /\ handling'[v] = handling[v]
  BY DEF Handle, HandlerFault, Claim, ClaimFault, Charge, Decline, AnswerLost, Capture,
         CaptureFault, Settle, SettleFault, CommitRetry, CommitFault, Ack, Nack, Finish,
         Goto, handler, TypeOK
<1>4. pc[w] # "idle" /\ (pc'[w] # "idle" => handling'[w] = handling[w])
  BY DEF Handle, HandlerFault, Claim, ClaimFault, Charge, Decline, AnswerLost, Capture,
         CaptureFault, Settle, SettleFault, CommitRetry, CommitFault, Ack, Nack, Finish,
         Goto, handler, TypeOK
<1>5. /\ pc[w] = "ack" => pc'[w] = "idle"
      /\ pc'[w] = "nack" => faults' > 0
  BY DEF Handle, HandlerFault, Claim, ClaimFault, Charge, Decline, AnswerLost, Capture,
         CaptureFault, Settle, SettleFault, CommitRetry, CommitFault, Ack, Nack, Finish,
         Goto, Fault, TypeOK
<1>6. InHand'
  <2>1. faults \in Nat BY DEF TypeOK
  <2>2. \A v \in Workers : pc'[v] = "nack" => faults' > 0
    BY <1>1, <1>3, <1>5, <2>1 DEF InHand
  <2>3. \A v \in Workers : pc'[v] \notin {"idle", "ack"} => Chargeable(handling'[v])
    BY <1>3, <1>4, <1>5 DEF InHand
  <2> QED BY <2>2, <2>3 DEF InHand, Chargeable
<1>7. Job(w) \in Jobs /\ handling[w] \in Message
  BY <1>4, JobInJobs DEF HandlesMessage
<1>8. pc[w] # "ack" => Asked(Job(w))
  BY <1>4, <1>7 DEF InHand, AskedMessages, Busy, Job
<1>9. retry' = retry \/ (pc[w] # "ack" /\ retry' = Put(retry, RetryJob(Job(w))))
  BY DEF Handle, HandlerFault, Claim, ClaimFault, Charge, Decline, AnswerLost, Capture,
         CaptureFault, Settle, SettleFault, CommitRetry, CommitFault, Ack, Nack, Finish, broker
<1>10. AskedMessages'
  <2> SUFFICES ASSUME NEW m \in Message, Chargeable(m),
                      work'[m] > 0 \/ retry'[m] > 0 \/ \E v \in Workers : Busy(v)' /\ handling'[v] = m
               PROVE  Asked(JobOf(m))
    BY <1>2, JobOfType DEF AskedMessages
  <2>1. CASE work[m] > 0 \/ retry[m] > 0
    BY <2>1 DEF AskedMessages
  <2>2. CASE \E v \in Workers : Busy(v)' /\ handling'[v] = m
    BY <1>3, <1>4, <2>2 DEF AskedMessages, Busy
  <2>3. CASE retry'[m] > 0 /\ ~(retry[m] > 0)
    <3>1. m = RetryJob(Job(w)) /\ pc[w] # "ack"
      BY <1>9, <2>3 DEF Put, TypeOK
    <3> QED BY <1>7, <1>8, <3>1, RetryJobType
  <2> QED BY <1>1, <2>1, <2>2, <2>3
<1>11. OnlyAskedIsCharged'
  <2> SUFFICES ASSUME NEW j \in Jobs, charged'[j] > 0 \/ row'[j].status # "absent"
               PROVE  Asked(j)
    BY <1>2 DEF OnlyAskedIsCharged
  <2>1. charged' = charged \/ (pc[w] # "ack" /\ charged' = [charged EXCEPT ![Job(w)] = @ + 1])
    BY DEF Handle, HandlerFault, Claim, ClaimFault, Charge, Decline, AnswerLost, Capture,
           CaptureFault, Settle, SettleFault, CommitRetry, CommitFault, Ack, Nack, Finish, books
  <2>2. CASE charged'[j] > 0
    BY <1>7, <1>8, <2>1, <2>2 DEF TypeOK, OnlyAskedIsCharged
  <2>3. CASE row'[j].status # "absent"
    <3>1. CASE row' = row BY <2>3, <3>1 DEF OnlyAskedIsCharged
    <3>2. CASE row' # row
      <4>1. ~Finish(w) BY <3>2 DEF Finish, db
      <4>2. pc[w] # "ack" BY <4>1, <1>5, <1>4 DEF Handle, HandlerFault, Claim, ClaimFault, Charge,
           Decline, AnswerLost, Capture, CaptureFault, Settle, SettleFault, CommitRetry,
           CommitFault, Ack, Nack
      <4>3. j # Job(w) => row'[j] = row[j]
        BY <1>7, <4>1, HandlerStep DEF DeliveryStep, SetRow, TypeOK
      <4> QED BY <1>8, <2>3, <4>2, <4>3 DEF OnlyAskedIsCharged
    <3> QED BY <3>1, <3>2
  <2> QED BY <2>2, <2>3
<1> QED BY <1>6, <1>10, <1>11

LEMMA EnvironmentAsked ==
  ASSUME BaseInv, AskedInv,
         \/ \E t \in Trips, o \in Outcomes : Publish(t, o)
         \/ \E m \in Message : Expire(m)
         \/ \E m \in Message : Duplicate(m) /\ (Chargeable(m) => Asked(JobOf(m)))
  PROVE  AskedInv'
<1> USE DEF BaseInv, AskedInv
<1>1. UNCHANGED <<row, charged, pc, handling, faults>>
  BY DEF Publish, Expire, Duplicate, db, handler, books, env
<1>2. InHand'
  BY <1>1 DEF InHand, Chargeable
<1>3. \A j \in Jobs : Asked(j) => Asked(j)'
  BY DEF Asked, Publish, Expire, Duplicate, env, Jobs, TypeOK
<1>4. OnlyAskedIsCharged'
  BY <1>1, <1>3 DEF OnlyAskedIsCharged
<1>5. \A m \in Message : /\ Chargeable(m) /\ (work'[m] > 0 \/ retry'[m] > 0)
                         /\ ~(work[m] > 0 \/ retry[m] > 0)
                         => Asked(JobOf(m))'
  <2>1. CASE \E t \in Trips, o \in Outcomes : Publish(t, o)
    <3>1. PICK t \in Trips, o \in Outcomes : Publish(t, o) BY <2>1
    <3>2. EventOf(t, o) \in Message /\ outcome'[t] = o
      BY <3>1, EventOfType DEF Publish, TypeOK
    <3>3. Chargeable(EventOf(t, o)) => Asked(JobOf(EventOf(t, o)))'
      BY <3>2 DEF EventOf, Chargeable, Asked, JobOf, Completed, Cancelled, Outcomes
    <3> QED BY <3>1, <3>2, <3>3 DEF Publish, Put, TypeOK
  <2>2. CASE \E m \in Message : Expire(m)
    BY <2>2 DEF Expire, Put, Take, TypeOK
  <2>3. CASE \E m \in Message : Duplicate(m) /\ (Chargeable(m) => Asked(JobOf(m)))
    BY <1>3, <2>3, JobOfType DEF Duplicate, Put, TypeOK
  <2> QED BY <2>1, <2>2, <2>3
<1>6. AskedMessages'
  <2> SUFFICES ASSUME NEW m \in Message, Chargeable(m),
                      \/ work'[m] > 0 \/ retry'[m] > 0
                      \/ \E v \in Workers : Busy(v)' /\ handling'[v] = m
               PROVE  Asked(JobOf(m))'
    BY DEF AskedMessages, Chargeable
  <2>1. CASE work[m] > 0 \/ retry[m] > 0 \/ \E v \in Workers : Busy(v) /\ handling[v] = m
    BY <1>3, <2>1, JobOfType DEF AskedMessages
  <2>2. CASE ~(work[m] > 0 \/ retry[m] > 0 \/ \E v \in Workers : Busy(v) /\ handling[v] = m)
    BY <1>1, <1>5, <2>2 DEF Busy
  <2> QED BY <2>1, <2>2
<1> QED BY <1>2, <1>4, <1>6

LEMMA DeliverAsked ==
  ASSUME BaseInv, AskedInv, NEW w \in Workers, NEW m \in Message, Deliver(w, m)
  PROVE  AskedInv'
<1> USE DEF BaseInv, AskedInv
<1>1. UNCHANGED <<row, charged, outcome, faults, retry>> /\ work[m] > 0
  BY DEF Deliver, db, books, env
<1>2. /\ \A v \in Workers : v # w => pc'[v] = pc[v] /\ handling'[v] = handling[v]
      /\ pc'[w] = (IF Chargeable(m) THEN "claim" ELSE "ack") /\ handling'[w] = m
  BY DEF Deliver, Goto, TypeOK
<1>3. \A n \in Message : work'[n] > 0 => work[n] > 0
  BY DEF Deliver, Take, TypeOK
<1>4. InHand'
  BY <1>1, <1>2 DEF InHand, Chargeable
<1>5. AskedMessages'
  BY <1>1, <1>2, <1>3 DEF AskedMessages, Asked, Chargeable, Busy
<1>6. OnlyAskedIsCharged'
  BY <1>1 DEF OnlyAskedIsCharged, Asked
<1> QED BY <1>4, <1>5, <1>6

\* A message the crash puts back was queued or in hand before it.
LEMMA CrashWork ==
  ASSUME BaseInv, Crash, NEW m \in Message
  PROVE  work'[m] > 0 <=> work[m] > 0 \/ \E w \in Workers : Busy(w) /\ handling[w] = m
<1> DEFINE held == {w \in Workers : Busy(w) /\ handling[w] = m}
<1>1. IsFiniteSet(held) /\ Cardinality(held) \in Nat /\ (Cardinality(held) = 0 <=> held = {})
  BY WorkersAssumption, FS_Subset, FS_CardinalityType, FS_EmptySet
<1>2. work'[m] = work[m] + Cardinality(held) /\ work[m] \in Nat
  BY DEF Crash, BaseInv, TypeOK
<1>3. held # {} <=> \E w \in Workers : Busy(w) /\ handling[w] = m
  OBVIOUS
<1> HIDE DEF held
<1> QED BY <1>1, <1>2, <1>3

LEMMA CrashAsked ==
  ASSUME BaseInv, AskedInv, Crash
  PROVE  AskedInv'
<1> USE DEF BaseInv, AskedInv
<1>1. /\ UNCHANGED <<row, charged, outcome, faults, retry>>
      /\ \A w \in Workers : pc'[w] = "idle"
  BY DEF Crash, db, books
<1>2. InHand'
  BY <1>1 DEF InHand
<1>3. AskedMessages'
  BY <1>1, CrashWork DEF AskedMessages, Asked, Chargeable, Busy
<1>4. OnlyAskedIsCharged'
  BY <1>1 DEF OnlyAskedIsCharged, Asked
<1> QED BY <1>2, <1>3, <1>4

LEMMA RefundAsked ==
  ASSUME BaseInv, AskedInv, NEW r \in Refunders, Refund(r)
  PROVE  AskedInv'
<1> USE DEF BaseInv, AskedInv
<1>1. UNCHANGED <<charged, outcome, work, retry, pc, handling>> /\ faults' >= faults /\ faults \in Nat
      /\ faults' \in Nat
  BY DEF Refund, RefundBegin, RefundAccepted, RefundDeclined, RefundCommit, RefundFault, RefundEnd,
         Fault, env, broker, books, handler, TypeOK
<1>2. \A j \in Jobs : row'[j].status # "absent" => row[j].status # "absent"
  <2>1. CASE RefundCommit(r)
    <3> DEFINE k == Fare(rtrip[r])
    <3>1. /\ k \in Jobs /\ row[k].status = "captured"
          /\ SetRow(k, "refunded", row[k].attempts) /\ row \in Rows
      BY <2>1, FareType DEF RefundCommit, RefundsTrip, RefundHolds, TypeOK, Rows
    <3> HIDE DEF k
    <3>2. \A j \in Jobs : j # k => row'[j] = row[j]
      BY <3>1, RowUpdate
    <3> QED BY <3>1, <3>2
  <2> QED BY <2>1 DEF Refund, RefundBegin, RefundAccepted, RefundDeclined, RefundFault, db
<1>3. InHand'
  BY <1>1 DEF InHand, Chargeable
<1>4. AskedMessages'
  BY <1>1 DEF AskedMessages, Asked, Chargeable, Busy
<1>5. OnlyAskedIsCharged'
  BY <1>1, <1>2 DEF OnlyAskedIsCharged, Asked
<1> QED BY <1>3, <1>4, <1>5

LEMMA NextAsked == BaseInv /\ AskedInv /\ [Next]_vars => AskedInv'
<1> SUFFICES ASSUME BaseInv, AskedInv, [Next]_vars PROVE AskedInv'
  OBVIOUS
<1>1. CASE (\E t \in Trips, o \in Outcomes : Publish(t, o)) \/ (\E m \in Message : Expire(m))
  BY <1>1, EnvironmentAsked
<1>2. CASE \E t \in Trips : Republish(t)
  <2>1. PICK t \in Trips : outcome[t] # "open" /\ Duplicate(EventOf(t, outcome[t]))
    BY <1>2 DEF Republish
  <2>2. outcome[t] \in Outcomes BY <2>1 DEF BaseInv, TypeOK
  <2> QED BY <2>1, <2>2, EventOfType, EventAsked, EnvironmentAsked
<1>3. CASE \E w \in Workers : Redeliver(w)
  <2>1. PICK w \in Workers : Busy(w) /\ Duplicate(handling[w])
    BY <1>3 DEF Redeliver
  <2>2. handling[w] \in Message /\ (Chargeable(handling[w]) => Asked(JobOf(handling[w])))
    BY <2>1 DEF BaseInv, HandlesMessage, AskedInv, AskedMessages, Busy
  <2> QED BY <2>1, <2>2, EnvironmentAsked
<1>4. CASE Crash BY <1>4, CrashAsked
<1>5. CASE \E w \in Workers, m \in Message : Deliver(w, m) BY <1>5, DeliverAsked
<1>6. CASE \E w \in Workers : Handle(w) \/ HandlerFault(w) BY <1>6, HandlerAsked
<1>7. CASE \E r \in Refunders : Refund(r) BY <1>7, RefundAsked
<1>8. CASE UNCHANGED vars
  BY <1>8 DEF vars, db, broker, handler, refunder, books, env, AskedInv, InHand, AskedMessages,
              OnlyAskedIsCharged, Chargeable, Asked, Busy
<1> QED BY <1>1, <1>2, <1>3, <1>4, <1>5, <1>6, <1>7, <1>8 DEF Next

LEMMA AskedInvariant == Spec => []AskedInv
<1>1. Init => AskedInv BY InitAsked
<1>2. BaseInv /\ AskedInv /\ [Next]_vars => AskedInv' BY NextAsked
<1> QED BY <1>1, <1>2, Base, PTL DEF Spec

\* No trip is charged a kind of payment it did not ask for: nothing while it
\* is open or after a free cancellation, never a fare and a fee.
THEOREM NothingElseCharged == Spec => []OnlyAskedIsCharged
<1>1. AskedInv => OnlyAskedIsCharged BY DEF AskedInv
<1> QED BY <1>1, AskedInvariant, PTL

-----------------------------------------------------------------------------
(* No charge is lost.                                                      *)

\* The job is carried by a queue or by a delivery of S, or was dead-lettered.
Kept(S, j) ==
  \/ \E m \in Message : Charges(m, j) /\ (work[m] > 0 \/ retry[m] > 0)
  \/ \E w \in S : pc[w] \notin {"idle", "ack"} /\ Charges(handling[w], j)
  \/ faults > 0 /\ DeadLettered(j)

\* A retry that was handed to the broker before its commit does not depend
\* on the delivery that commits it.
RetryKept == \A w \in Workers : pc[w] = "commit" => Kept(Workers \ {w}, Job(w))

KeptInv == NoLostCharge /\ RetryKept

\* A handler acknowledges once its job is settled, unless it has just handed
\* a retry over.
LEMMA AckedAfterSettling ==
  ASSUME BaseInv, NEW w \in Workers, Handle(w) \/ HandlerFault(w), pc'[w] = "ack", pc[w] # "commit"
  PROVE  ~Locked(Job(w)) /\ Settled(Job(w))'
<1> USE DEF BaseInv
<1>1. pc \in [Workers -> {"idle", "claim", "charge", "capture", "settle", "commit", "ack", "nack"}]
  BY DEF TypeOK
<1>2. Claim(w) \/ Capture(w) \/ Settle(w)
  BY <1>1 DEF Handle, HandlerFault, ClaimFault, Charge, Decline, AnswerLost, CaptureFault,
              SettleFault, CommitRetry, CommitFault, Ack, Nack, Finish, Goto
<1> DEFINE j == Job(w)
<1>3. j \in Jobs /\ row \in Rows /\ ~Locked(j)
  BY <1>2, JobInJobs DEF Claim, Capture, Settle, TypeOK, Rows
<1>4. row[j].status \in Statuses
  BY <1>3 DEF Rows
<1>5. Job(w)' = j
  BY <1>2 DEF Claim, Capture, Settle, Job
<1>6. CASE Claim(w)
  <2>1. row' = row /\ row[j].status \notin {"absent", "processing"}
    BY <1>1, <1>3, <1>6 DEF Claim, Goto, RetryBudget
  <2> QED BY <1>3, <1>4, <1>5, <2>1 DEF Settled, Statuses
<1>7. CASE Capture(w)
  <2>1. row[j].status # "absent" BY <1>7 DEF Capture, RowClaimed
  <2>2. \/ row' = row /\ row[j].status # "processing"
        \/ SetRow(j, "captured", row[j].attempts + 1)
    BY <1>7 DEF Capture, CaptureRow, db
  <2> QED BY <1>3, <1>4, <1>5, <2>1, <2>2, RowUpdate DEF Settled, Statuses
<1>8. CASE Settle(w)
  <2>1. row[j].status # "absent" BY <1>8 DEF Settle, RowClaimed
  <2>2. \/ row' = row /\ row[j].status # "processing"
        \/ SetRow(j, "failed", row[j].attempts + 1)
    BY <1>1, <1>8 DEF Settle, FailRow, Goto, db
  <2> QED BY <1>3, <1>4, <1>5, <2>1, <2>2, RowUpdate DEF Settled, Statuses
<1> QED BY <1>2, <1>6, <1>7, <1>8

LEMMA PutGrows ==
  ASSUME NEW q \in [Message -> Nat], NEW m, NEW n \in Message
  PROVE  Put(q, m)[n] \in Nat /\ Put(q, m)[n] >= q[n] /\ q[n] \in Nat
  BY DEF Put

\* A step of a delivery loses nothing, but for the acknowledgement of its own
\* job.
LEMMA HandlerKeeps ==
  ASSUME BaseInv, AskedInv, NEW S \in SUBSET Workers, NEW j \in Jobs, Kept(S, j),
         NEW w \in Workers, Handle(w) \/ HandlerFault(w),
         ~(w \in S /\ Job(w) = j /\ pc'[w] = "ack")
  PROVE  Kept(S, j)'
<1> USE DEF BaseInv, AskedInv
<1>1. /\ work' = work /\ faults' \in Nat /\ faults' >= faults
      /\ \A m \in Message : retry'[m] >= retry[m] /\ retry[m] \in Nat /\ retry'[m] \in Nat
      /\ \A m \in Message : dlq'[m] >= dlq[m] /\ dlq[m] \in Nat /\ dlq'[m] \in Nat
  <2>1. work' = work /\ faults' \in Nat /\ faults' >= faults
    BY DEF Handle, HandlerFault, Claim, ClaimFault, Charge, Decline, AnswerLost, Capture,
           CaptureFault, Settle, SettleFault, CommitRetry, CommitFault, Ack, Nack, Finish,
           Fault, broker, env, TypeOK
  <2>2. /\ retry' = retry \/ \E m : retry' = Put(retry, m)
        /\ dlq' = dlq \/ \E m : dlq' = Put(dlq, m)
    BY DEF Handle, HandlerFault, Claim, ClaimFault, Charge, Decline, AnswerLost, Capture,
           CaptureFault, Settle, SettleFault, CommitRetry, CommitFault, Ack, Nack, Finish, broker
  <2>3. retry \in [Message -> Nat] /\ dlq \in [Message -> Nat]
    BY DEF TypeOK
  <2> QED BY <2>1, <2>2, <2>3, PutGrows
<1>2. \A v \in Workers : v # w => pc'[v] = pc[v] /\ handling'[v] = handling[v]
  BY DEF Handle, HandlerFault, Claim, ClaimFault, Charge, Decline, AnswerLost, Capture,
         CaptureFault, Settle, SettleFault, CommitRetry, CommitFault, Ack, Nack, Finish,
         Goto, handler, TypeOK
<1>3. CASE \E m \in Message : Charges(m, j) /\ (work[m] > 0 \/ retry[m] > 0)
  BY <1>1, <1>3 DEF Kept, Charges, Chargeable
<1>4. CASE faults > 0 /\ DeadLettered(j)
  BY <1>1, <1>4 DEF Kept, DeadLettered, Charges, Chargeable, TypeOK
<1>5. CASE \E v \in S : v # w /\ pc[v] \notin {"idle", "ack"} /\ Charges(handling[v], j)
  BY <1>2, <1>5 DEF Kept, Charges, Chargeable
<1>6. CASE w \in S /\ pc[w] \notin {"idle", "ack"} /\ Charges(handling[w], j)
  <2>1. Job(w) = j /\ handling[w] \in Message
    BY <1>6 DEF Charges, Job, HandlesMessage
  <2>2. CASE Finish(w)
    <3>1. pc[w] = "nack" /\ dlq' = Put(dlq, handling[w])
      BY <1>6, <2>2 DEF Handle, HandlerFault, Claim, ClaimFault, Charge, Decline, AnswerLost,
           Capture, CaptureFault, Settle, SettleFault, CommitRetry, CommitFault, Ack, Nack, Finish,
           Goto, TypeOK
    <3>2. dlq'[handling[w]] > 0 /\ faults > 0
      BY <2>1, <3>1 DEF Put, TypeOK, InHand
    <3>3. faults' > 0 BY <1>1, <3>2 DEF TypeOK
    <3> QED BY <1>6, <2>1, <3>2, <3>3 DEF Kept, DeadLettered, Charges, Chargeable
  <2>3. CASE ~Finish(w)
    <3>1. handling'[w] = handling[w] /\ pc'[w] \notin {"idle", "ack"}
      BY <1>6, <2>1, <2>3 DEF Handle, HandlerFault, Claim, ClaimFault, Charge, Decline, AnswerLost,
           Capture, CaptureFault, Settle, SettleFault, CommitRetry, CommitFault, Ack, Nack,
           Goto, handler, TypeOK
    <3> QED BY <1>6, <3>1 DEF Kept, Charges, Chargeable
  <2> QED BY <2>2, <2>3
<1> QED BY <1>3, <1>4, <1>5, <1>6 DEF Kept

\* Nor does a step of the broker, the trip service or a refund.
LEMMA EnvironmentKeeps ==
  ASSUME BaseInv, NEW S \in SUBSET Workers, NEW j \in Jobs, Kept(S, j),
         \/ \E t \in Trips, o \in Outcomes : Publish(t, o)
         \/ \E m \in Message : Expire(m)
         \/ \E m \in Message : Duplicate(m)
         \/ \E r \in Refunders : Refund(r)
  PROVE  Kept(S, j)'
<1> USE DEF BaseInv
<1>1. UNCHANGED <<pc, handling, dlq>> /\ (faults > 0 => faults' > 0)
  BY DEF Publish, Expire, Duplicate, Refund, RefundBegin, RefundAccepted, RefundDeclined,
         RefundCommit, RefundFault, RefundEnd, Fault, handler, broker, env, TypeOK
<1>2. \A m \in Message : work[m] > 0 \/ retry[m] > 0 => work'[m] > 0 \/ retry'[m] > 0
  <2>1. CASE \E r \in Refunders : Refund(r)
    BY <2>1 DEF Refund, RefundBegin, RefundAccepted, RefundDeclined, RefundCommit, RefundFault,
         RefundEnd, broker
  <2>2. ASSUME NEW m, work' = Put(work, m), retry' = retry
        PROVE  \A n \in Message : work[n] > 0 \/ retry[n] > 0 => work'[n] > 0 \/ retry'[n] > 0
    <3>1. \A n \in Message : work'[n] \in Nat /\ work'[n] >= work[n] /\ work[n] \in Nat
      BY <2>2, PutGrows DEF TypeOK
    <3> QED BY <2>2, <3>1
  <2>3. CASE \/ \E t \in Trips, o \in Outcomes : Publish(t, o)
             \/ \E m \in Message : Duplicate(m)
    BY <2>2, <2>3 DEF Publish, Duplicate
  <2>4. CASE \E m \in Message : Expire(m)
    <3>1. PICK m \in Message : Expire(m) BY <2>4
    <3>2. work' = Put(work, m) /\ work'[m] > 0 BY <3>1 DEF Expire, Put, TypeOK
    <3>3. \A n \in Message : n # m => retry'[n] = retry[n] BY <3>1 DEF Expire, Take, TypeOK
    <3>4. \A n \in Message : work'[n] \in Nat /\ work'[n] >= work[n] /\ work[n] \in Nat
      BY <3>2, PutGrows DEF TypeOK
    <3> QED BY <3>2, <3>3, <3>4
  <2> QED BY <2>1, <2>3, <2>4
<1> QED BY <1>1, <1>2 DEF Kept, DeadLettered, Charges, Chargeable

\* A delivery that takes a copy carries it on.
LEMMA DeliverKeeps ==
  ASSUME BaseInv, NEW S \in SUBSET Workers, NEW j \in Jobs, Kept(S, j),
         NEW w \in S, NEW m \in Message, Deliver(w, m)
  PROVE  Kept(S, j)'
<1> USE DEF BaseInv
<1>1. /\ pc[w] = "idle" /\ UNCHANGED <<retry, dlq, faults>>
      /\ \A v \in Workers : v # w => pc'[v] = pc[v] /\ handling'[v] = handling[v]
      /\ pc'[w] = (IF Chargeable(m) THEN "claim" ELSE "ack") /\ handling'[w] = m
  BY DEF Deliver, Busy, Goto, env, TypeOK
<1>2. \A n \in Message : n # m => work'[n] = work[n]
  BY DEF Deliver, Take, TypeOK
<1>3. CASE Charges(m, j)
  BY <1>1, <1>3 DEF Kept, Charges, Chargeable
<1>4. CASE ~Charges(m, j)
  BY <1>1, <1>2, <1>4 DEF Kept, DeadLettered, Charges, Chargeable
<1> QED BY <1>3, <1>4

LEMMA CrashKeeps ==
  ASSUME BaseInv, NEW j \in Jobs, Kept(Workers, j), Crash
  PROVE  Kept(Workers, j)'
<1>1. UNCHANGED <<retry, dlq, faults>>
  BY DEF Crash
<1>2. CASE \E m \in Message : Charges(m, j) /\ (work[m] > 0 \/ retry[m] > 0)
  BY <1>1, <1>2, CrashWork DEF Kept, Charges, Chargeable
<1>3. CASE \E w \in Workers : pc[w] \notin {"idle", "ack"} /\ Charges(handling[w], j)
  <2>1. PICK w \in Workers : pc[w] \notin {"idle", "ack"} /\ Charges(handling[w], j)
    BY <1>3
  <2>2. work'[handling[w]] > 0 /\ handling[w] \in Message
    BY <2>1, CrashWork DEF BaseInv, HandlesMessage, Busy
  <2> QED BY <2>1, <2>2 DEF Kept, Charges, Chargeable
<1>4. CASE faults > 0 /\ DeadLettered(j)
  BY <1>1, <1>4 DEF Kept, DeadLettered, Charges, Chargeable
<1> QED BY <1>2, <1>3, <1>4 DEF Kept

LEMMA KeptMonotone ==
  ASSUME NEW S \in SUBSET Workers, NEW j \in Jobs, Kept(S, j)
  PROVE  Kept(Workers, j)
  BY DEF Kept

\* Every step keeps what is asked for, but a crash, which keeps it for
\* the deliveries of the next run.
LEMMA StepKeeps ==
  ASSUME BaseInv, AskedInv, NEW S \in SUBSET Workers, NEW j \in Jobs, Kept(S, j),
         [Next]_vars, ~Crash, \A w \in Workers \ S : pc[w] = "commit",
         \A w \in S : Job(w) = j /\ pc'[w] = "ack" => pc[w] \in {"idle", "ack"}
  PROVE  Kept(S, j)'
<1>1. CASE UNCHANGED vars
  BY <1>1 DEF vars, handler, broker, env, Kept, DeadLettered, Charges, Chargeable
<1>2. CASE \E w \in Workers, m \in Message : Deliver(w, m)
  <2>1. PICK w \in Workers, m \in Message : Deliver(w, m) BY <1>2
  <2>2. w \in S BY <2>1 DEF Deliver, Busy
  <2> QED BY <2>1, <2>2, DeliverKeeps
<1>3. CASE \E w \in Workers : Handle(w) \/ HandlerFault(w)
  <2>1. PICK w \in Workers : Handle(w) \/ HandlerFault(w) BY <1>3
  <2>2. pc'[w] = "ack" => pc[w] \notin {"idle", "ack"}
    BY <2>1 DEF Handle, HandlerFault, Claim, ClaimFault, Charge, Decline, AnswerLost, Capture,
         CaptureFault, Settle, SettleFault, CommitRetry, CommitFault, Ack, Nack, Finish, Goto,
         BaseInv, TypeOK
  <2> QED BY <2>1, <2>2, HandlerKeeps
<1>4. CASE (\E t \in Trips : Republish(t)) \/ (\E w \in Workers : Redeliver(w))
  <2>1. \E m \in Message : Duplicate(m)
    BY <1>4, EventOfType DEF Republish, Redeliver, Busy, BaseInv, HandlesMessage, TypeOK
  <2> QED BY <2>1, EnvironmentKeeps
<1> QED BY <1>1, <1>2, <1>3, <1>4, EnvironmentKeeps DEF Next

LEMMA InitKept == Init => KeptInv
  BY DEF Init, KeptInv, NoLostCharge, RetryKept, Asked, Jobs

LEMMA NextKept == BaseInv /\ AskedInv /\ KeptInv /\ [Next]_vars => KeptInv'
<1> SUFFICES ASSUME BaseInv, AskedInv, KeptInv, [Next]_vars PROVE KeptInv'
  OBVIOUS
<1>1. BaseInv'
  BY NextBase
\* Only one delivery acknowledges in a step, after settling its job or
\* after handing its retry over.
<1>2. ASSUME NEW w \in Workers, pc'[w] = "ack", pc[w] \notin {"idle", "ack"}
      PROVE  /\ Handle(w) \/ HandlerFault(w)
             /\ Job(w)' = Job(w)
             /\ \A v \in Workers : v # w => pc'[v] = pc[v] /\ handling'[v] = handling[v]
  <2>1. PICK v \in Workers : Handle(v) \/ HandlerFault(v)
    BY <1>2 DEF Next, Publish, Republish, Expire, Duplicate, Crash, Deliver, Redeliver, Refund,
         RefundBegin, RefundAccepted, RefundDeclined, RefundCommit, RefundFault, RefundEnd, Busy,
         Goto, handler, vars, BaseInv, TypeOK
  <2>2. \A u \in Workers : u # v => pc'[u] = pc[u] /\ handling'[u] = handling[u]
    BY <2>1 DEF Handle, HandlerFault, Claim, ClaimFault, Charge, Decline, AnswerLost, Capture,
         CaptureFault, Settle, SettleFault, CommitRetry, CommitFault, Ack, Nack, Finish,
         Goto, handler, BaseInv, TypeOK
  <2>3. v = w BY <1>2, <2>2
  <2>4. handling'[w] = handling[w]
    BY <1>2, <2>1, <2>3 DEF Handle, HandlerFault, Claim, ClaimFault, Charge, Decline, AnswerLost,
         Capture, CaptureFault, Settle, SettleFault, CommitRetry, CommitFault, Ack, Nack, Finish,
         Goto, handler, BaseInv, TypeOK
  <2> QED BY <2>1, <2>2, <2>3, <2>4 DEF Job
<1>3. NoLostCharge'
  <2> SUFFICES ASSUME NEW j \in Jobs, Asked(j)', ~Settled(j)'
               PROVE  Kept(Workers, j)'
    BY DEF NoLostCharge, Kept, Carried
  <2>1. CASE Asked(j)
    <3>1. ~Settled(j)
      BY RowSteps DEF RowStep, Settled
    <3>2. Kept(Workers, j)
      BY <2>1, <3>1 DEF KeptInv, NoLostCharge, Kept, Carried
    <3>3. CASE Crash
      BY <3>2, <3>3, CrashKeeps
    <3>4. CASE ~Crash /\ \A w \in Workers : Job(w) = j /\ pc'[w] = "ack" => pc[w] \in {"idle", "ack"}
      BY <3>2, <3>4, StepKeeps
    <3>5. CASE \E w \in Workers : Job(w) = j /\ pc'[w] = "ack" /\ pc[w] \notin {"idle", "ack"}
      <4>1. PICK w \in Workers : Job(w) = j /\ pc'[w] = "ack" /\ pc[w] \notin {"idle", "ack"}
        BY <3>5
      <4>2. pc[w] = "commit"
        BY <1>2, <4>1, AckedAfterSettling
      <4>3. Kept(Workers \ {w}, j)
        BY <4>1, <4>2 DEF KeptInv, RetryKept
      <4>4. \A v \in Workers \ {w} : pc'[v] = "ack" => pc[v] \in {"idle", "ack"}
        BY <1>2, <4>1
      <4>5. ~Crash
        BY <4>1 DEF Crash
      <4>6. Kept(Workers \ {w}, j)'
        BY <4>2, <4>3, <4>4, <4>5, StepKeeps
      <4> QED BY <4>6 DEF Kept
    <3> QED BY <3>3, <3>4, <3>5
  <2>2. CASE ~Asked(j)
    <3>1. PICK t \in Trips, o \in Outcomes : Publish(t, o)
      BY <2>2 DEF Asked, Next, vars, env, Republish, Redeliver, Duplicate, Expire, Crash, Deliver,
           Handle, HandlerFault, Claim, ClaimFault, Charge, Decline, AnswerLost, Capture,
           CaptureFault, Settle, SettleFault, CommitRetry, CommitFault, Ack, Nack, Finish, Refund,
           RefundBegin, RefundAccepted, RefundDeclined, RefundCommit, RefundFault, RefundEnd, Fault
    <3>2. outcome' = [outcome EXCEPT ![t] = o] /\ outcome \in [Trips -> Outcomes \cup {"open"}]
      BY <3>1 DEF Publish, BaseInv, TypeOK
    <3>3. JobOf(EventOf(t, o)) = j /\ Chargeable(EventOf(t, o))
      BY <2>2, <3>2 DEF Asked, EventOf, JobOf, Chargeable, Completed, Cancelled, Jobs, Kinds
    <3>4. EventOf(t, o) \in Message /\ work'[EventOf(t, o)] > 0
      BY <3>1, EventOfType DEF Publish, Put, BaseInv, TypeOK
    <3> QED BY <3>3, <3>4 DEF Kept, Charges, Chargeable
  <2> QED BY <2>1, <2>2
<1>4. RetryKept'
  <2> SUFFICES ASSUME NEW w \in Workers, pc'[w] = "commit"
               PROVE  Kept(Workers \ {w}, Job(w))'
    BY DEF RetryKept
  <2>1. ~Crash
    BY DEF Crash
  <2>2. CASE pc[w] = "commit" /\ handling'[w] = handling[w]
    <3>1. Job(w)' = Job(w) /\ Job(w) \in Jobs BY <2>2, JobInJobs DEF Job
    <3>2. Kept(Workers \ {w}, Job(w)) BY <2>2 DEF KeptInv, RetryKept
    <3>3. \A v \in Workers \ {w} : Job(v) = Job(w) /\ pc'[v] = "ack" => pc[v] \in {"idle", "ack"}
      <4> SUFFICES ASSUME NEW v \in Workers \ {w}, Job(v) = Job(w), pc'[v] = "ack",
                          pc[v] \notin {"idle", "ack"}
                   PROVE  FALSE
        OBVIOUS
      <4>1. pc[v] # "commit" BY <2>2 DEF BaseInv, CommitHolds
      <4>2. ~Locked(Job(v)) BY <1>2, <4>1, AckedAfterSettling
      <4> QED BY <2>2, <4>2 DEF Locked
    <3> QED BY <2>1, <2>2, <3>1, <3>2, <3>3, StepKeeps
  <2>3. CASE ~(pc[w] = "commit" /\ handling'[w] = handling[w])
    <3>1. /\ Settle(w) /\ retry' = Put(retry, RetryJob(Job(w)))
          /\ handling'[w] = handling[w]
      BY <2>3 DEF Next, Publish, Republish, Expire, Duplicate, Crash, Deliver, Redeliver, Refund,
         RefundBegin, RefundAccepted, RefundDeclined, RefundCommit, RefundFault, RefundEnd, Busy,
         Handle, HandlerFault, Claim, ClaimFault, Charge, Decline, AnswerLost, Capture, CaptureFault,
         Settle, SettleFault, CommitRetry, CommitFault, Ack, Nack, Finish,
         Goto, handler, vars, BaseInv, TypeOK
    <3>2. Job(w) \in Jobs /\ Job(w)' = Job(w)
      BY <3>1, JobInJobs DEF Settle, Job
    <3>3. RetryJob(Job(w)) \in Message /\ Charges(RetryJob(Job(w)), Job(w))
      BY <3>2, RetryJobType DEF Charges
    <3>4. retry'[RetryJob(Job(w))] > 0
      BY <3>1, <3>3 DEF Put, BaseInv, TypeOK
    <3> QED BY <3>2, <3>3, <3>4 DEF Kept, Charges, Chargeable
  <2> QED BY <2>2, <2>3
<1> QED BY <1>3, <1>4 DEF KeptInv

\* A charge that was asked for is settled, carried by a queue or a delivery,
\* or, after a fault, in the dead-letter queue; whatever crashes between the
\* acknowledgement of a message and the hand-over of the next.
THEOREM ChargeNeverLost == Spec => []NoLostCharge
<1>1. Init => KeptInv BY InitKept
<1>2. BaseInv /\ AskedInv /\ KeptInv /\ [Next]_vars => KeptInv' BY NextKept
<1>3. KeptInv => NoLostCharge BY DEF KeptInv
<1> QED BY <1>1, <1>2, <1>3, Base, AskedInvariant, PTL DEF Spec
=============================================================================
