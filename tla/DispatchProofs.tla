--------------------------- MODULE DispatchProofs ---------------------------
(***************************************************************************)
(* Proofs about dispatch, for any trips, drivers and concurrent answers    *)
(* and any number of duplicates, crashes and faults: an open offer holds   *)
(* its driver's lock, and a trip is announced once, as the answers say.    *)
(***************************************************************************)
EXTENDS Dispatch, SequenceTheorems, TLAPS

\* A trip's loop starts once: it has marked the trip's dedupe key by then.
StartedOnce ==
  \A t \in Trips :
    /\ pc[t] = "none" => copies[t] = 0
    /\ pc[t] \notin {"none", "queued"} => t \in seen

\* What a loop took for an acceptance was the first answer pushed.
AnswersTaken ==
  \A o \in Offers : outcome[o] = "accept" => Answered(o, "accept")

Unpublished(t) == \A d \in Drivers \cup {Nobody} : <<t, d>> \notin published
NoneTaken(t) == \A d \in Drivers : outcome[<<t, d>>] # "accept"

\* A loop that is still looking for a driver has taken no acceptance.
Seeking(t) ==
  \/ pc[t] \in {"none", "search", "check", "lock", "wait", "decline", "exhausted"}
  \/ pc[t] = "queued" /\ t \notin seen
SeekersUndecided == \A t \in Trips : Seeking(t) => Unpublished(t) /\ NoneTaken(t)

\* One that has found him has taken his, and has yet to announce it.
FindersTook ==
  \A t \in Trips : pc[t] \in {"assign", "announce"} =>
    Unpublished(t) /\ outcome[CurOffer(t)] = "accept"

PublishedTaken ==
  \A t \in Trips, d \in Drivers : <<t, d>> \in published => outcome[<<t, d>>] = "accept"

Protocol ==
  /\ StartedOnce /\ AnswersTaken /\ SeekersUndecided /\ FindersTook /\ PublishedTaken /\ DecidedOnce

Inv == TypeOK /\ OfferHoldsLock /\ Protocol

\* Where a loop can be, and where it is at an offer.
Labels ==
  {"none", "queued", "search", "check", "lock", "wait", "assign", "announce", "unlock",
   "decline", "exhausted", "done", "failed"}
AtOffer == {"lock", "wait", "assign", "announce", "unlock", "decline"}

-----------------------------------------------------------------------------
\* Nothing has started, nothing is announced.
LEMMA InitInv == Init => Inv
  BY BoundsAssumption
  DEF Init, Inv, TypeOK, OfferHoldsLock, Protocol, StartedOnce, AnswersTaken, SeekersUndecided,
      FindersTook, PublishedTaken, DecidedOnce, Unpublished, NoneTaken, Offers, NoReply

\* A loop at an offer has a driver to offer to.
LEMMA Candidate ==
  ASSUME TypeOK, NEW t \in Trips, pc[t] \in AtOffer
  PROVE  Cur(t) \in Drivers /\ CurOffer(t) \in Offers /\ Tail(cands[t]) \in Seq(Drivers)
<1>1. cands[t] \in Seq(Drivers) /\ cands[t] # <<>> BY DEF TypeOK, AtOffer
<1>2. Head(cands[t]) \in Drivers /\ Tail(cands[t]) \in Seq(Drivers) BY <1>1, HeadTailProperties
<1> QED BY <1>2 DEF Cur, CurOffer, Offers

\* The steps of a loop keep the types.
LEMMA LoopTypes ==
  ASSUME TypeOK, NEW t \in Trips, (Loop(t) \/ Fail(t))
  PROVE  TypeOK'
<1> USE DEF TypeOK, queues, loop, offers, world, bounds
<1>1. CASE Search(t)
  <2>0. PICK n \in 0 .. MaxCandidates :
          \E s \in [1 .. n -> Drivers \ onTrip] : cands' = [cands EXCEPT ![t] = s]
    BY <1>1 DEF Search
  <2>1. PICK s \in [1 .. n -> Drivers \ onTrip] : cands' = [cands EXCEPT ![t] = s]
    BY <2>0
  <2>2. s \in Seq(Drivers)
    <3>1. n \in Nat /\ s \in [1 .. n -> Drivers] BY <2>0, <2>1, CandidatesAssumption
    <3> QED BY <3>1, SeqDef
  <2> QED BY <1>1, <2>1, <2>2 DEF Search, Goto
<1>2. CASE Check(t) BY <1>2 DEF Check, Goto
<1>3. CASE Offer(t)
  <2>1. Cur(t) \in Drivers /\ CurOffer(t) \in Offers /\ Tail(cands[t]) \in Seq(Drivers)
    BY <1>3, Candidate DEF Offer, AtOffer
  <2>2. CASE lock[Cur(t)] # Nobody
    <3>1. /\ cands' = [cands EXCEPT ![t] = Tail(@)] /\ Goto(t, "check")
          /\ UNCHANGED <<queues, outcome, lock, offers, reply, world, bounds>>
      BY <1>3, <2>2 DEF Offer
    <3> QED BY <2>1, <3>1 DEF Goto
  <2>3. CASE lock[Cur(t)] = Nobody
    <3>1. /\ lock' = [lock EXCEPT ![Cur(t)] = t]
          /\ offer' = [offer EXCEPT ![CurOffer(t)] = "pending"]
          /\ Goto(t, "wait") /\ pc[t] = "lock"
          /\ UNCHANGED <<queues, cands, outcome, answer, reply, world, bounds>>
      BY <1>3, <2>3 DEF Offer
    <3>2. /\ lock' \in [Drivers -> Trips \cup {Nobody}]
          /\ offer' \in [Offers -> {"none", "pending", "closed"}]
      BY <2>1, <3>1
    <3> QED BY <3>1, <3>2 DEF Goto
  <2> QED BY <2>2, <2>3
<1>4. CASE Await(t)
  <2>1. CurOffer(t) \in Offers BY <1>4, Candidate DEF Await, AtOffer
  <2> QED BY <1>4, <2>1 DEF Await, Took, Goto
<1>5. CASE Assign(t)
  <2>1. Cur(t) \in Drivers BY <1>5, Candidate DEF Assign, AtOffer
  <2> QED BY <1>5, <2>1 DEF Assign, Goto
<1>6. CASE Announce(t)
  <2>1. Cur(t) \in Drivers BY <1>6, Candidate DEF Announce, AtOffer
  <2> QED BY <1>6, <2>1 DEF Announce, Publish, Goto
<1>7. CASE Unlock(t) BY <1>7 DEF Unlock, Release, Goto
<1>8. CASE Decline(t)
  <2>1. CurOffer(t) \in Offers /\ Tail(cands[t]) \in Seq(Drivers)
    BY <1>8, Candidate DEF Decline, AtOffer
  <2> QED BY <1>8, <2>1 DEF Decline, Release, Goto
<1>9. CASE GiveUp(t) BY <1>9 DEF GiveUp, Publish, Goto
<1>10. CASE Fail(t)
  <2>1. pc[t] \in AtOffer => Cur(t) \in Drivers BY Candidate
  <2> QED BY <1>10, <2>1, BoundsAssumption DEF Fail, Fault, Publish, Goto, AtOffer
<1> QED BY <1>1, <1>2, <1>3, <1>4, <1>5, <1>6, <1>7, <1>8, <1>9, <1>10 DEF Loop

\* The trip service, the queues, expiry and the drivers.
Outside ==
  \/ \E t \in Trips : Request(t) \/ Duplicate(t) \/ Notify(t) \/ Cancel(t) \/ Handle(t)
  \/ \E d \in Drivers : ExpireLock(d) \/ \E t \in Trips : EndTrip(t, d)
  \/ \E o \in Offers : ExpireOffer(o)
  \/ \E r \in Responders :
       \/ Reply(r) \/ ReplyFails(r)
       \/ \E o \in Offers, a \in {"accept", "reject"} : Read(r, o, a)

\* Answering moves an answer on, or ends with it.
LEMMA ReplyTypes ==
  ASSUME TypeOK, NEW r \in Responders, Reply(r) \/ ReplyFails(r)
  PROVE  TypeOK'
<1> USE DEF TypeOK, queues, loop, offers, world, bounds
<1>1. reply[r] \in Replies /\ reply[r].offer \in Offers /\ reply[r].answer \in {"accept", "reject"}
  BY DEF Reply, Flip, Push, Acknowledge, ReplyFails, At, Replies
<1>2. ASSUME NEW step \in {"push", "ack"}, Then(r, step)
      PROVE  reply' \in [Responders -> {NoReply} \cup Replies]
  <2>1. [reply[r] EXCEPT !.at = step] \in Replies
    BY <1>1 DEF Replies
  <2> QED BY <1>2, <2>1 DEF Then
<1>3. Done(r) => reply' \in [Responders -> {NoReply} \cup Replies]
  BY DEF Done
<1>4. CloseOffer(r) => offer' \in [Offers -> {"none", "pending", "closed"}]
  BY <1>1 DEF CloseOffer
<1>5. PushAnswer(r) => answer' \in [Offers -> Seq({"accept", "reject"})]
  <2>1. Append(answer[reply[r].offer], reply[r].answer) \in Seq({"accept", "reject"})
    BY <1>1
  <2> QED BY <1>1, <2>1 DEF PushAnswer
<1>6. CASE Flip(r) BY <1>2, <1>4, <1>6 DEF Flip
<1>7. CASE Push(r) BY <1>2, <1>5, <1>7 DEF Push
<1>8. CASE Acknowledge(r) BY <1>3, <1>8 DEF Acknowledge
<1>9. CASE ReplyFails(r) BY <1>3, <1>4, <1>5, <1>9 DEF ReplyFails, Fault
<1> QED BY <1>6, <1>7, <1>8, <1>9 DEF Reply

\* So do those of everybody else.
LEMMA OutsideTypes ==
  ASSUME TypeOK, Outside
  PROVE  TypeOK'
<1> USE DEF TypeOK, queues, loop, offers, world, bounds
<1>1. CASE \E t \in Trips : Request(t) \/ Duplicate(t) \/ Notify(t) \/ Cancel(t)
  <2>1. PICK t \in Trips : Request(t) \/ Duplicate(t) \/ Notify(t) \/ Cancel(t) BY <1>1
  <2>2. CASE Request(t) BY <2>2 DEF Request, Goto
  <2>3. CASE Duplicate(t) BY <2>3 DEF Duplicate
  <2>4. CASE Notify(t) BY <2>4 DEF Notify
  <2>5. CASE Cancel(t) BY <2>5 DEF Cancel
  <2> QED BY <2>1, <2>2, <2>3, <2>4, <2>5
<1>2. CASE \E t \in Trips : Handle(t)
  <2>1. PICK t \in Trips : Handle(t) BY <1>2
  <2>2. copies' \in [Trips -> Nat] /\ seen' \subseteq Trips BY <2>1 DEF Handle
  <2>3. CASE t \in seen BY <2>1, <2>2, <2>3 DEF Handle
  <2>4. CASE t \notin seen BY <2>1, <2>2, <2>4 DEF Handle, Goto
  <2> QED BY <2>3, <2>4
<1>3. CASE \E d \in Drivers : ExpireLock(d) \/ \E t \in Trips : EndTrip(t, d)
  BY <1>3 DEF ExpireLock, EndTrip
<1>4. CASE \E o \in Offers : ExpireOffer(o) BY <1>4 DEF ExpireOffer
<1>5. CASE \E r \in Responders : Reply(r) \/ ReplyFails(r)
  BY <1>5, ReplyTypes
<1>6. CASE \E r \in Responders, o \in Offers, a \in {"accept", "reject"} : Read(r, o, a)
  BY <1>6 DEF Read, Replies
<1> QED BY <1>1, <1>2, <1>3, <1>4, <1>5, <1>6 DEF Outside

\* And a crash.
LEMMA CrashTypes == TypeOK /\ Crash => TypeOK'
  BY BoundsAssumption DEF TypeOK, Crash, Running, queues, loop, offers, world, bounds

\* Every step keeps the types.
LEMMA TypesKept ==
  ASSUME TypeOK, [Next]_vars
  PROVE  TypeOK'
<1>1. CASE UNCHANGED vars
  BY <1>1 DEF TypeOK, vars, queues, loop, offers, world, bounds
<1>2. CASE Next
  BY <1>2, LoopTypes, OutsideTypes, CrashTypes DEF Next, Outside
<1> QED BY <1>1, <1>2

-----------------------------------------------------------------------------
(* An open offer holds its driver's lock.                                  *)

\* A loop takes its driver from nobody, and gives back what is its own.
LEMMA LoopLocks ==
  ASSUME TypeOK, OfferHoldsLock, NEW t \in Trips, (Loop(t) \/ Fail(t))
  PROVE  OfferHoldsLock'
<1> SUFFICES ASSUME NEW u \in Trips, pc'[u] = "wait"
             PROVE  (lock[Cur(u)] = u)'
  BY DEF OfferHoldsLock
<1> USE DEF queues, loop, offers, world, bounds
<1>0. pc \in [Trips -> Labels] /\ cands \in [Trips -> Seq(Drivers)] BY DEF TypeOK, Labels
<1>1. CASE Offer(t)
  <2>1. Cur(t) \in Drivers /\ (u # t /\ pc[u] = "wait" => Cur(u) \in Drivers)
    BY <1>1, Candidate DEF Offer, AtOffer
  <2>2. CASE lock[Cur(t)] # Nobody
    <3>0. /\ pc' = [pc EXCEPT ![t] = "check"] /\ cands' = [cands EXCEPT ![t] = Tail(@)]
          /\ lock' = lock
      BY <1>1, <2>2 DEF Offer, Goto
    <3>1. u # t /\ pc[u] = "wait" /\ cands'[u] = cands[u] BY <1>0, <3>0
    <3> QED BY <3>0, <3>1 DEF OfferHoldsLock, Cur
  <2>3. CASE lock[Cur(t)] = Nobody
    <3>1. cands' = cands /\ lock' = [lock EXCEPT ![Cur(t)] = t] /\ lock \in [Drivers -> Trips \cup {Nobody}]
      BY <1>1, <2>3 DEF Offer, TypeOK
    <3>2. CASE u = t BY <2>1, <3>1, <3>2 DEF Cur
    <3>3. CASE u # t
      <4>0. pc' = [pc EXCEPT ![t] = "wait"] BY <1>1, <2>3 DEF Offer, Goto
      <4>1. pc[u] = "wait" BY <1>0, <3>3, <4>0
      <4>2. lock[Cur(u)] = u /\ u # Nobody BY <4>1, NobodyAssumption DEF OfferHoldsLock
      <4> QED BY <2>1, <2>3, <3>1, <4>1, <4>2 DEF Cur
    <3> QED BY <3>2, <3>3
  <2> QED BY <2>2, <2>3
<1>2. CASE ~Offer(t)
  <2>1. u # t /\ pc[u] = "wait" /\ cands'[u] = cands[u]
    <3>1. pc' = [pc EXCEPT ![t] = pc'[t]] /\ pc'[t] # "wait"
      BY <1>0, <1>2 DEF Loop, Fail, Search, Check, Await, Assign, Announce, Unlock, Decline, GiveUp, Goto
    <3>2. \A v \in Trips : v # t => cands'[v] = cands[v]
      BY <1>0, <1>2 DEF Loop, Fail, Search, Check, Await, Assign, Announce, Unlock, Decline, GiveUp
    <3> QED BY <1>0, <3>1, <3>2
  <2>2. lock[Cur(u)] = u /\ Cur(u) \in Drivers
    BY <2>1, Candidate DEF OfferHoldsLock, AtOffer
  <2>3. lock' = lock \/ Release(t)
    BY <1>2 DEF Loop, Fail, Search, Check, Await, Assign, Announce, Unlock, Decline, GiveUp
  <2>4. lock'[Cur(u)] = u
    <3>1. lock \in [Drivers -> Trips \cup {Nobody}] BY DEF TypeOK
    <3> QED BY <2>1, <2>2, <2>3, <3>1 DEF Release
  <2> QED BY <2>1, <2>4 DEF Cur
<1> QED BY <1>1, <1>2

\* The lock of an open offer does not expire.
LEMMA OutsideLocks ==
  ASSUME TypeOK, OfferHoldsLock, Outside
  PROVE  OfferHoldsLock'
<1> SUFFICES ASSUME NEW u \in Trips, pc'[u] = "wait"
             PROVE  (lock[Cur(u)] = u)'
  BY DEF OfferHoldsLock
<1> USE DEF queues, loop, offers, world, bounds
<1>1. cands' = cands
  BY DEF Outside, Request, Duplicate, Notify, Cancel, Handle, ExpireLock, EndTrip, ExpireOffer,
     Reply, Flip, Push, Acknowledge, ReplyFails, Fault, Read
<1>2. pc[u] = "wait"
  <2>1. pc \in [Trips -> Labels] BY DEF TypeOK, Labels
  <2>2. pc' = pc \/ \E t \in Trips : Goto(t, "queued") \/ Goto(t, "search")
    BY DEF Outside, Request, Duplicate, Notify, Cancel, Handle, ExpireLock, EndTrip, ExpireOffer,
     Reply, Flip, Push, Acknowledge, ReplyFails, Fault, Read
  <2> QED BY <2>1, <2>2 DEF Goto
<1>3. lock[Cur(u)] = u /\ Cur(u) \in Drivers
  BY <1>2, Candidate DEF OfferHoldsLock, AtOffer
<1>4. lock' = lock \/ \E d \in Drivers : ExpireLock(d)
  BY DEF Outside, Request, Duplicate, Notify, Cancel, Handle, EndTrip, ExpireOffer,
     Reply, Flip, Push, Acknowledge, ReplyFails, Fault, Read
<1>5. lock'[Cur(u)] = u
  <2>1. CASE lock' = lock BY <1>3, <2>1
  <2>2. CASE \E d \in Drivers : ExpireLock(d)
    <3>1. PICK d \in Drivers : ExpireLock(d) BY <2>2
    <3>2. d # Cur(u)
      <4>1. d = Cur(u) => Open(<<lock[d], d>>) BY <1>2, <1>3 DEF Open, CurOffer
      <4> QED BY <3>1, <4>1 DEF ExpireLock
    <3> QED BY <1>3, <3>1, <3>2 DEF ExpireLock, TypeOK
  <2> QED BY <1>4, <2>1, <2>2
<1> QED BY <1>1, <1>5 DEF Cur

\* Every step leaves an open offer the lock of its driver.
LEMMA LocksKept ==
  ASSUME TypeOK, OfferHoldsLock, [Next]_vars
  PROVE  OfferHoldsLock'
<1>1. CASE UNCHANGED vars
  BY <1>1 DEF OfferHoldsLock, vars, loop, Cur
<1>2. CASE Crash
  <2>1. \A t \in Trips : pc'[t] # "wait" BY <1>2 DEF Crash, Running
  <2> QED BY <2>1 DEF OfferHoldsLock
<1>3. CASE Next /\ ~Crash
  BY <1>3, LoopLocks, OutsideLocks DEF Next, Outside
<1> QED BY <1>1, <1>2, <1>3

-----------------------------------------------------------------------------
(* A trip is decided once, as the answers say.                             *)

Decisions == SeekersUndecided /\ FindersTook /\ PublishedTaken /\ DecidedOnce

\* Nothing is disturbed by a step that takes no answer and announces nothing,
\* if it lets no trip seek again and moves no loop to another finding.
LEMMA Undisturbed ==
  ASSUME Decisions, UNCHANGED <<outcome, published>>,
         \A t \in Trips : Seeking(t)' => Seeking(t),
         \A t \in Trips : pc'[t] \in {"assign", "announce"} =>
           pc[t] \in {"assign", "announce"} /\ cands'[t] = cands[t]
  PROVE  Decisions'
<1>1. SeekersUndecided'
  BY DEF Decisions, SeekersUndecided, Unpublished, NoneTaken
<1>2. FindersTook'
  BY DEF Decisions, FindersTook, Unpublished, CurOffer, Cur
<1>3. PublishedTaken' /\ DecidedOnce'
  BY DEF Decisions, PublishedTaken, DecidedOnce
<1> QED BY <1>1, <1>2, <1>3 DEF Decisions

\* The moves of a loop that take no answer and announce nothing.
LEMMA LoopMoves ==
  ASSUME TypeOK, Decisions, NEW t \in Trips,
         Search(t) \/ Check(t) \/ Offer(t) \/ Assign(t) \/ Unlock(t) \/ Decline(t)
           \/ (Fail(t) /\ UNCHANGED published)
  PROVE  Decisions'
<1> USE DEF queues, loop, offers, world, bounds
<1>0. pc \in [Trips -> Labels] /\ cands \in [Trips -> Seq(Drivers)] BY DEF TypeOK, Labels
<1>1. UNCHANGED <<outcome, published, seen>>
  BY DEF Search, Check, Offer, Assign, Unlock, Decline, Fail
<1>2. /\ pc' = [pc EXCEPT ![t] = pc'[t]]
      /\ Seeking(t)' => Seeking(t)
      /\ pc'[t] \in {"assign", "announce"} => pc[t] = "assign" /\ cands' = cands
  BY <1>0, <1>1 DEF Search, Check, Offer, Assign, Unlock, Decline, Fail, Running, Goto, Seeking
<1>3. \A u \in Trips : u # t => cands'[u] = cands[u]
  BY <1>0 DEF Search, Check, Offer, Assign, Unlock, Decline, Fail
<1>4. \A u \in Trips : u # t => pc'[u] = pc[u] BY <1>0, <1>2
<1>5. \A u \in Trips : Seeking(u)' => Seeking(u)
  BY <1>1, <1>2, <1>4 DEF Seeking
<1>6. \A u \in Trips : pc'[u] \in {"assign", "announce"} =>
        pc[u] \in {"assign", "announce"} /\ cands'[u] = cands[u]
  BY <1>2, <1>3, <1>4
<1> QED BY <1>1, <1>5, <1>6, Undisturbed

\* The loop takes an answer: an acceptance makes it a finder.
LEMMA AwaitDecisions ==
  ASSUME TypeOK, Decisions, NEW t \in Trips, Await(t)
  PROVE  Decisions'
<1> USE DEF queues, loop, offers, world, bounds
<1>0. pc \in [Trips -> Labels] /\ outcome \in [Offers -> {"none", "accept", "reject", "timeout"}]
  BY DEF TypeOK, Labels
<1>1. PICK what \in {"accept", "reject", "timeout"} :
        /\ Took(t, what)
        /\ Goto(t, IF what = "accept" THEN "assign" ELSE "decline")
  BY DEF Await
<1>2. pc[t] = "wait" /\ UNCHANGED <<cands, published, seen>> BY DEF Await
<1>3. CurOffer(t) \in Offers /\ Cur(t) \in Drivers BY <1>2, Candidate DEF AtOffer
<1>4. Unpublished(t) /\ NoneTaken(t) BY <1>2 DEF Decisions, SeekersUndecided, Seeking
<1>5. Unpublished(t)' BY <1>2, <1>4 DEF Unpublished
<1>6. outcome'[CurOffer(t)] = what BY <1>0, <1>1, <1>3 DEF Took
<1>7. /\ \A u \in Trips \ {t}, d \in Drivers : outcome'[<<u, d>>] = outcome[<<u, d>>]
      /\ \A d \in Drivers : d # Cur(t) => outcome'[<<t, d>>] = outcome[<<t, d>>]
  BY <1>0, <1>1 DEF Took, Offers, CurOffer
<1>8. pc'[t] = (IF what = "accept" THEN "assign" ELSE "decline")
      /\ \A u \in Trips \ {t} : pc'[u] = pc[u]
  BY <1>0, <1>1 DEF Goto
<1>9. SeekersUndecided'
  <2> SUFFICES ASSUME NEW u \in Trips, Seeking(u)' PROVE Unpublished(u)' /\ NoneTaken(u)'
    BY DEF SeekersUndecided
  <2>1. CASE u = t
    <3>1. what # "accept" BY <1>8, <2>1 DEF Seeking
    <3>2. NoneTaken(t)' BY <1>4, <1>6, <1>7, <3>1 DEF NoneTaken, CurOffer
    <3> QED BY <1>5, <2>1, <3>2
  <2>2. CASE u # t
    <3>1. Seeking(u) BY <1>2, <1>8, <2>2 DEF Seeking
    <3> QED BY <1>2, <1>7, <2>2, <3>1 DEF Decisions, SeekersUndecided, Unpublished, NoneTaken
  <2> QED BY <2>1, <2>2
<1>10. FindersTook'
  <2> SUFFICES ASSUME NEW u \in Trips, pc'[u] \in {"assign", "announce"}
               PROVE  Unpublished(u)' /\ (outcome[CurOffer(u)] = "accept")'
    BY DEF FindersTook
  <2>1. CASE u = t BY <1>2, <1>5, <1>6, <1>8, <2>1 DEF CurOffer, Cur
  <2>2. CASE u # t
    <3>1. pc[u] \in {"assign", "announce"} BY <1>8, <2>2
    <3>2. Unpublished(u) /\ outcome[CurOffer(u)] = "accept" /\ Cur(u) \in Drivers
      BY <3>1, Candidate DEF Decisions, FindersTook, AtOffer
    <3> QED BY <1>2, <1>7, <2>2, <3>2 DEF Unpublished, CurOffer, Cur
  <2> QED BY <2>1, <2>2
<1>11. PublishedTaken'
  BY <1>2, <1>4, <1>7 DEF Decisions, PublishedTaken, Unpublished
<1>12. DecidedOnce'
  <2>1. ASSUME NEW u \in Trips, NEW d \in Drivers, <<u, Nobody>> \in published
        PROVE  outcome'[<<u, d>>] # "accept"
    <3>1. u # t BY <1>4, <2>1 DEF Unpublished
    <3> QED BY <1>7, <2>1, <3>1 DEF Decisions, DecidedOnce
  <2> QED BY <1>2, <2>1 DEF Decisions, DecidedOnce
<1> QED BY <1>9, <1>10, <1>11, <1>12 DEF Decisions

\* The loop announces its trip, with a driver it took or with none.
LEMMA AnnounceDecisions ==
  ASSUME TypeOK, Decisions, NEW t \in Trips, NEW d \in Drivers \cup {Nobody}, Publish(t, d),
         Unpublished(t),
         d \in Drivers => outcome[<<t, d>>] = "accept",
         d = Nobody => NoneTaken(t),
         UNCHANGED <<outcome, cands, seen>>,
         \A u \in Trips \ {t} : pc'[u] = pc[u],
         pc'[t] \in {"unlock", "done", "failed"}
  PROVE  Decisions'
<1>1. published' = published \cup {<<t, d>>} BY DEF Publish
<1>2. SeekersUndecided'
  <2> SUFFICES ASSUME NEW u \in Trips, Seeking(u)' PROVE Unpublished(u)' /\ NoneTaken(u)'
    BY DEF SeekersUndecided
  <2>1. u # t /\ Seeking(u) BY DEF Seeking
  <2> QED BY <1>1, <2>1 DEF Decisions, SeekersUndecided, Unpublished, NoneTaken
<1>3. FindersTook'
  <2> SUFFICES ASSUME NEW u \in Trips, pc'[u] \in {"assign", "announce"}
               PROVE  Unpublished(u)' /\ (outcome[CurOffer(u)] = "accept")'
    BY DEF FindersTook
  <2>1. u # t /\ pc[u] \in {"assign", "announce"} OBVIOUS
  <2> QED BY <1>1, <2>1 DEF Decisions, FindersTook, Unpublished, CurOffer, Cur
<1>4. PublishedTaken' BY <1>1 DEF Decisions, PublishedTaken
<1>5. DecidedOnce'
  <2>1. \A p \in published : p[1] # t
    <3>1. \A p \in published : p = <<p[1], p[2]>> /\ p[2] \in Drivers \cup {Nobody} BY DEF TypeOK
    <3> QED BY <3>1 DEF Unpublished
  <2>2. \A p, q \in published' : p[1] = q[1] => p = q
    BY <1>1, <2>1 DEF Decisions, DecidedOnce
  <2>3. ASSUME NEW u \in Trips, NEW e \in Drivers, <<u, Nobody>> \in published'
        PROVE  outcome'[<<u, e>>] # "accept"
    <3>1. CASE <<u, Nobody>> \in published BY <3>1 DEF Decisions, DecidedOnce
    <3>2. CASE <<u, Nobody>> = <<t, d>> BY <3>2 DEF NoneTaken
    <3> QED BY <1>1, <2>3, <3>1, <3>2
  <2> QED BY <2>2, <2>3 DEF DecidedOnce
<1> QED BY <1>2, <1>3, <1>4, <1>5 DEF Decisions

\* A loop decides its trip once, and as the answers say.
LEMMA LoopDecisions ==
  ASSUME TypeOK, Decisions, NEW t \in Trips, (Loop(t) \/ Fail(t))
  PROVE  Decisions'
<1> USE DEF queues, loop, offers, world, bounds
<1>0. pc \in [Trips -> Labels] BY DEF TypeOK, Labels
<1>1. CASE Announce(t) \/ (Fail(t) /\ pc[t] = "announce" /\ Publish(t, Cur(t)))
  <2>1. pc[t] = "announce" /\ Publish(t, Cur(t)) /\ UNCHANGED <<outcome, cands, seen>>
        /\ (Goto(t, "unlock") \/ Goto(t, "failed"))
    BY <1>1 DEF Announce, Fail
  <2>2. Cur(t) \in Drivers /\ Unpublished(t) /\ outcome[<<t, Cur(t)>>] = "accept"
    BY <2>1, Candidate DEF Decisions, FindersTook, CurOffer, AtOffer
  <2>3. /\ \A u \in Trips \ {t} : pc'[u] = pc[u]
        /\ pc'[t] \in {"unlock", "done", "failed"}
    BY <1>0, <2>1 DEF Goto
  <2>4. Cur(t) # Nobody BY <2>2, NobodyAssumption
  <2> HIDE DEF queues, loop, offers, world, bounds
  <2> QED BY <2>1, <2>2, <2>3, <2>4, AnnounceDecisions
<1>2. CASE GiveUp(t) \/ (Fail(t) /\ pc[t] = "exhausted" /\ Publish(t, Nobody))
  <2>1. pc[t] = "exhausted" /\ Publish(t, Nobody) /\ UNCHANGED <<outcome, cands, seen>>
        /\ (Goto(t, "done") \/ Goto(t, "failed"))
    BY <1>2 DEF GiveUp, Fail
  <2>2. Unpublished(t) /\ NoneTaken(t)
    BY <2>1 DEF Decisions, SeekersUndecided, Seeking
  <2>3. /\ \A u \in Trips \ {t} : pc'[u] = pc[u]
        /\ pc'[t] \in {"unlock", "done", "failed"}
    BY <1>0, <2>1 DEF Goto
  <2>4. Nobody \notin Drivers BY NobodyAssumption
  <2> HIDE DEF queues, loop, offers, world, bounds
  <2> QED BY <2>1, <2>2, <2>3, <2>4, AnnounceDecisions
<1>3. CASE Await(t) BY <1>3, AwaitDecisions
<1>4. CASE Search(t) \/ Check(t) \/ Offer(t) \/ Assign(t) \/ Unlock(t) \/ Decline(t)
           \/ (Fail(t) /\ UNCHANGED published)
  BY <1>4, LoopMoves
<1> QED BY <1>1, <1>2, <1>3, <1>4 DEF Loop, Fail

\* Nobody else decides; what crashes or is delivered again does not start over.
LEMMA OtherDecisions ==
  ASSUME TypeOK, Decisions, StartedOnce, Outside \/ Crash
  PROVE  Decisions'
<1> USE DEF queues, loop, offers, world, bounds
<1>0. pc \in [Trips -> Labels] BY DEF TypeOK, Labels
<1>1. CASE Crash
  <2>1. UNCHANGED <<outcome, published, seen>> BY <1>1 DEF Crash
  <2>2. ASSUME NEW t \in Trips
        PROVE  /\ Seeking(t)' => Seeking(t)
               /\ pc'[t] \in {"assign", "announce"} =>
                    pc[t] \in {"assign", "announce"} /\ cands'[t] = cands[t]
    <3>1. CASE Running(t)
      <4>1. pc'[t] = "queued" /\ t \in seen BY <1>1, <3>1 DEF Crash, StartedOnce, Running
      <4> QED BY <2>1, <4>1 DEF Seeking
    <3>2. CASE ~Running(t)
      <4>1. pc'[t] = pc[t] /\ cands'[t] = cands[t] BY <1>1, <3>2 DEF Crash
      <4> QED BY <2>1, <4>1 DEF Seeking
    <3> QED BY <3>1, <3>2
  <2> QED BY <2>1, <2>2, Undisturbed
<1>2. CASE \E t \in Trips : Handle(t)
  <2>1. PICK t \in Trips : Handle(t) BY <1>2
  <2>2. UNCHANGED <<outcome, published, cands>> /\ seen' = seen \cup {t}
        /\ (pc' = pc \/ (t \notin seen /\ pc[t] = "queued" /\ Goto(t, "search")))
    BY <2>1 DEF Handle, StartedOnce
  <2>3. \A u \in Trips : Seeking(u)' => Seeking(u) BY <1>0, <2>2 DEF Seeking, Goto
  <2>4. \A u \in Trips : pc'[u] \in {"assign", "announce"} => pc[u] \in {"assign", "announce"}
    BY <1>0, <2>2 DEF Goto
  <2> QED BY <2>2, <2>3, <2>4, Undisturbed
<1>3. CASE \E t \in Trips : Request(t)
  <2>1. PICK t \in Trips : Request(t) BY <1>3
  <2>2. UNCHANGED <<outcome, published, cands, seen>> /\ pc[t] = "none" /\ Goto(t, "queued")
    BY <2>1 DEF Request
  <2>3. \A u \in Trips : Seeking(u)' => Seeking(u) BY <1>0, <2>2 DEF Seeking, Goto
  <2>4. \A u \in Trips : pc'[u] \in {"assign", "announce"} => pc[u] \in {"assign", "announce"}
    BY <1>0, <2>2 DEF Goto
  <2> QED BY <2>2, <2>3, <2>4, Undisturbed
<1>4. CASE Outside /\ ~(\E t \in Trips : Handle(t) \/ Request(t))
  <2>1. UNCHANGED <<outcome, published, cands, pc>> /\ seen \subseteq seen'
    BY <1>4 DEF Outside, Duplicate, Notify, Cancel, ExpireLock, EndTrip, ExpireOffer,
     Reply, Flip, Push, Acknowledge, ReplyFails, Fault, Read
  <2>2. \A t \in Trips : Seeking(t)' => Seeking(t) BY <2>1 DEF Seeking
  <2> QED BY <2>1, <2>2, Undisturbed
<1> QED BY <1>1, <1>2, <1>3, <1>4

\* A loop starts when its message is marked, and no unrequested trip has one.
LEMMA StartsKept ==
  ASSUME TypeOK, StartedOnce, [Next]_vars
  PROVE  StartedOnce'
<1> USE DEF queues, loop, offers, world, bounds
<1>0. pc \in [Trips -> Labels] /\ copies \in [Trips -> Nat] BY DEF TypeOK, Labels
<1>1. CASE Crash
  BY <1>0, <1>1 DEF StartedOnce, Crash, Running
<1>2. CASE \E t \in Trips : Loop(t) \/ Fail(t)
  <2>1. PICK t \in Trips : Loop(t) \/ Fail(t) BY <1>2
  <2>2. /\ UNCHANGED <<copies, seen>>
        /\ \E label \in Labels \ {"none", "queued"} : Goto(t, label)
        /\ pc[t] \notin {"none", "queued"}
    BY <2>1 DEF Loop, Search, Check, Offer, Await, Assign, Announce, Unlock, Decline, GiveUp, Fail,
                Running, Labels
  <2> QED BY <1>0, <2>2 DEF StartedOnce, Goto
<1>3. CASE \E t \in Trips : Handle(t)
  BY <1>0, <1>3 DEF StartedOnce, Handle, Goto
<1>4. CASE \E t \in Trips : Request(t)
  BY <1>0, <1>4 DEF StartedOnce, Request, Goto
<1>5. CASE \E t \in Trips : Duplicate(t)
  BY <1>0, <1>5 DEF StartedOnce, Duplicate
<1>6. CASE UNCHANGED <<pc, copies>> /\ seen \subseteq seen'
  BY <1>6 DEF StartedOnce
<1>7. CASE UNCHANGED vars BY <1>6, <1>7 DEF vars
<1>8. CASE Outside /\ ~(\E t \in Trips : Handle(t) \/ Request(t) \/ Duplicate(t))
  <2>1. UNCHANGED <<pc, copies>> /\ seen \subseteq seen'
    BY <1>8 DEF Outside, Notify, Cancel, ExpireLock, EndTrip, ExpireOffer,
     Reply, Flip, Push, Acknowledge, ReplyFails, Fault, Read
  <2> QED BY <1>6, <2>1
<1> QED BY <1>1, <1>2, <1>3, <1>4, <1>5, <1>7, <1>8 DEF Next, Outside

\* What is pushed later stays behind the first answer.
LEMMA FirstStays ==
  ASSUME TypeOK, NEW r \in Responders, Reply(r) \/ ReplyFails(r),
         NEW o \in Offers, Answered(o, "accept")
  PROVE  Answered(o, "accept")'
<1>1. CASE UNCHANGED answer BY <1>1 DEF Answered
<1>2. CASE PushAnswer(r) /\ reply[r] # NoReply
  <2>1. reply[r].answer \in {"accept", "reject"} /\ answer \in [Offers -> Seq({"accept", "reject"})]
    BY <1>2 DEF TypeOK, Replies
  <2>2. /\ Append(answer[o], reply[r].answer) # <<>>
        /\ Head(Append(answer[o], reply[r].answer)) = Head(answer[o])
    BY <2>1 DEF Answered
  <2>3. answer'[o] \in {answer[o], Append(answer[o], reply[r].answer)}
    BY <1>2, <2>1 DEF PushAnswer
  <2> QED BY <2>2, <2>3 DEF Answered
<1> QED
  BY <1>1, <1>2 DEF Reply, Flip, Push, Acknowledge, ReplyFails, At, offers

\* A loop takes the first answer for what it is, and that answer stays.
LEMMA AnswersKept ==
  ASSUME TypeOK, AnswersTaken, [Next]_vars
  PROVE  AnswersTaken'
<1> USE DEF queues, loop, offers, world, bounds
<1>1. CASE \E r \in Responders : Reply(r) \/ ReplyFails(r)
  <2>1. PICK r \in Responders : Reply(r) \/ ReplyFails(r) BY <1>1
  <2>2. UNCHANGED outcome BY <2>1 DEF Reply, Flip, Push, Acknowledge, ReplyFails
  <2> QED BY <2>1, <2>2, FirstStays DEF AnswersTaken
<1>2. CASE \E t \in Trips : Await(t)
  <2>1. PICK t \in Trips : Await(t) BY <1>2
  <2>2. UNCHANGED answer BY <2>1 DEF Await
  <2>3. PICK what \in {"accept", "reject", "timeout"} :
          Took(t, what) /\ (what = "accept" => Answered(CurOffer(t), "accept"))
    BY <2>1 DEF Await
  <2> QED BY <2>2, <2>3 DEF AnswersTaken, Answered, Took, TypeOK
<1>3. CASE UNCHANGED <<answer, outcome>>
  BY <1>3 DEF AnswersTaken, Answered
<1>4. CASE UNCHANGED vars BY <1>3, <1>4 DEF vars
<1>5. CASE Crash BY <1>3, <1>5 DEF Crash
<1>6. CASE Outside /\ ~(\E r \in Responders : Reply(r) \/ ReplyFails(r))
  BY <1>3, <1>6 DEF Outside, Request, Duplicate, Notify, Cancel, Handle, ExpireLock, EndTrip,
                    ExpireOffer, Read
<1>7. CASE \E t \in Trips : (Loop(t) /\ ~Await(t)) \/ Fail(t)
  BY <1>3, <1>7 DEF Loop, Search, Check, Offer, Assign, Announce, Unlock, Decline, GiveUp, Fail
<1> QED BY <1>1, <1>2, <1>4, <1>5, <1>6, <1>7 DEF Next, Outside

\* Every step keeps the invariant.
LEMMA InvKept ==
  ASSUME Inv, [Next]_vars
  PROVE  Inv'
<1>1. Decisions'
  <2>1. Decisions /\ StartedOnce /\ TypeOK BY DEF Inv, Protocol, Decisions
  <2>2. CASE UNCHANGED vars
    <3>1. UNCHANGED <<outcome, published, pc, cands, seen>>
      BY <2>2 DEF vars, loop, queues, world
    <3> QED BY <2>1, <3>1, Undisturbed DEF Seeking
  <2>3. CASE Next
    BY <2>1, <2>3, LoopDecisions, OtherDecisions DEF Next, Outside
  <2> QED BY <2>2, <2>3
<1> QED BY <1>1, TypesKept, LocksKept, StartsKept, AnswersKept DEF Inv, Protocol, Decisions

\* Inv is an invariant.
THEOREM Invariance == Spec => []Inv
<1>1. Init => Inv BY InitInv
<1>2. Inv /\ [Next]_vars => Inv' BY InvKept
<1> QED BY <1>1, <1>2, PTL DEF Spec

\* Every variable keeps its shape, and a loop that is at an offer has a
\* driver to offer to.
THEOREM TypeCorrect == Spec => []TypeOK
<1>1. Inv => TypeOK BY DEF Inv
<1> QED BY <1>1, Invariance, PTL

\* While a driver has an offer open, its loop holds his lock, so no two
\* trips are offered to him at the same time.
THEOREM OffersLocked == Spec => []OfferHoldsLock
<1>1. Inv => OfferHoldsLock BY DEF Inv
<1> QED BY <1>1, Invariance, PTL

\* Only a driver whose acceptance was the first of his answers to reach the
\* loop is announced.
THEOREM AcceptedOnly == Spec => []AssignmentsWereAccepted
<1>1. Inv => AssignmentsWereAccepted
  BY DEF Inv, Protocol, PublishedTaken, AnswersTaken, AssignmentsWereAccepted, Offers
<1> QED BY <1>1, Invariance, PTL

\* A trip is announced once, and as unmatched only if no acceptance was
\* taken.
THEOREM TripsDecidedOnce == Spec => []DecidedOnce
<1>1. Inv => DecidedOnce BY DEF Inv, Protocol
<1> QED BY <1>1, Invariance, PTL

=============================================================================
