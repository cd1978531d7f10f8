------------------------------ MODULE Dispatch ------------------------------
(***************************************************************************)
(* The dispatch engine (matching-service): one loop for each requested     *)
(* trip, which offers it to one candidate after the other under a lock on  *)
(* the driver, and the endpoint that takes the drivers' answers.  All of   *)
(* its state is in Redis, read and written in separate round trips.        *)
(*                                                                         *)
(* A loop goes                                                             *)
(*   queued -> search -> check -> lock -> wait -> assign -> announce ->    *)
(*   unlock -> done, or back to check from wait, or gives up.              *)
(* A trip and a driver name an offer (a loop offers a driver its trip      *)
(* once), and the trip names the token its loop locks a driver with.       *)
(*                                                                         *)
(* Time is abstracted to what the code compares: a lock (20s) outlives the *)
(* offer window (15s) and so does the offer (25s), and nothing bounds what *)
(* comes after the window.                                                 *)
(*                                                                         *)
(* An answer goes flip -> push -> ack.  The push wakes the loop, so the    *)
(* trip may be announced before the driver who accepted it hears that all  *)
(* is well, and he may hear of an error instead.                           *)
(***************************************************************************)
EXTENDS Naturals, Sequences

CONSTANTS
  Trips, Drivers,
  Nobody,          \* no trip, no driver
  Responders,      \* answers to offers being processed at the same time
  MaxCandidates,   \* MAX_CANDIDATES
  MaxDuplicates,   \* bound: redeliveries and republications of ride.requested
  MaxCrashes,      \* bound: crashes of the matching process
  MaxFaults        \* bound: service calls and publications that fail

ASSUME NobodyAssumption == Nobody \notin Trips \cup Drivers
ASSUME CandidatesAssumption == MaxCandidates \in Nat \ {0}
ASSUME BoundsAssumption == {MaxDuplicates, MaxCrashes, MaxFaults} \subseteq Nat

VARIABLES
  copies,      \* copies of ride.requested in matching's queue, by trip
  unread,      \* trips whose ride.requested notification-service has to read
  seen,        \* dedupe keys of those messages
  cancelled,   \* dispatch:cancelled flags
  pc,          \* each loop: where it is
  cands,       \* the candidates it has left, the one it is at first
  lock,        \* lock:driver: the loop that holds each driver
  offer,       \* offer: none, pending or, answered, deleted or expired, closed
  answer,      \* offer:resp: the answers pushed for each offer, oldest first
  outcome,     \* what the loop took for the answer to each offer
  reply,       \* each responder: the offer it found pending, the answer, its next step
  onTrip,      \* drivers location-service has as on_trip
  published,   \* what each loop announced: pairs of trip and driver or Nobody
  ended,       \* trips that have ended in trip-service
  dups, crashes, faults

queues == <<copies, unread, seen, cancelled>>
loop == <<pc, cands, outcome>>
offers == <<offer, answer>>
world == <<onTrip, published, ended>>
bounds == <<dups, crashes, faults>>
vars == <<queues, loop, lock, offers, reply, world, bounds>>

Offers == Trips \X Drivers
NoReply == <<>>

Init ==
  /\ copies = [t \in Trips |-> 0] /\ unread = {} /\ seen = {} /\ cancelled = {}
  /\ pc = [t \in Trips |-> "none"] /\ cands = [t \in Trips |-> <<>>]
  /\ outcome = [o \in Offers |-> "none"]
  /\ lock = [d \in Drivers |-> Nobody]
  /\ offer = [o \in Offers |-> "none"] /\ answer = [o \in Offers |-> <<>>]
  /\ reply = [r \in Responders |-> NoReply]
  /\ onTrip = {} /\ published = {} /\ ended = {}
  /\ dups = 0 /\ crashes = 0 /\ faults = 0

Cur(t) == Head(cands[t])
CurOffer(t) == <<t, Cur(t)>>
Goto(t, label) == pc' = [pc EXCEPT ![t] = label]
Fault == faults < MaxFaults /\ faults' = faults + 1 /\ UNCHANGED <<dups, crashes>>

-----------------------------------------------------------------------------
(* The trip service, the broker and the notification service.              *)

\* ride.requested reaches both queues bound to it.
Request(t) ==
  /\ pc[t] = "none"
  /\ Goto(t, "queued")
  /\ copies' = [copies EXCEPT ![t] = @ + 1]
  /\ unread' = unread \cup {t}
  /\ UNCHANGED <<seen, cancelled, cands, outcome, lock, offers, reply, world, bounds>>

Duplicate(t) ==
  /\ pc[t] # "none" /\ dups < MaxDuplicates
  /\ dups' = dups + 1
  /\ copies' = [copies EXCEPT ![t] = @ + 1]
  /\ UNCHANGED <<unread, seen, cancelled, loop, lock, offers, reply, world, crashes, faults>>

\* notification-service marks what it reads with the same key.
Notify(t) ==
  /\ t \in unread
  /\ unread' = unread \ {t}
  /\ seen' = seen \cup {t}
  /\ UNCHANGED <<copies, cancelled, loop, lock, offers, reply, world, bounds>>

\* The rider cancels; matching's other consumer sets the flag.
Cancel(t) ==
  /\ pc[t] # "none" /\ t \notin cancelled
  /\ cancelled' = cancelled \cup {t}
  /\ UNCHANGED <<copies, unread, seen, loop, lock, offers, reply, world, bounds>>

-----------------------------------------------------------------------------
(* The loop of one trip.                                                   *)

\* Mutant: the consumer without seenBefore.
HandleEveryCopy(t) ==
  /\ copies[t] > 0
  /\ copies' = [copies EXCEPT ![t] = @ - 1]
  /\ IF pc[t] \in {"queued", "done"} THEN Goto(t, "search") ELSE UNCHANGED pc
  /\ UNCHANGED <<unread, seen, cancelled, cands, outcome, lock, offers, reply, world, bounds>>

\* The message is marked before it is handled, a marked one is dropped.
Handle(t) ==
  /\ copies[t] > 0
  /\ copies' = [copies EXCEPT ![t] = @ - 1]
  /\ IF t \in seen THEN UNCHANGED pc ELSE Goto(t, "search")
  /\ seen' = seen \cup {t}
  /\ UNCHANGED <<unread, cancelled, cands, outcome, lock, offers, reply, world, bounds>>

\* fetchCandidates and rankCandidates: drivers found online, in the order of
\* their scores; a driver who is not on a trip may have disconnected.
Search(t) ==
  /\ pc[t] = "search"
  /\ \E n \in 0 .. MaxCandidates : \E s \in [1 .. n -> Drivers \ onTrip] :
       /\ \A i, j \in 1 .. n : i # j => s[i] # s[j]
       /\ cands' = [cands EXCEPT ![t] = s]
  /\ Goto(t, "check")
  /\ UNCHANGED <<queues, outcome, lock, offers, reply, world, bounds>>

\* The head of an iteration: the list is exhausted, the rider has cancelled,
\* or the next candidate's lock is tried.
Check(t) ==
  /\ pc[t] = "check"
  /\ Goto(t, IF cands[t] = <<>> THEN "exhausted"
             ELSE IF t \in cancelled THEN "done" ELSE "lock")
  /\ UNCHANGED <<queues, cands, outcome, lock, offers, reply, world, bounds>>

\* SET NX; a driver who is held is skipped, else the offer is stored and sent.
Offer(t) ==
  /\ pc[t] = "lock"
  /\ \/ /\ lock[Cur(t)] # Nobody
        /\ Goto(t, "check")
        /\ cands' = [cands EXCEPT ![t] = Tail(@)]
        /\ UNCHANGED <<lock, offer>>
     \/ /\ lock[Cur(t)] = Nobody
        /\ lock' = [lock EXCEPT ![Cur(t)] = t]
        /\ offer' = [offer EXCEPT ![CurOffer(t)] = "pending"]
        /\ Goto(t, "wait")
        /\ UNCHANGED cands
  /\ UNCHANGED <<queues, outcome, answer, reply, world, bounds>>

Took(t, what) == outcome' = [outcome EXCEPT ![CurOffer(t)] = what]

\* Mutant: BLPOP, which takes the latest answer.
Last(s) == s[Len(s)]
AwaitLatest(t) ==
  LET o == CurOffer(t) IN
  /\ pc[t] = "wait"
  /\ \/ answer[o] # <<>> /\ Last(answer[o]) = "accept" /\ Took(t, "accept") /\ Goto(t, "assign")
     \/ answer[o] # <<>> /\ Last(answer[o]) = "reject" /\ Took(t, "reject") /\ Goto(t, "decline")
     \/ answer[o] = <<>> /\ Took(t, "timeout") /\ Goto(t, "decline")
  /\ UNCHANGED <<queues, cands, lock, offers, reply, world, bounds>>

\* What BRPOP takes from the list that LPUSH has filled.
Answered(o, a) == answer[o] # <<>> /\ Head(answer[o]) = a

\* Mutant: BRPOP waits for ever.
AwaitForever(t) ==
  /\ pc[t] = "wait"
  /\ \/ Answered(CurOffer(t), "accept") /\ Took(t, "accept") /\ Goto(t, "assign")
     \/ Answered(CurOffer(t), "reject") /\ Took(t, "reject") /\ Goto(t, "decline")
  /\ UNCHANGED <<queues, cands, lock, offers, reply, world, bounds>>

\* BRPOP wakes with the first answer, or its time is up.
Await(t) ==
  /\ pc[t] = "wait"
  /\ \/ Answered(CurOffer(t), "accept") /\ Took(t, "accept") /\ Goto(t, "assign")
     \/ Answered(CurOffer(t), "reject") /\ Took(t, "reject") /\ Goto(t, "decline")
     \/ answer[CurOffer(t)] = <<>> /\ Took(t, "timeout") /\ Goto(t, "decline")
  /\ UNCHANGED <<queues, cands, lock, offers, reply, world, bounds>>

\* The driver is set on_trip before anybody learns of the match.
Assign(t) ==
  /\ pc[t] = "assign"
  /\ onTrip' = onTrip \cup {Cur(t)}
  /\ Goto(t, "announce")
  /\ UNCHANGED <<queues, cands, outcome, lock, offers, reply, published, ended, bounds>>

Publish(t, d) == published' = published \cup {<<t, d>>}

Announce(t) ==
  /\ pc[t] = "announce"
  /\ Publish(t, Cur(t))
  /\ Goto(t, "unlock")
  /\ UNCHANGED <<queues, cands, outcome, lock, offers, reply, onTrip, ended, bounds>>

\* Mutant: a plain DEL, whoever holds the lock now.
ReleaseAny(t) == lock' = [lock EXCEPT ![Cur(t)] = Nobody]

\* The Lua script deletes the key only if it holds our token.
Release(t) == lock' = [lock EXCEPT ![Cur(t)] = IF @ = t THEN Nobody ELSE @]

Unlock(t) ==
  /\ pc[t] = "unlock"
  /\ Release(t)
  /\ Goto(t, "done")
  /\ UNCHANGED <<queues, cands, outcome, offers, reply, world, bounds>>

\* Mutant: the candidate stays at the head of the list.
DeclineAgain(t) ==
  /\ pc[t] = "decline"
  /\ offer' = [offer EXCEPT ![CurOffer(t)] = "closed"]
  /\ Release(t)
  /\ Goto(t, "check")
  /\ UNCHANGED <<queues, cands, outcome, answer, reply, world, bounds>>

\* A rejected or expired offer is deleted, the driver released.
Decline(t) ==
  /\ pc[t] = "decline"
  /\ offer' = [offer EXCEPT ![CurOffer(t)] = "closed"]
  /\ Release(t)
  /\ cands' = [cands EXCEPT ![t] = Tail(@)]
  /\ Goto(t, "check")
  /\ UNCHANGED <<queues, outcome, answer, reply, world, bounds>>

GiveUp(t) ==
  /\ pc[t] = "exhausted"
  /\ Publish(t, Nobody)
  /\ Goto(t, "done")
  /\ UNCHANGED <<queues, cands, outcome, lock, offers, reply, onTrip, ended, bounds>>

Running(t) == pc[t] \notin {"none", "queued", "done", "failed"}

\* A call throws, its effect done or not: the message is dead-lettered, and a
\* lock the loop has stays.
Fail(t) ==
  /\ Running(t) /\ Fault
  /\ \/ UNCHANGED <<onTrip, published>>
     \/ /\ pc[t] = "assign" /\ UNCHANGED published
        /\ onTrip' = onTrip \cup {Cur(t)}
     \/ pc[t] = "announce" /\ Publish(t, Cur(t)) /\ UNCHANGED onTrip
     \/ pc[t] = "exhausted" /\ Publish(t, Nobody) /\ UNCHANGED onTrip
  /\ Goto(t, "failed")
  /\ UNCHANGED <<queues, cands, outcome, lock, offers, reply, ended>>

\* The process dies with its loops and half-made answers; their messages,
\* unacknowledged, are queued again.
Crash ==
  /\ crashes < MaxCrashes
  /\ crashes' = crashes + 1
  /\ copies' = [t \in Trips |-> copies[t] + IF Running(t) THEN 1 ELSE 0]
  /\ pc' = [t \in Trips |-> IF Running(t) THEN "queued" ELSE pc[t]]
  /\ cands' = [t \in Trips |-> IF Running(t) THEN <<>> ELSE cands[t]]
  /\ reply' = [r \in Responders |-> NoReply]
  /\ UNCHANGED <<unread, seen, cancelled, outcome, lock, offers, world, dups, faults>>

-----------------------------------------------------------------------------
(* Redis expiry and the drivers.                                           *)

Open(o) == pc[o[1]] = "wait" /\ CurOffer(o[1]) = o

\* Mutant: the lock without PX.
ExpireNever(d) == FALSE /\ UNCHANGED vars

\* The TTL of a lock ends only after the offer window of its holder.
ExpireLock(d) ==
  /\ lock[d] # Nobody /\ ~Open(<<lock[d], d>>)
  /\ lock' = [lock EXCEPT ![d] = Nobody]
  /\ UNCHANGED <<queues, loop, offers, reply, world, bounds>>

ExpireOffer(o) ==
  /\ offer[o] = "pending" /\ ~Open(o)
  /\ offer' = [offer EXCEPT ![o] = "closed"]
  /\ UNCHANGED <<queues, loop, lock, answer, reply, world, bounds>>

\* respondToOffer reads the offer and finds it pending; it answers all others
\* with the reason it refuses them.
Read(r, o, a) ==
  /\ reply[r] = NoReply
  /\ offer[o] = "pending"
  /\ reply' = [reply EXCEPT ![r] = [offer |-> o, answer |-> a, at |-> "flip"]]
  /\ UNCHANGED <<queues, loop, lock, offers, world, bounds>>

At(r, step) == reply[r] # NoReply /\ reply[r].at = step
Then(r, step) == reply' = [reply EXCEPT ![r].at = step]

\* SET, whatever became of the offer in the meantime.
CloseOffer(r) == offer' = [offer EXCEPT ![reply[r].offer] = "closed"]

\* LPUSH.
PushAnswer(r) ==
  answer' = [answer EXCEPT ![reply[r].offer] = Append(@, reply[r].answer)]

Done(r) == reply' = [reply EXCEPT ![r] = NoReply]

Flip(r) ==
  /\ At(r, "flip")
  /\ CloseOffer(r) /\ Then(r, "push")
  /\ UNCHANGED <<queues, loop, lock, answer, world, bounds>>

\* The loop wakes up; the driver has yet to be answered.
Push(r) ==
  /\ At(r, "push")
  /\ PushAnswer(r) /\ Then(r, "ack")
  /\ UNCHANGED <<queues, loop, lock, offer, world, bounds>>

\* EXPIRE, and the driver is told that all is well.
Acknowledge(r) ==
  /\ At(r, "ack")
  /\ Done(r)
  /\ UNCHANGED <<queues, loop, lock, offers, world, bounds>>

\* A command throws, its effect done or not: the driver gets an error.
ReplyFails(r) ==
  /\ reply[r] # NoReply /\ Fault
  /\ \/ UNCHANGED offers
     \/ At(r, "flip") /\ CloseOffer(r) /\ UNCHANGED answer
     \/ At(r, "push") /\ PushAnswer(r) /\ UNCHANGED offer
  /\ Done(r)
  /\ UNCHANGED <<queues, loop, lock, world>>

\* The trip of an assigned driver ends and trip-service sends him online, or
\* does not: that call's errors are ignored.
EndTrip(t, d) ==
  /\ <<t, d>> \in published /\ t \notin ended
  /\ ended' = ended \cup {t}
  /\ onTrip' = onTrip \ {d}
  /\ UNCHANGED <<queues, loop, lock, offers, reply, published, bounds>>

-----------------------------------------------------------------------------
Reply(r) == Flip(r) \/ Push(r) \/ Acknowledge(r)

Loop(t) ==
  \/ Search(t) \/ Check(t) \/ Offer(t) \/ Await(t) \/ Assign(t) \/ Announce(t)
  \/ Unlock(t) \/ Decline(t) \/ GiveUp(t)

Next ==
  \/ \E t \in Trips :
       \/ Request(t) \/ Duplicate(t) \/ Notify(t) \/ Cancel(t)
       \/ Handle(t) \/ Loop(t) \/ Fail(t)
  \/ Crash
  \/ \E d \in Drivers : ExpireLock(d) \/ \E t \in Trips : EndTrip(t, d)
  \/ \E o \in Offers : ExpireOffer(o)
  \/ \E r \in Responders :
       \/ Reply(r) \/ ReplyFails(r)
       \/ \E o \in Offers, a \in {"accept", "reject"} : Read(r, o, a)

Spec == Init /\ [][Next]_vars

\* Matching's queue is consumed, its loops run on, Redis wakes a blocked pop
\* when its time is up and expires its keys.  Nothing is assumed of riders,
\* drivers, the answers being processed and faults.
Fairness ==
  /\ \A t \in Trips : WF_vars(Handle(t)) /\ WF_vars(Loop(t))
  /\ \A d \in Drivers : WF_vars(ExpireLock(d))

FairSpec == Spec /\ Fairness

-----------------------------------------------------------------------------
(* Properties.                                                             *)

Replies == [offer : Offers, answer : {"accept", "reject"}, at : {"flip", "push", "ack"}]

\* Every variable keeps its shape; a loop that is at an offer has a driver
\* to offer to.
TypeOK ==
  /\ copies \in [Trips -> Nat]
  /\ unread \subseteq Trips /\ seen \subseteq Trips /\ cancelled \subseteq Trips
  /\ pc \in [Trips -> {"none", "queued", "search", "check", "lock", "wait", "assign",
                       "announce", "unlock", "decline", "exhausted", "done", "failed"}]
  /\ cands \in [Trips -> Seq(Drivers)]
  /\ \A t \in Trips :
       pc[t] \in {"lock", "wait", "assign", "announce", "unlock", "decline"} => cands[t] # <<>>
  /\ outcome \in [Offers -> {"none", "accept", "reject", "timeout"}]
  /\ lock \in [Drivers -> Trips \cup {Nobody}]
  /\ offer \in [Offers -> {"none", "pending", "closed"}]
  /\ answer \in [Offers -> Seq({"accept", "reject"})]
  /\ reply \in [Responders -> {NoReply} \cup Replies]
  /\ onTrip \subseteq Drivers
  /\ published \subseteq Trips \X (Drivers \cup {Nobody}) /\ ended \subseteq Trips
  /\ {dups, crashes, faults} \subseteq Nat

\* While a driver has an offer open, its loop holds his lock, hence no two
\* trips are offered to him at the same time: whatever locks expired, were
\* taken over or released late before.
OfferHoldsLock == \A t \in Trips : pc[t] = "wait" => lock[Cur(t)] = t

\* Only a driver whose acceptance was the first of his answers to reach the
\* loop is announced, however his answers, the end of the window, the loop and
\* faults interleave: none of the others overrides it, and none is taken for
\* it.  That he has been told so by then is not said.
AssignmentsWereAccepted ==
  \A t \in Trips, d \in Drivers :
    <<t, d>> \in published => outcome[<<t, d>>] = "accept" /\ Answered(<<t, d>>, "accept")

\* A trip is announced once, as matched or as unmatched, and as unmatched
\* only if no driver's acceptance was taken: neither duplicates nor crashes
\* dispatch a trip twice.
DecidedOnce ==
  /\ \A p, q \in published : p[1] = q[1] => p = q
  /\ \A t \in Trips, d \in Drivers :
       <<t, Nobody>> \in published => outcome[<<t, d>>] # "accept"

\* The loops, locks and offers implement matching: a trip is offered to one
\* driver at a time and to each once, a driver has one open offer, and the
\* acceptance that finds the trip its driver came while its offer was open;
\* so a late answer, a lock that expired and was taken over, or an offer a
\* crash left behind decides nothing.
Assignment == INSTANCE Matching WITH
  offered <- {o \in Offers : offer[o] # "none"},
  open <- {o \in Offers : Open(o)},
  accepted <- {o \in Offers : Answered(o, "accept")},
  taken <- {o \in Offers : outcome[o] = "accept"},
  decided <- published
ImplementsMatching == Assignment!Spec

\* A loop that has started ends, whatever the drivers do.
LoopsEnd == \A t \in Trips : pc[t] = "search" ~> ~Running(t)

\* No driver stays locked: the lock of a loop that failed or died expires.
LocksFreed == \A d \in Drivers : lock[d] # Nobody ~> lock[d] = Nobody

\* "plus the location-status flip make double-BOOKING still impossible"
\* (docs/adr/005-distributed-lock.md:32): no driver is announced for two
\* trips that are both still under way.
NeverDoubleBooked ==
  \A d \in Drivers : \A t, u \in Trips \ (ended \cup cancelled) :
    <<t, d>> \in published /\ <<u, d>> \in published => t = u

\* "each event processed once by each consumer group"
\* (docs/adr/001-broker-rabbitmq.md:26): a requested trip is decided or
\* cancelled.
EveryRequestDecided ==
  \A t \in Trips : pc[t] = "queued" ~>
    (t \in cancelled \/ pc[t] = "failed" \/ \E d \in Drivers \cup {Nobody} : <<t, d>> \in published)

=============================================================================
