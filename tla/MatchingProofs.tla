--------------------------- MODULE MatchingProofs ---------------------------
(***************************************************************************)
(* Proofs that dispatch implements matching, for any trips, drivers and    *)
(* concurrent answers and any number of duplicates, crashes and faults:    *)
(* first that no loop offers its trip to a driver twice, then that every   *)
(* step is a step of matching or does not show.                            *)
(***************************************************************************)
EXTENDS DispatchProofs

-----------------------------------------------------------------------------
(* No driver is asked twice.                                               *)

Unoffered(t, d) == offer[<<t, d>>] = "none"

\* Where a loop stands decides which of its candidates it has asked.
AskedOnce(t) ==
  /\ \A i, j \in DOMAIN cands[t] : i # j => cands[t][i] # cands[t][j]
  /\ pc[t] \in {"none", "search"} \/ (pc[t] = "queued" /\ t \notin seen) =>
       \A d \in Drivers : Unoffered(t, d)
  /\ pc[t] \in {"check", "lock"} =>
       \A i \in DOMAIN cands[t] : Unoffered(t, cands[t][i])
  /\ pc[t] \in {"wait", "decline"} =>
       \A i \in DOMAIN cands[t] : i # 1 => Unoffered(t, cands[t][i])
  /\ pc[t] \in AtOffer \ {"lock"} => ~Unoffered(t, Cur(t))

\* An answer on its way is to an offer that was made.
AnswersOffered ==
  \A r \in Responders : reply[r] # NoReply => offer[reply[r].offer] # "none"

OfferedOnce == AnswersOffered /\ \A t \in Trips : AskedOnce(t)

\* The tail of a list without repetitions has none, and not its head.
LEMMA Remaining ==
  ASSUME NEW S, NEW s \in Seq(S), s # <<>>
  PROVE  /\ DOMAIN s = 1 .. Len(s) /\ Len(s) \in Nat \ {0}
         /\ Head(s) = s[1]
         /\ DOMAIN Tail(s) = 1 .. Len(s) - 1
         /\ \A i \in DOMAIN Tail(s) : i + 1 \in DOMAIN s \ {1} /\ Tail(s)[i] = s[i + 1]
  OBVIOUS

LEMMA InitOffered == Init => OfferedOnce
  BY DEF Init, OfferedOnce, AnswersOffered, AskedOnce, Unoffered, Offers, AtOffer

\* Only the offer a loop makes becomes one.
LEMMA OffersMade ==
  ASSUME Inv, OfferedOnce, [Next]_vars, NEW o \in Offers
  PROVE  \/ offer'[o] = "none" <=> offer[o] = "none"
         \/ \E t \in Trips : Offer(t) /\ lock[Cur(t)] = Nobody /\ o = CurOffer(t)
                               /\ offer'[o] = "pending"
<1> USE DEF queues, loop, offers, world, bounds
<1>0. offer \in [Offers -> {"none", "pending", "closed"}]
  BY DEF Inv, TypeOK
<1>1. CASE UNCHANGED offer BY <1>1
<1>2. CASE \E t \in Trips : Offer(t) /\ lock[Cur(t)] = Nobody
  BY <1>0, <1>2 DEF Offer
<1>3. CASE \E t \in Trips : Decline(t)
  <2>1. PICK t \in Trips : Decline(t) BY <1>3
  <2>2. offer[CurOffer(t)] # "none"
    BY <2>1 DEF Decline, OfferedOnce, AskedOnce, Unoffered, AtOffer, CurOffer
  <2> QED BY <1>0, <2>1, <2>2 DEF Decline
<1>4. CASE \E p \in Offers : ExpireOffer(p)
  BY <1>0, <1>4 DEF ExpireOffer
<1>5. CASE \E r \in Responders : Reply(r) \/ ReplyFails(r)
  <2>1. PICK r \in Responders : Reply(r) \/ ReplyFails(r) BY <1>5
  <2>2. offer[reply[r].offer] # "none"
    BY <2>1 DEF Reply, Flip, Push, Acknowledge, ReplyFails, At, OfferedOnce, AnswersOffered
  <2>3. UNCHANGED offer \/ CloseOffer(r)
    BY <2>1 DEF Reply, Flip, Push, Acknowledge, ReplyFails
  <2> QED BY <1>0, <2>2, <2>3 DEF CloseOffer
<1>6. ASSUME NEW t \in Trips, Loop(t) \/ Fail(t), ~(Offer(t) /\ lock[Cur(t)] = Nobody), ~Decline(t)
      PROVE  UNCHANGED offer
  BY <1>6 DEF Loop, Search, Check, Offer, Await, Assign, Announce, Unlock, GiveUp, Fail
<1>7. ASSUME Outside, \A p \in Offers : ~ExpireOffer(p),
             \A r \in Responders : ~(Reply(r) \/ ReplyFails(r))
      PROVE  UNCHANGED offer
  BY <1>7 DEF Outside, Request, Duplicate, Notify, Cancel, Handle, ExpireLock, EndTrip, Read
<1>8. Crash \/ UNCHANGED vars => UNCHANGED offer
  BY DEF Crash, vars
<1> HIDE DEF queues, loop, offers, world, bounds
<1> QED BY <1>1, <1>2, <1>3, <1>4, <1>5, <1>6, <1>7, <1>8 DEF Next, Outside

LEMMA NextAnswers ==
  ASSUME Inv, OfferedOnce, [Next]_vars
  PROVE  AnswersOffered'
<1> SUFFICES ASSUME NEW r \in Responders, reply'[r] # NoReply
             PROVE  offer'[reply'[r].offer] # "none"
  BY DEF AnswersOffered
<1> USE DEF queues, loop, offers, world, bounds
<1>0. reply \in [Responders -> {NoReply} \cup Replies]
  BY DEF Inv, TypeOK
<1>1. \/ reply[r] # NoReply /\ reply'[r].offer = reply[r].offer
      \/ \E o \in Offers, a \in {"accept", "reject"} : Read(r, o, a)
  <2>1. ASSUME NEW t \in Trips, Loop(t) \/ Fail(t) PROVE UNCHANGED reply
    BY <2>1 DEF Loop, Search, Check, Offer, Await, Assign, Announce, Unlock, Decline, GiveUp, Fail
  <2>2. Crash => reply'[r] = NoReply
    BY DEF Crash
  <2>3. ASSUME Outside PROVE \/ reply[r] # NoReply /\ reply'[r].offer = reply[r].offer
                             \/ \E o \in Offers, a \in {"accept", "reject"} : Read(r, o, a)
    <3>1. CASE \E q \in Responders, o \in Offers, a \in {"accept", "reject"} : Read(q, o, a)
      BY <1>0, <3>1 DEF Read
    <3>2. CASE \E q \in Responders : Reply(q) \/ ReplyFails(q)
      <4>1. PICK q \in Responders : Reply(q) \/ ReplyFails(q) BY <3>2
      <4>2. Done(q) \/ \E step \in {"push", "ack"} : reply[q] # NoReply /\ Then(q, step)
        BY <4>1 DEF Reply, Flip, Push, Acknowledge, ReplyFails, At
      <4> QED BY <1>0, <4>2 DEF Done, Then, Replies
    <3>3. CASE UNCHANGED reply BY <3>3
    <3> QED BY <2>3, <3>1, <3>2, <3>3
        DEF Outside, Request, Duplicate, Notify, Cancel, Handle, ExpireLock, EndTrip, ExpireOffer
  <2>4. UNCHANGED vars => UNCHANGED reply
    BY DEF vars
  <2> HIDE DEF queues, loop, offers, world, bounds
  <2> QED BY <2>1, <2>2, <2>3, <2>4 DEF Next, Outside
<1>2. CASE reply[r] # NoReply /\ reply'[r].offer = reply[r].offer
  <2>1. offer[reply[r].offer] # "none" /\ reply[r].offer \in Offers
    BY <1>0, <1>2 DEF OfferedOnce, AnswersOffered, Replies
  <2> QED BY <1>2, <2>1, OffersMade
<1>3. CASE \E o \in Offers, a \in {"accept", "reject"} : Read(r, o, a)
  BY <1>3 DEF Read, Inv, TypeOK
<1> QED BY <1>1, <1>2, <1>3

\* The phases of a loop: it has asked nobody, it is between two candidates,
\* at one it has asked.
Fresh(t) == pc[t] \in {"none", "search"} \/ (pc[t] = "queued" /\ t \notin seen)
Between(t) == pc[t] \in {"check", "lock"}
Asking(t) == pc[t] \in {"wait", "decline"}
Asked(t) == pc[t] \in AtOffer \ {"lock"}

SameOffers == \A o \in Offers : offer'[o] = "none" <=> offer[o] = "none"

\* A loop whose list and offers stay, and that enters no earlier phase.
LEMMA AskedRests ==
  ASSUME TypeOK, NEW t \in Trips, AskedOnce(t), cands'[t] = cands[t],
         \A d \in Drivers : Unoffered(t, d)' <=> Unoffered(t, d),
         Fresh(t)' => Fresh(t), Between(t)' => Between(t), Asking(t)' => Asking(t),
         Asked(t)' => Asked(t)
  PROVE  AskedOnce(t)'
<1>1. cands[t] \in Seq(Drivers) /\ \A i \in DOMAIN cands[t] : cands[t][i] \in Drivers
  BY DEF TypeOK
<1>2. Asked(t) => Cur(t) \in Drivers
  BY Candidate DEF Asked
<1>3. Cur(t)' = Cur(t)
  BY DEF Cur
<1> QED
  BY <1>1, <1>2, <1>3 DEF AskedOnce, Fresh, Between, Asking, Asked, Unoffered

\* A loop that leaves the candidate it is at.
LEMMA AskedNext ==
  ASSUME TypeOK, NEW t \in Trips, AskedOnce(t), pc[t] \in {"lock", "decline"}, SameOffers,
         cands'[t] = Tail(cands[t]), pc'[t] = "check"
  PROVE  AskedOnce(t)'
<1> DEFINE s == cands[t]
<1>1. s \in Seq(Drivers) /\ s # <<>>
  BY DEF TypeOK
<1>2. /\ DOMAIN s = 1 .. Len(s)
      /\ \A i \in DOMAIN Tail(s) : i + 1 \in DOMAIN s \ {1} /\ Tail(s)[i] = s[i + 1]
      /\ DOMAIN Tail(s) \subseteq Nat
  BY <1>1, Remaining
<1>3. \A i \in DOMAIN s : s[i] \in Drivers
  BY <1>1
<1>4. \A i, j \in DOMAIN s : i # j => s[i] # s[j]
  BY DEF AskedOnce
<1>5. \A i \in DOMAIN s \ {1} : offer[<<t, s[i]>>] = "none"
  BY DEF AskedOnce, Unoffered
<1> HIDE DEF s
<1>6. \A i, j \in DOMAIN Tail(s) : i # j => Tail(s)[i] # Tail(s)[j]
  <2> SUFFICES ASSUME NEW i \in DOMAIN Tail(s), NEW j \in DOMAIN Tail(s), i # j
               PROVE  Tail(s)[i] # Tail(s)[j]
    OBVIOUS
  <2>1. i + 1 # j + 1 /\ i + 1 \in DOMAIN s /\ j + 1 \in DOMAIN s
    BY <1>2
  <2> QED BY <1>2, <1>4, <2>1
<1>7. \A i \in DOMAIN Tail(s) : offer'[<<t, Tail(s)[i]>>] = "none"
  <2> SUFFICES ASSUME NEW i \in DOMAIN Tail(s) PROVE offer'[<<t, Tail(s)[i]>>] = "none"
    OBVIOUS
  <2>1. Tail(s)[i] = s[i + 1] /\ i + 1 \in DOMAIN s \ {1}
    BY <1>2
  <2>2. <<t, s[i + 1]>> \in Offers /\ offer[<<t, s[i + 1]>>] = "none"
    BY <1>3, <1>5, <2>1 DEF Offers
  <2> QED BY <2>1, <2>2 DEF SameOffers
<1> QED BY <1>6, <1>7 DEF s, AskedOnce, Unoffered, AtOffer

\* The one step that makes an offer.
LEMMA OfferAsked ==
  ASSUME Inv, NEW t \in Trips, Offer(t), lock[Cur(t)] = Nobody,
         NEW u \in Trips, AskedOnce(u)
  PROVE  AskedOnce(u)'
<1>1. /\ pc[t] = "lock" /\ pc' = [pc EXCEPT ![t] = "wait"] /\ UNCHANGED <<cands, seen>>
      /\ offer' = [offer EXCEPT ![CurOffer(t)] = "pending"]
  BY DEF Offer, Goto, queues
<1>2. TypeOK /\ pc \in [Trips -> Labels] /\ offer \in [Offers -> {"none", "pending", "closed"}]
  BY DEF Inv, TypeOK, Labels
<1>3. CurOffer(t) \in Offers /\ Cur(t) \in Drivers
  BY <1>1, <1>2, Candidate DEF AtOffer
<1>4. CASE u # t
  <2>1. pc'[u] = pc[u]
    BY <1>1, <1>2, <1>4
  <2>2. \A d \in Drivers : Unoffered(u, d)' <=> Unoffered(u, d)
    BY <1>1, <1>2, <1>3, <1>4 DEF Unoffered, CurOffer, Offers
  <2> QED BY <1>1, <1>2, <2>1, <2>2, AskedRests DEF Fresh, Between, Asking, Asked
<1>5. CASE u = t
  <2> DEFINE s == cands[t]
  <2>1. s \in Seq(Drivers) /\ s # <<>>
    BY <1>1, <1>2 DEF TypeOK
  <2>2. Cur(t) = s[1] /\ 1 \in DOMAIN s /\ (\A i \in DOMAIN s : s[i] \in Drivers)
    <3>1. DOMAIN s = 1 .. Len(s) /\ Len(s) \in Nat \ {0} /\ Head(s) = s[1]
      BY <2>1, Remaining
    <3>2. 1 \in DOMAIN s
      BY <3>1
    <3> QED BY <2>1, <3>1, <3>2 DEF Cur
  <2>3. \A i, j \in DOMAIN s : i # j => s[i] # s[j]
    BY <1>5 DEF AskedOnce
  <2>4. \A i \in DOMAIN s : offer[<<t, s[i]>>] = "none"
    BY <1>1, <1>5 DEF AskedOnce, Unoffered
  <2>5. \A i \in DOMAIN s : i # 1 => offer'[<<t, s[i]>>] = "none"
    <3> SUFFICES ASSUME NEW i \in DOMAIN s, i # 1 PROVE offer'[<<t, s[i]>>] = "none"
      OBVIOUS
    <3>1. s[i] # Cur(t) /\ s[i] \in Drivers
      BY <2>2, <2>3
    <3>2. <<t, s[i]>> \in Offers /\ <<t, s[i]>> # CurOffer(t)
      BY <3>1 DEF Offers, CurOffer
    <3> QED BY <1>1, <1>2, <2>4, <3>2
  <2>6. offer'[<<t, Cur(t)>>] = "pending" /\ Cur(t)' = Cur(t) /\ pc'[t] = "wait"
    BY <1>1, <1>2, <1>3 DEF CurOffer, Cur
  <2> QED BY <1>1, <1>5, <2>3, <2>5, <2>6 DEF AskedOnce, Unoffered, AtOffer
<1> QED BY <1>4, <1>5

\* A loop's other steps.
LEMMA LoopAsked ==
  ASSUME Inv, SameOffers, NEW t \in Trips, Loop(t) \/ Fail(t),
         ~(Offer(t) /\ lock[Cur(t)] = Nobody),
         NEW u \in Trips, AskedOnce(u)
  PROVE  AskedOnce(u)'
<1> USE DEF queues, loop, offers, world, bounds
<1>0. TypeOK /\ pc \in [Trips -> Labels] /\ cands \in [Trips -> Seq(Drivers)]
  BY DEF Inv, TypeOK, Labels
<1>1. /\ UNCHANGED seen
      /\ \A v \in Trips : v # t => pc'[v] = pc[v] /\ cands'[v] = cands[v]
  BY <1>0 DEF Loop, Search, Check, Offer, Await, Assign, Announce, Unlock, Decline, GiveUp, Fail, Goto
<1>2. \A d \in Drivers : Unoffered(u, d)' <=> Unoffered(u, d)
  BY DEF SameOffers, Unoffered, Offers
<1>3. CASE u # t
  BY <1>0, <1>1, <1>2, <1>3, AskedRests DEF Fresh, Between, Asking, Asked
<1>4. CASE u = t /\ Search(t)
  <2>1. pc[t] = "search" /\ pc'[t] = "check"
    BY <1>0, <1>4 DEF Search, Goto
  <2>2. PICK n \in 0 .. MaxCandidates : \E s \in [1 .. n -> Drivers \ onTrip] :
          /\ \A i, j \in 1 .. n : i # j => s[i] # s[j]
          /\ cands' = [cands EXCEPT ![t] = s]
    BY <1>4 DEF Search
  <2>3. PICK s \in [1 .. n -> Drivers \ onTrip] :
          /\ \A i, j \in 1 .. n : i # j => s[i] # s[j]
          /\ cands' = [cands EXCEPT ![t] = s]
    BY <2>2
  <2>4. cands'[t] = s /\ DOMAIN s = 1 .. n /\ \A i \in 1 .. n : s[i] \in Drivers
    BY <1>0, <2>3
  <2>5. \A d \in Drivers : Unoffered(t, d)'
    BY <1>2, <1>4, <2>1 DEF AskedOnce
  <2>6. \A i \in DOMAIN cands'[t] : Unoffered(t, cands[t][i])'
    BY <2>4, <2>5 DEF Unoffered
  <2> QED BY <1>4, <2>1, <2>3, <2>4, <2>6 DEF AskedOnce, AtOffer
<1>5. CASE u = t /\ (Offer(t) \/ Decline(t))
  <2>1. pc[t] \in {"lock", "decline"} /\ pc'[t] = "check" /\ cands'[t] = Tail(cands[t])
    BY <1>0, <1>5 DEF Offer, Decline, Goto
  <2> QED BY <1>0, <1>5, <2>1, AskedNext
<1>6. CASE u = t /\ ~Search(t) /\ ~Offer(t) /\ ~Decline(t)
  <2>1. cands' = cands
    BY <1>6 DEF Loop, Check, Await, Assign, Announce, Unlock, GiveUp, Fail
  <2>2. /\ Fresh(t)' => Fresh(t)
        /\ Between(t)' => Between(t)
        /\ Asking(t)' => Asking(t)
        /\ Asked(t)' => Asked(t)
    BY <1>0, <1>6 DEF Loop, Check, Await, Assign, Announce, Unlock, GiveUp, Fail, Goto, Fresh,
       Between, Asking, Asked, AtOffer, Labels
  <2> QED BY <1>0, <1>2, <1>6, <2>1, <2>2, AskedRests
<1> QED BY <1>3, <1>4, <1>5, <1>6

\* Everybody else's.
LEMMA OtherAsked ==
  ASSUME Inv, SameOffers, Outside \/ Crash \/ UNCHANGED vars, NEW u \in Trips, AskedOnce(u)
  PROVE  AskedOnce(u)'
<1> USE DEF queues, loop, offers, world, bounds
<1>0. TypeOK /\ pc \in [Trips -> Labels]
  BY DEF Inv, TypeOK, Labels
<1>1. \A d \in Drivers : Unoffered(u, d)' <=> Unoffered(u, d)
  BY DEF SameOffers, Unoffered, Offers
<1>2. CASE Crash /\ Running(u)
  <2>1. cands'[u] = <<>> /\ pc'[u] = "queued" /\ u \in seen'
    BY <1>2 DEF Crash, Running, Inv, Protocol, StartedOnce
  <2> QED BY <2>1 DEF AskedOnce, AtOffer
<1>3. CASE ~(Crash /\ Running(u))
  <2>1. cands'[u] = cands[u] /\ seen \subseteq seen'
    BY <1>3 DEF Outside, Request, Duplicate, Notify, Cancel, Handle, ExpireLock, EndTrip,
       ExpireOffer, Reply, Flip, Push, Acknowledge, ReplyFails, Fault, Read, Crash, vars
  <2>2. \/ pc'[u] = pc[u]
        \/ pc[u] = "none" /\ pc'[u] = "queued"
        \/ Fresh(u) /\ pc'[u] = "search"
    BY <1>0, <1>3 DEF Outside, Request, Duplicate, Notify, Cancel, Handle, ExpireLock, EndTrip,
       ExpireOffer, Reply, Flip, Push, Acknowledge, ReplyFails, Fault, Read, Crash, vars, Goto, Fresh, Inv, Protocol, StartedOnce
  <2>3. /\ Fresh(u)' => Fresh(u)
        /\ Between(u)' => Between(u)
        /\ Asking(u)' => Asking(u)
        /\ Asked(u)' => Asked(u)
    BY <2>1, <2>2 DEF Fresh, Between, Asking, Asked, AtOffer
  <2> QED BY <1>0, <1>1, <2>1, <2>3, AskedRests
<1> QED BY <1>2, <1>3

LEMMA NextOffered == Inv /\ OfferedOnce /\ [Next]_vars => OfferedOnce'
<1> SUFFICES ASSUME Inv, OfferedOnce, [Next]_vars PROVE \A u \in Trips : AskedOnce(u)'
  BY NextAnswers DEF OfferedOnce
<1>1. CASE \E t \in Trips : Offer(t) /\ lock[Cur(t)] = Nobody
  BY <1>1, OfferAsked DEF OfferedOnce
<1>2. CASE ~(\E t \in Trips : Offer(t) /\ lock[Cur(t)] = Nobody)
  <2>1. SameOffers
    BY <1>2, OffersMade DEF SameOffers
  <2> QED BY <1>2, <2>1, LoopAsked, OtherAsked DEF OfferedOnce, Next, Outside
<1> QED BY <1>1, <1>2

LEMMA OfferedInvariant == Spec => []OfferedOnce
<1> QED BY InitOffered, NextOffered, Invariance, PTL DEF Spec

-----------------------------------------------------------------------------
(* What matching sees, and how it moves.                                   *)

OfferedSeen == {o \in Offers : offer[o] # "none"}
OpenSeen == {o \in Offers : Open(o)}
AcceptedSeen == {o \in Offers : Answered(o, "accept")}
TakenSeen == {o \in Offers : outcome[o] = "accept"}
Seen == <<OfferedSeen, OpenSeen, AcceptedSeen, TakenSeen, published>>

LEMMA InitSeen == Init => Assignment!Init
  BY DEF Init, Assignment!Init, Open, Offers, Answered

LEMMA MatchingNext ==
  ASSUME NEW t \in Trips,
         \/ Assignment!GiveUp(t)
         \/ \E d \in Drivers : \/ Assignment!Offer(t, d) \/ Assignment!Accept(t, d)
                               \/ Assignment!Take(t, d) \/ Assignment!Decide(t, d)
  PROVE  Assignment!Next
  BY DEF Assignment!Next

\* A trip nobody was found for, and one that is not decided yet.
LEMMA NoneFound ==
  ASSUME NEW t \in Trips, NoneTaken(t)
  PROVE  \A o \in TakenSeen : o[1] # t
  BY DEF NoneTaken, TakenSeen, Offers

LEMMA NotDecided ==
  ASSUME TypeOK, NEW t \in Trips, Unpublished(t)
  PROVE  \A p \in published : p[1] # t
<1>1. \A p \in published : p = <<p[1], p[2]>> /\ p[2] \in Drivers \cup {Nobody}
  BY DEF TypeOK
<1> QED BY <1>1 DEF Unpublished

\* A window is open where a loop waits.
LEMMA OpenOffers ==
  ASSUME TypeOK, NEW o
  PROVE  o \in OpenSeen <=> \E t \in Trips : pc[t] = "wait" /\ o = CurOffer(t)
<1>1. \A t \in Trips : pc[t] = "wait" => CurOffer(t) \in Offers /\ CurOffer(t)[1] = t
  BY Candidate DEF CurOffer, AtOffer
<1>2. o \in Offers => o[1] \in Trips
  BY DEF Offers
<1> QED BY <1>1, <1>2 DEF OpenSeen, Open

\* The offers a step of one loop leaves open.
LEMMA OpenAfter ==
  ASSUME TypeOK, TypeOK', NEW t \in Trips,
         \A u \in Trips : u # t => pc'[u] = pc[u] /\ cands'[u] = cands[u]
  PROVE  /\ pc'[t] # "wait" => OpenSeen' = {o \in OpenSeen : o[1] # t}
         /\ pc'[t] = "wait" /\ pc[t] # "wait" => OpenSeen' = OpenSeen \cup {CurOffer(t)'}
         /\ pc[t] # "wait" => \A o \in OpenSeen : o[1] # t
<1>1. \A u \in Trips : u # t => CurOffer(u)' = CurOffer(u)
  BY DEF CurOffer, Cur
<1>2. \A u \in Trips : CurOffer(u)[1] = u /\ (CurOffer(u)')[1] = u
  BY DEF CurOffer
<1>3. \A o : o \in OpenSeen <=> \E u \in Trips : pc[u] = "wait" /\ o = CurOffer(u)
  BY OpenOffers
<1>4. \A o : o \in OpenSeen' <=> \E u \in Trips : pc'[u] = "wait" /\ o = CurOffer(u)'
  <2>1. \A u \in Trips : pc'[u] = "wait" => cands'[u] \in Seq(Drivers) /\ cands'[u] # <<>>
    BY DEF TypeOK
  <2>2. \A u \in Trips : pc'[u] = "wait" => CurOffer(u)' \in Offers
    BY <2>1, HeadTailProperties DEF CurOffer, Cur, Offers
  <2>3. \A o \in Offers : o[1] \in Trips
    BY DEF Offers
  <2> QED BY <1>2, <2>2, <2>3 DEF OpenSeen, Open
<1>5. pc'[t] # "wait" => \A o : o \in OpenSeen' <=> o \in OpenSeen /\ o[1] # t
  BY <1>1, <1>2, <1>3, <1>4
<1>6. pc'[t] = "wait" /\ pc[t] # "wait" => \A o : o \in OpenSeen' <=> o \in OpenSeen \/ o = CurOffer(t)'
  BY <1>1, <1>2, <1>3, <1>4
<1>7. pc[t] # "wait" => \A o \in OpenSeen : o[1] # t
  BY <1>2, <1>3
<1> QED BY <1>5, <1>6, <1>7

\* What the steps of a loop leave alone.
LEMMA LoopFrame ==
  ASSUME Inv, NEW t \in Trips, Loop(t) \/ Fail(t)
  PROVE  /\ AcceptedSeen' = AcceptedSeen
         /\ \A u \in Trips : u # t => pc'[u] = pc[u] /\ cands'[u] = cands[u]
<1> USE DEF queues, loop, offers, world, bounds
<1>0. pc \in [Trips -> Labels] /\ cands \in [Trips -> Seq(Drivers)]
  BY DEF Inv, TypeOK, Labels
<1>1. UNCHANGED answer
  BY DEF Loop, Search, Check, Offer, Await, Assign, Announce, Unlock, Decline, GiveUp, Fail
<1>2. \A u \in Trips : u # t => pc'[u] = pc[u] /\ cands'[u] = cands[u]
  BY <1>0 DEF Loop, Search, Check, Offer, Await, Assign, Announce, Unlock, Decline, GiveUp, Fail,
     Goto
<1> QED BY <1>1, <1>2 DEF AcceptedSeen, Answered

\* An offer is new, and neither its trip nor its driver has another open.
LEMMA OfferSeen ==
  ASSUME Inv, Inv', OfferedOnce, NEW t \in Trips, Offer(t), lock[Cur(t)] = Nobody
  PROVE  Assignment!Next
<1>0. PICK d \in Drivers : d = Cur(t)
  BY Candidate DEF Offer, AtOffer, Inv
<1>1. /\ pc[t] = "lock" /\ pc' = [pc EXCEPT ![t] = "wait"]
      /\ UNCHANGED <<cands, outcome, published>>
      /\ offer' = [offer EXCEPT ![<<t, d>>] = "pending"]
  BY <1>0 DEF Offer, Goto, CurOffer, world
<1>2. TypeOK /\ pc \in [Trips -> Labels] /\ offer \in [Offers -> {"none", "pending", "closed"}]
  BY DEF Inv, TypeOK, Labels
<1>3. <<t, d>> \in Offers /\ pc'[t] = "wait" /\ CurOffer(t)' = <<t, d>>
  BY <1>0, <1>1, <1>2 DEF Offers, CurOffer, Cur
<1>4. offer[<<t, d>>] = "none"
  <2>1. cands[t] \in Seq(Drivers) /\ cands[t] # <<>>
    BY <1>1, <1>2 DEF TypeOK
  <2>2. DOMAIN cands[t] = 1 .. Len(cands[t]) /\ Len(cands[t]) \in Nat \ {0}
          /\ Head(cands[t]) = cands[t][1]
    BY <2>1, Remaining
  <2>3. 1 \in DOMAIN cands[t] /\ d = cands[t][1]
    BY <1>0, <2>2 DEF Cur
  <2> QED BY <1>1, <2>3 DEF OfferedOnce, AskedOnce, Unoffered
<1>5. OfferedSeen' = OfferedSeen \cup {<<t, d>>} /\ <<t, d>> \notin OfferedSeen
  BY <1>1, <1>2, <1>3, <1>4 DEF OfferedSeen
<1>6. OpenSeen' = OpenSeen \cup {<<t, d>>} /\ \A p \in OpenSeen : p[1] # t
  <2>1. TypeOK /\ TypeOK' BY DEF Inv
  <2>2. Loop(t) BY DEF Loop
  <2> QED BY <1>1, <1>3, <2>1, <2>2, OpenAfter, LoopFrame
<1>7. \A p \in OpenSeen : p[2] # d
  <2> SUFFICES ASSUME NEW p \in OpenSeen PROVE p[2] # d
    OBVIOUS
  <2>1. PICK u \in Trips : pc[u] = "wait" /\ p = CurOffer(u)
    BY <1>2, OpenOffers
  <2>2. lock[p[2]] = u /\ u # Nobody
    BY <2>1, NobodyAssumption DEF Inv, OfferHoldsLock, CurOffer
  <2> QED BY <1>0, <2>2
<1>8. NoneTaken(t) /\ Unpublished(t)
  BY <1>1 DEF Inv, Protocol, SeekersUndecided, Seeking
<1>9. (\A o \in TakenSeen : o[1] # t) /\ (\A p \in published : p[1] # t)
  BY <1>2, <1>8, NoneFound, NotDecided
<1>10. AcceptedSeen' = AcceptedSeen /\ TakenSeen' = TakenSeen
  BY <1>1, LoopFrame DEF Loop, TakenSeen
<1>11. Assignment!Offer(t, d)
  BY <1>1, <1>5, <1>6, <1>7, <1>9, <1>10
  DEF Assignment!Offer, Assignment!Found, Assignment!Decided, OfferedSeen, OpenSeen, AcceptedSeen,
      TakenSeen
<1> QED BY <1>11, MatchingNext

\* An acceptance the loop wakes with came while its offer was open.
LEMMA TakeSeen ==
  ASSUME Inv, Inv', NEW t \in Trips, Await(t), Took(t, "accept"), Goto(t, "assign"),
         Answered(CurOffer(t), "accept")
  PROVE  Assignment!Next
<1>0. PICK d \in Drivers : d = Cur(t)
  BY Candidate DEF Await, AtOffer, Inv
<1>1. pc[t] = "wait" /\ UNCHANGED <<cands, offer, published>>
  BY DEF Await, offers, world
<1>2. TypeOK /\ TypeOK' /\ pc'[t] = "assign"
  BY DEF Inv, TypeOK, Goto
<1>3. <<t, d>> \in Offers /\ CurOffer(t) = <<t, d>>
  BY <1>0 DEF Offers, CurOffer
<1>4. <<t, d>> \in OpenSeen
  BY <1>1, <1>2, <1>3, OpenOffers
<1>5. <<t, d>> \in AcceptedSeen
  BY <1>3 DEF AcceptedSeen
<1>6. OpenSeen' = OpenSeen \ {<<t, d>>}
  <2>1. OpenSeen' = {o \in OpenSeen : o[1] # t}
    BY <1>2, LoopFrame, OpenAfter DEF Loop
  <2>2. \A o \in OpenSeen : o[1] = t <=> o = <<t, d>>
    <3> SUFFICES ASSUME NEW o \in OpenSeen PROVE o[1] = t <=> o = <<t, d>>
      OBVIOUS
    <3>1. PICK u \in Trips : o = CurOffer(u)
      BY <1>2, OpenOffers
    <3> QED BY <1>0, <3>1 DEF CurOffer
  <2> QED BY <2>1, <2>2
<1>7. TakenSeen' = TakenSeen \cup {<<t, d>>}
  <2>1. outcome \in [Offers -> {"none", "accept", "reject", "timeout"}]
    BY <1>2 DEF TypeOK
  <2>2. outcome' = [outcome EXCEPT ![<<t, d>>] = "accept"]
    BY <1>3 DEF Took
  <2>3. \A o \in Offers : outcome'[o] = IF o = <<t, d>> THEN "accept" ELSE outcome[o]
    BY <2>1, <2>2
  <2> QED BY <1>3, <2>3 DEF TakenSeen
<1>8. NoneTaken(t) /\ Unpublished(t)
  BY <1>1 DEF Inv, Protocol, SeekersUndecided, Seeking
<1>9. (\A o \in TakenSeen : o[1] # t) /\ (\A p \in published : p[1] # t)
  BY <1>2, <1>8, NoneFound, NotDecided
<1>10. OfferedSeen' = OfferedSeen /\ AcceptedSeen' = AcceptedSeen
  BY <1>1, LoopFrame DEF Loop, OfferedSeen
<1>11. Assignment!Take(t, d)
  BY <1>1, <1>4, <1>5, <1>6, <1>7, <1>9, <1>10
  DEF Assignment!Take, Assignment!Found, Assignment!Decided, OfferedSeen, OpenSeen, AcceptedSeen,
      TakenSeen
<1> QED BY <1>11, MatchingNext

\* Any other end of a window.
LEMMA RefusalSeen ==
  ASSUME Inv, Inv', NEW t \in Trips, Await(t), NEW what \in {"reject", "timeout"},
         Took(t, what), Goto(t, "decline")
  PROVE  Assignment!Next
<1>1. pc[t] = "wait" /\ UNCHANGED <<cands, offer, published>>
  BY DEF Await, offers, world
<1>2. TypeOK /\ TypeOK' /\ pc'[t] = "decline"
  BY DEF Inv, TypeOK, Goto
<1>3. Cur(t) \in Drivers /\ CurOffer(t) \in Offers /\ outcome[CurOffer(t)] # "accept"
  BY <1>1, <1>2, Candidate DEF AtOffer, Inv, Protocol, SeekersUndecided, Seeking, NoneTaken, CurOffer
<1>4. TakenSeen' = TakenSeen
  BY <1>2, <1>3 DEF Took, TakenSeen, TypeOK
<1>5. OpenSeen' \subseteq OpenSeen
  BY <1>2, LoopFrame, OpenAfter DEF Loop
<1>6. OfferedSeen' = OfferedSeen /\ AcceptedSeen' = AcceptedSeen
  BY <1>1, LoopFrame DEF Loop, OfferedSeen
<1>7. Assignment!Lapse
  BY <1>1, <1>4, <1>5, <1>6 DEF Assignment!Lapse, OfferedSeen, OpenSeen, AcceptedSeen, TakenSeen
<1> QED BY <1>7 DEF Assignment!Next

\* A trip is announced with the driver found for it, or as unmatched.
LEMMA AnnounceSeen ==
  ASSUME Inv, Inv', SameOffers, NEW t \in Trips, Loop(t) \/ Fail(t), UNCHANGED outcome,
         pc'[t] # "wait",
         \/ pc[t] = "announce" /\ Publish(t, Cur(t))
         \/ pc[t] = "exhausted" /\ Publish(t, Nobody)
  PROVE  Assignment!Next
<1>1. TypeOK /\ TypeOK'
  BY DEF Inv
<1>2. OpenSeen' = OpenSeen /\ \A o \in OpenSeen : o[1] # t
  <2>1. /\ OpenSeen' = {o \in OpenSeen : o[1] # t}
        /\ \A o \in OpenSeen : o[1] # t
    BY <1>1, LoopFrame, OpenAfter
  <2> QED BY <2>1
<1>3. OfferedSeen' = OfferedSeen /\ AcceptedSeen' = AcceptedSeen /\ TakenSeen' = TakenSeen
  BY LoopFrame DEF SameOffers, OfferedSeen, TakenSeen
<1>4. CASE pc[t] = "announce" /\ Publish(t, Cur(t))
  <2>0. PICK d \in Drivers : d = Cur(t)
    BY <1>1, <1>4, Candidate DEF AtOffer
  <2>1. <<t, d>> \in TakenSeen /\ Unpublished(t)
    BY <1>4, <2>0 DEF Inv, Protocol, FindersTook, TakenSeen, CurOffer, Offers
  <2>2. \A p \in published : p[1] # t
    BY <1>1, <2>1, NotDecided
  <2>3. published' = published \cup {<<t, d>>}
    BY <1>4, <2>0 DEF Publish
  <2>4. Assignment!Decide(t, d)
    BY <1>2, <1>3, <2>1, <2>2, <2>3
    DEF Assignment!Decide, Assignment!Decided, OfferedSeen, OpenSeen, AcceptedSeen, TakenSeen
  <2> QED BY <2>4, MatchingNext
<1>5. CASE pc[t] = "exhausted" /\ Publish(t, Nobody)
  <2>1. NoneTaken(t) /\ Unpublished(t)
    BY <1>5 DEF Inv, Protocol, SeekersUndecided, Seeking
  <2>2. (\A o \in TakenSeen : o[1] # t) /\ (\A p \in published : p[1] # t)
    BY <1>1, <2>1, NoneFound, NotDecided
  <2>3. published' = published \cup {<<t, Nobody>>}
    BY <1>5 DEF Publish
  <2>4. Assignment!GiveUp(t)
    BY <1>2, <1>3, <2>2, <2>3
    DEF Assignment!GiveUp, Assignment!Found, Assignment!Decided, OfferedSeen, OpenSeen,
        AcceptedSeen, TakenSeen
  <2> QED BY <2>4, MatchingNext
<1> QED BY <1>4, <1>5

\* The other steps of a loop end its window at most.
LEMMA QuietSeen ==
  ASSUME Inv, Inv', SameOffers, NEW t \in Trips, Loop(t) \/ Fail(t),
         UNCHANGED <<outcome, published>>, pc'[t] # "wait"
  PROVE  Assignment!Next
<1>1. OpenSeen' \subseteq OpenSeen
  BY LoopFrame, OpenAfter DEF Inv
<1>2. OfferedSeen' = OfferedSeen /\ AcceptedSeen' = AcceptedSeen /\ TakenSeen' = TakenSeen
  BY LoopFrame DEF SameOffers, OfferedSeen, TakenSeen
<1>3. Assignment!Lapse
  BY <1>1, <1>2 DEF Assignment!Lapse, OfferedSeen, OpenSeen, AcceptedSeen, TakenSeen
<1> QED BY <1>3 DEF Assignment!Next

LEMMA LoopSeen ==
  ASSUME Inv, Inv', OfferedOnce, [Next]_vars, NEW t \in Trips, Loop(t) \/ Fail(t)
  PROVE  Assignment!Next
<1> USE DEF queues, loop, offers, world, bounds
<1>0. pc \in [Trips -> Labels]
  BY DEF Inv, TypeOK, Labels
<1>1. CASE Offer(t) /\ lock[Cur(t)] = Nobody
  BY <1>1, OfferSeen
<1>2. CASE ~(Offer(t) /\ lock[Cur(t)] = Nobody)
  <2>1. pc'[t] # "wait"
    BY <1>0, <1>2 DEF Loop, Search, Check, Offer, Await, Assign, Announce, Unlock, Decline, GiveUp,
       Fail, Goto
  <2>2. SameOffers
    <3> SUFFICES ASSUME NEW u \in Trips, Offer(u), lock[Cur(u)] = Nobody PROVE FALSE
      BY OffersMade DEF SameOffers
    <3>1. pc'[u] = "wait"
      BY <1>0 DEF Offer, Goto
    <3>2. pc[u] = "lock"
      BY DEF Offer
    <3>3. u # t => pc'[u] = pc[u]
      BY LoopFrame
    <3> QED BY <2>1, <3>1, <3>2, <3>3
  <2>3. CASE Await(t)
    <3>1. \/ Answered(CurOffer(t), "accept") /\ Took(t, "accept") /\ Goto(t, "assign")
          \/ \E what \in {"reject", "timeout"} : Took(t, what) /\ Goto(t, "decline")
      BY <2>3 DEF Await
    <3> HIDE DEF queues, loop, offers, world, bounds
    <3> QED BY <2>3, <3>1, TakeSeen, RefusalSeen
  <2>4. CASE ~Await(t) /\ published' # published
    <3>1. /\ UNCHANGED outcome
          /\ \/ pc[t] = "announce" /\ Publish(t, Cur(t))
             \/ pc[t] = "exhausted" /\ Publish(t, Nobody)
      BY <2>4 DEF Loop, Search, Check, Offer, Assign, Announce, Unlock, Decline, GiveUp, Fail
    <3> QED BY <2>1, <2>2, <3>1, AnnounceSeen
  <2>5. CASE ~Await(t) /\ published' = published
    <3>1. UNCHANGED outcome
      BY <2>5 DEF Loop, Search, Check, Offer, Assign, Announce, Unlock, Decline, GiveUp, Fail
    <3> QED BY <2>1, <2>2, <2>5, <3>1, QuietSeen
  <2> QED BY <2>3, <2>4, <2>5
<1> QED BY <1>1, <1>2

\* An acceptance that reaches the loop is of an offer that was made.
LEMMA ReplySeen ==
  ASSUME Inv, OfferedOnce, NEW r \in Responders, Reply(r) \/ ReplyFails(r)
  PROVE  Assignment!Next \/ UNCHANGED Seen
<1> USE DEF loop, world
<1>0. reply[r] # NoReply
  BY DEF Reply, Flip, Push, Acknowledge, ReplyFails, At
<1>1. PICK o \in Offers : o = reply[r].offer
  BY <1>0 DEF Inv, TypeOK, Replies
<1>2. /\ offer \in [Offers -> {"none", "pending", "closed"}]
      /\ answer \in [Offers -> Seq({"accept", "reject"})]
      /\ offer[o] # "none"
  BY <1>0, <1>1 DEF Inv, TypeOK, OfferedOnce, AnswersOffered
<1>3. UNCHANGED <<pc, cands, outcome, published>>
  BY DEF Reply, Flip, Push, Acknowledge, ReplyFails
<1>4. /\ UNCHANGED offer \/ CloseOffer(r)
      /\ UNCHANGED answer \/ PushAnswer(r)
  BY DEF Reply, Flip, Push, Acknowledge, ReplyFails, offers
<1>5. OfferedSeen' = OfferedSeen /\ o \in OfferedSeen
  BY <1>1, <1>2, <1>4 DEF CloseOffer, OfferedSeen
<1>6. OpenSeen' = OpenSeen /\ TakenSeen' = TakenSeen
  BY <1>3 DEF OpenSeen, Open, CurOffer, Cur, TakenSeen
<1>7. \A p \in Offers : p # o => answer'[p] = answer[p]
  BY <1>1, <1>2, <1>4 DEF PushAnswer
<1>8. Answered(o, "accept") => Answered(o, "accept")'
  <2>1. TypeOK BY DEF Inv
  <2> QED BY <2>1, FirstStays
<1>9. CASE ~Answered(o, "accept") /\ Answered(o, "accept")'
  <2>1. PICK t \in Trips, d \in Drivers : o = <<t, d>>
    BY DEF Offers
  <2>2. AcceptedSeen' = AcceptedSeen \cup {<<t, d>>}
    BY <1>7, <1>9, <2>1 DEF AcceptedSeen, Answered
  <2>3. Assignment!Accept(t, d)
    BY <1>3, <1>5, <1>6, <2>1, <2>2
    DEF Assignment!Accept, OfferedSeen, OpenSeen, AcceptedSeen, TakenSeen
  <2> QED BY <2>3, MatchingNext
<1>10. CASE Answered(o, "accept")' <=> Answered(o, "accept")
  <2>1. AcceptedSeen' = AcceptedSeen
    BY <1>7, <1>10 DEF AcceptedSeen, Answered
  <2> QED BY <1>3, <1>5, <1>6, <2>1 DEF Seen
<1> QED BY <1>8, <1>9, <1>10

\* The rest of the outside does not show.
LEMMA OutsideSeen ==
  ASSUME Inv, Inv', OfferedOnce, [Next]_vars, Outside,
         \A r \in Responders : ~(Reply(r) \/ ReplyFails(r))
  PROVE  UNCHANGED Seen
<1> USE DEF queues, loop, offers, world, bounds
<1>0. pc \in [Trips -> Labels] /\ TypeOK /\ TypeOK'
  BY DEF Inv, TypeOK, Labels
<1>1. UNCHANGED <<cands, outcome, answer, published>>
  BY DEF Outside, Request, Duplicate, Notify, Cancel, Handle, ExpireLock, EndTrip, ExpireOffer, Read
<1>2. \A t \in Trips : pc'[t] = pc[t] \/ (pc[t] \in {"none", "queued"} /\ pc'[t] \in {"queued", "search"})
  BY <1>0 DEF Outside, Request, Duplicate, Notify, Cancel, Handle, ExpireLock, EndTrip, ExpireOffer,
     Read, Goto, Inv, Protocol, StartedOnce
<1>3. OpenSeen' = OpenSeen
  <2>1. \A o \in Offers : o[1] \in Trips
    BY DEF Offers
  <2> QED BY <1>1, <1>2, <2>1 DEF OpenSeen, Open, CurOffer, Cur
<1>4. OfferedSeen' = OfferedSeen
  <2>1. CASE UNCHANGED offer BY <2>1 DEF OfferedSeen
  <2>2. CASE \E o \in Offers : ExpireOffer(o)
    BY <2>2 DEF ExpireOffer, OfferedSeen, Inv, TypeOK
  <2> QED BY <2>1, <2>2 DEF Outside, Request, Duplicate, Notify, Cancel, Handle, ExpireLock, EndTrip, Read
<1> QED BY <1>1, <1>3, <1>4 DEF Seen, AcceptedSeen, Answered, TakenSeen

\* A crash closes every window, and loses no offer and no decision.
LEMMA CrashSeen ==
  ASSUME Inv, Crash
  PROVE  Assignment!Next
<1>1. UNCHANGED <<offer, outcome, answer, published>> /\ \A t \in Trips : pc'[t] # "wait"
  BY DEF Crash, Running, offers, world
<1>2. OpenSeen' = {}
  BY <1>1 DEF OpenSeen, Open, Offers
<1>3. OfferedSeen' = OfferedSeen /\ AcceptedSeen' = AcceptedSeen /\ TakenSeen' = TakenSeen
  BY <1>1 DEF OfferedSeen, AcceptedSeen, Answered, TakenSeen
<1>4. Assignment!Lapse
  BY <1>1, <1>2, <1>3 DEF Assignment!Lapse, OfferedSeen, OpenSeen, AcceptedSeen, TakenSeen
<1> QED BY <1>4 DEF Assignment!Next

LEMMA StepSeen ==
  ASSUME Inv, Inv', OfferedOnce, [Next]_vars
  PROVE  [Assignment!Next]_(Assignment!matchingVars)
<1>1. UNCHANGED Seen => UNCHANGED Assignment!matchingVars
  BY DEF Seen, OfferedSeen, OpenSeen, AcceptedSeen, TakenSeen, Assignment!matchingVars
<1>2. UNCHANGED vars => UNCHANGED Seen
  BY DEF vars, loop, offers, world, Seen, OfferedSeen, OpenSeen, Open, CurOffer, Cur, AcceptedSeen,
     Answered, TakenSeen
<1>3. CASE \E t \in Trips : Loop(t) \/ Fail(t)
  BY <1>3, LoopSeen
<1>4. CASE Outside
  BY <1>1, <1>4, ReplySeen, OutsideSeen
<1>5. CASE Crash
  BY <1>5, CrashSeen
<1> QED BY <1>1, <1>2, <1>3, <1>4, <1>5 DEF Next, Outside

\* The loops, locks and offers implement matching: however answers, windows,
\* expiries, duplicates and crashes interleave, no driver is offered a trip
\* twice or two at a time, and a trip goes to the one driver whose acceptance
\* came while its offer was open.
THEOREM ImplementsTheMatching == Spec => ImplementsMatching
<1>1. Init => Assignment!Init
  BY InitSeen
<1>2. Inv /\ Inv' /\ OfferedOnce /\ [Next]_vars => [Assignment!Next]_(Assignment!matchingVars)
  BY StepSeen
<1> QED
  BY <1>1, <1>2, Invariance, OfferedInvariant, PTL
  DEF Spec, ImplementsMatching, Assignment!Spec

-----------------------------------------------------------------------------
(* What holds of every matching holds of dispatch.                         *)

FoundSeen(t) == \E p \in TakenSeen : p[1] = t
DecidedSeen(t) == \E p \in published : p[1] = t

OneDriverSeen ==
  /\ \A p, q \in TakenSeen : p[1] = q[1] => p = q
  /\ \A p \in TakenSeen : p \in AcceptedSeen
  /\ \A p, q \in published : p[1] = q[1] => p = q
  /\ \A p \in published : IF p[2] = Nobody THEN ~FoundSeen(p[1]) ELSE p \in TakenSeen
  /\ \A p, q \in OpenSeen : p[1] = q[1] \/ p[2] = q[2] => p = q
  /\ \A p \in OpenSeen : ~FoundSeen(p[1]) /\ ~DecidedSeen(p[1])

LEMMA OneDriverIsSeen == Assignment!OneDriver <=> OneDriverSeen
  BY DEF Assignment!OneDriver, Assignment!Found, Assignment!Decided, OneDriverSeen,
     FoundSeen, DecidedSeen, OpenSeen, AcceptedSeen, TakenSeen

\* One step of matching.
LEMMA OneDriverKept ==
  ASSUME OneDriverSeen, Assignment!Next
  PROVE  OneDriverSeen'
<1>1. ASSUME Assignment!Lapse PROVE OneDriverSeen'
  <2>1. /\ OpenSeen' \subseteq OpenSeen
        /\ AcceptedSeen' = AcceptedSeen /\ TakenSeen' = TakenSeen /\ published' = published
    BY <1>1 DEF Assignment!Lapse, OpenSeen, AcceptedSeen, TakenSeen
  <2> QED BY <2>1 DEF OneDriverSeen, FoundSeen, DecidedSeen
<1>2. ASSUME NEW t \in Trips, Assignment!GiveUp(t) PROVE OneDriverSeen'
  <2>1. /\ ~FoundSeen(t) /\ ~DecidedSeen(t) /\ \A p \in OpenSeen : p[1] # t
        /\ published' = published \cup {<<t, Nobody>>}
        /\ OpenSeen' = OpenSeen /\ AcceptedSeen' = AcceptedSeen /\ TakenSeen' = TakenSeen
    BY <1>2 DEF Assignment!GiveUp, Assignment!Found, Assignment!Decided, FoundSeen, DecidedSeen,
       OpenSeen, AcceptedSeen, TakenSeen
  <2> QED BY <2>1 DEF OneDriverSeen, FoundSeen, DecidedSeen
<1>3. ASSUME NEW t \in Trips, NEW d \in Drivers, Assignment!Offer(t, d) PROVE OneDriverSeen'
  <2>1. /\ ~FoundSeen(t) /\ ~DecidedSeen(t) /\ \A p \in OpenSeen : p[1] # t /\ p[2] # d
        /\ OpenSeen' = OpenSeen \cup {<<t, d>>}
        /\ AcceptedSeen' = AcceptedSeen /\ TakenSeen' = TakenSeen /\ published' = published
    BY <1>3 DEF Assignment!Offer, Assignment!Found, Assignment!Decided, FoundSeen, DecidedSeen,
       OpenSeen, AcceptedSeen, TakenSeen
  <2> QED BY <2>1 DEF OneDriverSeen, FoundSeen, DecidedSeen
<1>4. ASSUME NEW t \in Trips, NEW d \in Drivers, Assignment!Accept(t, d) PROVE OneDriverSeen'
  <2>1. /\ AcceptedSeen' = AcceptedSeen \cup {<<t, d>>}
        /\ OpenSeen' = OpenSeen /\ TakenSeen' = TakenSeen /\ published' = published
    BY <1>4 DEF Assignment!Accept, OpenSeen, AcceptedSeen, TakenSeen
  <2> QED BY <2>1 DEF OneDriverSeen, FoundSeen, DecidedSeen
<1>5. ASSUME NEW t \in Trips, NEW d \in Drivers, Assignment!Take(t, d) PROVE OneDriverSeen'
  <2>1. /\ <<t, d>> \in OpenSeen /\ <<t, d>> \in AcceptedSeen
        /\ ~FoundSeen(t) /\ ~DecidedSeen(t)
        /\ TakenSeen' = TakenSeen \cup {<<t, d>>} /\ OpenSeen' = OpenSeen \ {<<t, d>>}
        /\ AcceptedSeen' = AcceptedSeen /\ published' = published
    BY <1>5 DEF Assignment!Take, Assignment!Found, Assignment!Decided, FoundSeen, DecidedSeen,
       OpenSeen, AcceptedSeen, TakenSeen
  <2> QED BY <2>1 DEF OneDriverSeen, FoundSeen, DecidedSeen
<1>6. ASSUME NEW t \in Trips, NEW d \in Drivers, Assignment!Decide(t, d) PROVE OneDriverSeen'
  <2>1. /\ <<t, d>> \in TakenSeen /\ ~DecidedSeen(t)
        /\ published' = published \cup {<<t, d>>}
        /\ OpenSeen' = OpenSeen /\ AcceptedSeen' = AcceptedSeen /\ TakenSeen' = TakenSeen
    BY <1>6 DEF Assignment!Decide, Assignment!Decided, DecidedSeen,
       OpenSeen, AcceptedSeen, TakenSeen
  <2>2. d # Nobody
    BY NobodyAssumption
  <2> QED BY <2>1, <2>2 DEF OneDriverSeen, FoundSeen, DecidedSeen
<1> QED BY <1>1, <1>2, <1>3, <1>4, <1>5, <1>6 DEF Assignment!Next

\* However loops, locks, answers and crashes interleave: a trip gets one
\* driver, one who accepted in time, or is given up; a driver has one open
\* offer; and a trip that has a driver or is decided is open to nobody.
THEOREM OneDriverATrip == Spec => []Assignment!OneDriver
<1>1. Init => Assignment!OneDriver
  BY InitSeen DEF Assignment!Init, Assignment!OneDriver
<1>2. Assignment!OneDriver /\ [Assignment!Next]_(Assignment!matchingVars) => Assignment!OneDriver'
  <2> SUFFICES ASSUME Assignment!OneDriver, [Assignment!Next]_(Assignment!matchingVars)
               PROVE  Assignment!OneDriver'
    OBVIOUS
  <2>1. Assignment!OneDriver' <=> OneDriverSeen'
    BY DEF Assignment!OneDriver, Assignment!Found, Assignment!Decided, OneDriverSeen,
       FoundSeen, DecidedSeen, OpenSeen, AcceptedSeen, TakenSeen
  <2>2. CASE Assignment!Next
    BY <2>1, <2>2, OneDriverIsSeen, OneDriverKept
  <2>3. CASE UNCHANGED Assignment!matchingVars
    <3>1. UNCHANGED <<OpenSeen, AcceptedSeen, TakenSeen, published>>
      BY <2>3 DEF Assignment!matchingVars, OpenSeen, AcceptedSeen, TakenSeen
    <3> QED BY <2>1, <3>1, OneDriverIsSeen DEF OneDriverSeen, FoundSeen, DecidedSeen
  <2> QED BY <2>2, <2>3
<1> QED
  BY <1>1, <1>2, ImplementsTheMatching, PTL DEF Spec, ImplementsMatching, Assignment!Spec

=============================================================================
