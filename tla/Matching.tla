------------------------------- MODULE Matching -------------------------------
(***************************************************************************)
(* What the dispatch engine promises riders and drivers: a trip is open to *)
(* one driver at a time and a driver sees one trip at a time, each once;   *)
(* only an offer that was accepted while it was open finds its trip a      *)
(* driver, the first does, and the trip is decided once, by the driver     *)
(* found, or given up if none was.                                         *)
(***************************************************************************)
CONSTANTS Trips, Drivers, Nobody

VARIABLES
  offered,   \* offers made, pairs of trip and driver
  open,      \* those whose window is open
  accepted,  \* those whose first answer was an acceptance, in time or late
  taken,     \* those whose acceptance found the trip its driver
  decided    \* what was announced: pairs of trip and driver or Nobody

matchingVars == <<offered, open, accepted, taken, decided>>

Init == offered = {} /\ open = {} /\ accepted = {} /\ taken = {} /\ decided = {}

Found(t) == \E p \in taken : p[1] = t
Decided(t) == \E p \in decided : p[1] = t

Offer(t, d) ==
  /\ <<t, d>> \notin offered
  /\ \A p \in open : p[1] # t /\ p[2] # d
  /\ ~Found(t) /\ ~Decided(t)
  /\ offered' = offered \cup {<<t, d>>}
  /\ open' = open \cup {<<t, d>>}
  /\ UNCHANGED <<accepted, taken, decided>>

Accept(t, d) ==
  /\ <<t, d>> \in offered
  /\ accepted' = accepted \cup {<<t, d>>}
  /\ UNCHANGED <<offered, open, taken, decided>>

Take(t, d) ==
  /\ <<t, d>> \in open /\ <<t, d>> \in accepted
  /\ ~Found(t) /\ ~Decided(t)
  /\ taken' = taken \cup {<<t, d>>}
  /\ open' = open \ {<<t, d>>}
  /\ UNCHANGED <<offered, accepted, decided>>

\* Windows end without an acceptance: all of them in a crash.
Lapse ==
  /\ open' \subseteq open
  /\ UNCHANGED <<offered, accepted, taken, decided>>

Decide(t, d) ==
  /\ <<t, d>> \in taken /\ ~Decided(t)
  /\ decided' = decided \cup {<<t, d>>}
  /\ UNCHANGED <<offered, open, accepted, taken>>

GiveUp(t) ==
  /\ ~Found(t) /\ ~Decided(t)
  /\ \A p \in open : p[1] # t
  /\ decided' = decided \cup {<<t, Nobody>>}
  /\ UNCHANGED <<offered, open, accepted, taken>>

Next ==
  \/ Lapse
  \/ \E t \in Trips :
       \/ GiveUp(t)
       \/ \E d \in Drivers : Offer(t, d) \/ Accept(t, d) \/ Take(t, d) \/ Decide(t, d)

Spec == Init /\ [][Next]_matchingVars

\* A trip has one driver, who accepted, or is given up; a driver has one open
\* offer, and a trip one, and none once it has a driver or is decided.
OneDriver ==
  /\ \A p, q \in taken : p[1] = q[1] => p = q
  /\ \A p \in taken : p \in accepted
  /\ \A p, q \in decided : p[1] = q[1] => p = q
  /\ \A p \in decided : IF p[2] = Nobody THEN ~Found(p[1]) ELSE p \in taken
  /\ \A p, q \in open : p[1] = q[1] \/ p[2] = q[2] => p = q
  /\ \A p \in open : ~Found(p[1]) /\ ~Decided(p[1])

=============================================================================
