---------------------------- MODULE PaymentLedger ----------------------------
(***************************************************************************)
(* What the payment service promises about money: a trip's end makes one   *)
(* charge due or none; money is taken only for a charge that is due and    *)
(* entered; a charge is reported captured only after money was taken for   *)
(* it, refunded only after the money of a captured fare was returned; and  *)
(* each result is announced as it is entered, once.                        *)
(***************************************************************************)
EXTENDS Naturals

CONSTANTS
  Trips,
  Kinds,     \* kinds of charges
  Events     \* announcements

Entries == [trip : Trips, kind : Kinds]

VARIABLES
  due,        \* what each trip's end makes due: undecided, a kind or nothing
  result,     \* the entry of each charge
  announced,  \* announcements of each charge, by event
  taken,      \* how often the provider took its money
  returned    \* how often the provider returned it

ledgerVars == <<due, result, announced, taken, returned>>

Init ==
  /\ due = [t \in Trips |-> "undecided"]
  /\ result = [e \in Entries |-> "none"]
  /\ announced = [e \in Entries |-> [v \in Events |-> 0]]
  /\ taken = [e \in Entries |-> 0]
  /\ returned = [e \in Entries |-> 0]

Enter(e, from, to) == result[e] = from /\ result' = [result EXCEPT ![e] = to]
Announce(e, v) == announced' = [announced EXCEPT ![e][v] = @ + 1]

EndTrip(t, what) ==
  /\ due[t] = "undecided"
  /\ due' = [due EXCEPT ![t] = what]
  /\ UNCHANGED <<result, announced, taken, returned>>

Open(e) ==
  /\ due[e.trip] = e.kind
  /\ Enter(e, "none", "pending")
  /\ UNCHANGED <<due, announced, taken, returned>>

\* Nothing here says once: the provider may be asked again.
TakeMoney(e) ==
  /\ due[e.trip] = e.kind /\ result[e] # "none"
  /\ taken' = [taken EXCEPT ![e] = @ + 1]
  /\ UNCHANGED <<due, result, announced, returned>>

Capture(e) ==
  /\ taken[e] > 0
  /\ Enter(e, "pending", "captured")
  /\ Announce(e, "payment.captured")
  /\ UNCHANGED <<due, taken, returned>>

Fail(e) ==
  /\ Enter(e, "pending", "failed")
  /\ Announce(e, "payment.failed")
  /\ UNCHANGED <<due, taken, returned>>

ReturnMoney(e) ==
  /\ e.kind = "trip_fare" /\ result[e] = "captured"
  /\ returned' = [returned EXCEPT ![e] = @ + 1]
  /\ UNCHANGED <<due, result, announced, taken>>

Refund(e) ==
  /\ returned[e] > 0
  /\ Enter(e, "captured", "refunded")
  /\ Announce(e, "payment.refunded")
  /\ UNCHANGED <<due, taken, returned>>

Next ==
  \/ \E t \in Trips, what \in Kinds \cup {"nothing"} : EndTrip(t, what)
  \/ \E e \in Entries :
       Open(e) \/ TakeMoney(e) \/ Capture(e) \/ Fail(e) \/ ReturnMoney(e) \/ Refund(e)

Spec == Init /\ [][Next]_ledgerVars

\* Money goes before what is entered about it, and only the charge a trip's
\* end made due moves any: so no trip pays a fare and a fee.
MoneyFirst ==
  \A e \in Entries :
    /\ result[e] \in {"captured", "refunded"} => taken[e] > 0
    /\ result[e] = "refunded" => returned[e] > 0
    /\ result[e] # "none" \/ taken[e] > 0 => due[e.trip] = e.kind
    /\ returned[e] > 0 => e.kind = "trip_fare" /\ result[e] \in {"captured", "refunded"}

=============================================================================
