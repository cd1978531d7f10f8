------------------------------ MODULE EventLog ------------------------------
(***************************************************************************)
(* What the transactional outbox and the deduplicating consumer promise    *)
(* together: an event that a producer's transaction records takes effect   *)
(* at the consumer, once; a handler that fails parks it for an operator    *)
(* instead, and another copy of it may still take effect.                  *)
(***************************************************************************)
EXTENDS Naturals

CONSTANT Ids   \* events, by the id of their outbox row

VARIABLES
  state,   \* each event: none, recorded, parked or effected
  effects  \* how often its consumer applied it

logVars == <<state, effects>>

Init == state = [e \in Ids |-> "none"] /\ effects = [e \in Ids |-> 0]

Move(e, from, to) == state[e] \in from /\ state' = [state EXCEPT ![e] = to]

Record(e) == Move(e, {"none"}, "recorded") /\ UNCHANGED effects
Park(e) == Move(e, {"recorded"}, "parked") /\ UNCHANGED effects
Effect(e) == /\ Move(e, {"recorded", "parked"}, "effected")
             /\ effects' = [effects EXCEPT ![e] = @ + 1]

Next == \E e \in Ids : Record(e) \/ Park(e) \/ Effect(e)

Spec == Init /\ [][Next]_logVars

=============================================================================
