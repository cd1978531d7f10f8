--------------------------- MODULE CircuitBreaker ---------------------------
(***************************************************************************)
(* The breaker callService puts before the calls of one process to one     *)
(* other service (shared/src/http.js).                                     *)
(*                                                                         *)
(* A call is admitted or rejected on the spot; an admitted one is in       *)
(* flight until it succeeds (any answer below 500), fails (an answer of    *)
(* 500 or more, one that is no JSON, a network error) or is aborted by its *)
(* timer.  The calls end in any order, so a call admitted before the       *)
(* breaker opened may end after.  Time goes by in ticks; a timer fires     *)
(* before time goes on.                                                    *)
(***************************************************************************)
EXTENDS Naturals, FiniteSets

CONSTANTS
  Calls,             \* callers, each with one call at a time
  FailureThreshold,  \* failureThreshold
  CallTimeout,       \* timeoutMs, in ticks
  ResetTimeout       \* resetTimeoutMs, in ticks

ASSUME ThresholdAssumption == FailureThreshold \in Nat \ {0}
\* The default timeouts of http.js:20 and :78, which every caller keeps.
ASSUME TimeoutAssumption ==
  CallTimeout \in Nat \ {0} /\ ResetTimeout \in Nat /\ CallTimeout < ResetTimeout

VARIABLES
  state,      \* "CLOSED", "OPEN" or "HALF_OPEN"
  failures,   \* failures since the last success, FailureThreshold for more
  sinceOpen,  \* ticks since openedAt while open, ResetTimeout for more
  probing,
  inFlight,   \* the calls in flight
  age         \* ticks each has been in flight

breaker == <<state, failures, sinceOpen, probing>>
breakerVars == <<breaker, inFlight, age>>

AtMost(m, n) == IF m < n THEN m ELSE n

BreakerInit ==
  /\ state = "CLOSED" /\ failures = 0 /\ probing = FALSE
  /\ sinceOpen = ResetTimeout
  /\ inFlight = {} /\ age = [c \in Calls |-> 0]

\* Mutants: the probe does not exclude another; the cooldown is a tick short.
CanRequestUnprobed ==
  \/ state = "CLOSED"
  \/ state = "OPEN" /\ sinceOpen >= ResetTimeout
  \/ state = "HALF_OPEN"
CanRequestEarly ==
  \/ state = "CLOSED"
  \/ state = "OPEN" /\ sinceOpen >= ResetTimeout - 1
  \/ state = "HALF_OPEN" /\ ~probing

CanRequest ==
  \/ state = "CLOSED"
  \/ state = "OPEN" /\ sinceOpen >= ResetTimeout
  \/ state = "HALF_OPEN" /\ ~probing

\* canRequest is true, and fetch begins.
Admit(c) ==
  /\ c \notin inFlight /\ CanRequest
  /\ state' = IF state = "CLOSED" THEN "CLOSED" ELSE "HALF_OPEN"
  /\ probing' = IF state = "CLOSED" THEN probing ELSE TRUE
  /\ inFlight' = inFlight \cup {c}
  /\ age' = [age EXCEPT ![c] = 0]
  /\ UNCHANGED <<failures, sinceOpen>>

\* BreakerOpenError, which leaves everything as it is.
Reject(c) == c \notin inFlight /\ ~CanRequest /\ UNCHANGED breakerVars

Ended(c) ==
  /\ c \in inFlight
  /\ inFlight' = inFlight \ {c}
  /\ age' = [age EXCEPT ![c] = 0]

OnSuccess(c) ==
  /\ Ended(c)
  /\ state' = "CLOSED" /\ failures' = 0 /\ probing' = FALSE
  /\ sinceOpen' = ResetTimeout

\* Mutant: only a closed breaker opens.
OpensClosed == state = "CLOSED" /\ failures + 1 >= FailureThreshold

Opens == state = "HALF_OPEN" \/ failures + 1 >= FailureThreshold

\* A failure while the breaker is open starts its cooldown again.
OnFailure(c) ==
  /\ Ended(c)
  /\ failures' = AtMost(failures + 1, FailureThreshold)
  /\ probing' = FALSE
  /\ state' = IF Opens THEN "OPEN" ELSE state
  /\ sinceOpen' = IF Opens THEN 0 ELSE sinceOpen

BreakerTick ==
  /\ \A c \in inFlight : age[c] < CallTimeout
  /\ age' = [c \in Calls |-> age[c] + IF c \in inFlight THEN 1 ELSE 0]
  /\ sinceOpen' = AtMost(sinceOpen + 1, ResetTimeout)
  /\ UNCHANGED <<state, failures, probing, inFlight>>

-----------------------------------------------------------------------------
BreakerTypeOK ==
  /\ state \in {"CLOSED", "OPEN", "HALF_OPEN"}
  /\ failures \in 0 .. FailureThreshold
  /\ sinceOpen \in 0 .. ResetTimeout
  /\ probing \in BOOLEAN
  /\ inFlight \subseteq Calls
  /\ age \in [Calls -> 0 .. CallTimeout]

\* While the breaker is half open the probe is the only call in flight: the
\* cooldown outlasts every call admitted before it opened.
ProbesAlone == state = "HALF_OPEN" => probing /\ \E c \in Calls : inFlight = {c}

\* "reject immediately without touching the network for `resetTimeoutMs`"
\* (http.js:14-15) is more than an open breaker does: the success of a call
\* admitted before it opened closes it at once (:45-49).  Nothing else ends the
\* cooldown early, no call is admitted during it, and such a success comes
\* while calls admitted before the opening last, CallTimeout at most.
OpenRests ==
  [][state = "OPEN" /\ sinceOpen < ResetTimeout =>
       /\ inFlight' \subseteq inFlight
       /\ state' # "OPEN" =>
            \E c \in inFlight \ inFlight' : age[c] \in sinceOpen .. CallTimeout]_breakerVars

=============================================================================
