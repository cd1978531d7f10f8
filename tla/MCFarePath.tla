----------------------------- MODULE MCFarePath -----------------------------
(***************************************************************************)
(* Two callers, so that a call admitted before the breaker opens can end   *)
(* after.  A tick is 5 s, the cooldown one tick longer than in the code,   *)
(* so that the time between CallTimeout and ResetTimeout is seen.          *)
(***************************************************************************)
EXTENDS FarePath
=============================================================================
