-------------------------- MODULE MCOutboxDelivery --------------------------
(***************************************************************************)
(* The event stream with two pollers and two deliveries.                   *)
(***************************************************************************)
EXTENDS OutboxDelivery
=============================================================================
