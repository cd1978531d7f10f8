-------------------------- MODULE MCPaymentService --------------------------
(***************************************************************************)
(* The payment service on one trip, two deliveries and two refund requests.*)
(***************************************************************************)
EXTENDS PaymentService
=============================================================================
