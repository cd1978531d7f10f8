---------------------------- MODULE MCTripService ----------------------------
(***************************************************************************)
(* The trip aggregate with a few trips, drivers and concurrent requests;   *)
(* its liveness is checked along with its safety, hence without symmetry.  *)
(***************************************************************************)
EXTENDS TripService
=============================================================================
