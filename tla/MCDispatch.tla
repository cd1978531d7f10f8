----------------------------- MODULE MCDispatch -----------------------------
(***************************************************************************)
(* Dispatch with a few trips, drivers and concurrent answers.              *)
(***************************************************************************)
EXTENDS Dispatch, TLC

\* Trips, drivers and responders are interchangeable.
Symmetry == Permutations(Trips) \cup Permutations(Drivers) \cup Permutations(Responders)
=============================================================================
