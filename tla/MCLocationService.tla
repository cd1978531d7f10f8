------------------------- MODULE MCLocationService -------------------------
(***************************************************************************)
(* Two drivers, two shards and two handlers at a time.  Drivers, shards    *)
(* and handlers are interchangeable.                                       *)
(***************************************************************************)
EXTENDS LocationService, TLC

Symmetry == Permutations(Drivers) \cup Permutations(Shards) \cup Permutations(Tasks)
=============================================================================
