--------------------------- MODULE MCRideDispatch ---------------------------
(* Small instances of RideDispatch for TLC.                                 *)
EXTENDS RideDispatch, TLC

Symmetry == Permutations(Drivers) \cup Permutations(Calls)
=============================================================================
