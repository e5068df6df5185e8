------------------------------ MODULE MCTftView ------------------------------
(* Three tracks, a cache for two covers, and a Station with a long name.   *)
EXTENDS TftView

MCPositions == {0, 1}
=============================================================================
