------------------------ MODULE MCPlayerController ------------------------
(* PlayerController on a small instance: three Stations, so that stepping  *)
(* back, stepping on and the Shuffle pick differ, and a remembered position *)
(* that is past the end of the list.                                       *)
EXTENDS PlayerController

MCRemembered == {None, 1, NumStations}
MCPositions  == {0, 1}
=============================================================================
