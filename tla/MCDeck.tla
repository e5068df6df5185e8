------------------------------- MODULE MCDeck -------------------------------
(* Deck on a small instance: one Station, a remembered position past the   *)
(* end, and no tracks or titles, since only who is heard matters here.      *)
EXTENDS Deck

MCRemembered == {1}
MCPositions  == {0}
=============================================================================
