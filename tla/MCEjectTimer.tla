---------------------------- MODULE MCEjectTimer ----------------------------
(* EjectTimer on a small instance: a long press is two ticks.              *)
EXTENDS EjectTimer

MCRemembered == {None}
MCPositions  == {0}
=============================================================================
