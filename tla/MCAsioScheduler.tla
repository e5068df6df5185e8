-------------------------- MODULE MCAsioScheduler --------------------------
(* AsioScheduler with three timers, some due at once, over a short clock.  *)
EXTENDS AsioScheduler

MCDelays == {0, 1, 2}
=============================================================================
