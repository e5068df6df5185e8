----------------------------- MODULE EjectTimer -----------------------------
(***************************************************************************)
(* PlayerController's Eject button on the production Scheduler: the timer   *)
(* armed by a press, the release that cancels it, and the two steps of the *)
(* event loop between its deadline and onEjectHeld.                        *)
(***************************************************************************)
EXTENDS PlayerController, Sequences

CONSTANTS MaxTimers, MaxTime,
          LongPress         \* kEjectLongPress, in ticks of the clock

VARIABLES ejectId,          \* the TimerId in ejectTimer_
          now, nextId, timers, due, ready, fired    \* AsioScheduler's

Asio == INSTANCE AsioScheduler WITH Delays <- {LongPress}

ejectTimerVars == <<vars, ejectId, Asio!timerVars>>

EjectTimerInit == Init /\ Asio!Init /\ ejectId = 0

\* A press arms the timer, unless one is armed or the Deck is shutting down.
Press ==
    /\ EjectPressed
    /\ IF ejectTimer' /\ ~ejectTimer
       THEN Asio!CallAfter(LongPress) /\ ejectId' = nextId
       ELSE UNCHANGED <<Asio!timerVars, ejectId>>

\* The release of a short press cancels the timer before it switches the Source.
Release ==
    /\ EjectReleased
    /\ IF ejectTimer THEN Asio!Cancel(ejectId) ELSE UNCHANGED Asio!timerVars
    /\ UNCHANGED ejectId

\* The event loop runs the timer's handler.
TimerFires ==
    /\ \E id \in Asio!Ids : Asio!HandlerRuns(id)
    /\ OnEjectHeld
    /\ UNCHANGED ejectId

EjectTimerNext ==
    \/ LoopFree /\ (Press \/ Release \/ TimerFires)
    \/ EjectHeldGoesOn /\ UNCHANGED <<ejectId, Asio!timerVars>>
    \/ (Asio!Tick \/ Asio!ReactorRuns) /\ UNCHANGED <<vars, ejectId>>

EjectTimerSpec == EjectTimerInit /\ [][EjectTimerNext]_ejectTimerVars
=============================================================================
