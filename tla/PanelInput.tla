----------------------------- MODULE PanelInput -----------------------------
(***************************************************************************)
(* The panel's buttons, as PigpioHardwareIO (src/src/hw) learns of them.   *)
(* The MCP23017 pulls its interrupt line low at any change of its port,    *)
(* and lets go when the port is read.  pigpio samples the line and calls   *)
(* back, on a thread of its own, only where two samples differ.  The event *)
(* loop reads the port, lets it settle, reads it again, and looks at the   *)
(* line once more.  The LEDs hang on the chip's other port.                *)
(*                                                                         *)
(* The program may end at any moment: it is stopped, killed, or throws     *)
(* because the chip didn't answer.  systemd starts it again; the chip      *)
(* stays powered, and goes on as it was told.                              *)
(*                                                                         *)
(* Chip and pigpio are external.  Between the chip letting go of the line  *)
(* and the end of the I2C transfer that made it do so lie at least as many *)
(* microseconds as between two samples.                                    *)
(***************************************************************************)
EXTENDS Naturals

CONSTANTS
    PanelButtons,   \* the pins of port A
    Leds,           \* the pins of port B that drive LEDs
    MaxMoves        \* bound on the buttons' moves, bounces included

ASSUME MovesAssumption == MaxMoves \in Nat

VARIABLES
    down,           \* the buttons held, as the port reads
    interrupts,     \* the chip was told to report changes
    line,           \* the interrupt line is low
    latch,          \* the LEDs it was told to light
    sampled,        \* the line was low in pigpio's last sample
    sampledSince,   \* there was a sample since the port was last read
    phase,          \* "ended", in the constructor ("opened", "listening"), or "running"
    alerts,         \* onInputsChanged() posted to the event loop
    debounce,       \* debounce_ is running
    settles,        \* its handlers queued in the event loop
    checking,       \* the loop is in onInputsSettled(), past the read
    pressed,        \* pressed_: the presses and releases the listener has seen
    leds,           \* leds_
    moves

chipVars  == <<down, interrupts, line, latch, sampled, sampledSince>>
loopVars  == <<alerts, debounce, settles, checking, pressed>>
panelVars == <<chipVars, phase, loopVars, leds, moves>>

\* The Deck has power, and the program wasn't started yet.
PanelInit ==
    /\ down \in SUBSET PanelButtons
    /\ interrupts = FALSE /\ line = FALSE /\ latch = {}
    /\ sampled = FALSE /\ sampledSince = TRUE
    /\ phase = "ended"
    /\ alerts = 0 /\ debounce = FALSE /\ settles = 0 /\ checking = FALSE
    /\ pressed = {} /\ leds = {}
    /\ moves = 0

----------------------------------------------------------------------------
(* Outside the program.                                                    *)

\* A button is pressed or let go of, or bounces.
ButtonMoves(button) ==
    /\ moves < MaxMoves /\ moves' = moves + 1
    /\ down' = IF button \in down THEN down \ {button} ELSE down \cup {button}
    /\ line' = (line \/ interrupts)
    /\ UNCHANGED <<interrupts, latch, sampled, sampledSince, phase, loopVars, leds>>

\* pigpio samples the line, and alerts whoever listens: onInterruptLine() posts
\* low levels only.
Samples ==
    /\ phase # "ended"
    /\ sampled # line \/ ~sampledSince
    /\ sampled' = line /\ sampledSince' = TRUE
    /\ alerts' = IF phase # "opened" /\ line /\ ~sampled THEN alerts + 1 ELSE alerts
    /\ UNCHANGED <<down, interrupts, line, latch, phase, debounce, settles, checking,
                    pressed, leds, moves>>

----------------------------------------------------------------------------
(* The constructor.                                                        *)

\* Reading the port makes the chip let go of the line.
ReadPort == line' = FALSE /\ sampledSince' = FALSE

\* Mutation of ConfiguresLeds: relies on the LEDs being off.
ConfiguresLedsNot == UNCHANGED latch /\ leds' = {}

\* Port B's latch is written before its pins become outputs.
ConfiguresLeds == latch' = {} /\ leds' = {}

\* The chip is told what to do, and the port read: a button held by now doesn't count.
Opens ==
    /\ phase = "ended" /\ phase' = "opened"
    /\ interrupts' = TRUE
    /\ ConfiguresLeds
    /\ ReadPort /\ pressed' = down
    /\ UNCHANGED <<down, sampled, alerts, debounce, settles, checking, moves>>

\* The chip stops answering on the way: the interrupts come on before the LEDs go off.
OpenFails ==
    /\ phase = "ended"
    /\ interrupts' = TRUE /\ latch' \in {latch, {}}
    /\ UNCHANGED <<down, line, sampled, sampledSince, phase, loopVars, leds, moves>>

\* gpioSetAlertFuncEx().
Listens ==
    /\ phase = "opened" /\ sampledSince
    /\ phase' = "listening"
    /\ UNCHANGED <<chipVars, loopVars, leds, moves>>

\* Mutation of Looks: trusts the alerts from here on.
LooksNot ==
    /\ phase = "listening" /\ phase' = "running"
    /\ UNCHANGED <<chipVars, loopVars, leds, moves>>

\* A line that is low already brings no alert.
Looks ==
    /\ phase = "listening" /\ phase' = "running"
    /\ alerts' = IF line THEN alerts + 1 ELSE alerts
    /\ UNCHANGED <<chipVars, debounce, settles, checking, pressed, leds, moves>>

\* The program is gone; the destructor's write may fail, or not be reached.
Ends ==
    /\ phase # "ended" /\ phase' = "ended"
    /\ latch' \in {latch, {}}
    /\ alerts' = 0 /\ debounce' = FALSE /\ settles' = 0 /\ checking' = FALSE
    /\ pressed' = {} /\ leds' = {}
    /\ UNCHANGED <<down, interrupts, line, sampled, sampledSince, moves>>

----------------------------------------------------------------------------
(* The event loop.  A transfer that fails throws, and ends the program.    *)

Idle == phase = "running" /\ ~checking

\* Mutation of OnInputsChanged: reads the port, and leaves it at that.
OnInputsChangedNoTimer == ReadPort /\ UNCHANGED debounce

\* onInputsChanged(): the value read doesn't count; the deadline is pushed back.
OnInputsChanged == ReadPort /\ debounce' = TRUE

\* The alert's turn comes.
AlertHandled ==
    /\ Idle /\ alerts > 0
    /\ alerts' = alerts - 1
    /\ OnInputsChanged
    /\ UNCHANGED <<down, interrupts, latch, sampled, phase, settles, checking, pressed, leds, moves>>

\* The debounce time is over; from now on expires_after can't take it back.
DebounceExpires ==
    /\ debounce /\ debounce' = FALSE
    /\ settles' = settles + 1
    /\ UNCHANGED <<chipVars, phase, alerts, checking, pressed, leds, moves>>

\* onInputsSettled() reads the port and tells the listener of every edge.
SettledRead ==
    /\ Idle /\ settles > 0
    /\ settles' = settles - 1
    /\ checking' = TRUE
    /\ ReadPort
    /\ pressed' = down
    /\ UNCHANGED <<down, interrupts, latch, sampled, phase, alerts, debounce, leds, moves>>

\* Mutation of LineChecked: trusts the next alert.
LineUnchecked ==
    /\ checking /\ sampledSince
    /\ checking' = FALSE
    /\ UNCHANGED <<chipVars, phase, alerts, debounce, settles, pressed, leds, moves>>

\* onInputsSettled() ends with a look at the line itself.
LineChecked ==
    /\ checking /\ sampledSince
    /\ checking' = FALSE
    /\ IF line THEN OnInputsChanged ELSE UNCHANGED <<line, sampledSince, debounce>>
    /\ UNCHANGED <<down, interrupts, latch, sampled, phase, alerts, settles, pressed, leds, moves>>

\* setLed(), called by the listener or any other handler.
SetLed(led, on) ==
    /\ phase = "running"
    /\ leds' = IF on THEN leds \cup {led} ELSE leds \ {led}
    /\ latch' = leds'
    /\ UNCHANGED <<down, interrupts, line, sampled, sampledSince, phase, loopVars, moves>>

PanelNext ==
    \/ \E button \in PanelButtons : ButtonMoves(button)
    \/ Samples \/ Opens \/ OpenFails \/ Listens \/ Looks \/ Ends
    \/ AlertHandled \/ DebounceExpires \/ SettledRead \/ LineChecked
    \/ \E led \in Leds, on \in BOOLEAN : SetLed(led, on)

\* pigpio keeps sampling, and the program goes on while nothing ends it.
PanelSpec ==
    /\ PanelInit /\ [][PanelNext]_panelVars
    /\ WF_panelVars(Samples) /\ WF_panelVars(Listens) /\ WF_panelVars(Looks)
    /\ WF_panelVars(AlertHandled) /\ WF_panelVars(DebounceExpires)
    /\ WF_panelVars(SettledRead) /\ WF_panelVars(LineChecked)

----------------------------------------------------------------------------
(* Properties.                                                             *)

\* While the line is low somebody is going to read the port: an alert is on its
\* way, or the port is to be read anyway.  Otherwise no button would ever be
\* noticed again, since a line that stays low brings no alert.
LowLineIsNoticed ==
    phase = "running" /\ line => ~sampled \/ alerts > 0 \/ debounce \/ settles > 0 \/ checking

\* While a button's state and what was reported of it differ, the port is going
\* to be read again: no press is left held after it was let go of, nor is a button
\* overlooked that moved while the program started.
MovesAreNoticed ==
    phase # "ended" /\ pressed # down => line \/ debounce \/ settles > 0

\* The LEDs that shine are those this run of the program turned on, whatever the one
\* before left behind: setLed() writes both from leds_, never from the chip.
LedsAsSet == phase # "ended" => latch = leds

\* Once the buttons rest, the presses and releases reported add up to them,
\* whenever and however often the program is started.
ComesToRest == <>[](phase = "running" => pressed = down)

=============================================================================
