----------------------------- MODULE Scheduler -----------------------------
(***************************************************************************)
(* What a client of core/scheduler.hpp can count on: one-shot timers, each *)
(* of which fires at most once, not before its delay is over, in the order *)
(* of the deadlines, and does fire unless it is cancelled.  Cancelling a    *)
(* timer that fired or was cancelled already is a no-op, and a cancel that *)
(* comes before the deadline is final.  One that comes after it may be too *)
(* late: the interface doesn't say which it is.                            *)
(***************************************************************************)
EXTENDS Naturals

CONSTANTS
    Ids,            \* the TimerIds given out
    Delays          \* what clients ask for

VARIABLES
    now,            \* now()
    deadline,       \* when each timer is due
    used,           \* ids given out so far
    armed,          \* those neither fired nor cancelled
    late,           \* those cancelled too late
    fired

vars == <<now, deadline, used, armed, late, fired>>

Init == /\ now = 0 /\ deadline = [id \in Ids |-> 0]
        /\ used = {} /\ armed = {} /\ late = {} /\ fired = {}

Tick == now' = now + 1 /\ UNCHANGED <<deadline, used, armed, late, fired>>

CallAfter(id, delay) ==
    /\ id \notin used
    /\ used' = used \cup {id}
    /\ armed' = armed \cup {id}
    /\ deadline' = [deadline EXCEPT ![id] = now + delay]
    /\ UNCHANGED <<now, late, fired>>

Cancel(id) ==
    /\ id \in used
    /\ armed' = armed \ {id}
    /\ \/ late' = late
       \/ id \in armed /\ deadline[id] <= now /\ late' = late \cup {id}
    /\ UNCHANGED <<now, deadline, used, fired>>

Fire(id) ==
    /\ id \in armed \cup late
    /\ deadline[id] <= now
    /\ \A other \in armed : deadline[id] <= deadline[other]
    /\ armed' = armed \ {id}
    /\ late' = late \ {id}
    /\ fired' = fired \cup {id}
    /\ UNCHANGED <<now, deadline, used>>

Next == \/ Tick
        \/ \E id \in Ids : Cancel(id) \/ Fire(id) \/ \E delay \in Delays : CallAfter(id, delay)

\* A timer that is not cancelled fires.
Spec == Init /\ [][Next]_vars /\ \A id \in Ids : id \in armed ~> id \notin armed
=============================================================================
