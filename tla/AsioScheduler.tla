--------------------------- MODULE AsioScheduler ---------------------------
(***************************************************************************)
(* The production Scheduler, on Asio steady_timers.  Between a deadline    *)
(* and its callback lie two steps of the event loop: the reactor moves the *)
(* waits whose deadline passed to the io_context's queue, by deadline, and *)
(* the loop later runs the queued handlers one by one.  Destroying a timer *)
(* aborts its wait only before the first of the two.                       *)
(***************************************************************************)
EXTENDS Integers, Sequences, SequencesExt

CONSTANTS
    MaxTimers,      \* bound on the timers made
    Delays,         \* what clients ask for
    MaxTime         \* bound on the clock

ASSUME TimersAssumption ==
    MaxTimers \in Nat /\ MaxTime \in Nat /\ Delays \subseteq Nat

VARIABLES
    now,            \* the steady clock
    nextId,         \* nextId_
    timers,         \* the keys of timers_
    due,            \* deadline of each timer made
    ready,          \* successful waits whose handler is queued in the io_context
    fired           \* timers whose callback has run

timerVars == <<now, nextId, timers, due, ready, fired>>

Ids     == 1 .. MaxTimers
Waiting == timers \ ToSet(ready)

Init ==
    /\ now = 0 /\ nextId = 1
    /\ timers = {} /\ ready = <<>> /\ fired = {}
    /\ due = [id \in Ids |-> 0]

----------------------------------------------------------------------------
(* The Scheduler's interface; both run in some handler of the loop.        *)

\* callAfter().
CallAfter(delay) ==
    /\ nextId \in Ids
    /\ nextId' = nextId + 1
    /\ timers' = timers \cup {nextId}
    /\ due' = [due EXCEPT ![nextId] = now + delay]
    /\ UNCHANGED <<now, ready, fired>>

\* Mutation of Cancel: the aborted wait's handler runs the callback all the same.
CancelRunsCallback(id) ==
    /\ timers' = timers \ {id}
    /\ ready' = IF id \in Waiting THEN Append(ready, id) ELSE ready
    /\ UNCHANGED <<now, nextId, due, fired>>

\* Erasing the timer aborts its wait if the deadline hasn't been noticed yet.
Cancel(id) ==
    /\ timers' = timers \ {id}
    /\ UNCHANGED <<now, nextId, due, ready, fired>>

----------------------------------------------------------------------------
(* The event loop.                                                         *)

\* The clock goes on whatever the loop is doing.
Tick ==
    /\ now < MaxTime
    /\ now' = now + 1
    /\ UNCHANGED <<nextId, timers, due, ready, fired>>

Expired == {id \in Waiting : due[id] <= now}

\* The reactor takes expired waits from a heap: by deadline, ties in any order.
InOrder(order) == \A i, j \in DOMAIN order : i < j => due[order[i]] <= due[order[j]]

\* One run of the reactor queues the handlers of all the waits that expired.
ReactorRuns ==
    /\ Expired # {}
    /\ \E order \in SetToSeqs(Expired) : InOrder(order) /\ ready' = ready \o order
    /\ UNCHANGED <<now, nextId, timers, due, fired>>

\* The handler callAfter gave the timer: it was not aborted, so it fires.
HandlerRuns(id) ==
    /\ ready # <<>> /\ id = Head(ready)
    /\ ready' = Tail(ready)
    /\ timers' = timers \ {id}
    /\ fired' = fired \cup {id}
    /\ UNCHANGED <<now, nextId, due>>

----------------------------------------------------------------------------
(* Any client: it calls after some delay and cancels what it once made,    *)
(* also when the handler is queued already.                                *)

ClientCalls   == \E delay \in Delays : now + delay <= MaxTime /\ CallAfter(delay)
ClientCancels == \E id \in 1 .. nextId - 1 : Cancel(id)

Next == \/ ClientCalls \/ ClientCancels \/ Tick \/ ReactorRuns
        \/ \E id \in Ids : HandlerRuns(id)

\* The clock doesn't stop and the loop keeps running handlers.
Spec == Init /\ [][Next]_timerVars
             /\ WF_timerVars(Tick) /\ WF_timerVars(ReactorRuns)
             /\ WF_timerVars(\E id \in Ids : HandlerRuns(id))

----------------------------------------------------------------------------
(* Properties.                                                             *)

\* A timer fires at most once, in time, in the order of the deadlines, and it does
\* fire if it isn't cancelled; a cancel comes too late only after the deadline, when
\* the handler is queued (asio_scheduler.hpp:31-44).
Promised == INSTANCE Scheduler WITH
                used <- 1 .. nextId - 1, armed <- timers,
                late <- ToSet(ready) \ timers, deadline <- due

Promise == Promised!Spec
=============================================================================
