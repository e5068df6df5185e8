-------------------------- MODULE LoopbackSpectrum --------------------------
(***************************************************************************)
(* The spectrum of what is playing (src/src/adapters/loopback_spectrum).   *)
(* A worker thread records what the loopback card delivers, a period at a  *)
(* time, analyses every kStep frames, and queues the levels with the time  *)
(* they are due; the event loop takes those due.  When the device fails    *)
(* the worker recovers it, or closes it, sleeps and opens it again.        *)
(*                                                                         *)
(* Time is in units of a few frames that divide a step and a period, and   *)
(* such a unit is called a frame.  A frame is known by its age; a result   *)
(* by the time until it is due and the age of the last frame analysed.     *)
(* The levels themselves are SpectrumBands'.                               *)
(***************************************************************************)
EXTENDS Integers, SequencesExt

CONSTANTS
    kStep, kPeriod, kDisplayDelay, kStale, kRetry, kMostDue,
    PollTime,       \* how long snd_pcm_wait() waits
    Pause,          \* the sleep after recovering the device
    Periods,        \* what the card may have settled on, near kPeriod
    MaxLate,        \* bound on how long the worker takes to run once it can
    Flat            \* no levels

ASSUME SpectrumAssumption ==
    /\ {kStep, kPeriod, kMostDue, PollTime, Pause} \cup Periods \subseteq Nat \ {0}
    /\ {kDisplayDelay, kStale, kRetry, MaxLate} \subseteq Nat
    /\ PollTime + MaxLate < kRetry /\ Pause < kRetry

\* The loopback's periods are those of the playing side, kPeriod, or shorter; the worker is
\* less than a period late, and no later because of its pause.  kDisplayDelay is a period,
\* kStale and the queue leave room.
ASSUME ProportionsAssumption ==
    /\ \A frames \in Periods : frames <= kPeriod /\ MaxLate < frames /\ Pause <= frames + MaxLate
    /\ kStep <= kPeriod /\ kPeriod <= kDisplayDelay
    /\ kStep + MaxLate <= kStale /\ kDisplayDelay + MaxLate <= (kMostDue - 1) * kStep
    /\ Flat \notin [at : Int, heard : Nat]

VARIABLES
    worker,         \* where the worker thread is
    timer,          \* time since its wait or sleep began
    nap,            \* how long it sleeps: Pause, or kRetry with the device closed
    sinceStep,      \* sinceStep_
    due,            \* due_
    shown,          \* shown_ and shownAt_, Flat once stale
    stopping,       \* stopping_
    stopAge,        \* how long the destructor has waited
    playing,        \* an Engine is playing
    period,         \* the card's period
    pending,        \* frames of a period that isn't complete yet
    card,           \* frames recorded but not read
    broken,         \* the next wait or read fails
    steady          \* how long sound was recorded without a break

workerVars == <<worker, timer, nap, sinceStep, stopping, stopAge>>
levelsVars == <<due, shown>>
cardVars   == <<playing, period, pending, card, broken, steady>>
spectrumVars == <<workerVars, levelsVars, cardVars>>

Least(a, b) == IF a < b THEN a ELSE b

----------------------------------------------------------------------------
(* What levels() returns.                                                  *)

\* How many results at the front of due_ are due; one that isn't keeps those behind it.
Overdue == Cardinality({i \in DOMAIN due : \A j \in 1 .. i : due[j].at <= 0})

Stale(result) == result = Flat \/ result.at < -kStale

Levels ==
    LET latest == IF Overdue = 0 THEN shown ELSE due[Overdue]
    IN IF Stale(latest) THEN Flat ELSE latest

TakesLevels ==
    /\ ~stopping
    /\ shown' = Levels /\ due' = SubSeq(due, Overdue + 1, Len(due))
    /\ UNCHANGED <<workerVars, cardVars>>

----------------------------------------------------------------------------
(* The worker.                                                             *)

SpectrumInit ==
    /\ worker = "opening" /\ timer = 0 /\ nap = Pause /\ sinceStep = 0
    /\ due = <<>> /\ shown = Flat
    /\ stopping = FALSE /\ stopAge = 0
    /\ playing = FALSE /\ period \in Periods /\ pending = 0
    /\ card = <<>> /\ broken = FALSE /\ steady = 0

\* Mutation of Goes: the loop in record() runs for as long as it records.
GoesForEver(next) == worker' = next

\* A loop goes on, unless stopping_.
Goes(next) == worker' = IF stopping THEN "done" ELSE next

\* snd_pcm_recover() and Closer drop what was recorded.
Drops == card' = <<>> /\ pending' = 0 /\ broken' = FALSE /\ steady' = 0

\* sleepUnlessStopped() is called.
Sleeps(time) == worker' = "sleepy" /\ nap' = time

\* record() opens the device and sets it up.
Opens ==
    /\ worker = "opening"
    /\ Goes("waiting") /\ timer' = 0
    /\ period' \in Periods /\ Drops
    /\ UNCHANGED <<nap, sinceStep, stopping, stopAge, levelsVars, playing>>

\* record() returns an error, and run() sleeps.
GivesUp ==
    /\ IF stopping THEN worker' = "done" /\ UNCHANGED nap ELSE Sleeps(kRetry)
    /\ Drops
    /\ UNCHANGED <<timer, sinceStep, stopping, stopAge, levelsVars, playing, period>>

OpenFails == worker = "opening" /\ GivesUp

\* snd_pcm_wait() returns: a period is there, or nothing came.
Ready == Len(card) >= period

WaitReturns ==
    /\ worker = "waiting" /\ ~broken
    /\ \/ Ready /\ worker' = "reading" /\ UNCHANGED timer
       \/ ~Ready /\ timer = PollTime /\ Goes("waiting") /\ timer' = 0
    /\ UNCHANGED <<nap, sinceStep, stopping, stopAge, levelsVars, cardVars>>

\* Mutation of DueIn: the levels of a period are all due at once.
DueInOneDelay(count, done) == kDisplayDelay

\* A frame played as long before the arrival as there are frames behind it.
DueIn(count, done) == kDisplayDelay - (count - done)

\* analyse(): a result for every step that these frames complete.
Results(frames) ==
    [n \in 1 .. (sinceStep + Len(frames)) \div kStep |->
        LET done == n * kStep - sinceStep
        IN [at |-> DueIn(Len(frames), done), heard |-> frames[done]]]

\* A read of at most kPeriod frames, analysed; the queue keeps the last kMostDue results.
Reads ==
    /\ worker = "reading" /\ ~broken /\ card # <<>>
    /\ LET count == Least(kPeriod, Len(card))
           frames == SubSeq(card, 1, count)
           all == due \o Results(frames)
       IN /\ card' = SubSeq(card, count + 1, Len(card))
          /\ due' = IF Len(all) <= kMostDue THEN all
                    ELSE SubSeq(all, Len(all) - kMostDue + 1, Len(all))
          /\ sinceStep' = (sinceStep + count) % kStep
    /\ UNCHANGED <<worker, timer, nap, stopping, stopAge, shown, playing, period, pending, broken, steady>>

\* EAGAIN: all is read.
ReadsAll ==
    /\ worker = "reading" /\ ~broken /\ card = <<>>
    /\ Goes("waiting") /\ timer' = 0
    /\ UNCHANGED <<nap, sinceStep, stopping, stopAge, levelsVars, cardVars>>

\* A wait or a read failed: the device recovers, and the worker sleeps all the same.
Recovers ==
    /\ worker \in {"waiting", "reading"} /\ broken
    /\ Sleeps(Pause) /\ Drops
    /\ UNCHANGED <<timer, sinceStep, stopping, stopAge, levelsVars, playing, period>>

RecoverFails == worker \in {"waiting", "reading"} /\ broken /\ GivesUp

\* sleepUnlessStopped(): wait_for() first tests stopping_ ...
Tests ==
    /\ worker = "sleepy"
    /\ worker' = IF stopping THEN "awake" ELSE "tested"
    /\ UNCHANGED <<timer, nap, sinceStep, stopping, stopAge, levelsVars, cardVars>>

\* ... and then waits for a notification from now on.
FallsAsleep ==
    /\ worker = "tested" /\ worker' = "asleep" /\ timer' = 0
    /\ UNCHANGED <<nap, sinceStep, stopping, stopAge, levelsVars, cardVars>>

TimesOut ==
    /\ worker = "asleep" /\ timer = nap /\ worker' = "awake"
    /\ UNCHANGED <<timer, nap, sinceStep, stopping, stopAge, levelsVars, cardVars>>

Wakes ==
    /\ worker = "awake"
    /\ Goes(IF nap = kRetry THEN "opening" ELSE "waiting") /\ timer' = 0
    /\ UNCHANGED <<nap, sinceStep, stopping, stopAge, levelsVars, cardVars>>

\* The destructor up to join(): a worker that isn't asleep yet misses the notification.
Stops ==
    /\ ~stopping /\ stopping' = TRUE
    /\ worker' = IF worker = "asleep" THEN "awake" ELSE worker
    /\ UNCHANGED <<timer, nap, sinceStep, stopAge, levelsVars, cardVars>>

\* The program starts again.
Restarts ==
    /\ worker = "done" /\ worker' = "opening" /\ sinceStep' = 0
    /\ due' = <<>> /\ shown' = Flat
    /\ stopping' = FALSE /\ stopAge' = 0
    /\ Drops
    /\ UNCHANGED <<timer, nap, playing, period>>

----------------------------------------------------------------------------
(* The card and time, external.                                            *)

\* A pause loses the period that isn't complete.
Toggles ==
    /\ playing' = ~playing /\ pending' = 0 /\ steady' = 0
    /\ UNCHANGED <<workerVars, levelsVars, period, card, broken>>

\* The device is open.
Open ==
    \/ worker \in {"waiting", "reading"}
    \/ worker \in {"sleepy", "tested", "asleep", "awake"} /\ nap = Pause

\* The playing side closes its end.
Breaks ==
    /\ Open /\ ~broken /\ broken' = TRUE
    /\ UNCHANGED <<workerVars, levelsVars, playing, period, pending, card, steady>>

Records == playing /\ Open /\ ~broken

Aged(result) ==
    IF Stale(result) THEN result ELSE [at |-> result.at - 1, heard |-> result.heard + 1]

\* Long enough for the first results to be read, and due.
SteadyTime == kPeriod + MaxLate + kDisplayDelay

\* The card records a frame, and at the end of a period delivers it, or overruns.
CardTick ==
    LET older == [i \in DOMAIN card |-> card[i] + 1]
        full == Records /\ pending + 1 = period
        fits == Len(card) + period <= 4 * kPeriod
    IN /\ pending' = IF full THEN 0 ELSE IF Records THEN pending + 1 ELSE pending
       /\ card' = IF full /\ fits THEN older \o [i \in 1 .. period |-> period - i] ELSE older
       /\ broken' = (broken \/ (full /\ ~fits))
       /\ steady' = IF Records /\ worker = "waiting" THEN Least(steady + 1, SteadyTime) ELSE 0

\* Time waits for the worker, but for MaxLate when a period is there.
Tick ==
    /\ worker \in {"waiting", "asleep", "done"}
    /\ worker = "waiting" => ~broken /\ timer < PollTime /\ (Ready => card[period] < MaxLate)
    /\ worker = "asleep" => timer < nap
    /\ timer' = IF worker = "done" THEN timer ELSE timer + 1
    /\ stopAge' = IF stopping /\ worker # "done" THEN Least(stopAge + 1, kRetry + 1) ELSE stopAge
    /\ due' = [i \in DOMAIN due |-> Aged(due[i])]
    /\ shown' = IF Stale(shown) \/ Stale(Aged(shown)) THEN Flat ELSE Aged(shown)
    /\ CardTick
    /\ UNCHANGED <<worker, nap, sinceStep, stopping, playing, period>>

SpectrumNext ==
    \/ TakesLevels
    \/ Opens \/ OpenFails \/ WaitReturns \/ Reads \/ ReadsAll \/ Recovers \/ RecoverFails
    \/ Tests \/ FallsAsleep \/ TimesOut \/ Wakes \/ Stops \/ Restarts
    \/ Toggles \/ Breaks \/ Tick

SpectrumSpec == SpectrumInit /\ [][SpectrumNext]_spectrumVars

----------------------------------------------------------------------------
(* Properties.                                                             *)

\* Whenever the view asks, and however long it didn't: the bars are never ahead of
\* the sound by more than its delay, nor still there when it is long over; and while
\* sound comes steadily they are there, a step behind at most, even if the worker is late.
BarsFollowSound ==
    /\ Levels # Flat => Levels.heard \in kDisplayDelay .. kDisplayDelay + kStale + MaxLate
    /\ steady = SteadyTime =>
          Levels # Flat /\ Levels.heard < kDisplayDelay + MaxLate + kStep

\* The destructor returns within kRetry, though not sooner: a worker about to
\* sleep misses its notification.
StopsWithinRetry == stopAge <= kRetry
=============================================================================
