------------------------------- MODULE TftView -------------------------------
(***************************************************************************)
(* The TFT (src/src/ui): TftView draws the screen PlayerController pushed  *)
(* last, with a clock that runs between the Engine's reports, bars that    *)
(* follow the spectrum, and lines that scroll, on a timer of its own for   *)
(* as long as anything moves.  Each frame asks Artwork for its cover.      *)
(*                                                                         *)
(* What is drawn of a screen is abstracted to the screen itself; one bar   *)
(* stands for the fifteen.                                                 *)
(***************************************************************************)
EXTENDS Artwork, Integers

CONSTANTS
    Stations,       \* the Stations
    Nothing,        \* no track or Station on the screen
    LongTexts,      \* the tracks and Stations with a line that doesn't fit
    Positions,      \* positions in a track
    Duration,       \* of every track
    MaxTime,        \* bound on the clock
    Height, BarFall, PeakFall, PeakHold     \* kSpectrumArea.height, kBarFall, ...

ASSUME TftAssumption ==
    /\ Positions \subseteq 0 .. Duration /\ 0 \in Positions
    /\ {MaxTime, Height, BarFall, PeakFall, PeakHold} \subseteq Nat
    /\ Duration \in Nat \ {0}
    /\ Nothing \notin Stations \cup Covers /\ LongTexts \subseteq Stations \cup Covers

VARIABLES
    screen,         \* screen_
    frameTimer,     \* frameTimer_.has_value()
    last,           \* lastNowPlaying_
    clockBase,      \* clockBase_
    clockAge,       \* now - clockSince_
    clockRunning,   \* clockRunning_
    truth,          \* the position reported last and the time played since
    repeated,       \* it was reported again since a screen brought a new one
    bar, peak, peakHold     \* spectrum_

clockVars    == <<last, clockBase, clockAge, clockRunning, truth, repeated>>
spectrumVars == <<bar, peak, peakHold>>
tftVars      == <<screen, frameTimer, clockVars, spectrumVars, artVars>>

----------------------------------------------------------------------------
(* Screens.  A track is named by its cover, its artist and title by it too.*)

NowPlaying(source, status, what, position) ==
    [source |-> source, status |-> status, what |-> what, position |-> position]

StoppedScreen == NowPlaying("Stopped", "Stopped", Nothing, 0)
Moving        == {"Playing", "Paused"}

SpotifyScreens ==
    {NowPlaying("Spotify", "Stopped", Nothing, 0)}
    \cup {NowPlaying("Spotify", status, Nothing, 0) : status \in Moving}
    \cup {NowPlaying("Spotify", status, track, position) :
             status \in Moving, track \in Covers, position \in Positions}

RadioScreens == {NowPlaying("Radio", status, station, 0) : status \in Moving, station \in Stations}
ListScreens  == {NowPlaying("List", "Stopped", station, 0) : station \in Stations}

\* What refreshPanel may push next: the Station List opens on the Radio only, and
\* a Deck that has a Source (and Stations) keeps one.  A screen that looks the
\* same here differs in what is left out, such as the stream title.
Follows(next) == next \in ListScreens => screen \in RadioScreens \cup ListScreens

CoverOf(s) == IF s.source = "Spotify" /\ s.what \in Covers THEN s.what ELSE NoCover
Scrolls(s) == s.what \in LongTexts

----------------------------------------------------------------------------
(* The clock.                                                              *)

\* elapsed(): no further than the track, if its length is known.
Elapsed ==
    LET time == clockBase + IF clockRunning THEN clockAge ELSE 0
    IN IF last.source = "Spotify" /\ last.what # Nothing /\ time > Duration
       THEN Duration ELSE time

SameItem(next) == last.source = next.source /\ last.what = next.what

NewPosition(next) == ~SameItem(next) \/ last.position # next.position

\* Mutation of Base: a screen without news restarts the clock where it was based.
BaseUnfolded(next) == IF NewPosition(next) THEN next.position ELSE clockBase

\* clockBase_: another item or a new position is the truth, else it runs on.
Base(next) == IF NewPosition(next) THEN next.position ELSE Elapsed

\* trackTime().
TrackTime(next) ==
    /\ clockBase' = IF next.source = "Stopped" THEN 0 ELSE Base(next)
    /\ clockAge' = 0
    /\ clockRunning' = (next.status = "Playing")
    /\ last' = next
    /\ truth' = IF NewPosition(next) THEN next.position ELSE truth
    /\ repeated' = (repeated /\ ~NewPosition(next))

\* The Engine reports the position of the report before, as when a track is begun anew:
\* refreshPanel finds no screen to push.
ReportsAgain ==
    /\ last.source = "Spotify" /\ last.what # Nothing /\ truth # last.position
    /\ truth' = last.position /\ repeated' = TRUE
    /\ UNCHANGED <<screen, frameTimer, last, clockBase, clockAge, clockRunning, spectrumVars, artVars>>

----------------------------------------------------------------------------
(* Frames.                                                                 *)

Idle(b, p) == b = 0 /\ p = 0

\* animating(), for a screen and a spectrum.
Animating(s, idle) ==
    \/ Scrolls(s)
    \/ s.source # "List" /\ (s.status # "Stopped" \/ ~idle)

\* Mutation of Schedule: asks whether the frame before was moving.
ScheduleForOldScreen(s, running, idle) ==
    frameTimer' = (running \/ Animating(screen, idle))

\* scheduleFrame(), after `s' was drawn, with a timer running already or not.
Schedule(s, running, idle) == frameTimer' = (running \/ Animating(s, idle))

\* show(): the controller pushes another screen.
Shows(next) ==
    /\ screen' = next
    /\ IF next.source = "List" THEN UNCHANGED clockVars ELSE TrackTime(next)
    /\ Draws(CoverOf(next))
    /\ Schedule(next, frameTimer, Idle(bar, peak))
    /\ UNCHANGED spectrumVars

\* Mutation of Step: the peak marker never drops.
StepPeakStays(level) ==
    LET fallen == IF bar > BarFall THEN bar - BarFall ELSE 0
    IN /\ bar' = IF level > fallen THEN level ELSE fallen
       /\ peak' = IF bar' >= peak THEN bar' ELSE peak
       /\ peakHold' = IF bar' >= peak THEN PeakHold ELSE IF peakHold > 0 THEN peakHold - 1 ELSE 0

\* Spectrum::step: up at once, down slowly, the peak marker behind.
Step(level) ==
    LET fallen == IF bar > BarFall THEN bar - BarFall ELSE 0
    IN /\ bar' = IF level > fallen THEN level ELSE fallen
       /\ \/ /\ bar' >= peak
             /\ peak' = bar' /\ peakHold' = PeakHold
          \/ /\ bar' < peak /\ peakHold > 0
             /\ peakHold' = peakHold - 1 /\ UNCHANGED peak
          \/ /\ bar' < peak /\ peakHold = 0
             /\ peak' = (IF peak > PeakFall THEN peak - PeakFall ELSE 0) /\ UNCHANGED peakHold

\* onFrame(): the levels count only while something plays; the List has no bars.
OnFrame ==
    /\ frameTimer
    /\ IF screen.source = "List"
       THEN UNCHANGED spectrumVars
       ELSE \E level \in IF screen.status = "Playing" THEN 0 .. Height ELSE {0} : Step(level)
    /\ Draws(CoverOf(screen))
    /\ Schedule(screen, FALSE, Idle(bar', peak'))
    /\ UNCHANGED <<screen, clockVars>>

\* A cover arrives: the callback set in the constructor draws and schedules.
CoverArrives ==
    /\ CoverFetched(CoverOf(screen))
    /\ Schedule(screen, frameTimer, Idle(bar, peak))
    /\ UNCHANGED <<screen, clockVars, spectrumVars>>

----------------------------------------------------------------------------
TftInit ==
    /\ ArtInit
    /\ screen = StoppedScreen /\ frameTimer = FALSE
    /\ last = StoppedScreen /\ clockBase = 0 /\ clockAge = 0
    /\ clockRunning = FALSE /\ truth = 0 /\ repeated = FALSE
    /\ bar = 0 /\ peak = 0 /\ peakHold = 0

\* Time passes; the reference clock counts it while something plays.
Tick ==
    /\ clockBase + clockAge < MaxTime
    /\ clockAge' = clockAge + 1
    /\ truth' = IF last.status = "Playing"
                   /\ (last.source = "Spotify" /\ last.what # Nothing => truth < Duration)
                THEN truth + 1 ELSE truth
    /\ UNCHANGED <<screen, frameTimer, last, clockBase, clockRunning, repeated, spectrumVars, artVars>>

ControllerShows ==
    \E next \in SpotifyScreens \cup RadioScreens \cup ListScreens : Follows(next) /\ Shows(next)

FetcherRuns ==
    /\ DownloadBegins \/ DownloadEnds
    /\ UNCHANGED <<screen, frameTimer, clockVars, spectrumVars>>

TftNext == ControllerShows \/ ReportsAgain \/ OnFrame \/ CoverArrives \/ FetcherRuns \/ Tick

\* The event loop and the fetcher's thread keep going; nothing else has to happen.
TftSpec == TftInit /\ [][TftNext]_tftVars /\ WF_tftVars(OnFrame)
                   /\ WF_tftVars(CoverArrives) /\ WF_tftVars(FetcherRuns)

----------------------------------------------------------------------------
(* Properties.                                                             *)

\* Whatever moves on the screen has a frame under way: no order of screens,
\* frames and covers leaves a clock, a bar or a line standing still.
FramesWhileMoving == Animating(screen, Idle(bar, peak)) => frameTimer

\* The clock shows the position reported last and the time played since: pauses, other
\* news and the Station List in between neither lose time nor add any.  Until the next
\* screen with another position this excepts the position reported again, which the
\* code doesn't hear of, although tft_view.cpp:122 has it that "the Engine's position
\* is the truth whenever it reports one".
ClockRunsTrue == ~repeated => Elapsed = truth

\* A screen without anything moving, once it stays, ends the frames: the bars and
\* their peaks fall all the way.
Still(s) == ~Scrolls(s) /\ s.status = "Stopped"

FramesStop == <>[]Still(screen) => <>[]~frameTimer

\* A cover that stays on the screen arrives and stays cached, whatever was asked
\* for and evicted before.
CoverComes ==
    \A url \in Covers : <>[](CoverOf(screen) = url) => <>[](url \in ToSet(coverOrder))

=============================================================================
