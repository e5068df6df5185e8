-------------------------- MODULE PlayerController --------------------------
(***************************************************************************)
(* The core of the Deck: PlayerController (src/src/core), the object that  *)
(* owns the Source, reacts to the panel's buttons and to what the two      *)
(* Engines report, and tells the Engines, the panel, the Station memory    *)
(* and the system what to do.  It runs on one event loop, so each handler  *)
(* is one action; a press the code ignores is a stuttering step.  Only     *)
(* onEjectHeld, whose calls must come in order because the power may fail  *)
(* after any of them, is one action per call; no other handler runs        *)
(* between them.                                                           *)
(*                                                                         *)
(* The environment is open: any event may arrive at any time.  Modules     *)
(* that add an environment (Deck, EjectTimer) reuse the handlers.          *)
(*                                                                         *)
(* Beside the controller's fields the model keeps what its collaborators   *)
(* were told: `engineCall' is the call to the EngineClient made by the     *)
(* last handler (no handler makes two), `radio' the fields the RadioClient *)
(* sets synchronously, `toSave' what the StationMemory was last asked to   *)
(* remember, `remembered' what it holds and `poweroffs' the Safe Shutdowns *)
(* requested since the controller started.                                 *)
(***************************************************************************)
EXTENDS Integers

CONSTANTS
    NumStations,    \* stations_.size(); Stations are positions 0..NumStations-1
    Remembered,     \* what the state file may hold at first: positions, or None
    Tracks,         \* Spotify tracks, as reported (artist, title, cover, duration)
    NoTrack,        \* spotifyTrack_ is empty
    Positions,      \* positions in a track
    Titles,         \* non-empty stream titles
    NoTitle         \* the empty stream title

None == -1          \* an empty std::optional<std::size_t>

ASSUME NumStationsAssumption == NumStations \in Nat
ASSUME RememberedAssumption  == Remembered \subseteq Nat \cup {None}
ASSUME PositionsAssumption   == Positions \subseteq Nat /\ 0 \in Positions

VARIABLES
    source,                 \* source_
    shuttingDown,           \* shuttingDown_
    shutdownStep,           \* what onEjectHeld does next
    ejectTimer,             \* ejectTimer_.has_value()
    spotify,                \* spotifyActive_ ... spotifyPosition_
    resumeSpotifyOnReturn,  \* resumeSpotifyOnReturn_
    tunedStation,           \* tunedStation_
    radioPlaying,           \* radioPlaying_
    streamTitle,            \* streamTitle_
    stationListOpen,        \* stationListOpen_
    stationListSelection,   \* stationListSelection_
    shown,                  \* shown*_: what the panel was last told to show
    engineCall, radio, toSave, remembered, poweroffs,   \* the collaborators
    ejectDown               \* the Eject button, as the panel reports it

radioVars   == <<tunedStation, radioPlaying, streamTitle, radio>>
listVars    == <<stationListOpen, stationListSelection>>
sourceVars  == <<source, resumeSpotifyOnReturn>>
memoryVars  == <<toSave, remembered>>
ejectVars   == <<shuttingDown, shutdownStep, ejectTimer, ejectDown, memoryVars, poweroffs>>
vars == <<source, shuttingDown, shutdownStep, ejectTimer, spotify,
          resumeSpotifyOnReturn, tunedStation, radioPlaying, streamTitle,
          stationListOpen, stationListSelection, shown, engineCall, radio,
          toSave, remembered, poweroffs, ejectDown>>

Stations    == 0 .. NumStations - 1
Sources     == {"Stopped", "Spotify", "Radio"}
Buttons     == {"Previous", "Play", "Pause", "Stop", "Next", "Shuffle", "Repeat"}
NoCall      == "none"
EngineCalls == {NoCall, "play", "pause", "next", "previous",
                "shuffleOn", "shuffleOff", "repeatOn", "repeatOff"}

----------------------------------------------------------------------------
(* The panel, as a function of the controller's fields.                    *)

\* lcdText(): what scrolls across the LCD, before joinWithDash.
LcdText ==
    IF shuttingDown
    THEN [line |-> "Shutting down"]
    ELSE CASE source = "Spotify" -> [line |-> "Spotify", track |-> spotify.track]
           [] source = "Radio"   -> [line |-> "Radio", station |-> tunedStation,
                                     title |-> streamTitle]
           [] OTHER              -> [line |-> ""]

\* The status a Now Playing screen shows for a Source that has something loaded.
Status(playing) == IF playing THEN "Playing" ELSE "Paused"

\* screen(): the Station List while it is open, Now Playing otherwise.
Screen ==
    IF stationListOpen
    THEN [screen |-> "StationList", selection |-> stationListSelection,
          tuned |-> tunedStation]
    ELSE CASE source = "Spotify" /\ spotify.active ->
                [screen |-> "Spotify", status |-> Status(spotify.playing),
                 track |-> spotify.track,
                 position |-> IF spotify.track = NoTrack THEN 0 ELSE spotify.position]
           [] source = "Radio" /\ tunedStation # None ->
                [screen |-> "Radio", status |-> Status(radioPlaying),
                 station |-> tunedStation, title |-> streamTitle]
           [] OTHER -> [screen |-> "Idle", source |-> source]

Panel == [shuffleLed |-> source = "Spotify" /\ spotify.shuffle,
          repeatLed  |-> \/ source = "Spotify" /\ spotify.repeat
                         \/ source = "Radio" /\ stationListOpen,
          lcd        |-> LcdText,
          screen     |-> Screen]

\* refreshPanel(): pushes whatever changed, so the panel shows the new state.
RefreshPanel == shown' = Panel'

----------------------------------------------------------------------------
(* Helpers the handlers share.                                             *)

\* stepStation(): one Station on or back, wrapping round the ends.
StepStation(from, forward) ==
    IF forward THEN (from + 1) % NumStations
               ELSE (from + NumStations - 1) % NumStations

\* Mutation of LastStation: believes whatever position the state file holds.
LastStationUnchecked == IF remembered # None THEN remembered ELSE 0

\* lastStation(): the remembered position, or the first if the list got shorter.
LastStation ==
    IF remembered \in Stations THEN remembered ELSE 0

\* Mutation of Tune: forgets that tuning ends a pause.
TuneStillPaused(station, muted) ==
    /\ tunedStation' = station
    /\ streamTitle' = NoTitle
    /\ radio' = [station |-> station, paused |-> FALSE, muted |-> muted]
    /\ UNCHANGED radioPlaying

\* tune() on a RadioClient that is left muted or not.
Tune(station, muted) ==
    /\ tunedStation' = station
    /\ radioPlaying' = TRUE
    /\ streamTitle' = NoTitle
    /\ radio' = [station |-> station, paused |-> FALSE, muted |-> muted]

\* Mutation of LeaveRadio: the Station List survives the switch.
LeaveRadioListOpen ==
    /\ radio' = IF source = "Radio" THEN [radio EXCEPT !.muted = TRUE] ELSE radio
    /\ UNCHANGED stationListOpen

\* What switchSource does to the Radio, if that is the Source it leaves.
LeaveRadio ==
    IF source = "Radio"
    THEN /\ radio' = [radio EXCEPT !.muted = TRUE]
         /\ stationListOpen' = FALSE
    ELSE UNCHANGED <<radio, stationListOpen>>

\* Mutation of SwitchToSpotify: keeps resumeSpotifyOnReturn_ for the next time.
SwitchToSpotifyKeepingResume(resume) ==
    /\ source' = "Spotify"
    /\ engineCall' = IF resume THEN "play" ELSE NoCall
    /\ LeaveRadio
    /\ UNCHANGED <<resumeSpotifyOnReturn, tunedStation, radioPlaying, streamTitle,
                   stationListSelection>>

\* switchSource(Source::Spotify), with resumeSpotifyOnReturn_ = resume.
SwitchToSpotify(resume) ==
    /\ source' = "Spotify"
    /\ resumeSpotifyOnReturn' = FALSE
    /\ engineCall' = IF resume THEN "play" ELSE NoCall
    /\ LeaveRadio
    /\ UNCHANGED <<tunedStation, radioPlaying, streamTitle, stationListSelection>>

\* Mutation of LeaveSpotify: expects Spotify to fall silent by itself.
LeaveSpotifyPlaying ==
    /\ resumeSpotifyOnReturn' = spotify.playing
    /\ engineCall' = NoCall

\* What switchSource does to Spotify: it is muted by pausing it.
LeaveSpotify ==
    /\ resumeSpotifyOnReturn' = spotify.playing
    /\ engineCall' = IF spotify.playing THEN "pause" ELSE NoCall

\* switchSource(Source::Radio); the only way to Radio is from Spotify.
SwitchToRadio ==
    /\ source' = "Radio"
    /\ LeaveSpotify
    /\ IF tunedStation = None /\ NumStations > 0
       THEN Tune(LastStation, FALSE)
       ELSE /\ radio' = [radio EXCEPT !.muted = FALSE]
            /\ UNCHANGED <<tunedStation, radioPlaying, streamTitle>>
    /\ UNCHANGED listVars

----------------------------------------------------------------------------
(* Buttons other than Eject: onButtonPressed.                              *)

\* handleSpotifyButton: the modes toggle from the state last reported.
SpotifyButtonPressed(button) ==
    /\ ~shuttingDown /\ source = "Spotify"
    /\ \/ button = "Play"     /\ engineCall' = "play"
       \/ button = "Pause"    /\ engineCall' = "pause"
       \/ button = "Next"     /\ engineCall' = "next"
       \/ button = "Previous" /\ engineCall' = "previous"
       \/ button = "Shuffle"  /\ engineCall' = IF spotify.shuffle THEN "shuffleOff"
                                                                  ELSE "shuffleOn"
       \/ button = "Repeat"   /\ engineCall' = IF spotify.repeat THEN "repeatOff"
                                                                 ELSE "repeatOn"
    /\ UNCHANGED <<sourceVars, ejectVars, radioVars, listVars, spotify>>
    /\ RefreshPanel

\* RadioClient::resume() and pause(), with radioPlaying_ following.
SetRadioPlaying(playing) ==
    /\ radioPlaying' = playing
    /\ radio' = [radio EXCEPT !.paused = ~playing]
    /\ UNCHANGED <<tunedStation, streamTitle>>

\* Shuffle: some Station other than the tuned one.
ShufflePick(pick) == IF pick >= tunedStation THEN pick + 1 ELSE pick

\* handleRadioButton, while the Station List is closed.
RadioButtonPressed(button) ==
    /\ ~shuttingDown /\ source = "Radio" /\ ~stationListOpen
    /\ tunedStation # None
    /\ \/ /\ button \in {"Play", "Pause"}
          /\ SetRadioPlaying(button = "Play")
          /\ UNCHANGED listVars
       \/ /\ button \in {"Next", "Previous"}
          /\ Tune(StepStation(tunedStation, button = "Next"), radio.muted)
          /\ UNCHANGED listVars
       \/ /\ button = "Shuffle"
          /\ \E pick \in 0 .. NumStations - 2 : Tune(ShufflePick(pick), radio.muted)
          /\ UNCHANGED listVars
       \/ /\ button = "Repeat"
          /\ stationListOpen' = TRUE
          /\ stationListSelection' = tunedStation
          /\ UNCHANGED radioVars
    /\ engineCall' = NoCall
    /\ UNCHANGED <<sourceVars, ejectVars, spotify>>
    /\ RefreshPanel

\* handleStationListButton: the buttons while the Station List is open.
StationListButtonPressed(button) ==
    /\ ~shuttingDown /\ source = "Radio" /\ stationListOpen
    /\ \/ /\ button \in {"Next", "Previous"}
          /\ stationListSelection' = StepStation(stationListSelection, button = "Next")
          /\ UNCHANGED <<radioVars, stationListOpen>>
       \/ /\ button = "Play"
          /\ IF stationListSelection # tunedStation
             THEN Tune(stationListSelection, radio.muted)
             ELSE SetRadioPlaying(TRUE)
          /\ stationListOpen' = FALSE
          /\ UNCHANGED stationListSelection
       \/ /\ button = "Repeat"
          /\ stationListOpen' = FALSE
          /\ UNCHANGED <<radioVars, stationListSelection>>
    /\ engineCall' = NoCall
    /\ UNCHANGED <<sourceVars, ejectVars, spotify>>
    /\ RefreshPanel

----------------------------------------------------------------------------
(* Eject: a short press switches the Source on release, a long one shuts   *)
(* the Deck down when the timer fires.  The panel reports presses and      *)
(* releases alternately.                                                   *)

\* onButtonPressed(Eject): arms the timer.
EjectPressed ==
    /\ ~ejectDown
    /\ ejectDown' = TRUE
    /\ ejectTimer' = (ejectTimer \/ ~shuttingDown)
    /\ engineCall' = NoCall
    /\ UNCHANGED <<sourceVars, radioVars, listVars, spotify, shown,
                   shuttingDown, shutdownStep, memoryVars, poweroffs>>

\* Mutation of ShortPress: leaves the timer running.
ShortPressTimerRunning ==
    /\ ejectTimer /\ ~shuttingDown
    /\ IF source = "Spotify" THEN SwitchToRadio
                             ELSE SwitchToSpotify(resumeSpotifyOnReturn)
    /\ UNCHANGED ejectTimer

\* The release of a press whose timer is still armed: a short press.
ShortPress ==
    /\ ejectTimer /\ ~shuttingDown
    /\ ejectTimer' = FALSE
    /\ IF source = "Spotify" THEN SwitchToRadio
                             ELSE SwitchToSpotify(resumeSpotifyOnReturn)

\* onButtonReleased(Eject).
EjectReleased ==
    /\ ejectDown
    /\ ejectDown' = FALSE
    /\ UNCHANGED <<spotify, shuttingDown, shutdownStep, memoryVars, poweroffs>>
    /\ \/ ShortPress /\ RefreshPanel
       \/ /\ ~ejectTimer \/ shuttingDown
          /\ engineCall' = NoCall
          /\ UNCHANGED <<sourceVars, radioVars, listVars, shown, ejectTimer>>

\* onEjectHeld(), whenever the event loop calls it: first of all the panel says so.
OnEjectHeld ==
    /\ ejectTimer' = FALSE
    /\ shuttingDown' = TRUE
    /\ shutdownStep' = "save"
    /\ engineCall' = NoCall
    /\ UNCHANGED <<sourceVars, radioVars, listVars, spotify, ejectDown, memoryVars, poweroffs>>
    /\ RefreshPanel

\* With a Scheduler whose cancelled timers never fire, as PlayerController expects.
EjectHeld == ejectTimer /\ OnEjectHeld

\* Next, the Station tuned this run; a save that fails leaves the old content.
SavesStation ==
    /\ shutdownStep = "save"
    /\ shutdownStep' = "poweroff"
    /\ IF tunedStation # None
       THEN toSave' = tunedStation /\ remembered' \in {remembered, tunedStation}
       ELSE UNCHANGED memoryVars
    /\ engineCall' = NoCall
    /\ UNCHANGED <<sourceVars, radioVars, listVars, spotify, shown,
                   shuttingDown, ejectTimer, ejectDown, poweroffs>>

\* Mutation of RequestsPoweroff: doesn't wait for the save.
PoweroffBeforeSave ==
    /\ shutdownStep \in {"save", "poweroff"}
    /\ shutdownStep' = "done"
    /\ poweroffs' = poweroffs + 1
    /\ engineCall' = NoCall
    /\ UNCHANGED <<sourceVars, radioVars, listVars, spotify, shown,
                   shuttingDown, ejectTimer, ejectDown, memoryVars>>

\* And last safeShutdown().
RequestsPoweroff ==
    /\ shutdownStep = "poweroff"
    /\ shutdownStep' = "done"
    /\ poweroffs' = poweroffs + 1
    /\ engineCall' = NoCall
    /\ UNCHANGED <<sourceVars, radioVars, listVars, spotify, shown,
                   shuttingDown, ejectTimer, ejectDown, memoryVars>>

EjectHeldGoesOn == SavesStation \/ RequestsPoweroff

\* No other handler runs before onEjectHeld returned.
LoopFree == shutdownStep \in {"none", "done"}

----------------------------------------------------------------------------
(* What the Engines report.                                                *)

AudibleHere(session) == session.active /\ session.playing

\* autoSwitchToSpotify(): Spotify is playing already, there is nothing to resume.
AutoSwitchToSpotify == SwitchToSpotify(FALSE)

\* Mutation of AutoSwitches: any report of Spotify playing here switches.
AutoSwitchesOnEveryReport(session) ==
    AudibleHere(session) /\ source # "Spotify" /\ ~shuttingDown

\* Mutation of AutoSwitches: only a session that comes to this Deck counts.
AutoSwitchesOnTakeover(session) ==
    session.active /\ ~spotify.active /\ source # "Spotify" /\ ~shuttingDown

\* Mutation of AutoSwitches: a phone can still take over during Safe Shutdown.
AutoSwitchesWhileShuttingDown(session) ==
    AudibleHere(session) /\ ~AudibleHere(spotify) /\ source # "Spotify"

\* updateSpotifyAudibleHere: only a transition into "playing on this Deck" counts.
AutoSwitches(session) ==
    /\ AudibleHere(session) /\ ~AudibleHere(spotify)
    /\ source # "Spotify" /\ ~shuttingDown

\* A report that turns `spotify' into `session'; `resume' is
\* resumeSpotifyOnReturn_ by the time updateSpotifyAudibleHere runs.
SpotifyReports(session, resume) ==
    /\ spotify' = session
    /\ IF AutoSwitches(session)
       THEN AutoSwitchToSpotify
       ELSE /\ resumeSpotifyOnReturn' = resume
            /\ engineCall' = NoCall
            /\ UNCHANGED <<source, radioVars, listVars>>
    /\ UNCHANGED ejectVars
    /\ RefreshPanel

\* Mutation of SessionGone: playback that moved away still counts as playing.
SessionGoneStillPlaying ==
    [spotify EXCEPT !.active = FALSE, !.track = NoTrack, !.position = 0]

\* What is left of the session when playback moves to another device.
SessionGone ==
    [spotify EXCEPT !.active = FALSE, !.playing = FALSE,
                    !.track = NoTrack, !.position = 0]

\* Mutation of SpotifyActiveChanged: remembers to resume a session that is gone.
SpotifyActiveChangedKeepingResume(active) ==
    SpotifyReports(IF active THEN [spotify EXCEPT !.active = TRUE] ELSE SessionGone,
                   resumeSpotifyOnReturn)

\* onSpotifyActiveChanged: with the session gone there is nothing to come back to.
SpotifyActiveChanged(active) ==
    IF active
    THEN SpotifyReports([spotify EXCEPT !.active = TRUE], resumeSpotifyOnReturn)
    ELSE SpotifyReports(SessionGone, FALSE)

\* onSpotifyPlayingChanged.
SpotifyPlayingChanged(playing) ==
    SpotifyReports([spotify EXCEPT !.playing = playing], resumeSpotifyOnReturn)

\* The reports that only change what the panel shows.
SpotifyDetailChanged(session) ==
    /\ spotify' = session
    /\ engineCall' = NoCall
    /\ UNCHANGED <<sourceVars, ejectVars, radioVars, listVars>>
    /\ RefreshPanel

\* onSpotifyTrackChanged.
SpotifyTrackChanged(track) ==
    SpotifyDetailChanged([spotify EXCEPT !.track = track, !.position = 0])

\* onSpotifyPositionChanged.
SpotifyPositionChanged(position) ==
    SpotifyDetailChanged([spotify EXCEPT !.position = position])

\* onSpotifyShuffleChanged.
SpotifyShuffleChanged(enabled) ==
    SpotifyDetailChanged([spotify EXCEPT !.shuffle = enabled])

\* onSpotifyRepeatChanged.
SpotifyRepeatChanged(enabled) ==
    SpotifyDetailChanged([spotify EXCEPT !.repeat = enabled])

\* Mutation of StreamTitleChanged: no refresh while the Station List covers the title.
StreamTitleChangedUnderList(title) ==
    /\ streamTitle' = title
    /\ engineCall' = NoCall
    /\ UNCHANGED <<sourceVars, ejectVars, listVars, spotify, tunedStation,
                   radioPlaying, radio>>
    /\ IF stationListOpen THEN UNCHANGED shown ELSE RefreshPanel

\* onStreamTitleChanged.
StreamTitleChanged(title) ==
    /\ streamTitle' = title
    /\ engineCall' = NoCall
    /\ UNCHANGED <<sourceVars, ejectVars, listVars, spotify, tunedStation,
                   radioPlaying, radio>>
    /\ RefreshPanel

----------------------------------------------------------------------------
(* One run of the program: the state file is all it inherits.              *)

\* The fields of a new controller, after start(): the Radio muted, the panel drawn.
Init ==
    /\ source = "Stopped"
    /\ shuttingDown = FALSE
    /\ shutdownStep = "none"
    /\ ejectTimer = FALSE
    /\ spotify = [active |-> FALSE, playing |-> FALSE, shuffle |-> FALSE,
                  repeat |-> FALSE, track |-> NoTrack, position |-> 0]
    /\ resumeSpotifyOnReturn = FALSE
    /\ tunedStation = None
    /\ radioPlaying = FALSE
    /\ streamTitle = NoTitle
    /\ stationListOpen = FALSE
    /\ stationListSelection = 0
    /\ engineCall = NoCall
    /\ radio = [station |-> None, paused |-> FALSE, muted |-> TRUE]
    /\ toSave = None
    /\ remembered \in Remembered
    /\ poweroffs = 0
    /\ ejectDown = FALSE
    /\ shown = Panel

ButtonPressed(button) ==
    \/ SpotifyButtonPressed(button)
    \/ RadioButtonPressed(button)
    \/ StationListButtonPressed(button)

EngineReport ==
    \/ \E active \in BOOLEAN : SpotifyActiveChanged(active)
    \/ \E playing \in BOOLEAN : SpotifyPlayingChanged(playing)
    \/ \E track \in Tracks : SpotifyTrackChanged(track)
    \/ \E position \in Positions : SpotifyPositionChanged(position)
    \/ \E enabled \in BOOLEAN : SpotifyShuffleChanged(enabled)
    \/ \E enabled \in BOOLEAN : SpotifyRepeatChanged(enabled)
    \/ \E title \in Titles \cup {NoTitle} : StreamTitleChanged(title)

Next ==
    \/ /\ LoopFree
       /\ \/ \E button \in Buttons : ButtonPressed(button)
          \/ EjectPressed
          \/ EjectReleased
          \/ EjectHeld
          \/ EngineReport
    \/ EjectHeldGoesOn

Spec == Init /\ [][Next]_vars

----------------------------------------------------------------------------
(* Properties.                                                             *)

SpotifyState == [active : BOOLEAN, playing : BOOLEAN, shuffle : BOOLEAN,
                 repeat : BOOLEAN, track : Tracks \cup {NoTrack},
                 position : Positions]

\* Every field has its type; positions are positions in the Station list.
TypeOK ==
    /\ source \in Sources
    /\ shutdownStep \in {"none", "save", "poweroff", "done"}
    /\ shuttingDown \in BOOLEAN /\ ejectTimer \in BOOLEAN /\ ejectDown \in BOOLEAN
    /\ spotify \in SpotifyState
    /\ resumeSpotifyOnReturn \in BOOLEAN
    /\ tunedStation \in Stations \cup {None}
    /\ radioPlaying \in BOOLEAN
    /\ streamTitle \in Titles \cup {NoTitle}
    /\ stationListOpen \in BOOLEAN
    /\ stationListSelection \in Stations \cup {0}
    /\ engineCall \in EngineCalls
    /\ radio \in [station : Stations \cup {None}, paused : BOOLEAN, muted : BOOLEAN]
    /\ toSave \in Stations \cup {None}
    /\ remembered \in Nat \cup {None}
    /\ poweroffs \in Nat

\* The Station List is open only over a tuned Radio, whatever the presses,
\* switches and auto-switches before: screen() and handleStationListButton
\* dereference tunedStation_ whenever it is open.
ListNeedsStation ==
    stationListOpen => source = "Radio" /\ tunedStation # None

\* What the RadioClient was told agrees with what the controller believes and
\* shows: it may be heard exactly while Radio is the Source, on the tuned
\* Station, paused exactly when the panel says so.
RadioAgrees ==
    /\ radio.muted <=> source # "Radio"
    /\ radio.station = tunedStation
    /\ tunedStation # None => (radio.paused <=> ~radioPlaying)

\* Spotify is to be resumed on return only while it is switched away from.
ResumeOnlyWhileAway == resumeSpotifyOnReturn => source = "Radio"

\* The panel shows the state after every handler, and between the calls of
\* onEjectHeld: no path forgets to refresh it.
PanelCurrent == shown = Panel

\* At most one Safe Shutdown is requested per run of the program.  The panel says
\* so before the Station is saved, and the memory was asked for the Station that is
\* tuned before the poweroff: it may take the program down with it.
OneAnnouncedPoweroff ==
    /\ poweroffs <= 1
    /\ shutdownStep # "none" => shown.lcd.line = "Shutting down"
    /\ poweroffs = 1 => toSave = tunedStation

\* The Source changes only on a short Eject
\* press, or to Spotify when a report makes Spotify audible on this Deck.
SourceChangesOnCue ==
    [][source' # source =>
         \/ ejectTimer /\ ~ejectTimer' /\ ejectDown /\ ~ejectDown'
         \/ /\ source' = "Spotify"
            /\ ~AudibleHere(spotify) /\ AudibleHere(spotify')]_vars

\* Safe Shutdown begins only while Eject is held: a press that was let go, and
\* switched the Source, doesn't shut the Deck down as well.
ShutsDownWhileHeld ==
    [][~shuttingDown /\ shuttingDown' => ejectDown]_vars

\* Once Safe Shutdown has begun nothing the user or the Engines do changes the
\* Source or the Radio, calls the Engine or arms the Eject timer again, and once
\* it was requested nothing is saved or requested again.
ShutdownIsFinal ==
    [][shuttingDown /\ shuttingDown' =>
         /\ UNCHANGED <<source, tunedStation, radioPlaying, radio,
                        stationListOpen>>
         /\ shutdownStep = "done" => UNCHANGED <<shutdownStep, memoryVars, poweroffs>>
         /\ engineCall' = NoCall
         /\ ~ejectTimer']_vars

=============================================================================
