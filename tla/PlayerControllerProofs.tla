----------------------- MODULE PlayerControllerProofs -----------------------
(***************************************************************************)
(* Theorems about PlayerController for every number of Stations and every  *)
(* content of the state file, none included; and about the Deck it is part *)
(* of, for any number of requests and events under way.                    *)
(***************************************************************************)
EXTENDS Deck, TLAPS

----------------------------------------------------------------------------
(* Lemmas about the Stations the controller picks.                         *)

\* Stepping from a Station, on or back, gives a Station.
LEMMA StepStationType ==
    ASSUME NEW from \in Stations, NEW forward
    PROVE  StepStation(from, forward) \in Stations
BY NumStationsAssumption, SMT DEF StepStation, Stations

\* With a Station to play, the one to start with is in the list.
LEMMA LastStationType ==
    ASSUME NumStations > 0
    PROVE  LastStation \in Stations
BY NumStationsAssumption DEF LastStation, Stations

\* Shuffle picks a Station of the list, and never the tuned one.
LEMMA ShufflePickType ==
    ASSUME tunedStation \in Stations, NEW pick \in 0 .. NumStations - 2
    PROVE  ShufflePick(pick) \in Stations /\ ShufflePick(pick) # tunedStation
BY NumStationsAssumption DEF ShufflePick, Stations

----------------------------------------------------------------------------
(* The inductive invariant.                                                *)

\* Safe Shutdown is requested when it has begun and the Station was saved, the
\* Eject timer can't begin it again, and it is armed only while Eject is held.
EjectInv ==
    /\ shuttingDown <=> shutdownStep # "none"
    /\ poweroffs = IF shutdownStep = "done" THEN 1 ELSE 0
    /\ toSave = IF shutdownStep \in {"poweroff", "done"} THEN tunedStation ELSE None
    /\ ejectTimer => ejectDown /\ ~shuttingDown

\* TypeOK isn't inductive alone: it is ListNeedsStation that keeps the selection
\* from stepping through an empty list.
IInv ==
    /\ TypeOK
    /\ ListNeedsStation
    /\ RadioAgrees
    /\ ResumeOnlyWhileAway
    /\ PanelCurrent
    /\ EjectInv

\* A new controller satisfies the invariant.
LEMMA InitIInv == Init => IInv
<1> SUFFICES ASSUME Init PROVE IInv
  OBVIOUS
<1>1. TypeOK
  BY RememberedAssumption, PositionsAssumption
  DEF Init, TypeOK, Sources, SpotifyState, EngineCalls, NoCall, None
<1>2. ListNeedsStation /\ RadioAgrees /\ ResumeOnlyWhileAway /\ EjectInv
  BY DEF Init, ListNeedsStation, RadioAgrees, ResumeOnlyWhileAway, EjectInv
<1>3. PanelCurrent
  BY DEF Init, PanelCurrent
<1> QED
  BY <1>1, <1>2, <1>3 DEF IInv

USE DEF None

\* handleSpotifyButton keeps the invariant.
LEMMA SpotifyButtonIInv ==
    ASSUME IInv, NEW button \in Buttons, SpotifyButtonPressed(button)
    PROVE  IInv'
<1> USE DEF SpotifyButtonPressed, sourceVars, ejectVars, memoryVars, radioVars, listVars
<1>1. TypeOK'
  <2>1. engineCall' \in EngineCalls
    BY DEF IInv, Buttons, EngineCalls
  <2> QED
    BY <2>1 DEF IInv, TypeOK
<1>2. ListNeedsStation' /\ RadioAgrees' /\ ResumeOnlyWhileAway' /\ EjectInv'
  BY DEF IInv, ListNeedsStation, RadioAgrees, ResumeOnlyWhileAway, EjectInv
<1>3. PanelCurrent'
  BY DEF RefreshPanel, PanelCurrent
<1> QED
  BY <1>1, <1>2, <1>3 DEF IInv

\* handleRadioButton keeps the invariant.
LEMMA RadioButtonIInv ==
    ASSUME IInv, NEW button \in Buttons, RadioButtonPressed(button)
    PROVE  IInv'
<1> USE DEF RadioButtonPressed, sourceVars, ejectVars, memoryVars, radioVars, listVars
<1>1. tunedStation \in Stations
  BY DEF IInv, TypeOK
<1>2. TypeOK' /\ ListNeedsStation' /\ RadioAgrees'
  <2> USE DEF IInv, TypeOK, ListNeedsStation, RadioAgrees
  <2>1. CASE button \in {"Play", "Pause"} /\ SetRadioPlaying(button = "Play") /\ UNCHANGED listVars
    BY <2>1 DEF SetRadioPlaying, EngineCalls, NoCall
  <2>2. CASE \E station \in Stations : Tune(station, radio.muted) /\ UNCHANGED listVars
    BY <2>2 DEF Tune, EngineCalls, NoCall, Stations
  <2>3. CASE button = "Repeat" /\ stationListOpen' = TRUE
             /\ stationListSelection' = tunedStation /\ UNCHANGED radioVars
    BY <1>1, <2>3 DEF EngineCalls, NoCall, Stations
  <2> QED
    BY <1>1, <2>1, <2>2, <2>3, StepStationType, ShufflePickType
<1>3. ResumeOnlyWhileAway' /\ EjectInv'
  BY DEF IInv, ResumeOnlyWhileAway, EjectInv
<1>4. PanelCurrent'
  BY DEF RefreshPanel, PanelCurrent
<1> QED
  BY <1>2, <1>3, <1>4 DEF IInv

\* handleStationListButton keeps the invariant.
LEMMA StationListButtonIInv ==
    ASSUME IInv, NEW button \in Buttons, StationListButtonPressed(button)
    PROVE  IInv'
<1> DEFINE Steps    == stationListSelection' \in Stations
                         /\ UNCHANGED <<radioVars, stationListOpen>>
           Resumes  == SetRadioPlaying(TRUE) /\ stationListOpen' = FALSE
                         /\ UNCHANGED stationListSelection
           Tunes    == Tune(stationListSelection, radio.muted)
                         /\ stationListOpen' = FALSE /\ UNCHANGED stationListSelection
           BacksOut == stationListOpen' = FALSE
                         /\ UNCHANGED <<radioVars, stationListSelection>>
<1>1. tunedStation \in Stations /\ stationListSelection \in Stations
  BY NumStationsAssumption
  DEF IInv, TypeOK, ListNeedsStation, StationListButtonPressed, Stations
<1>2. Steps \/ Resumes \/ Tunes \/ BacksOut
  BY <1>1, StepStationType DEF StationListButtonPressed
<1>3. /\ engineCall' \in EngineCalls /\ ~shuttingDown
      /\ UNCHANGED <<source, resumeSpotifyOnReturn, spotify>>
      /\ UNCHANGED <<shuttingDown, shutdownStep, ejectTimer, ejectDown>>
      /\ UNCHANGED <<toSave, remembered, poweroffs>>
  BY DEF StationListButtonPressed, EngineCalls, sourceVars, ejectVars, memoryVars
<1>4. TypeOK' /\ ListNeedsStation' /\ RadioAgrees'
  <2>1. /\ engineCall' \in EngineCalls /\ source' \in Sources /\ spotify' \in SpotifyState
        /\ shutdownStep' \in {"none", "save", "poweroff", "done"}
        /\ shuttingDown' \in BOOLEAN /\ ejectTimer' \in BOOLEAN /\ ejectDown' \in BOOLEAN
        /\ toSave' \in Stations \cup {None} /\ remembered' \in Nat \cup {None}
        /\ poweroffs' \in Nat /\ resumeSpotifyOnReturn' \in BOOLEAN
    BY <1>3 DEF IInv, TypeOK
  <2> DEFINE RadioKept ==
                 /\ tunedStation' \in Stations \cup {None} /\ radioPlaying' \in BOOLEAN
                 /\ streamTitle' \in Titles \cup {NoTitle} /\ stationListOpen' \in BOOLEAN
                 /\ stationListSelection' \in Stations \cup {0}
                 /\ radio' \in [station : Stations \cup {None}, paused : BOOLEAN, muted : BOOLEAN]
                 /\ ListNeedsStation' /\ RadioAgrees'
  <2>2. RadioKept
    <3> USE <1>3 DEF IInv, TypeOK, ListNeedsStation, RadioAgrees
    <3>1. CASE Steps
      BY <3>1 DEF radioVars
    <3>2. CASE Resumes
      BY <3>2 DEF SetRadioPlaying
    <3>3. CASE Tunes
      BY <1>1, <3>3 DEF Tune, Stations
    <3>4. CASE BacksOut
      BY <3>4 DEF radioVars
    <3> HIDE <1>3 DEF IInv, TypeOK, ListNeedsStation, RadioAgrees,
             Steps, Resumes, Tunes, BacksOut, RadioKept
    <3> QED
      BY <1>2, <3>1, <3>2, <3>3, <3>4
  <2> QED
    BY <2>1, <2>2 DEF TypeOK
<1>5. ResumeOnlyWhileAway' /\ EjectInv'
  BY <1>3 DEF IInv, ResumeOnlyWhileAway, EjectInv
<1>6. PanelCurrent'
  BY DEF StationListButtonPressed, RefreshPanel, PanelCurrent
<1> QED
  BY <1>4, <1>5, <1>6 DEF IInv

\* The switch itself, to either Source: what a handler that makes it can rely on.
LEMMA SwitchToSpotifyEffect ==
    ASSUME IInv, NEW resume \in BOOLEAN, SwitchToSpotify(resume)
    PROVE  /\ source' = "Spotify" /\ resumeSpotifyOnReturn' = FALSE
           /\ engineCall' \in EngineCalls
           /\ stationListOpen' = FALSE /\ stationListSelection' = stationListSelection
           /\ tunedStation' = tunedStation /\ radioPlaying' = radioPlaying
           /\ streamTitle' = streamTitle
           /\ radio' = [radio EXCEPT !.muted = TRUE]
<1>1. source # "Radio" => radio = [radio EXCEPT !.muted = TRUE] /\ stationListOpen = FALSE
  BY DEF IInv, TypeOK, RadioAgrees, ListNeedsStation
<1> QED
  BY <1>1 DEF SwitchToSpotify, LeaveRadio, EngineCalls, NoCall

\* The part of TypeOK and RadioAgrees that tuning disturbs.
RadioTyped ==
    /\ tunedStation \in Stations \cup {None}
    /\ radioPlaying \in BOOLEAN
    /\ streamTitle \in Titles \cup {NoTitle}
    /\ radio \in [station : Stations \cup {None}, paused : BOOLEAN, muted : BOOLEAN]
    /\ radio.station = tunedStation
    /\ tunedStation # None => (radio.paused <=> ~radioPlaying)

\* switchSource to Radio leaves it unmuted and consistent, tuned or not.
LEMMA SwitchToRadioEffect ==
    ASSUME IInv, SwitchToRadio
    PROVE  /\ source' = "Radio" /\ resumeSpotifyOnReturn' \in BOOLEAN
           /\ engineCall' \in EngineCalls
           /\ UNCHANGED listVars
           /\ RadioTyped' /\ ~radio.muted'
<1>1. /\ source' = "Radio" /\ resumeSpotifyOnReturn' \in BOOLEAN
      /\ engineCall' \in EngineCalls /\ UNCHANGED listVars
  BY DEF SwitchToRadio, LeaveSpotify, IInv, TypeOK, SpotifyState, EngineCalls, NoCall
<1>2. RadioTyped' /\ ~radio.muted'
  <2>1. CASE tunedStation = None /\ NumStations > 0
    <3>1. LastStation \in Stations /\ Tune(LastStation, FALSE)
      BY <2>1, LastStationType DEF SwitchToRadio
    <3>2. /\ tunedStation' \in Stations /\ radioPlaying' = TRUE /\ streamTitle' = NoTitle
          /\ radio' = [station |-> tunedStation', paused |-> FALSE, muted |-> FALSE]
      BY <3>1 DEF Tune
    <3> QED
      BY <3>2 DEF RadioTyped
  <2>2. CASE ~(tunedStation = None /\ NumStations > 0)
    <3>1. /\ radio' = [radio EXCEPT !.muted = FALSE]
          /\ UNCHANGED <<tunedStation, radioPlaying, streamTitle>>
      BY <2>2 DEF SwitchToRadio
    <3> QED
      BY <3>1 DEF IInv, TypeOK, RadioAgrees, RadioTyped
  <2> QED
    BY <2>1, <2>2
<1> QED
  BY <1>1, <1>2

\* An Eject press keeps the invariant.
LEMMA EjectPressedIInv ==
    ASSUME IInv, EjectPressed
    PROVE  IInv'
<1> USE DEF EjectPressed, memoryVars, sourceVars, radioVars, listVars
<1>1. TypeOK'
  BY DEF IInv, TypeOK, EngineCalls, NoCall
<1>2. ListNeedsStation' /\ RadioAgrees' /\ ResumeOnlyWhileAway' /\ EjectInv'
  BY DEF IInv, TypeOK, ListNeedsStation, RadioAgrees, ResumeOnlyWhileAway, EjectInv
<1>3. PanelCurrent'
  BY DEF IInv, PanelCurrent, Panel, LcdText, Screen, Status
<1> QED
  BY <1>1, <1>2, <1>3 DEF IInv

\* An Eject release, short press or not, keeps the invariant.
LEMMA EjectReleasedIInv ==
    ASSUME IInv, EjectReleased
    PROVE  IInv'
<1>1. CASE /\ ~ejectTimer \/ shuttingDown
           /\ engineCall' = NoCall /\ ejectDown' = FALSE
           /\ UNCHANGED <<spotify, shuttingDown, shutdownStep, memoryVars, poweroffs,
                          sourceVars, radioVars, listVars, shown, ejectTimer>>
  <2> USE <1>1 DEF memoryVars, sourceVars, radioVars, listVars
  <2>0. /\ shuttingDown' = shuttingDown /\ shutdownStep' = shutdownStep /\ toSave' = toSave
        /\ poweroffs' = poweroffs /\ tunedStation' = tunedStation /\ ejectTimer' = ejectTimer
        /\ ejectTimer => FALSE
    BY DEF IInv, EjectInv
  <2>1. TypeOK' /\ EjectInv'
    <3>1. TypeOK'
      <4>1. /\ source' = source /\ spotify' = spotify /\ radio' = radio
            /\ resumeSpotifyOnReturn' = resumeSpotifyOnReturn /\ remembered' = remembered
            /\ radioPlaying' = radioPlaying /\ streamTitle' = streamTitle
            /\ stationListOpen' = stationListOpen
            /\ stationListSelection' = stationListSelection
            /\ ejectDown' = FALSE /\ engineCall' = NoCall
        OBVIOUS
      <4>2. engineCall' \in EngineCalls /\ ejectDown' \in BOOLEAN
        BY <4>1 DEF EngineCalls, NoCall
      <4>3. TypeOK
        BY DEF IInv
      <4> QED
        BY ONLY <2>0, <4>1, <4>2, <4>3 DEF TypeOK
    <3>2. EjectInv'
      BY ONLY <2>0, IInv DEF IInv, EjectInv
    <3> QED
      BY <3>1, <3>2
  <2>2. ListNeedsStation' /\ RadioAgrees' /\ ResumeOnlyWhileAway'
    BY DEF IInv, ListNeedsStation, RadioAgrees, ResumeOnlyWhileAway
  <2>3. PanelCurrent'
    BY DEF IInv, PanelCurrent, Panel, LcdText, Screen, Status
  <2> QED
    BY <2>1, <2>2, <2>3 DEF IInv
<1>2. ASSUME ShortPress, RefreshPanel, ejectDown' = FALSE,
             UNCHANGED <<spotify, shuttingDown, shutdownStep, memoryVars, poweroffs>>
      PROVE  IInv'
  <2> USE DEF memoryVars
  <2>0. EjectInv'
    <3>1. ~shuttingDown /\ ~shuttingDown' /\ ejectTimer' = FALSE
      BY <1>2 DEF ShortPress
    <3>2. shutdownStep = "none" /\ toSave = None /\ poweroffs = 0
      BY <3>1 DEF IInv, EjectInv
    <3>3. shutdownStep' = "none" /\ toSave' = None /\ poweroffs' = 0
      BY <1>2, <3>2
    <3> QED
      BY <3>1, <3>3 DEF EjectInv
  <2>1. CASE source = "Spotify"
    <3>1. SwitchToRadio /\ ejectTimer' = FALSE
      BY <1>2, <2>1 DEF ShortPress
    <3>2. TypeOK'
      BY <1>2, <3>1, SwitchToRadioEffect DEF IInv, TypeOK, RadioTyped, listVars, Sources
    <3>3. ListNeedsStation' /\ RadioAgrees' /\ ResumeOnlyWhileAway'
      BY <2>1, <3>1, SwitchToRadioEffect
      DEF IInv, ListNeedsStation, RadioAgrees, RadioTyped, ResumeOnlyWhileAway, listVars
    <3>4. EjectInv' /\ PanelCurrent'
      BY <1>2, <2>0 DEF RefreshPanel, PanelCurrent
    <3> QED
      BY <3>2, <3>3, <3>4 DEF IInv
  <2>2. CASE source # "Spotify"
    <3>1. SwitchToSpotify(resumeSpotifyOnReturn) /\ ejectTimer' = FALSE
      BY <1>2, <2>2 DEF ShortPress
    <3>2. resumeSpotifyOnReturn \in BOOLEAN
      BY DEF IInv, TypeOK
    <3>3. TypeOK'
      BY <1>2, <3>1, <3>2, SwitchToSpotifyEffect DEF IInv, TypeOK, Sources
    <3>4. ListNeedsStation' /\ RadioAgrees' /\ ResumeOnlyWhileAway'
      BY <3>1, <3>2, SwitchToSpotifyEffect
      DEF IInv, TypeOK, ListNeedsStation, RadioAgrees, ResumeOnlyWhileAway
    <3>5. EjectInv' /\ PanelCurrent'
      BY <1>2, <2>0 DEF RefreshPanel, PanelCurrent
    <3> QED
      BY <3>3, <3>4, <3>5 DEF IInv
  <2> QED
    BY <2>1, <2>2
<1> QED
  BY <1>1, <1>2 DEF EjectReleased

\* onEjectHeld keeps the invariant, as long as its timer was armed.
LEMMA EjectHeldIInv ==
    ASSUME IInv, EjectHeld
    PROVE  IInv'
<1> USE DEF EjectHeld, OnEjectHeld, sourceVars, radioVars, listVars, memoryVars
<1>1. TypeOK'
  <2>1. /\ shutdownStep' = "save" /\ shuttingDown' = TRUE /\ ejectTimer' = FALSE
        /\ engineCall' = NoCall /\ UNCHANGED <<toSave, remembered, poweroffs, ejectDown>>
    OBVIOUS
  <2> QED
    BY <2>1 DEF IInv, TypeOK, EngineCalls, NoCall
<1>2. ListNeedsStation' /\ RadioAgrees' /\ ResumeOnlyWhileAway'
  BY DEF IInv, ListNeedsStation, RadioAgrees, ResumeOnlyWhileAway
<1>3. EjectInv'
  BY DEF IInv, TypeOK, EjectInv
<1>4. PanelCurrent'
  BY DEF RefreshPanel, PanelCurrent
<1> QED
  BY <1>1, <1>2, <1>3, <1>4 DEF IInv

\* The calls it makes next, the save and the poweroff, keep it as well.
LEMMA EjectHeldGoesOnIInv ==
    ASSUME IInv, EjectHeldGoesOn
    PROVE  IInv'
<1> USE DEF EjectHeldGoesOn, SavesStation, RequestsPoweroff, sourceVars, radioVars, listVars, memoryVars
<1>1. TypeOK'
  <2>1. remembered' \in Nat \cup {None} /\ toSave' \in Stations \cup {None} /\ poweroffs' \in Nat
    BY NumStationsAssumption DEF IInv, TypeOK, Stations
  <2> QED
    BY <2>1 DEF IInv, TypeOK, EngineCalls, NoCall
<1>2. ListNeedsStation' /\ RadioAgrees' /\ ResumeOnlyWhileAway'
  BY DEF IInv, ListNeedsStation, RadioAgrees, ResumeOnlyWhileAway
<1>3. EjectInv'
  <2>1. shuttingDown' = shuttingDown /\ ejectTimer' = ejectTimer /\ ejectDown' = ejectDown
        /\ tunedStation' = tunedStation
    OBVIOUS
  <2>2. CASE SavesStation
    BY <2>1, <2>2 DEF IInv, EjectInv
  <2>3. CASE RequestsPoweroff
    BY <2>1, <2>3 DEF IInv, EjectInv
  <2> QED
    BY <2>2, <2>3
<1>4. PanelCurrent'
  <2>1. /\ shown' = shown /\ source' = source /\ spotify' = spotify
        /\ shuttingDown' = shuttingDown /\ tunedStation' = tunedStation
        /\ radioPlaying' = radioPlaying /\ streamTitle' = streamTitle
        /\ stationListOpen' = stationListOpen
        /\ stationListSelection' = stationListSelection
    OBVIOUS
  <2>2. Panel' = Panel
    BY ONLY <2>1 DEF Panel, LcdText, Screen, Status
  <2> QED
    BY <2>1, <2>2 DEF IInv, PanelCurrent
<1> QED
  BY <1>1, <1>2, <1>3, <1>4 DEF IInv

\* A report that may auto-switch keeps the invariant.
LEMMA SpotifyReportsIInv ==
    ASSUME IInv, NEW session \in SpotifyState, NEW resume \in BOOLEAN,
           resume => resumeSpotifyOnReturn,
           SpotifyReports(session, resume)
    PROVE  IInv'
<1>1. spotify' = session /\ UNCHANGED ejectVars
  BY DEF SpotifyReports
<1>2. PanelCurrent' /\ EjectInv'
  <2>1. tunedStation' = tunedStation
    BY DEF SpotifyReports, AutoSwitchToSpotify, SwitchToSpotify, radioVars
  <2>2. /\ shuttingDown' = shuttingDown /\ shutdownStep' = shutdownStep /\ toSave' = toSave
        /\ poweroffs' = poweroffs /\ ejectTimer' = ejectTimer /\ ejectDown' = ejectDown
    BY <1>1 DEF ejectVars, memoryVars
  <2>3. EjectInv'
    BY ONLY <2>1, <2>2, IInv DEF IInv, EjectInv
  <2> QED
    BY <2>3 DEF SpotifyReports, RefreshPanel, PanelCurrent
<1>3. CASE SwitchToSpotify(FALSE)
  <2>1. TypeOK'
    BY <1>1, <1>3, SwitchToSpotifyEffect DEF IInv, TypeOK, Sources, ejectVars, memoryVars
  <2>2. ListNeedsStation' /\ RadioAgrees' /\ ResumeOnlyWhileAway'
    BY <1>3, SwitchToSpotifyEffect
    DEF IInv, TypeOK, ListNeedsStation, RadioAgrees, ResumeOnlyWhileAway
  <2> QED
    BY <1>2, <2>1, <2>2 DEF IInv
<1>4. CASE /\ resumeSpotifyOnReturn' = resume /\ engineCall' = NoCall
           /\ UNCHANGED <<source, radioVars, listVars>>
  <2>1. TypeOK'
    BY <1>1, <1>4
    DEF IInv, TypeOK, EngineCalls, NoCall, ejectVars, memoryVars, radioVars, listVars
  <2>2. ListNeedsStation' /\ RadioAgrees' /\ ResumeOnlyWhileAway'
    BY <1>4 DEF IInv, ListNeedsStation, RadioAgrees, ResumeOnlyWhileAway, radioVars, listVars
  <2> QED
    BY <1>2, <2>1, <2>2 DEF IInv
<1> QED
  BY <1>3, <1>4 DEF SpotifyReports, AutoSwitchToSpotify

\* A report that only changes the panel keeps the invariant.
LEMMA SpotifyDetailIInv ==
    ASSUME IInv, NEW session \in SpotifyState, SpotifyDetailChanged(session)
    PROVE  IInv'
<1> USE DEF SpotifyDetailChanged, sourceVars, ejectVars, memoryVars, radioVars, listVars
<1>1. TypeOK'
  BY DEF IInv, TypeOK, EngineCalls, NoCall
<1>2. ListNeedsStation' /\ RadioAgrees' /\ ResumeOnlyWhileAway' /\ EjectInv'
  BY DEF IInv, ListNeedsStation, RadioAgrees, ResumeOnlyWhileAway, EjectInv
<1>3. PanelCurrent'
  BY DEF RefreshPanel, PanelCurrent
<1> QED
  BY <1>1, <1>2, <1>3 DEF IInv

\* A stream title keeps the invariant.
LEMMA StreamTitleIInv ==
    ASSUME IInv, NEW title \in Titles \cup {NoTitle}, StreamTitleChanged(title)
    PROVE  IInv'
<1> USE DEF StreamTitleChanged, sourceVars, ejectVars, memoryVars, listVars
<1>1. TypeOK'
  BY DEF IInv, TypeOK, EngineCalls, NoCall
<1>2. ListNeedsStation' /\ RadioAgrees' /\ ResumeOnlyWhileAway' /\ EjectInv'
  BY DEF IInv, ListNeedsStation, RadioAgrees, ResumeOnlyWhileAway, EjectInv
<1>3. PanelCurrent'
  BY DEF RefreshPanel, PanelCurrent
<1> QED
  BY <1>1, <1>2, <1>3 DEF IInv

\* Whatever the Engines report keeps the invariant.
LEMMA EngineReportIInv ==
    ASSUME IInv, EngineReport
    PROVE  IInv'
<1>1. spotify \in SpotifyState /\ resumeSpotifyOnReturn \in BOOLEAN
  BY DEF IInv, TypeOK
<1>2. ASSUME NEW active \in BOOLEAN, SpotifyActiveChanged(active) PROVE IInv'
  <2>1. CASE active
    <3>1. [spotify EXCEPT !.active = TRUE] \in SpotifyState
      BY <1>1 DEF SpotifyState
    <3> QED
      BY <1>1, <1>2, <2>1, <3>1, SpotifyReportsIInv DEF SpotifyActiveChanged
  <2>2. CASE ~active
    <3>1. SessionGone \in SpotifyState
      BY <1>1, PositionsAssumption DEF SessionGone, SpotifyState
    <3> QED
      BY <1>2, <2>2, <3>1, SpotifyReportsIInv DEF SpotifyActiveChanged
  <2> QED
    BY <2>1, <2>2
<1>3. ASSUME NEW playing \in BOOLEAN, SpotifyPlayingChanged(playing) PROVE IInv'
  <2>1. [spotify EXCEPT !.playing = playing] \in SpotifyState
    BY <1>1 DEF SpotifyState
  <2> QED
    BY <1>1, <1>3, <2>1, SpotifyReportsIInv DEF SpotifyPlayingChanged
<1>4. ASSUME NEW track \in Tracks, SpotifyTrackChanged(track) PROVE IInv'
  <2>1. [spotify EXCEPT !.track = track, !.position = 0] \in SpotifyState
    BY <1>1, PositionsAssumption DEF SpotifyState
  <2> QED
    BY <1>4, <2>1, SpotifyDetailIInv DEF SpotifyTrackChanged
<1>5. ASSUME NEW position \in Positions, SpotifyPositionChanged(position) PROVE IInv'
  <2>1. [spotify EXCEPT !.position = position] \in SpotifyState
    BY <1>1 DEF SpotifyState
  <2> QED
    BY <1>5, <2>1, SpotifyDetailIInv DEF SpotifyPositionChanged
<1>6. ASSUME NEW enabled \in BOOLEAN, SpotifyShuffleChanged(enabled) PROVE IInv'
  <2>1. [spotify EXCEPT !.shuffle = enabled] \in SpotifyState
    BY <1>1 DEF SpotifyState
  <2> QED
    BY <1>6, <2>1, SpotifyDetailIInv DEF SpotifyShuffleChanged
<1>7. ASSUME NEW enabled \in BOOLEAN, SpotifyRepeatChanged(enabled) PROVE IInv'
  <2>1. [spotify EXCEPT !.repeat = enabled] \in SpotifyState
    BY <1>1 DEF SpotifyState
  <2> QED
    BY <1>7, <2>1, SpotifyDetailIInv DEF SpotifyRepeatChanged
<1> QED
  BY <1>2, <1>3, <1>4, <1>5, <1>6, <1>7, StreamTitleIInv DEF EngineReport

\* So does doing nothing.
LEMMA StutterIInv == IInv /\ UNCHANGED vars => IInv'
<1> SUFFICES ASSUME IInv, UNCHANGED vars PROVE IInv'
  OBVIOUS
<1> USE DEF vars
<1>1. TypeOK' /\ ListNeedsStation' /\ RadioAgrees'
  BY DEF IInv, TypeOK, ListNeedsStation, RadioAgrees
<1>2. ResumeOnlyWhileAway' /\ EjectInv'
  BY DEF IInv, ResumeOnlyWhileAway, EjectInv
<1>3. PanelCurrent'
  BY DEF IInv, PanelCurrent, Panel, LcdText, Screen, Status
<1> QED
  BY <1>1, <1>2, <1>3 DEF IInv

\* Every step keeps the invariant.
LEMMA NextIInv == IInv /\ [Next]_vars => IInv'
BY SpotifyButtonIInv, RadioButtonIInv, StationListButtonIInv, EjectPressedIInv,
   EjectReleasedIInv, EjectHeldIInv, EjectHeldGoesOnIInv, EngineReportIInv, StutterIInv
DEF Next, ButtonPressed

----------------------------------------------------------------------------
(* Theorems.                                                               *)

\* The inductive invariant holds in every reachable state.
THEOREM Inductive == Spec => []IInv
BY InitIInv, NextIInv, PTL DEF Spec

\* Every field keeps its type, for every list of Stations.
THEOREM TypeCorrect == Spec => []TypeOK
BY Inductive, PTL DEF IInv

\* The Station List is only ever open over a tuned Radio, so the tunedStation_
\* that screen() and handleStationListButton dereference is never empty.
THEOREM ListIsSafe == Spec => []ListNeedsStation
BY Inductive, PTL DEF IInv

\* What the RadioClient was told never parts from what the controller believes.
THEOREM RadioAgreement == Spec => []RadioAgrees
BY Inductive, PTL DEF IInv

\* Spotify is only to be resumed while it is switched away from, so no later
\* switch, short press or auto-switch finds a stale wish to resume it.
THEOREM ResumeIsForReturn == Spec => []ResumeOnlyWhileAway
BY Inductive, PTL DEF IInv

\* The panel shows the current state after every handler.
THEOREM PanelIsCurrent == Spec => []PanelCurrent
BY Inductive, PTL DEF IInv

\* A Safe Shutdown is requested once at most, after the panel said so and after the
\* memory was asked to keep the tuned Station.
THEOREM PoweroffIsAnnounced == Spec => []OneAnnouncedPoweroff
<1>1. IInv => OneAnnouncedPoweroff
  <2> SUFFICES ASSUME IInv PROVE OneAnnouncedPoweroff
    OBVIOUS
  <2>1. poweroffs <= 1 /\ (poweroffs = 1 => toSave = tunedStation)
    BY DEF IInv, EjectInv
  <2>2. ASSUME shutdownStep # "none" PROVE shown.lcd.line = "Shutting down"
    <3>1. shuttingDown
      BY <2>2 DEF IInv, EjectInv
    <3>2. LcdText = [line |-> "Shutting down"]
      BY <3>1 DEF LcdText
    <3>3. shown.lcd = LcdText
      BY DEF IInv, PanelCurrent, Panel
    <3>4. LcdText.line = "Shutting down"
      BY <3>2
    <3> QED
      BY <3>3, <3>4
  <2> QED
    BY <2>1, <2>2 DEF OneAnnouncedPoweroff
<1> QED
  BY <1>1, Inductive, PTL

\* Only a short Eject press, or Spotify becoming audible here, moves the Source.
THEOREM SourceMovesOnCue == Spec => SourceChangesOnCue
<1> DEFINE Cue == \/ ejectTimer /\ ~ejectTimer' /\ ejectDown /\ ~ejectDown'
                  \/ /\ source' = "Spotify"
                     /\ ~AudibleHere(spotify) /\ AudibleHere(spotify')
<1>1. ASSUME Next, source' # source PROVE Cue
  <2>1. ASSUME NEW button \in Buttons, ButtonPressed(button) PROVE FALSE
    BY <1>1, <2>1 DEF ButtonPressed, SpotifyButtonPressed, RadioButtonPressed,
                      StationListButtonPressed, sourceVars
  <2>2. CASE EjectPressed
    BY <1>1, <2>2 DEF EjectPressed, sourceVars
  <2>3. CASE EjectReleased
    BY <1>1, <2>3 DEF EjectReleased, ShortPress, sourceVars
  <2>4. CASE EjectHeld
    BY <1>1, <2>4 DEF EjectHeld, OnEjectHeld, sourceVars
  <2>5. ASSUME NEW session, NEW resume, SpotifyReports(session, resume) PROVE Cue
    BY <1>1, <2>5 DEF SpotifyReports, AutoSwitches, AutoSwitchToSpotify, SwitchToSpotify
  <2>6. ASSUME NEW session, SpotifyDetailChanged(session) PROVE FALSE
    BY <1>1, <2>6 DEF SpotifyDetailChanged, sourceVars
  <2>7. ASSUME NEW title, StreamTitleChanged(title) PROVE FALSE
    BY <1>1, <2>7 DEF StreamTitleChanged, sourceVars
  <2>8. CASE EngineReport
    BY <2>5, <2>6, <2>7, <2>8
    DEF EngineReport, SpotifyActiveChanged, SpotifyPlayingChanged, SpotifyTrackChanged,
        SpotifyPositionChanged, SpotifyShuffleChanged, SpotifyRepeatChanged
  <2>9. CASE EjectHeldGoesOn
    BY <1>1, <2>9 DEF EjectHeldGoesOn, SavesStation, RequestsPoweroff, sourceVars
  <2> QED
    BY <1>1, <2>1, <2>2, <2>3, <2>4, <2>8, <2>9 DEF Next
<1>2. [Next]_vars => [source' # source => Cue]_vars
  BY <1>1 DEF vars
<1> QED
  BY <1>2, PTL DEF Spec, SourceChangesOnCue

\* A press that was let go never shuts the Deck down, given a Scheduler whose
\* cancelled timers don't fire.
THEOREM ShutdownOnlyWhileHeld == Spec => ShutsDownWhileHeld
<1>1. ASSUME IInv, Next, ~shuttingDown, shuttingDown' PROVE ejectDown
  <2>1. ASSUME NEW button \in Buttons, ButtonPressed(button) PROVE FALSE
    BY <1>1, <2>1 DEF ButtonPressed, SpotifyButtonPressed, RadioButtonPressed,
                      StationListButtonPressed, ejectVars, memoryVars
  <2>2. CASE EjectPressed
    BY <1>1, <2>2 DEF EjectPressed
  <2>3. CASE EjectReleased
    BY <2>3 DEF EjectReleased
  <2>4. CASE EjectHeld
    BY <1>1, <2>4 DEF EjectHeld, IInv, EjectInv
  <2>5. ASSUME NEW session, NEW resume, SpotifyReports(session, resume) PROVE FALSE
    BY <1>1, <2>5 DEF SpotifyReports, ejectVars, memoryVars
  <2>6. ASSUME NEW session, SpotifyDetailChanged(session) PROVE FALSE
    BY <1>1, <2>6 DEF SpotifyDetailChanged, ejectVars, memoryVars
  <2>7. ASSUME NEW title, StreamTitleChanged(title) PROVE FALSE
    BY <1>1, <2>7 DEF StreamTitleChanged, ejectVars, memoryVars
  <2>8. CASE EngineReport
    BY <2>5, <2>6, <2>7, <2>8
    DEF EngineReport, SpotifyActiveChanged, SpotifyPlayingChanged, SpotifyTrackChanged,
        SpotifyPositionChanged, SpotifyShuffleChanged, SpotifyRepeatChanged
  <2>9. CASE EjectHeldGoesOn
    BY <1>1, <2>9 DEF EjectHeldGoesOn, SavesStation, RequestsPoweroff, sourceVars
  <2> QED
    BY <1>1, <2>1, <2>2, <2>3, <2>4, <2>8, <2>9 DEF Next
<1>2. IInv /\ [Next]_vars => [~shuttingDown /\ shuttingDown' => ejectDown]_vars
  BY <1>1 DEF vars
<1> QED
  BY <1>2, Inductive, PTL DEF Spec, ShutsDownWhileHeld

\* Nothing the user or the Engines do after Safe Shutdown began has an effect
\* on the Source, the Radio, the state file or the Eject timer.
THEOREM ShutdownStaysFinal == Spec => ShutdownIsFinal
<1> DEFINE Final == /\ UNCHANGED <<source, tunedStation, radioPlaying, radio,
                                   stationListOpen>>
                    /\ shutdownStep = "done" => UNCHANGED <<shutdownStep, memoryVars, poweroffs>>
                    /\ engineCall' = NoCall
                    /\ ~ejectTimer'
<1>1. ASSUME IInv, Next, shuttingDown PROVE Final
  <2>1. ~ejectTimer
    BY <1>1 DEF IInv, EjectInv
  <2>2. ASSUME NEW button \in Buttons, ButtonPressed(button) PROVE FALSE
    BY <1>1, <2>2 DEF ButtonPressed, SpotifyButtonPressed, RadioButtonPressed,
                      StationListButtonPressed
  <2>3. CASE EjectPressed
    BY <1>1, <2>1, <2>3 DEF EjectPressed, sourceVars, radioVars, listVars
  <2>4. CASE EjectReleased
    BY <1>1, <2>1, <2>4 DEF EjectReleased, ShortPress, sourceVars, radioVars, listVars
  <2>5. CASE EjectHeld
    BY <2>1, <2>5 DEF EjectHeld
  <2>6. ASSUME NEW session, NEW resume, SpotifyReports(session, resume) PROVE Final
    BY <1>1, <2>1, <2>6
    DEF SpotifyReports, AutoSwitches, ejectVars, memoryVars, radioVars, listVars
  <2>7. ASSUME NEW session, SpotifyDetailChanged(session) PROVE Final
    BY <2>1, <2>7 DEF SpotifyDetailChanged, sourceVars, ejectVars, memoryVars, radioVars, listVars
  <2>8. ASSUME NEW title, StreamTitleChanged(title) PROVE Final
    BY <2>1, <2>8 DEF StreamTitleChanged, sourceVars, ejectVars, memoryVars, listVars
  <2>9. CASE EngineReport
    BY <2>6, <2>7, <2>8, <2>9
    DEF EngineReport, SpotifyActiveChanged, SpotifyPlayingChanged, SpotifyTrackChanged,
        SpotifyPositionChanged, SpotifyShuffleChanged, SpotifyRepeatChanged
  <2>10. CASE EjectHeldGoesOn
    BY <2>1, <2>10
    DEF EjectHeldGoesOn, SavesStation, RequestsPoweroff, sourceVars, radioVars, listVars
  <2> QED
    BY <1>1, <2>2, <2>3, <2>4, <2>5, <2>9, <2>10 DEF Next
<1>2. IInv /\ [Next]_vars => [shuttingDown /\ shuttingDown' => Final]_vars
  BY <1>1 DEF vars
<1> QED
  BY <1>2, Inductive, PTL DEF Spec, ShutdownIsFinal

----------------------------------------------------------------------------
(* The controller in the Deck.                                             *)

Sessions == [active : BOOLEAN, playing : BOOLEAN]

LinkTypes ==
    /\ engine \in Sessions
    /\ requests \in Seq(EngineCalls)
    /\ events \in Seq(Events)
    /\ pauseFailed \in BOOLEAN

\* The session as the controller sees it, and as it sees it after an event.
Seen == [active |-> spotify.active, playing |-> spotify.playing]
After(session, event) ==
    CASE event = "active"   -> [session EXCEPT !.active = TRUE]
      [] event = "inactive" -> [active |-> FALSE, playing |-> FALSE]
      [] event = "playing"  -> [session EXCEPT !.playing = TRUE]
      [] OTHER              -> [session EXCEPT !.playing = FALSE]

\* A path of sessions leads, an event at a time, from one session to another.  Playback is
\* only ever reported where it is news.
Leads(path, from, reports, to) ==
    /\ path \in [1 .. Len(reports) + 1 -> Sessions]
    /\ path[1] = from
    /\ path[Len(reports) + 1] = to
    /\ \A i \in 1 .. Len(reports) + 1 :
           /\ path[i].playing => path[i].active
           /\ to.playing /\ ~path[i].playing =>
                  \E j \in i .. Len(reports) : reports[j] = "playing"
    /\ \A i \in 1 .. Len(reports) :
           /\ path[i + 1] = After(path[i], reports[i])
           /\ reports[i] = "playing" => path[i].active /\ ~path[i].playing

\* The events under way lead from the session the controller sees to the Engine's.
EventsLead == \E path : Leads(path, Seen, events, engine)

\* Spotify that is heard beside the Radio is about to become the Source, or silent.
SilenceIsComing ==
    engine.playing /\ source # "Spotify" /\ ~pauseFailed /\ ~shuttingDown =>
        \/ \E i \in 1 .. Len(events) : events[i] = "playing"
        \/ \E i \in 1 .. Len(requests) :
               requests[i] = "pause" /\ \A j \in i + 1 .. Len(requests) : requests[j] # "play"

\* There is something to come back to.
ResumesSomething == resumeSpotifyOnReturn => spotify.active

DeckInv == IInv /\ LinkTypes /\ EventsLead /\ SilenceIsComing /\ ResumesSomething

\* A new Deck satisfies it.
LEMMA DeckStarts == DeckInit => DeckInv
<1> SUFFICES ASSUME DeckInit PROVE DeckInv
  OBVIOUS
<1>1. IInv
  BY InitIInv DEF DeckInit
<1>2. LinkTypes
  <2>1. engine \in Sessions /\ pauseFailed \in BOOLEAN
    BY DEF DeckInit, Sessions
  <2>2. requests = <<>> /\ events = <<>>
    BY DEF DeckInit
  <2> QED
    BY <2>1, <2>2 DEF LinkTypes
<1>3. EventsLead
  <2> DEFINE path == [i \in 1 .. 1 |-> engine]
  <2>1. events = <<>> /\ engine = [active |-> FALSE, playing |-> FALSE] /\ Seen = engine
    BY DEF DeckInit, Init, Seen
  <2>2. Len(events) = 0 /\ ~engine.playing /\ engine \in Sessions
    BY <2>1 DEF Sessions
  <2>3. path \in [1 .. 1 -> Sessions] /\ path[1] = engine
    BY <2>2
  <2>4. Leads(path, Seen, events, engine)
    BY <2>1, <2>2, <2>3 DEF Leads
  <2> QED
    BY <2>4 DEF EventsLead
<1>4. SilenceIsComing /\ ResumesSomething
  BY DEF DeckInit, Init, SilenceIsComing, ResumesSomething
<1> QED
  BY <1>1, <1>2, <1>3, <1>4 DEF DeckInv

\* What a user may do to the controller: nothing to the session it sees; a switch to the
\* Radio posts a pause if Spotify seems to play, any other call is made with Spotify
\* as the Source.
LEMMA UserEffect ==
  ASSUME UserActs
  PROVE  /\ Next
         /\ UNCHANGED spotify
         /\ shuttingDown => shuttingDown'
         /\ \/ engineCall' = NoCall /\ UNCHANGED <<source, resumeSpotifyOnReturn>>
            \/ source' = "Spotify" /\ (resumeSpotifyOnReturn' => resumeSpotifyOnReturn)
            \/ /\ source' = "Radio"
               /\ resumeSpotifyOnReturn' = spotify.playing
               /\ engineCall' = IF spotify.playing THEN "pause" ELSE NoCall
<1>0. LoopFree
  BY DEF UserActs
<1>1. ASSUME NEW button \in Buttons, ButtonPressed(button)
      PROVE  /\ UNCHANGED <<spotify, shuttingDown, source, resumeSpotifyOnReturn>>
             /\ engineCall' = NoCall \/ source = "Spotify"
  BY <1>1 DEF ButtonPressed, SpotifyButtonPressed, RadioButtonPressed, StationListButtonPressed,
              sourceVars, ejectVars, memoryVars
<1>2. CASE \E button \in DeckButtons : ButtonPressed(button)
  BY <1>0, <1>1, <1>2, DeckButtonsAssumption DEF Next
<1>3. CASE EjectPressed
  BY <1>0, <1>3 DEF EjectPressed, sourceVars, Next
<1>4. CASE EjectReleased
  BY <1>0, <1>4 DEF EjectReleased, ShortPress, SwitchToRadio, SwitchToSpotify, LeaveSpotify, sourceVars, Next
<1>5. CASE EjectHeld
  BY <1>0, <1>5 DEF EjectHeld, OnEjectHeld, sourceVars, Next
<1> QED
  BY <1>2, <1>3, <1>4, <1>5 DEF UserActs

\* What an event does to it: it sees the session after the event, and news that Spotify
\* plays makes it the Source.
LEMMA EventEffect ==
  ASSUME DeckInv, EventArrives
  PROVE  /\ Next
         /\ Seen' = After(Seen, events[1])
         /\ UNCHANGED shuttingDown
         /\ engineCall' = NoCall
         /\ source' = "Spotify" \/ UNCHANGED source
         /\ resumeSpotifyOnReturn' => spotify'.active
         /\ events[1] = "playing" /\ spotify.active /\ ~spotify.playing /\ ~shuttingDown
                => source' = "Spotify"
<1>0. LoopFree
  BY DEF EventArrives
<1>1. Head(events) = events[1] /\ spotify \in SpotifyState
  BY DEF DeckInv, LinkTypes, EventArrives, IInv, TypeOK
<1>2. ASSUME NEW session, NEW resume, SpotifyReports(session, resume)
      PROVE  /\ spotify' = session
             /\ UNCHANGED shuttingDown
             /\ engineCall' = NoCall
             /\ source' = "Spotify" \/ UNCHANGED source
             /\ resumeSpotifyOnReturn' => resume
             /\ AutoSwitches(session) => source' = "Spotify"
  BY <1>2 DEF SpotifyReports, AutoSwitchToSpotify, SwitchToSpotify, ejectVars, memoryVars
<1>3. CASE Head(events) = "active" /\ SpotifyActiveChanged(TRUE)
  <2>1. SpotifyReports([spotify EXCEPT !.active = TRUE], resumeSpotifyOnReturn)
    BY <1>3 DEF SpotifyActiveChanged
  <2>2. Next
    BY <1>0, <1>3 DEF Next, EngineReport
  <2>3. spotify'.active /\ spotify'.playing = spotify.playing
    BY <1>1, <1>2, <2>1 DEF SpotifyState
  <2>4. Seen' = [active |-> TRUE, playing |-> spotify.playing]
    BY <2>3, <1>1, <1>2, <2>1 DEF Seen, SpotifyState
  <2>5. After(Seen, events[1]) = [active |-> TRUE, playing |-> spotify.playing]
    BY <1>1, <1>3 DEF Seen, After
  <2> QED
    BY <1>1, <1>2, <1>3, <2>1, <2>2, <2>3, <2>4, <2>5
<1>4. CASE Head(events) = "inactive" /\ SpotifyActiveChanged(FALSE)
  <2>1. SpotifyReports(SessionGone, FALSE)
    BY <1>4 DEF SpotifyActiveChanged
  <2>2. Next
    BY <1>0, <1>4 DEF Next, EngineReport
  <2>3. SessionGone.active = FALSE /\ SessionGone.playing = FALSE
    BY <1>1 DEF SpotifyState, SessionGone
  <2>4. spotify' = SessionGone
    BY <1>2, <2>1
  <2>5. Seen' = [active |-> FALSE, playing |-> FALSE]
    BY <2>3, <2>4 DEF Seen
  <2>6. After(Seen, events[1]) = [active |-> FALSE, playing |-> FALSE]
    BY <1>1, <1>4 DEF After
  <2> QED
    BY <1>1, <1>2, <1>4, <2>1, <2>2, <2>5, <2>6
<1>5. ASSUME NEW playing \in BOOLEAN, Head(events) = (IF playing THEN "playing" ELSE "paused"),
             SpotifyPlayingChanged(playing)
      PROVE  /\ Next
             /\ Seen' = After(Seen, events[1])
             /\ UNCHANGED shuttingDown
             /\ engineCall' = NoCall
             /\ source' = "Spotify" \/ UNCHANGED source
             /\ resumeSpotifyOnReturn' => spotify'.active
             /\ events[1] = "playing" /\ spotify.active /\ ~spotify.playing /\ ~shuttingDown
                    => source' = "Spotify"
  <2> DEFINE session == [spotify EXCEPT !.playing = playing]
  <2>1. SpotifyReports(session, resumeSpotifyOnReturn)
    BY <1>5 DEF SpotifyPlayingChanged
  <2>2. Next
    BY <1>0, <1>5 DEF Next, EngineReport
  <2>3. session.active = spotify.active /\ session.playing = playing
    BY <1>1 DEF SpotifyState
  <2> HIDE DEF session
  <2>4. Seen' = [active |-> spotify.active, playing |-> playing]
    BY <1>2, <2>1, <2>3 DEF Seen
  <2>5. After(Seen, events[1]) = [active |-> spotify.active, playing |-> playing]
    BY <1>1, <1>5 DEF Seen, After
  <2>6. events[1] = "playing" /\ spotify.active /\ ~spotify.playing /\ ~shuttingDown
            => source' = "Spotify"
    BY <1>1, <1>2, <1>5, <2>1, <2>3 DEF AutoSwitches, AudibleHere
  <2>7. resumeSpotifyOnReturn' => spotify'.active
    BY <1>2, <2>1, <2>3 DEF DeckInv, ResumesSomething
  <2> QED
    BY <1>2, <2>1, <2>2, <2>4, <2>5, <2>6, <2>7
<1> QED
  BY <1>3, <1>4, <1>5 DEF EventArrives

\* What is left of the events after the first.
LEMMA TailEvents ==
  ASSUME NEW reports \in Seq(Events), reports # <<>>
  PROVE  /\ Len(reports) \in Nat \ {0}
         /\ Tail(reports) \in Seq(Events)
         /\ Len(Tail(reports)) = Len(reports) - 1
         /\ \A i \in 1 .. Len(reports) - 1 : Tail(reports)[i] = reports[i + 1]
OBVIOUS

\* A path goes on from its second session.
LEMMA LeadsOn ==
  ASSUME NEW reports \in Seq(Events), reports # <<>>, NEW from, NEW to, NEW path,
         Leads(path, from, reports, to)
  PROVE  \E rest : Leads(rest, After(from, reports[1]), Tail(reports), to)
<1>1. Len(reports) \in Nat \ {0} /\ Len(Tail(reports)) = Len(reports) - 1
  BY TailEvents
<1>2. \A i \in 1 .. Len(Tail(reports)) : Tail(reports)[i] = reports[i + 1]
  BY <1>1, TailEvents
<1> DEFINE rest == [i \in 1 .. Len(Tail(reports)) + 1 |-> path[i + 1]]
<1>3. rest \in [1 .. Len(Tail(reports)) + 1 -> Sessions]
  BY <1>1 DEF Leads
<1>4. rest[1] = After(from, reports[1])
  BY <1>1 DEF Leads
<1>5. rest[Len(Tail(reports)) + 1] = to
  BY <1>1 DEF Leads
<1>6. ASSUME NEW i \in 1 .. Len(Tail(reports)) + 1
      PROVE  /\ rest[i].playing => rest[i].active
             /\ to.playing /\ ~rest[i].playing =>
                    \E j \in i .. Len(Tail(reports)) : Tail(reports)[j] = "playing"
  <2>1. i + 1 \in 1 .. Len(reports) + 1 /\ rest[i] = path[i + 1]
    BY <1>1
  <2>2. rest[i].playing => rest[i].active
    BY <2>1 DEF Leads
  <2>3. ASSUME to.playing, ~path[i + 1].playing
        PROVE  \E j \in i .. Len(Tail(reports)) : Tail(reports)[j] = "playing"
    <3>1. PICK k \in i + 1 .. Len(reports) : reports[k] = "playing"
      BY <2>1, <2>3 DEF Leads
    <3>2. k - 1 \in i .. Len(Tail(reports)) /\ k - 1 \in 1 .. Len(Tail(reports))
      BY <1>1, <3>1
    <3>3. Tail(reports)[k - 1] = reports[k]
      BY <1>2, <3>2
    <3> QED
      BY <3>1, <3>2, <3>3
  <2> QED
    BY <2>1, <2>2, <2>3
<1>7. ASSUME NEW i \in 1 .. Len(Tail(reports))
      PROVE  /\ rest[i + 1] = After(rest[i], Tail(reports)[i])
             /\ Tail(reports)[i] = "playing" => rest[i].active /\ ~rest[i].playing
  <2>1. i + 1 \in 1 .. Len(reports) /\ rest[i] = path[i + 1] /\ rest[i + 1] = path[(i + 1) + 1]
    BY <1>1
  <2> QED
    BY <1>2, <2>1 DEF Leads
<1> HIDE DEF rest
<1> QED
  BY <1>3, <1>4, <1>5, <1>6, <1>7 DEF Leads

\* A path goes one session further with one more event.
LEMMA LeadsFurther ==
  ASSUME NEW reports \in Seq(Events), NEW from, NEW to \in Sessions, NEW path,
         Leads(path, from, reports, to), NEW event \in Events,
         After(to, event).playing => After(to, event).active,
         event = "playing" => to.active /\ ~to.playing
  PROVE  \E more : Leads(more, from, Append(reports, event), After(to, event))
<1> DEFINE all  == Append(reports, event)
           more == [i \in 1 .. Len(reports) + 2 |->
                        IF i = Len(reports) + 2 THEN After(to, event) ELSE path[i]]
<1>1. /\ Len(reports) \in Nat /\ Len(all) = Len(reports) + 1
      /\ \A i \in 1 .. Len(reports) : all[i] = reports[i]
      /\ all[Len(reports) + 1] = event
  OBVIOUS
<1> HIDE DEF all
<1>2. /\ After(to, event) \in Sessions
      /\ After(to, event).playing => to.playing \/ event = "playing"
  BY DEF After, Sessions, Events
<1>3. more \in [1 .. Len(all) + 1 -> Sessions]
  BY <1>1, <1>2 DEF Leads
<1>4. more[1] = from /\ more[Len(all) + 1] = After(to, event)
  BY <1>1 DEF Leads
<1>5. ASSUME NEW i \in 1 .. Len(all) + 1
      PROVE  /\ more[i].playing => more[i].active
             /\ After(to, event).playing /\ ~more[i].playing =>
                    \E j \in i .. Len(all) : all[j] = "playing"
  <2>1. CASE i = Len(reports) + 2
    BY <1>1, <2>1
  <2>2. CASE i # Len(reports) + 2
    <3>1. i \in 1 .. Len(reports) + 1 /\ more[i] = path[i]
      BY <1>1, <2>2
    <3>2. ASSUME After(to, event).playing, ~path[i].playing
          PROVE  \E j \in i .. Len(all) : all[j] = "playing"
      <4>1. CASE event = "playing"
        BY <1>1, <3>1, <4>1
      <4>2. CASE to.playing
        <5>1. PICK j \in i .. Len(reports) : reports[j] = "playing"
          BY <3>1, <3>2, <4>2 DEF Leads
        <5>2. j \in 1 .. Len(reports)
          BY <1>1, <3>1
        <5> QED
          BY <1>1, <5>1, <5>2
      <4> QED
        BY <1>2, <3>2, <4>1, <4>2
    <3> QED
      BY <3>1, <3>2 DEF Leads
  <2> QED
    BY <2>1, <2>2
<1>6. ASSUME NEW i \in 1 .. Len(all)
      PROVE  /\ more[i + 1] = After(more[i], all[i])
             /\ all[i] = "playing" => more[i].active /\ ~more[i].playing
  <2>1. CASE i = Len(reports) + 1
    <3>1. more[i] = to /\ more[i + 1] = After(to, event) /\ all[i] = event
      BY <1>1, <2>1 DEF Leads
    <3> QED
      BY <3>1
  <2>2. CASE i # Len(reports) + 1
    <3>1. /\ i \in 1 .. Len(reports) /\ all[i] = reports[i]
          /\ more[i] = path[i] /\ more[i + 1] = path[i + 1]
      BY <1>1, <2>2
    <3> QED
      BY <3>1 DEF Leads
  <2> QED
    BY <2>1, <2>2
<1> HIDE DEF more
<1>7. Leads(more, from, all, After(to, event))
  BY <1>3, <1>4, <1>5, <1>6 DEF Leads
<1> QED
  BY <1>7 DEF all

\* An event that arrives takes the controller a session further.
LEMMA EventKeeps == ASSUME DeckInv, EventArrives PROVE DeckInv'
<1> USE DEF DeckInv
<1>1. LinkTypes /\ events # <<>> /\ events' = Tail(events) /\ UNCHANGED <<engine, pauseFailed>>
  BY DEF EventArrives
<1>2. Len(events) \in Nat \ {0} /\ Len(events') = Len(events) - 1
  BY <1>1, TailEvents DEF LinkTypes
<1>3. \A i \in 1 .. Len(events') : events'[i] = events[i + 1]
  BY <1>1, <1>2, TailEvents DEF LinkTypes
<1>4. UNCHANGED requests
  BY EventEffect DEF EventArrives, Posted
<1>5. IInv'
  BY EventEffect, NextIInv
<1>6. LinkTypes'
  BY <1>1, <1>4, TailEvents DEF LinkTypes
<1>7. PICK path : Leads(path, Seen, events, engine)
  BY DEF EventsLead
<1>8. /\ path[2] = After(Seen, events[1])
      /\ events[1] = "playing" => spotify.active /\ ~spotify.playing
  BY <1>2, <1>7 DEF Leads, Seen
<1>9. EventsLead'
  BY <1>1, <1>7, LeadsOn, EventEffect DEF LinkTypes, EventsLead
<1>10. SilenceIsComing'
  <2> SUFFICES ASSUME engine'.playing, source' # "Spotify", ~pauseFailed', ~shuttingDown'
               PROVE  \/ \E i \in 1 .. Len(events') : events'[i] = "playing"
                      \/ \E i \in 1 .. Len(requests') :
                             /\ requests'[i] = "pause"
                             /\ \A j \in i + 1 .. Len(requests') : requests'[j] # "play"
    BY DEF SilenceIsComing
  <2>1. engine.playing /\ source # "Spotify" /\ ~pauseFailed /\ ~shuttingDown
    BY <1>1, EventEffect
  <2>2. CASE \E i \in 1 .. Len(events) : events[i] = "playing"
    <3>1. PICK i \in 1 .. Len(events) : events[i] = "playing"
      BY <2>2
    <3>2. i # 1
      BY <1>8, <2>1, <3>1, EventEffect
    <3>3. i - 1 \in 1 .. Len(events') /\ events'[i - 1] = events[i]
      BY <1>2, <1>3, <3>1, <3>2
    <3> QED
      BY <3>1, <3>3
  <2> QED
    BY <1>4, <2>1, <2>2 DEF SilenceIsComing
<1>11. ResumesSomething'
  BY EventEffect DEF ResumesSomething
<1> QED
  BY <1>5, <1>6, <1>9, <1>10, <1>11

\* The Engine's session plays only if there is one.
LEMMA EngineSession ==
  ASSUME DeckInv
  PROVE  /\ engine \in Sessions /\ events \in Seq(Events) /\ requests \in Seq(EngineCalls)
         /\ engine.playing => engine.active
         /\ spotify.playing => spotify.active
         /\ events = <<>> => engine = Seen
         /\ engine.playing /\ ~spotify.playing => \E i \in 1 .. Len(events) : events[i] = "playing"
<1>1. engine \in Sessions /\ events \in Seq(Events) /\ requests \in Seq(EngineCalls)
  BY DEF DeckInv, LinkTypes
<1>2. PICK path : Leads(path, Seen, events, engine)
  BY DEF DeckInv, EventsLead
<1>3. 1 \in 1 .. Len(events) + 1 /\ Len(events) + 1 \in 1 .. Len(events) + 1
  BY <1>1
<1> QED
  BY <1>1, <1>2, <1>3 DEF Leads, Seen

\* One more event of go-librespot's keeps the events leading to its session.
LEMMA EventsLeadFurther ==
  ASSUME DeckInv, NEW event \in Events, UNCHANGED spotify,
         events' = Append(events, event), engine' = After(engine, event),
         event = "playing" => engine.active /\ ~engine.playing
  PROVE  EventsLead'
<1>1. PICK path : Leads(path, Seen, events, engine)
  BY DEF DeckInv, EventsLead
<1>2. After(engine, event).playing => After(engine, event).active
  BY EngineSession DEF After, Sessions, Events
<1>3. \E more : Leads(more, Seen, Append(events, event), After(engine, event))
  BY <1>1, <1>2, EngineSession, LeadsFurther
<1> QED
  BY <1>3 DEF EventsLead, Seen

\* go-librespot does what it was asked, or what a phone asks.
LEMMA SetPlayingKeeps ==
  ASSUME DeckInv, NEW playing \in BOOLEAN, SetPlaying(playing), UNCHANGED spotify
  PROVE  /\ engine' \in Sessions /\ events' \in Seq(Events) /\ EventsLead'
         /\ ~playing => ~engine'.playing
         /\ engine'.playing => \/ UNCHANGED <<engine, events>>
                               \/ \E i \in 1 .. Len(events') : events'[i] = "playing"
<1>1. CASE engine.active /\ engine.playing # playing
  <2> DEFINE event == IF playing THEN "playing" ELSE "paused"
  <2>1. event \in Events /\ events' = Append(events, event) /\ engine' = After(engine, event)
    BY <1>1, EngineSession DEF SetPlaying, After, Events, Sessions
  <2>2. EventsLead'
    BY <1>1, <2>1, EngineSession, EventsLeadFurther DEF Sessions
  <2>3. engine' \in Sessions /\ engine'.playing = playing
    BY <1>1, EngineSession DEF SetPlaying, Sessions
  <2>4. Len(events') \in 1 .. Len(events') /\ events'[Len(events')] = event
    BY <2>1, EngineSession
  <2>5. events' \in Seq(Events)
    BY <2>1, EngineSession
  <2> QED
    BY <2>1, <2>2, <2>3, <2>4, <2>5
<1>2. CASE ~(engine.active /\ engine.playing # playing)
  <2>1. UNCHANGED <<engine, events>>
    BY <1>2 DEF SetPlaying
  <2>2. EventsLead'
    BY <2>1 DEF DeckInv, EventsLead, Seen
  <2>3. ~playing => ~engine.playing
    BY <1>2, EngineSession DEF Sessions
  <2> QED
    BY <2>1, <2>2, <2>3, EngineSession
<1> QED
  BY <1>1, <1>2

\* A step that leaves the controller alone keeps what is asked of it.
LEMMA ControllerRests ==
  ASSUME DeckInv, UNCHANGED vars
  PROVE  IInv' /\ ResumesSomething' /\ UNCHANGED <<spotify, source, shuttingDown>>
BY StutterIInv DEF DeckInv, ResumesSomething, vars

\* A pause that is asked for last is still so when the request before it is gone.
LEMMA PauseStays ==
  ASSUME NEW queue \in Seq(EngineCalls), queue # <<>>, NEW i \in 1 .. Len(queue), i # 1,
         queue[i] = "pause", \A j \in i + 1 .. Len(queue) : queue[j] # "play"
  PROVE  \E k \in 1 .. Len(Tail(queue)) :
             /\ Tail(queue)[k] = "pause"
             /\ \A j \in k + 1 .. Len(Tail(queue)) : Tail(queue)[j] # "play"
<1>1. /\ Len(queue) \in Nat /\ Len(Tail(queue)) = Len(queue) - 1
      /\ \A j \in 1 .. Len(queue) - 1 : Tail(queue)[j] = queue[j + 1]
  OBVIOUS
<1>2. i - 1 \in 1 .. Len(Tail(queue)) /\ Tail(queue)[i - 1] = "pause"
  BY <1>1
<1>3. \A j \in (i - 1) + 1 .. Len(Tail(queue)) : Tail(queue)[j] # "play"
  <2> SUFFICES ASSUME NEW j \in (i - 1) + 1 .. Len(Tail(queue)) PROVE Tail(queue)[j] # "play"
    OBVIOUS
  <2>1. j \in 1 .. Len(queue) - 1 /\ j + 1 \in i + 1 .. Len(queue)
    BY <1>1
  <2> QED
    BY <1>1, <2>1
<1> QED
  BY <1>2, <1>3

\* The worker takes a request off the queue.
LEMMA RequestKeeps == ASSUME DeckInv, RequestServed \/ RequestFails PROVE DeckInv'
<1>1. /\ UNCHANGED vars /\ requests # <<>> /\ requests' = Tail(requests)
      /\ pauseFailed' \in BOOLEAN /\ (pauseFailed => pauseFailed')
  BY DEF RequestServed, RequestFails, DeckInv, LinkTypes
<1>2. IInv' /\ ResumesSomething' /\ UNCHANGED <<spotify, source, shuttingDown>>
  BY <1>1, ControllerRests
<1>3. requests' \in Seq(EngineCalls) /\ Head(requests) = requests[1] /\ Len(requests) \in Nat
  BY <1>1, EngineSession
<1>4. /\ engine' \in Sessions /\ events' \in Seq(Events) /\ EventsLead'
      /\ engine'.playing => \/ UNCHANGED <<engine, events>>
                            \/ \E i \in 1 .. Len(events') : events'[i] = "playing"
      /\ requests[1] = "pause" => ~engine'.playing \/ pauseFailed'
  <2>1. CASE RequestServed /\ Head(requests) \in {"play", "pause"}
    <3> DEFINE playing == Head(requests) = "play"
    <3>1. SetPlaying(playing) /\ playing \in BOOLEAN
      BY <2>1 DEF RequestServed
    <3>2. requests[1] = "pause" => ~playing
      BY <1>3
    <3> HIDE DEF playing
    <3> QED
      BY <1>2, <3>1, <3>2, SetPlayingKeeps
  <2>2. CASE RequestServed /\ Head(requests) \notin {"play", "pause"}
    <3>1. UNCHANGED <<engine, events>> /\ requests[1] # "pause"
      BY <1>3, <2>2 DEF RequestServed
    <3> QED
      BY <1>2, <3>1, EngineSession DEF DeckInv, EventsLead, Seen
  <2>3. CASE RequestFails
    <3>1. UNCHANGED <<engine, events>> /\ (requests[1] = "pause" => pauseFailed')
      BY <1>3, <2>3 DEF RequestFails
    <3> QED
      BY <1>2, <3>1, EngineSession DEF DeckInv, EventsLead, Seen
  <2> QED
    BY <2>1, <2>2, <2>3
<1>5. SilenceIsComing'
  <2> SUFFICES ASSUME engine'.playing, source' # "Spotify", ~pauseFailed', ~shuttingDown',
                      UNCHANGED <<engine, events>>,
                      ~\E i \in 1 .. Len(events) : events[i] = "playing"
               PROVE  \E i \in 1 .. Len(requests') :
                          /\ requests'[i] = "pause"
                          /\ \A j \in i + 1 .. Len(requests') : requests'[j] # "play"
    BY <1>4 DEF SilenceIsComing
  <2>1. PICK i \in 1 .. Len(requests) :
            requests[i] = "pause" /\ \A j \in i + 1 .. Len(requests) : requests[j] # "play"
    BY <1>1, <1>2 DEF DeckInv, SilenceIsComing
  <2>2. i # 1
    BY <1>4, <2>1
  <2> QED
    BY <1>1, <2>1, <2>2, PauseStays, EngineSession
<1> QED
  BY <1>1, <1>2, <1>3, <1>4, <1>5 DEF DeckInv, LinkTypes

\* A phone plays, pauses or leaves.
LEMMA PhoneKeeps == ASSUME DeckInv, PhoneActs PROVE DeckInv'
<1>1. UNCHANGED <<vars, requests, pauseFailed>>
  BY DEF PhoneActs
<1>2. IInv' /\ ResumesSomething' /\ UNCHANGED <<spotify, source, shuttingDown>>
  BY <1>1, ControllerRests
<1>3. /\ engine' \in Sessions /\ events' \in Seq(Events) /\ EventsLead'
      /\ engine'.playing => \E i \in 1 .. Len(events') : events'[i] = "playing"
  <2>5. /\ [active |-> TRUE, playing |-> TRUE] \in Sessions
        /\ [active |-> TRUE, playing |-> FALSE] \in Sessions
        /\ "playing" \in Events /\ "active" \in Events
    BY DEF Sessions, Events
  <2>1. CASE PhonePlays /\ engine.active
    <3>1. /\ events' = Append(events, "playing") /\ engine' = After(engine, "playing")
          /\ ~engine.playing
      <4>1. events' = events \o <<"playing">> /\ engine' = [active |-> TRUE, playing |-> TRUE]
        BY <2>1 DEF PhonePlays
      <4>2. events \o <<"playing">> = Append(events, "playing")
        BY EngineSession DEF Events
      <4>3. After(engine, "playing") = [active |-> TRUE, playing |-> TRUE]
        BY <2>1, EngineSession DEF After, Sessions
      <4> QED
        BY <2>1, <4>1, <4>2, <4>3 DEF PhonePlays
    <3>2. EventsLead'
      BY <1>2, <2>1, <3>1, EventsLeadFurther DEF Events
    <3>3. /\ events' \in Seq(Events) /\ Len(events') \in 1 .. Len(events')
          /\ events'[Len(events')] = "playing" /\ engine' \in Sessions
      <4>1. engine' = [active |-> TRUE, playing |-> TRUE]
        BY <2>1 DEF PhonePlays
      <4>2. engine' \in Sessions
        BY <2>5, <4>1
      <4> QED
        BY <2>5, <3>1, <4>2, EngineSession
    <3> QED
      BY <3>2, <3>3
  <2>2. CASE PhonePlays /\ ~engine.active
    <3> DEFINE taken == After(engine, "active")
               first == Append(events, "active")
    <3>1. PICK path : Leads(path, Seen, events, engine)
      BY DEF DeckInv, EventsLead
    <3>2. taken = [active |-> TRUE, playing |-> FALSE]
      BY <2>2, EngineSession DEF PhonePlays, After, Sessions
    <3>3. PICK more : Leads(more, Seen, first, taken)
      BY <3>1, <3>2, EngineSession, LeadsFurther DEF Events
    <3>4. /\ first \in Seq(Events) /\ taken \in Sessions
          /\ events' = Append(first, "playing") /\ engine' = After(taken, "playing")
      <4>1. first \in Seq(Events)
        BY <2>5, EngineSession
      <4>5. taken \in Sessions
        <5> HIDE DEF taken
        <5> QED
          BY <2>5, <3>2
      <4>2. /\ events' = events \o <<"active", "playing">>
            /\ engine' = [active |-> TRUE, playing |-> TRUE]
        BY <2>2 DEF PhonePlays
      <4>3. events \o <<"active", "playing">> = Append(first, "playing")
        BY EngineSession DEF Events
      <4>4. After(taken, "playing") = [active |-> TRUE, playing |-> TRUE]
        BY <3>2 DEF After
      <4> QED
        BY <4>1, <4>2, <4>3, <4>4, <4>5
    <3> HIDE DEF taken, first
    <3>5. After(taken, "playing") = [active |-> TRUE, playing |-> TRUE]
      BY <3>2 DEF After
    <3>6. \E all : Leads(all, Seen, Append(first, "playing"), After(taken, "playing"))
      BY <3>2, <3>3, <3>4, <3>5, LeadsFurther DEF Events
    <3>7. EventsLead'
      BY <1>2, <3>4, <3>6 DEF EventsLead, Seen
    <3>8. /\ events' \in Seq(Events) /\ Len(events') \in 1 .. Len(events')
          /\ events'[Len(events')] = "playing" /\ engine' \in Sessions
      <4>1. engine' \in Sessions
        BY <2>5, <3>4, <3>5
      <4> QED
        BY <2>5, <3>4, <4>1
    <3> QED
      BY <3>7, <3>8
  <2>3. CASE PhonePauses
    BY <1>2, <2>3, SetPlayingKeeps DEF PhonePauses
  <2>4. CASE PhoneLeaves
    <3>1. events' = Append(events, "inactive") /\ engine' = After(engine, "inactive")
      BY <2>4 DEF PhoneLeaves, After
    <3>2. EventsLead'
      BY <1>2, <3>1, EventsLeadFurther DEF Events
    <3>3. events' \in Seq(Events) /\ engine' \in Sessions /\ ~engine'.playing
      BY <2>4, <3>1, EngineSession DEF Events, Sessions, PhoneLeaves
    <3> QED
      BY <3>2, <3>3
  <2> QED
    BY <2>1, <2>2, <2>3, <2>4 DEF PhoneActs
<1>4. SilenceIsComing'
  BY <1>3 DEF SilenceIsComing
<1> QED
  BY <1>1, <1>2, <1>3, <1>4 DEF DeckInv, LinkTypes

\* The user acts.
LEMMA UserKeeps == ASSUME DeckInv, UserActs PROVE DeckInv'
<1>1. UNCHANGED <<spotify, engine, events, pauseFailed>> /\ IInv'
  BY UserEffect, NextIInv DEF UserActs, DeckInv
<1>2. engine \in Sessions /\ events \in Seq(Events) /\ requests \in Seq(EngineCalls)
  BY EngineSession
<1>3. requests' = IF engineCall' = NoCall THEN requests ELSE Append(requests, engineCall')
  BY DEF UserActs, Posted
<1>4. LinkTypes'
  BY <1>1, <1>2, <1>3 DEF LinkTypes, IInv, TypeOK, DeckInv
<1>5. EventsLead'
  BY <1>1 DEF DeckInv, EventsLead, Seen
<1>6. SilenceIsComing'
  <2> SUFFICES ASSUME engine.playing, source' # "Spotify", ~pauseFailed, ~shuttingDown',
                      ~\E i \in 1 .. Len(events) : events[i] = "playing"
               PROVE  \E i \in 1 .. Len(requests') :
                          /\ requests'[i] = "pause"
                          /\ \A j \in i + 1 .. Len(requests') : requests'[j] # "play"
    BY <1>1 DEF SilenceIsComing
  <2>1. spotify.playing
    BY EngineSession
  <2>2. CASE engineCall' = NoCall /\ UNCHANGED source
    BY <1>3, <2>2, UserEffect DEF DeckInv, SilenceIsComing
  <2>3. CASE engineCall' = "pause"
    <3>1. requests' = Append(requests, "pause")
      BY <1>3, <2>3 DEF NoCall
    <3>2. /\ Len(requests') \in 1 .. Len(requests') /\ requests'[Len(requests')] = "pause"
          /\ Len(requests') + 1 .. Len(requests') = {}
      BY <1>2, <3>1
    <3> QED
      BY <3>2
  <2> QED
    BY <2>1, <2>2, <2>3, UserEffect
<1>7. ResumesSomething'
  BY <1>1, UserEffect, EngineSession DEF DeckInv, ResumesSomething
<1> QED
  BY <1>1, <1>4, <1>5, <1>6, <1>7 DEF DeckInv

\* The calls onEjectHeld still makes concern neither the session nor what is under way.
LEMMA ShutdownKeeps == ASSUME DeckInv, ShutdownGoesOn PROVE DeckInv'
<1>1. UNCHANGED <<spotify, source, resumeSpotifyOnReturn, shuttingDown>>
  BY DEF ShutdownGoesOn, EjectHeldGoesOn, SavesStation, RequestsPoweroff, sourceVars
<1>2. UNCHANGED <<engine, requests, events, pauseFailed>>
  BY DEF ShutdownGoesOn, linkVars
<1>3. IInv'
  BY NextIInv DEF DeckInv, ShutdownGoesOn, Next
<1> QED
  BY <1>1, <1>2, <1>3
  DEF DeckInv, LinkTypes, EventsLead, Seen, SilenceIsComing, ResumesSomething

\* Every step of the Deck keeps the invariant.
LEMMA DeckKeeps == DeckInv /\ [DeckNext]_deckVars => DeckInv'
<1>1. ASSUME DeckInv, UNCHANGED deckVars PROVE DeckInv'
  <2>1. IInv' /\ ResumesSomething' /\ UNCHANGED <<spotify, source, shuttingDown>>
    BY <1>1, ControllerRests DEF deckVars
  <2>2. UNCHANGED <<engine, requests, events, pauseFailed>>
    BY <1>1 DEF deckVars, linkVars
  <2> QED
    BY <1>1, <2>1, <2>2 DEF DeckInv, LinkTypes, EventsLead, Seen, SilenceIsComing
<1> QED
  BY <1>1, UserKeeps, EventKeeps, ShutdownKeeps, RequestKeeps, PhoneKeeps DEF DeckNext

\* The invariant of the composition.
THEOREM DeckInductive == DeckSpec => []DeckInv
BY DeckStarts, DeckKeeps, PTL DEF DeckSpec

\* Whatever a phone does, and in whatever order requests and events cross, the controller's
\* picture of the session is the Engine's once the events are handled.
THEOREM PictureIsTheEngines == DeckSpec => []PictureCatchesUp
<1>1. DeckInv => PictureCatchesUp
  BY EngineSession DEF PictureCatchesUp, Seen
<1> QED
  BY <1>1, DeckInductive, PTL

\* With nothing under way Spotify is silent unless it is the Source: the pause of a switch
\* reaches it, or what made it play again makes it the Source.
THEOREM OneSourceIsHeard == DeckSpec => []OneSourceHeard
<1>1. DeckInv => OneSourceHeard
  <2> SUFFICES ASSUME DeckInv, requests = <<>>, events = <<>>, ~pauseFailed, ~shuttingDown,
                      engine.playing, source # "Spotify"
               PROVE  FALSE
    BY DEF OneSourceHeard, Quiet, SpotifyAudible
  <2> QED
    BY DEF DeckInv, SilenceIsComing
<1> QED
  BY <1>1, DeckInductive, PTL

\* A short press resumes a session that is still there.
THEOREM LiveSessionIsResumed == DeckSpec => ResumesLiveSession
<1>1. ASSUME DeckInv, Quiet, EjectReleased, engineCall' = "play" PROVE engine.active
  <2>1. resumeSpotifyOnReturn
    BY <1>1 DEF EjectReleased, ShortPress, SwitchToRadio, SwitchToSpotify, LeaveSpotify, NoCall
  <2> QED
    BY <1>1, <2>1, EngineSession DEF DeckInv, ResumesSomething, Quiet, Seen
<1>2. DeckInv /\ [DeckNext]_deckVars
        => [Quiet /\ EjectReleased /\ engineCall' = "play" => engine.active]_deckVars
  BY <1>1
<1> QED
  BY <1>2, DeckInductive, PTL DEF DeckSpec, ResumesLiveSession

=============================================================================
