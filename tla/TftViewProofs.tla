---------------------------- MODULE TftViewProofs ----------------------------
(***************************************************************************)
(* Proofs about TftView and Artwork, for any tracks, Stations and          *)
(* positions, any size of the cache and any length of time.  The clock     *)
(* isn't inductive: it rests on what trackTime() keeps of the screen       *)
(* pushed last, and on no position being past the end of its track.        *)
(***************************************************************************)
EXTENDS TftView, SequenceTheorems, TLAPS

Screens == {StoppedScreen} \cup SpotifyScreens \cup RadioScreens \cup ListScreens

ClockTypes ==
    /\ clockBase \in Nat /\ clockAge \in Nat /\ clockRunning \in BOOLEAN /\ truth \in Nat
    /\ repeated \in BOOLEAN

ArtTypes ==
    /\ coverOrder \in Seq(Covers) /\ fetched \in Seq(Covers)
    /\ {fetching, pending, downloading} \subseteq Covers \cup {NoCover}

\* The track on the clock has a length.
Ends(s) == s.source = "Spotify" /\ s.what # Nothing

ClockFollowsScreen ==
    /\ last \in Screens \ ListScreens
    /\ clockRunning <=> last.status = "Playing"
    /\ Ends(last) => truth <= Duration
    /\ last = StoppedScreen => truth = 0

IInv == ClockTypes /\ ArtTypes /\ ClockFollowsScreen /\ CoverUnderWay /\ FramesWhileMoving /\ ClockRunsTrue

----------------------------------------------------------------------------
(* Artwork.                                                                *)

\* Asking for a cover puts it under way, if it is neither cached nor under way yet.
LEMMA DrawsKeepsCovers ==
    ASSUME NEW url \in Covers \cup {NoCover}, ArtTypes, CoverUnderWay, Draws(url)
    PROVE  ArtTypes' /\ CoverUnderWay'
  BY DEF ArtTypes, CoverUnderWay, Draws, Cover, Fetch

\* A cover that arrives is under way no more, unless it was asked for again.
LEMMA CoverFetchedKeepsCovers ==
    ASSUME NEW url \in Covers \cup {NoCover}, ArtTypes, CoverUnderWay, CoverFetched(url)
    PROVE  ArtTypes' /\ CoverUnderWay'
  <1>1. /\ Head(fetched) \in Covers /\ Tail(fetched) \in Seq(Covers)
        /\ ToSet(fetched) = {Head(fetched)} \cup ToSet(Tail(fetched))
    <2>1. fetched \in Seq(Covers) /\ fetched # <<>>
      BY DEF ArtTypes, CoverFetched
    <2>2. /\ Head(fetched) \in Covers /\ Tail(fetched) \in Seq(Covers)
          /\ Len(Tail(fetched)) = Len(fetched) - 1
          /\ \A i \in 1 .. Len(Tail(fetched)) : Tail(fetched)[i] = fetched[i + 1]
      BY <2>1, HeadTailProperties
    <2>3. ASSUME NEW i \in DOMAIN fetched
          PROVE  fetched[i] = Head(fetched) \/ fetched[i] \in ToSet(Tail(fetched))
      <3>1. CASE i = 1
        BY <2>1, <3>1
      <3>2. CASE i # 1
        <4>1. i - 1 \in DOMAIN Tail(fetched) /\ Tail(fetched)[i - 1] = fetched[i]
          BY <2>1, <2>2, <3>2
        <4> QED
          BY <4>1 DEF ToSet
      <3> QED
        BY <3>1, <3>2
    <2>4. ASSUME NEW i \in DOMAIN Tail(fetched) PROVE Tail(fetched)[i] \in ToSet(fetched)
      <3>1. i + 1 \in DOMAIN fetched /\ Tail(fetched)[i] = fetched[i + 1]
        BY <2>1, <2>2
      <3> QED
        BY <3>1 DEF ToSet
    <2>5. Head(fetched) \in ToSet(fetched)
      BY <2>1 DEF ToSet
    <2> QED
      BY <2>2, <2>3, <2>4, <2>5 DEF ToSet
  <1>2. coverOrder' \in Seq(Covers)
    BY <1>1 DEF CoverFetched, Keep, ArtTypes
  <1>3. ArtTypes'
    BY <1>1, <1>2 DEF CoverFetched, Cover, Fetch, Answered, ArtTypes
  <1>4. CoverUnderWay'
    BY <1>1 DEF CoverFetched, Cover, Fetch, Answered, ArtTypes, CoverUnderWay
  <1> QED
    BY <1>3, <1>4

\* The fetcher's thread passes a cover on.
LEMMA FetcherKeepsCovers ==
    ASSUME ArtTypes, CoverUnderWay, DownloadBegins \/ DownloadEnds
    PROVE  ArtTypes' /\ CoverUnderWay'
  <1>1. CASE DownloadBegins
    BY <1>1, ArtworkAssumption DEF ArtTypes, CoverUnderWay, DownloadBegins
  <1>2. CASE DownloadEnds
    <2>1. fetched \in Seq(Covers) /\ downloading \in Covers
      BY <1>2 DEF ArtTypes, DownloadEnds
    <2>2. fetched' \in Seq(Covers) /\ ToSet(fetched') = ToSet(fetched) \cup {downloading}
      <3>1. /\ fetched' \in Seq(Covers) /\ Len(fetched') = Len(fetched) + 1
            /\ \A i \in 1 .. Len(fetched) : fetched'[i] = fetched[i]
            /\ fetched'[Len(fetched) + 1] = downloading
        BY <1>2, <2>1, AppendProperties DEF DownloadEnds
      <3>2. DOMAIN fetched = 1 .. Len(fetched) /\ DOMAIN fetched' = 1 .. Len(fetched) + 1
        BY <2>1, <3>1
      <3>3. \A i \in DOMAIN fetched' : fetched'[i] \in ToSet(fetched) \cup {downloading}
        BY <2>1, <3>1, <3>2 DEF ToSet
      <3>4. \A i \in DOMAIN fetched : fetched[i] \in ToSet(fetched')
        BY <2>1, <3>1, <3>2 DEF ToSet
      <3>5. downloading \in ToSet(fetched')
        BY <2>1, <3>1, <3>2 DEF ToSet
      <3> QED
        BY <3>1, <3>3, <3>4, <3>5 DEF ToSet
    <2> QED
      BY <1>2, <2>2 DEF ArtTypes, CoverUnderWay, DownloadEnds
  <1> QED
    BY <1>1, <1>2

----------------------------------------------------------------------------
(* Screens and the clock.                                                  *)

\* What the clock's proofs need to know of a screen.
LEMMA ScreenTypes ==
    ASSUME NEW s \in Screens
    PROVE  /\ s.position \in Nat /\ CoverOf(s) \in Covers \cup {NoCover}
           /\ s.source = "Spotify" /\ s.what # Nothing => s.position <= Duration
           /\ s.source = "List" <=> s \in ListScreens
           /\ s.source = "Stopped" => s = StoppedScreen
  <1>1. Duration \in Nat /\ Positions \subseteq 0 .. Duration
    BY TftAssumption
  <1>2. CoverOf(s) \in Covers \cup {NoCover}
    BY DEF CoverOf
  <1>3. CASE s = StoppedScreen
    BY <1>1, <1>2, <1>3 DEF StoppedScreen, NowPlaying, ListScreens
  <1>4. CASE s \in SpotifyScreens
    BY <1>1, <1>2, <1>4 DEF SpotifyScreens, NowPlaying, ListScreens
  <1>5. CASE s \in RadioScreens
    BY <1>1, <1>2, <1>5 DEF RadioScreens, NowPlaying, ListScreens
  <1>6. CASE s \in ListScreens
    BY <1>1, <1>2, <1>6 DEF ListScreens, NowPlaying
  <1> QED
    BY <1>3, <1>4, <1>5, <1>6 DEF Screens

\* A screen pushed by the controller sets the clock right.
LEMMA TrackTimeKeepsClock ==
    ASSUME NEW next \in Screens \ ListScreens,
           ClockTypes, ClockFollowsScreen, ClockRunsTrue, TrackTime(next)
    PROVE  (ClockTypes /\ ClockFollowsScreen /\ ClockRunsTrue)'
  <1>1. Duration \in Nat
    BY TftAssumption
  <1>2. /\ last \in Screens /\ last.position \in Nat /\ next.position \in Nat
        /\ Ends(next) => next.position <= Duration
        /\ next.source = "Stopped" => next = StoppedScreen
        /\ last.source = "Stopped" => last = StoppedScreen
    BY ScreenTypes DEF ClockFollowsScreen, Ends
  <1>3. Elapsed \in Nat /\ (~repeated => Elapsed = truth)
    <2>1. Elapsed \in Nat
      BY <1>1 DEF ClockTypes, Elapsed
    <2> QED
      BY <2>1 DEF ClockRunsTrue
  <1>4. /\ last' = next /\ clockAge' = 0 /\ clockRunning' = (next.status = "Playing")
        /\ clockBase' = IF next.source = "Stopped" THEN 0 ELSE Base(next)
        /\ truth' = IF NewPosition(next) THEN next.position ELSE truth
        /\ repeated' = (repeated /\ ~NewPosition(next))
    BY DEF TrackTime
  <1>5. truth' \in Nat /\ clockBase' \in Nat /\ repeated' \in BOOLEAN
    BY <1>2, <1>3, <1>4 DEF Base, ClockTypes
  <1>6. ClockTypes'
    BY <1>4, <1>5 DEF ClockTypes
  <1>7. Ends(next) => truth' <= Duration
    BY <1>2, <1>3, <1>4 DEF NewPosition, SameItem, Ends, ClockFollowsScreen
  <1>8. ~repeated' => clockBase' = truth'
    <2>1. CASE next.source # "Stopped"
      BY <1>3, <1>4, <2>1 DEF Base
    <2>2. CASE next.source = "Stopped"
      BY <1>2, <1>4, <2>2 DEF NewPosition, SameItem, ClockFollowsScreen, StoppedScreen, NowPlaying
    <2> QED
      BY <2>1, <2>2
  <1>9. ~repeated' => Elapsed' = truth'
    BY <1>1, <1>4, <1>5, <1>7, <1>8 DEF Elapsed, Ends
  <1>10. next = StoppedScreen => truth' = 0
    BY <1>2, <1>4 DEF NewPosition, SameItem, ClockFollowsScreen, StoppedScreen, NowPlaying
  <1> QED
    BY <1>4, <1>6, <1>7, <1>9, <1>10 DEF ClockFollowsScreen, ClockRunsTrue

\* Time counts on the clock exactly while it counts for the listener.
LEMMA TickKeepsClock ==
    ASSUME ClockTypes, ClockFollowsScreen, ClockRunsTrue, Tick
    PROVE  (ClockTypes /\ ClockFollowsScreen /\ ClockRunsTrue)'
  <1>1. Duration \in Nat
    BY TftAssumption
  <1>2. /\ clockAge' = clockAge + 1 /\ UNCHANGED <<clockBase, clockRunning, last, repeated>>
        /\ truth' = IF last.status = "Playing" /\ (Ends(last) => truth < Duration)
                    THEN truth + 1 ELSE truth
    BY DEF Tick, Ends
  <1>3. ClockTypes'
    BY <1>2 DEF ClockTypes
  <1>4. ~repeated' => Elapsed' = truth'
    BY <1>1, <1>2 DEF ClockTypes, ClockFollowsScreen, ClockRunsTrue, Elapsed, Ends
  <1>5. Ends(last) => truth' <= Duration
    BY <1>1, <1>2 DEF ClockTypes, ClockFollowsScreen
  <1>6. last = StoppedScreen => truth' = 0
    BY <1>2 DEF ClockFollowsScreen, StoppedScreen, NowPlaying
  <1> QED
    BY <1>2, <1>3, <1>4, <1>5, <1>6 DEF ClockFollowsScreen, ClockRunsTrue, Ends

\* A position reported again leaves the clock running as it did.
LEMMA ReportsAgainKeepsClock ==
    ASSUME ClockTypes, ClockFollowsScreen, ReportsAgain
    PROVE  (ClockTypes /\ ClockFollowsScreen /\ ClockRunsTrue)'
  <1>1. last \in Screens /\ Ends(last) /\ last.position \in Nat /\ last.position <= Duration
    BY ScreenTypes DEF ReportsAgain, ClockFollowsScreen, Ends
  <1>2. /\ truth' = last.position /\ repeated' = TRUE
        /\ UNCHANGED <<last, clockBase, clockAge, clockRunning>>
    BY DEF ReportsAgain
  <1>3. last # StoppedScreen
    BY <1>1 DEF Ends, StoppedScreen, NowPlaying
  <1> QED
    BY <1>1, <1>2, <1>3 DEF ClockTypes, ClockFollowsScreen, ClockRunsTrue, Ends

----------------------------------------------------------------------------
\* The Deck starts stopped, with an empty cache.
LEMMA InitEstablishes == TftInit => IInv
  <1> SUFFICES ASSUME TftInit PROVE IInv
    OBVIOUS
  <1> USE TftAssumption DEF TftInit, ArtInit
  <1>1. ClockTypes
    BY DEF ClockTypes
  <1>2. ArtTypes /\ CoverUnderWay
    BY DEF ArtTypes, CoverUnderWay
  <1>3. StoppedScreen \in Screens \ ListScreens
    BY DEF Screens, StoppedScreen, ListScreens, NowPlaying
  <1>4. ClockFollowsScreen
    BY <1>3 DEF ClockFollowsScreen, Ends, StoppedScreen, NowPlaying
  <1>5. ClockRunsTrue
    BY DEF ClockRunsTrue, Elapsed, StoppedScreen, NowPlaying
  <1>6. FramesWhileMoving
    BY DEF FramesWhileMoving, Animating, Scrolls, Idle, StoppedScreen, NowPlaying
  <1> QED
    BY <1>1, <1>2, <1>4, <1>5, <1>6 DEF IInv

\* Every step keeps it.
LEMMA StepKeeps == IInv /\ [TftNext]_tftVars => IInv'
  <1> SUFFICES ASSUME IInv, [TftNext]_tftVars PROVE IInv'
    OBVIOUS
  <1> USE DEF IInv
  <1>1. CoverOf(screen) \in Covers \cup {NoCover}
    BY DEF CoverOf
  <1>2. CASE ControllerShows
    <2>1. PICK next \in Screens : Shows(next)
      BY <1>2 DEF ControllerShows, Screens
    <2>2. CoverOf(next) \in Covers \cup {NoCover}
      BY DEF CoverOf
    <2>3. ArtTypes' /\ CoverUnderWay'
      BY <2>1, <2>2, DrawsKeepsCovers DEF Shows
    <2>4. (ClockTypes /\ ClockFollowsScreen /\ ClockRunsTrue)'
      <3>1. CASE next.source = "List"
        BY <2>1, <3>1 DEF Shows, clockVars, ClockTypes, ClockFollowsScreen, ClockRunsTrue, Elapsed
      <3>2. CASE next.source # "List"
        <4>1. next \in Screens \ ListScreens
          BY <3>2, ScreenTypes
        <4> QED
          BY <2>1, <3>2, <4>1, TrackTimeKeepsClock DEF Shows
      <3> QED
        BY <3>1, <3>2
    <2>5. FramesWhileMoving'
      BY <2>1 DEF Shows, Schedule, FramesWhileMoving, Animating, Scrolls, Idle, spectrumVars
    <2> QED
      BY <2>3, <2>4, <2>5
  <1>3. CASE OnFrame
    <2>1. ArtTypes' /\ CoverUnderWay'
      BY <1>1, <1>3, DrawsKeepsCovers DEF OnFrame
    <2>2. (ClockTypes /\ ClockFollowsScreen /\ ClockRunsTrue)'
      BY <1>3 DEF OnFrame, clockVars, ClockTypes, ClockFollowsScreen, ClockRunsTrue, Elapsed
    <2>3. FramesWhileMoving'
      BY <1>3 DEF OnFrame, Schedule, FramesWhileMoving, Animating, Scrolls, Idle
    <2> QED
      BY <2>1, <2>2, <2>3
  <1>4. CASE CoverArrives
    <2>1. ArtTypes' /\ CoverUnderWay'
      BY <1>1, <1>4, CoverFetchedKeepsCovers DEF CoverArrives
    <2>2. (ClockTypes /\ ClockFollowsScreen /\ ClockRunsTrue)'
      BY <1>4 DEF CoverArrives, clockVars, ClockTypes, ClockFollowsScreen, ClockRunsTrue, Elapsed
    <2>3. FramesWhileMoving'
      BY <1>4 DEF CoverArrives, Schedule, FramesWhileMoving, Animating, Scrolls, Idle, spectrumVars
    <2> QED
      BY <2>1, <2>2, <2>3
  <1>5. CASE FetcherRuns
    <2>1. ArtTypes' /\ CoverUnderWay'
      BY <1>5, FetcherKeepsCovers DEF FetcherRuns
    <2>2. (ClockTypes /\ ClockFollowsScreen /\ ClockRunsTrue)'
      BY <1>5 DEF FetcherRuns, clockVars, ClockTypes, ClockFollowsScreen, ClockRunsTrue, Elapsed
    <2>3. FramesWhileMoving'
      BY <1>5 DEF FetcherRuns, FramesWhileMoving, Animating, Scrolls, Idle, spectrumVars
    <2> QED
      BY <2>1, <2>2, <2>3
  <1>6. CASE Tick
    <2>1. (ClockTypes /\ ClockFollowsScreen /\ ClockRunsTrue)'
      BY <1>6, TickKeepsClock
    <2>2. (ArtTypes /\ CoverUnderWay)'
      BY <1>6 DEF Tick, artVars, ArtTypes, CoverUnderWay
    <2>3. FramesWhileMoving'
      BY <1>6 DEF Tick, spectrumVars, FramesWhileMoving, Animating, Scrolls, Idle
    <2> QED
      BY <2>1, <2>2, <2>3
  <1>8. CASE ReportsAgain
    <2>1. (ClockTypes /\ ClockFollowsScreen /\ ClockRunsTrue)'
      BY <1>8, ReportsAgainKeepsClock
    <2>2. (ArtTypes /\ CoverUnderWay)'
      BY <1>8 DEF ReportsAgain, artVars, ArtTypes, CoverUnderWay
    <2>3. FramesWhileMoving'
      BY <1>8 DEF ReportsAgain, spectrumVars, FramesWhileMoving, Animating, Scrolls, Idle
    <2> QED
      BY <2>1, <2>2, <2>3
  <1>7. CASE UNCHANGED tftVars
    BY <1>7 DEF tftVars, clockVars, spectrumVars, artVars, ClockTypes, ArtTypes, ClockFollowsScreen,
       CoverUnderWay, FramesWhileMoving, ClockRunsTrue, Elapsed, Animating, Scrolls, Idle
  <1> QED
    BY <1>2, <1>3, <1>4, <1>5, <1>6, <1>7, <1>8 DEF TftNext

\* The invariant of the frames, the clock and the covers holds in every reachable state.
THEOREM TftInductive == TftSpec => []IInv
  BY InitEstablishes, StepKeeps, PTL DEF TftSpec

\* scheduleFrame() is reached on every path that leaves something moving.
THEOREM FramesGoOn == TftSpec => []FramesWhileMoving
  BY TftInductive, PTL DEF IInv

\* trackTime() and elapsed() lose no time and add none, whatever is pushed when, as long
\* as no position was reported twice running.
THEOREM ClockIsTrue == TftSpec => []ClockRunsTrue
  BY TftInductive, PTL DEF IInv

\* DeckArtwork never waits for a cover that nobody is going to bring.
THEOREM CoversAreUnderWay == TftSpec => []CoverUnderWay
  BY TftInductive, PTL DEF IInv
=============================================================================
