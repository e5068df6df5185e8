------------------------- MODULE MCLoopbackSpectrum -------------------------
(* Half a step is the unit, and four of them the period.  A transform of     *)
(* two frames.                                                               *)
EXTENDS LoopbackSpectrum, SpectrumBands

MCPeriods == {3, 4}

----------------------------------------------------------------------------
\* Where the fifteen bands start, and the last ends: 60 Hz to 16 kHz, in bins of 23.4 Hz.
BandStarts == <<3, 4, 6, 8, 12, 17, 24, 35, 51, 74, 107, 154, 224, 325, 471, 683>>

\* Sound of every length around the transform's, bands of every width, none included, and
\* those of the Deck, which stay inside the transform's 1025 bins.
Sounds == UNION {[1 .. 2 * frames -> {-1, 1}] : frames \in 0 .. 3}
Starts == {starts \in [0 .. 3 -> 1 .. 4] : \A bar \in 1 .. 3 : starts[bar - 1] <= starts[bar]}
ASSUME BandsAreWhole ==
    /\ \A sound \in Sounds : SilenceBefore(sound)
    /\ \A sound \in Sounds, more \in {<<>>, <<1, 1>>, <<1, 0, 1, 1>>} : KeepsEnough(sound, more)
    /\ \A starts \in Starts : OwnBins(starts) /\ EveryBinOnce([bin \in 1 .. 8 |-> 2 ^ bin], starts)
    /\ FirstBins([bar \in 0 .. 15 |-> BandStarts[bar + 1]])[15] <= 1025
=============================================================================
