---------------------------- MODULE SpectrumBands ----------------------------
(***************************************************************************)
(* What SpectrumBands (src/src/core) makes of the sound recorded last,     *)
(* around the Fourier transform: which samples it takes, mixed into one    *)
(* channel, and which of the transform's bins each bar adds up.  The       *)
(* window, the transform and the decibels are floating-point arithmetic    *)
(* and left out; where a band starts, in bins and rounded up, is given.    *)
(***************************************************************************)
EXTENDS Integers, Sequences, FiniteSetsExt

CONSTANT kFrames        \* of the transform

ASSUME FramesAssumption == kFrames \in Nat \ {0}

\* The constructor: a band that would have no bin gets the next one.
FirstBins(starts) ==
    LET First[bar \in DOMAIN starts] ==
            IF bar > 0 /\ starts[bar] <= First[bar - 1] THEN First[bar - 1] + 1 ELSE starts[bar]
    IN First

\* levels(): the last frames of the sound, left and right, behind silence if there
\* are too few.
Mixed(samples) ==
    LET frames  == IF Len(samples) \div 2 < kFrames THEN Len(samples) \div 2 ELSE kFrames
        padding == kFrames - frames
        before  == Len(samples) - 2 * frames
    IN [i \in 1 .. kFrames |->
            IF i <= padding THEN 0
            ELSE samples[before + 2 * (i - padding) - 1] + samples[before + 2 * (i - padding)]]

\* The power of a bar, of the powers of all bins.
Power(powers, starts, bar) ==
    SumFunctionOnSet(powers, FirstBins(starts)[bar] .. FirstBins(starts)[bar + 1] - 1)

\* LoopbackSpectrum::analyse(): what it keeps of the sound between two analyses.
Kept(history) ==
    IF Len(history) > 2 * kFrames
    THEN SubSeq(history, Len(history) - 2 * kFrames + 1, Len(history)) ELSE history

----------------------------------------------------------------------------
(* What is asked of it.                                                    *)

\* What analyse() forgets makes no difference, then or after more sound.
KeepsEnough(history, more) == Mixed(Kept(history) \o more) = Mixed(history \o more)

\* Sound that was too short is sound after silence.
SilenceBefore(samples) == Mixed(<<0, 0>> \o samples) = Mixed(samples)

\* No bar without a bin of its own, and none moved up further than those below it need.
OwnBins(starts) ==
    \A bar \in DOMAIN starts :
        FirstBins(starts)[bar] = Max({starts[below] + bar - below : below \in 0 .. bar})

\* Every bin between the lowest pitch and the highest counts, for one bar.
EveryBinOnce(powers, starts) ==
    LET last == Max(DOMAIN starts)
        bars == [bar \in 0 .. last - 1 |-> Power(powers, starts, bar)]
    IN SumFunctionOnSet(bars, 0 .. last - 1)
           = SumFunctionOnSet(powers, FirstBins(starts)[0] .. FirstBins(starts)[last] - 1)
=============================================================================
