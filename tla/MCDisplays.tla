----------------------------- MODULE MCDisplays -----------------------------
(* An LCD of two columns, with a separator of one.  A text of one code and  *)
(* one without, which fits; two of three codes, which don't.  A TFT of six   *)
(* by six pixels, in two bands, the last one short; three visible rows;      *)
(* lists of none, two and five Stations.                                     *)
EXTENDS Displays, Resample, Utf8

MCSeparator == <<"*">>
MCTexts == {<<"umlaut", "softSign">>, <<"backslash", "control", "tilde">>, <<"ya", "accented">>}

MCArt      == Rect(0, 0, 2, 2)
MCStatus   == Rect(2, 0, 1, 1)
MCClock    == Rect(4, 0, 2, 1)
MCSpectrum == Rect(2, 1, 4, 2)
MCProgress == Rect(0, 3, 6, 1)
MCLine1    == Rect(0, 4, 6, 1)
MCLine2    == Rect(0, 5, 6, 1)

List(names, selected, tuned, moved) ==
    [source |-> "List", names |-> names, selected |-> selected, tuned |-> tuned,
     moved |-> <<0, 0, moved>>]
Playing(source, status, art, clock, bars, peaks, elapsed, line1, moved) ==
    [source |-> source, status |-> status, art |-> art, clock |-> clock, bars |-> bars,
     peaks |-> peaks, elapsed |-> elapsed, line1 |-> line1, line2 |-> <<"t">>, moved |-> <<moved, 0, 0>>]

Five == <<<<"a">>, <<"b", "b", "b">>, <<"c">>, <<"d">>, <<"e", " ", "g">>>>
Long == <<"l", "o", "n", "g", " ", "e", "r">>

MCPictures ==
    {List(<<>>, 0, 0, 0), List(SubSeq(Five, 1, 2), 1, 0, 0), List(Five, 0, 0, 0),
     List(Five, 2, 4, 0), List(Five, 4, 4, 0), List(Five, 4, 4, 3),
     Playing("Stopped", "Stopped", "WINAMP", FALSE, <<0, 0>>, <<0, 0>>, 0, <<"d">>, 0),
     Playing("Spotify", "Playing", "SPOTIFY", TRUE, <<1, 0>>, <<2, 0>>, 0, <<"l", "d">>, 0),
     Playing("Spotify", "Playing", "cover", TRUE, <<2, 1>>, <<2, 1>>, 1, Long, 0),
     Playing("Spotify", "Paused", "cover", FALSE, <<0, 0>>, <<1, 0>>, 1, Long, 3),
     Playing("Radio", "Playing", "logo", TRUE, <<1, 2>>, <<1, 2>>, 1, <<"d">>, 0)}

----------------------------------------------------------------------------
\* Scaling, both up and down, by factors that divide and that don't: each axis, and small
\* pictures of any colours; and the square cut out before.
Sizes == 1 .. 6
ASSUME ScalesFaithfully ==
    /\ \A size, outSize \in Sizes :
           /\ ReadsInside(size, outSize)
           /\ ReadsAll(size, outSize)
           /\ CountsEach(size, outSize)
           /\ SharesEvenly(size, outSize)
    /\ \A width, height \in Sizes : CutsTheMiddle(width, height)
    /\ \A width, height, outWidth, outHeight \in {1, 2, 3} :
           \A source \in [0 .. width * height - 1 -> {0, 255}] :
               LET colours == {source[pixel] : pixel \in DOMAIN source}
               IN StaysBetween(source, width, height, outWidth, outHeight, Min(colours), Max(colours))

\* Characters at both ends of each length, and bytes of every kind in any order.
Characters == {65, 127, 128, 2047, 2048, 65535, 65536, 1114111}
Damages == SeqOf({65, 128, 195, 226, 240, 255}, 3)
ASSUME DecodesFaithfully ==
    /\ \A characters \in SeqOf(Characters, 2) : RoundTrip(characters)
    /\ \A damage \in Damages : StaysInText(damage)
    /\ \A before, after \in {65, 233, 8212, 127925}, damage \in Damages :
           DamageIsLocal(before, damage, after)
=============================================================================
