------------------------------ MODULE TftFrames ------------------------------
(***************************************************************************)
(* What TftView draws of a screen (src/src/ui), and how it gets to the     *)
(* glass: the frame is drawn anew each time, compared with the one shown   *)
(* band by band, and of each band the area that changed is written.        *)
(*                                                                         *)
(* A frame is a list of strokes, each an area in one colour; later ones    *)
(* cover earlier ones.  A character is one pixel, whose colour says which; *)
(* an icon, a cover or a clock is an area whose colour says which.  So a   *)
(* colour is a tuple: what it is of, and which.  The layout's numbers are  *)
(* parameters.                                                             *)
(***************************************************************************)
EXTENDS St7735

CONSTANTS
    BandHeight,                             \* kBandHeight
    ArtArea, StatusArea, ClockArea,         \* kArtArea, kStatusY, kClockY
    SpectrumArea, BarWidth, BarPitch,       \* kSpectrumArea, kBarWidth, + 1
    ProgressArea, KnobWidth,                \* kProgressArea, knobWidth
    Line1Area, Line2Area, Marquee,          \* kLine1Area, kLine2Area, "  ***  "
    HeaderHeight, RowsTop, RowHeight, VisibleRows,  \* kHeaderHeight, kRowsTop, ...
    ThumbWidth, RowTextX, RowMargin, ScrollbarX, ScrollbarWidth, MinThumb,
    Duration                                \* of every track

ASSUME LayoutAssumption ==
    /\ {BandHeight, BarPitch, RowHeight, VisibleRows, MinThumb, Duration} \subseteq Nat \ {0}
    /\ RowsTop \in Nat /\ MinThumb <= VisibleRows * RowHeight

\* The Station List has room: for its header above the rows, its logos beside the names,
\* and its scrollbar beside both.
IsText(text) == text \in Seq(ToSet(text))
ASSUME ListAssumption ==
    /\ {HeaderHeight, ThumbWidth, RowTextX, RowMargin, ScrollbarX} \subseteq Nat
    /\ HeaderHeight < RowsTop /\ RowsTop + VisibleRows * RowHeight <= Height
    /\ ThumbWidth < RowTextX /\ RowTextX + RowMargin < ScrollbarX - 1
    /\ ScrollbarWidth \in Nat \ {0} /\ ScrollbarX + ScrollbarWidth <= Width
    /\ IsText(Marquee)

----------------------------------------------------------------------------
(* The canvas.                                                             *)

Stroke(area, color) == [area |-> area, color |-> color]

Space == " "

\* Canvas::text(): a character at a time, of which the clip leaves some; blanks aren't drawn.
Text(x, y, characters, color, clip) ==
    [i \in DOMAIN characters |->
        LET glyph == IF characters[i] = Space THEN Rect(0, 0, 0, 0) ELSE Rect(x + i - 1, y, 1, 1)
        IN Stroke(Intersect(glyph, clip), <<"text", color, characters[i]>>)]

\* fill(), horizontalLine() and blit(), one after the other, on a black canvas.
Frame(strokes) ==
    LET pixels  == RowAfterRow(Screen)
        Over(p) == {s \in DOMAIN strokes : p \in Pixels(strokes[s].area)}
    IN [i \in DOMAIN pixels |->
            IF Over(pixels[i]) = {} THEN Black ELSE strokes[Max(Over(pixels[i]))].color]

\* drawLine(): a text that doesn't fit runs through, with itself behind it.
Line(area, text, color, moved) ==
    LET cycle  == text \o Marquee
        offset == moved % Len(cycle)
    IN IF Len(text) <= area.width THEN Text(area.x, area.y, text, color, area)
       ELSE Text(area.x - offset, area.y, cycle, color, area)
            \o Text(area.x - offset + Len(cycle), area.y, cycle, color, area)

\* drawTruncated().
Truncated(x, y, width, text, color) ==
    Text(x, y, SubSeq(text, 1, Min({Len(text), width})), color, Screen)

If(condition, strokes) == IF condition THEN strokes ELSE <<>>

----------------------------------------------------------------------------
(* Now Playing: a picture says its source and status, the art (or what     *)
(* stands there instead), whether the clock is shown, the bars and peaks,  *)
(* the time elapsed, two lines, and how far each of lines_ moved.          *)

\* drawSpectrum().
Bars(bars, peaks) ==
    FlattenSeq([b \in DOMAIN bars |->
        LET x == SpectrumArea.x + (b - 1) * BarPitch
            Lines(top, height) == Rect(x, Bottom(SpectrumArea) - top, BarWidth, height)
        IN <<Stroke(Lines(bars[b], bars[b]), <<"bar">>)>>
           \o If(peaks[b] > 0, <<Stroke(Lines(peaks[b], 1), <<"peak">>)>>)])

\* drawProgress(): a knob, the part before it played.
Progress(elapsed) ==
    LET area  == ProgressArea
        knobX == area.x + ((area.width - KnobWidth) * elapsed) \div Duration
    IN <<Stroke(area, <<"track">>),
         Stroke(Rect(area.x, area.y, knobX - area.x, area.height), <<"played">>),
         Stroke(Rect(knobX, area.y, KnobWidth, area.height), <<"knob">>)>>

\* drawNowPlaying().
DrawNowPlaying(p) ==
    <<Stroke(ArtArea, <<"art", p.art>>), Stroke(StatusArea, <<"status", p.status>>)>>
    \o If(p.clock, <<Stroke(ClockArea, <<"clock", p.elapsed>>)>>)
    \o Bars(p.bars, p.peaks)
    \o If(p.source = "Spotify" /\ p.status # "Stopped", Progress(p.elapsed))
    \o Line(Line1Area, p.line1, "white", p.moved[1])
    \o Line(Line2Area, p.line2, "green", p.moved[2])

----------------------------------------------------------------------------
(* The Station List: a picture says the Stations' names, which is          *)
(* highlighted and which is tuned, and how far each of lines_ moved.       *)

\* Mutation of TopRow: doesn't stop at the end of the list.
TopRowUnclamped(count, selected) == Max({0, selected - VisibleRows \div 2})

\* The highlight in the middle row where possible.  Stations count from 0, as in the code.
TopRow(count, selected) ==
    Max({0, Min({selected - VisibleRows \div 2, Max({0, count - VisibleRows})})})

RowTop(row)  == RowsTop + row * RowHeight
TextTop(row) == RowTop(row) + ((RowHeight - 1) \div 2)

RowRight(count)  == IF count > VisibleRows THEN ScrollbarX - 1 ELSE Width
TextWidth(count) == RowRight(count) - RowMargin - RowTextX

\* A row: its highlight, its logo, and its name, which scrolls if it is highlighted.
DrawRow(p, top, row) ==
    LET index == top + row
        count == Len(p.names)
        width == TextWidth(count)
        y     == RowTop(row)
        name  == p.names[index + 1]
        color == IF index = p.tuned THEN "white" ELSE "green"
    IN If(index = p.selected, <<Stroke(Rect(0, y, RowRight(count), RowHeight), <<"selected">>)>>)
       \o <<Stroke(Rect(0, y, ThumbWidth, RowHeight), <<"logo">>)>>
       \o IF index = p.selected
          THEN Line(Rect(RowTextX, TextTop(row), width, 1), name, color, p.moved[3])
          ELSE Truncated(RowTextX, TextTop(row), width, name, color)

TrackHeight == VisibleRows * RowHeight

ThumbHeight(count) == Max({MinThumb, (TrackHeight * VisibleRows) \div count})
ThumbY(count, top) ==
    RowsTop + ((TrackHeight - ThumbHeight(count)) * top) \div (count - VisibleRows)

Scrollbar(count, top) ==
    <<Stroke(Rect(ScrollbarX, RowsTop, ScrollbarWidth, TrackHeight), <<"track">>),
      Stroke(Rect(ScrollbarX, ThumbY(count, top), ScrollbarWidth, ThumbHeight(count)), <<"thumb">>)>>

\* drawStationList().
DrawStationList(p) ==
    LET count == Len(p.names)
        top   == TopRow(count, p.selected)
        rows  == Min({VisibleRows, count - top})
        Label(x, y, says) == <<Stroke(Rect(x, y, 1, 1), <<"label", says>>)>>
    IN Label(0, 0, <<"STATIONS">>) \o
       IF count = 0 THEN Label(0, RowsTop, <<"NONE">>)
       ELSE Label(Width - 1, 0, <<p.selected + 1, count>>)
            \o <<Stroke(Rect(0, HeaderHeight, Width, 1), <<"dim">>)>>
            \o FlattenSeq([r \in 1 .. rows |-> DrawRow(p, top, r - 1)])
            \o If(count > VisibleRows, Scrollbar(count, top))

\* render().
Render(p) == Frame(IF p.source = "List" THEN DrawStationList(p) ELSE DrawNowPlaying(p))

----------------------------------------------------------------------------
(* To the glass.                                                           *)

\* Mutation of ChangedIn: takes the last column and row for exclusive.
ChangedInExclusive(before, after, band) ==
    LET changed == {p \in Pixels(band) : ColorAt(before, Width, p) # ColorAt(after, Width, p)}
        xs == {p[1] : p \in changed}
        ys == {p[2] : p \in changed}
    IN IF changed = {} THEN <<>>
       ELSE <<Rect(Min(xs), Min(ys), Max({1, Max(xs) - Min(xs)}), Max({1, Max(ys) - Min(ys)}))>>

\* changedAreas(), in one band.
ChangedIn(before, after, band) ==
    LET changed == {p \in Pixels(band) : ColorAt(before, Width, p) # ColorAt(after, Width, p)}
        xs == {p[1] : p \in changed}
        ys == {p[2] : p \in changed}
    IN IF changed = {} THEN <<>>
       ELSE <<Rect(Min(xs), Min(ys), Max(xs) - Min(xs) + 1, Max(ys) - Min(ys) + 1)>>

ChangedAreas(before, after) ==
    FlattenSeq([b \in 1 .. (Height + BandHeight - 1) \div BandHeight |->
        ChangedIn(before, after, Intersect(Rect(0, (b - 1) * BandHeight, Width, BandHeight), Screen))])

\* crop().
Crop(frame, area) ==
    LET pixels == RowAfterRow(area)
    IN [i \in DOMAIN pixels |-> ColorAt(frame, Width, pixels[i])]

\* flush(): all of the first frame, then what differs from the one before.
ToWrite(valid, shown, frame) == IF valid THEN ChangedAreas(shown, frame) ELSE <<Screen>>
Flush(tft, areas, frame) ==
    LET flushed[n \in 0 .. Len(areas)] ==
            IF n = 0 THEN tft ELSE Write(flushed[n - 1], areas[n], Crop(frame, areas[n]))
    IN flushed[Len(areas)]
=============================================================================
