------------------------------ MODULE Displays ------------------------------
(***************************************************************************)
(* The two displays of the Deck and the program that drives them, from     *)
(* main's first step to its last (src/src/main.cpp): the TFT's driver is   *)
(* constructed first and destroyed last, the LCD's may throw while the TFT *)
(* is on already.  The program may be stopped, fail or be killed anywhere, *)
(* and systemd starts it again; the displays stay powered and keep what    *)
(* they were left with.                                                    *)
(*                                                                         *)
(* TftView draws any of a set of pictures next; TftView.tla says when.     *)
(***************************************************************************)
EXTENDS LcdView, TftFrames

CONSTANT Pictures       \* what TftView draws

\* Noise is told apart from all that is drawn, and from what is left of it.
ASSUME NoiseAssumption ==
    Noise \notin {Black, Left} /\ \A p \in Pictures : Noise \notin ToSet(Render(p))

\* A Station List is of names, one of them highlighted, and no part of it is black.
ASSUME PictureAssumption ==
    /\ Black \notin {<<"selected">>, <<"thumb">>}
    /\ \A p \in Pictures : p.source = "List" =>
           /\ p.names \in Seq(ToSet(p.names)) /\ \A name \in ToSet(p.names) : IsText(name)
           /\ p.names # <<>> => p.selected \in 0 .. Len(p.names) - 1
           /\ p.moved[3] \in Nat

VARIABLES
    driver,         \* the St7735: "gone", being constructed ("reset", "cleared"), or "ready"
    tft,            \* the TFT
    picture,        \* what TftView drew last
    tftShown        \* shown_, Nothing while shownValid_ is false

tftVars      == <<driver, tft, picture, tftShown>>
displaysVars == <<lcdVars, tftVars>>

\* Every picture, drawn.
Drawings == {[picture |-> p, frame |-> Render(p)] : p \in Pictures}

DisplaysInit ==
    /\ running = FALSE /\ lcd = PoweredOn /\ ViewInit
    /\ driver = "gone" /\ tft = TftPoweredOn
    /\ picture = Nothing /\ tftShown = Nothing

----------------------------------------------------------------------------
(* Starting.                                                               *)

\* The St7735's constructor, which may be killed between any two steps.
DriverStep(from, to, next) ==
    /\ driver = from /\ driver' = to
    /\ tft' = next
    /\ UNCHANGED <<lcdVars, picture, tftShown>>

TftResets == DriverStep("gone", "reset", Resets(tft))
TftClears == DriverStep("reset", "cleared", Clears(tft))
TftLights == DriverStep("cleared", "ready", Lights(tft))

\* The views are constructed, and the LCD between them.
Starts ==
    /\ driver = "ready" /\ ~running /\ running' = TRUE
    /\ lcd' \in Sent(lcd, Initialisation)
    /\ UNCHANGED <<viewVars, tftVars>>

----------------------------------------------------------------------------
(* Running.                                                                *)

\* render() and flush(): the frames are swapped once the new one was written.
Draws(drawing) ==
    /\ picture' = drawing.picture
    /\ \E areas \in {ToWrite(tftShown # Nothing, tftShown, drawing.frame)} :
           tft' = Flush(tft, areas, drawing.frame)
    /\ tftShown' = drawing.frame

TftDraws == running /\ (\E drawing \in Drawings : Draws(drawing)) /\ UNCHANGED <<lcdVars, driver>>

LcdShows  == (\E next \in Texts : ShowsText(next)) /\ UNCHANGED tftVars
LcdDue    == StepDue /\ UNCHANGED tftVars
LcdSteps  == StepRuns /\ UNCHANGED tftVars
LcdStrays == StrayRuns /\ UNCHANGED tftVars

----------------------------------------------------------------------------
(* Ending.  Whatever ends the program, the TFT's driver goes last: dark,   *)
(* or, when it is killed, however it was.                                  *)

TftEnds ==
    /\ driver' = "gone"
    /\ tft' \in {Shuts(Abandoned(tft)), Abandoned(tft)}
    /\ picture' = Nothing /\ tftShown' = Nothing

\* The LCD doesn't answer its driver's constructor.
StartFails ==
    /\ driver = "ready" /\ ~running
    /\ TftEnds
    /\ lcd' \in Interrupted(lcd, Initialisation)
    /\ UNCHANGED <<running, viewVars>>

\* Nor the view, at a text or a step.
LcdThrows ==
    /\ running /\ TftEnds
    /\ (\E next \in Texts : ShowThrows(next)) \/ StepThrows

\* The program is stopped, fails for another reason, or is killed.
Exits == running /\ TftEnds /\ Ends({lcd})

\* It is killed while the TFT's driver is constructed.
KilledEarly ==
    /\ driver \in {"reset", "cleared"} /\ driver' = "gone"
    /\ tft' = Abandoned(tft)
    /\ UNCHANGED <<lcdVars, picture, tftShown>>

DisplaysNext ==
    \/ TftResets \/ TftClears \/ TftLights \/ Starts
    \/ TftDraws \/ LcdShows \/ LcdDue \/ LcdSteps \/ LcdStrays
    \/ StartFails \/ LcdThrows \/ Exits \/ KilledEarly

\* The clock goes on, and the event loop runs what is queued.
DisplaysSpec ==
    /\ DisplaysInit /\ [][DisplaysNext]_displaysVars
    /\ WF_displaysVars(LcdDue) /\ WF_displaysVars(LcdSteps) /\ WF_displaysVars(LcdStrays)

----------------------------------------------------------------------------
(* Properties.  Those of the LCD alone are LcdView's.                      *)

\* The glass shows the picture drawn last, pixel for pixel, though of each only what
\* changed is sent, and whatever an earlier run of the program left there.
GlassShowsPicture ==
    running /\ picture # Nothing =>
        Visible(tft) /\ [picture |-> picture, frame |-> Glass(tft)] \in Drawings

\* The noise the TFT powers up with is never seen: not while the program starts, nor
\* if it is killed in the middle of that, nor at the edges of what it writes.
NoiseStaysDark == Visible(tft) => Noise \notin ToSet(Glass(tft))

\* What there is to read in a column of a Station's row.
CharacterAt(p, index, column) ==
    LET name  == p.names[index + 1]
        cycle == name \o Marquee
    IN IF index = p.selected /\ Len(name) > TextWidth(Len(p.names))
       THEN cycle[((p.moved[3] + column) % Len(cycle)) + 1]
       ELSE IF column < Len(name) THEN name[column + 1] ELSE Space

ShowsStation(glass, p, row, index) ==
    \A column \in 0 .. TextWidth(Len(p.names)) - 1 :
        ColorAt(glass, Width, <<RowTextX + column, TextTop(row)>>) =
            LET character == CharacterAt(p, index, column)
            IN IF character # Space
               THEN <<"text", IF index = p.tuned THEN "white" ELSE "green", character>>
               ELSE IF index = p.selected THEN <<"selected">> ELSE Black

\* Where a row is highlighted, and the scrollbar's thumb.
Lit(glass, row)   == ColorAt(glass, Width, <<ThumbWidth, RowTop(row)>>) = <<"selected">>
ThumbLines(glass) == {y \in 0 .. Height - 1 : ColorAt(glass, Width, <<ScrollbarX, y>>) = <<"thumb">>}

ShowsList(glass, p) ==
    LET count == Len(p.names)
        thumb == ThumbLines(glass)
    IN \E row \in 0 .. VisibleRows - 1 :
        LET first == p.selected - row
        IN /\ \A r \in 0 .. VisibleRows - 1 : Lit(glass, r) <=> r = row
           /\ \A r \in 0 .. Min({VisibleRows, count}) - 1 :
                  first + r \in 0 .. count - 1 /\ ShowsStation(glass, p, r, first + r)
           /\ count > VisibleRows =>
                  /\ thumb # {} /\ thumb \subseteq RowsTop .. RowsTop + TrackHeight - 1
                  /\ first = 0 => RowsTop \in thumb
                  /\ first + VisibleRows = count => RowsTop + TrackHeight - 1 \in thumb

\* Of a Station List the glass shows the highlighted name, highlighted and all of it
\* once it has run through, with its neighbours above and below, as many as there are
\* rows for, the tuned one in white; the scrollbar's thumb stays in its track, and is at
\* an end of it when the list is.
ListReadable ==
    running /\ picture # Nothing /\ picture.source = "List" /\ picture.names # <<>> =>
        ShowsList(Glass(tft), picture)
=============================================================================
