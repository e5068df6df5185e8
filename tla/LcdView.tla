------------------------------- MODULE LcdView -------------------------------
(***************************************************************************)
(* The LCD's one row (src/src/ui): LcdView encodes the controller's text   *)
(* in the codes of the display's ROM, and if they don't fit scrolls them   *)
(* on a timer: text, separator, text again.  The program may end at any    *)
(* time, and does if the display doesn't answer; systemd starts it again.  *)
(*                                                                         *)
(* A timer is known by how far it got: waiting, or with its handler queued *)
(* in the event loop, where AsioScheduler can't cancel it any more.  A     *)
(* character stands for all that are encoded the same way.                 *)
(***************************************************************************)
EXTENDS Hd44780

CONSTANTS
    Separator,      \* kSeparator
    Texts,          \* what the controller shows
    MaxLate         \* bound on cancels that come too late, in one run of the program

ASSUME LcdAssumption ==
    MaxLate \in Nat /\ Len(Separator) > 0 /\ Texts \cup {Separator} \subseteq Seq(STRING)

VARIABLES
    running,        \* the program runs
    lcd,            \* the display
    text,           \* text_
    codes,          \* codes_
    offset,         \* offset_
    shown,          \* shown_
    timer,          \* the timer in timer_: "none", "waiting" or "queued"
    strays,         \* steps under way that timer_ doesn't name
    late            \* cancels that came too late

viewVars == <<text, codes, offset, shown, timer, strays, late>>
lcdVars  == <<running, lcd, viewVars>>

----------------------------------------------------------------------------
(* Encoding.                                                               *)

\* encodeLcdText's append(), for a character of each kind: it may become
\* several codes, or none.
Codes(character) ==
    CASE character \in {"a", "b", Blank} -> <<character>>   \* ASCII the ROM has
      [] character = "control"         -> <<Blank>>
      [] character = "backslash"       -> <<"/">>           \* the ROM has a Yen there
      [] character = "tilde"           -> <<"-">>           \* and an arrow here
      [] character = "umlaut"          -> <<"u">>           \* kRomCharacters
      [] character = "ya"              -> <<"y", "a">>      \* kTransliterations
      [] character = "softSign"        -> <<>>
      [] character = "accented"        -> <<"a">>           \* the font's substitute
      [] OTHER                         -> <<"?">>

\* encodeLcdText().
Encode(characters) == FlattenSeq([i \in DOMAIN characters |-> Codes(characters[i])])

\* What a row is made of, which Nothing isn't.
LcdCodes == {"a", "b", "/", "-", "u", "y", "?", Blank} \cup ToSet(Separator)
ASSUME CodesAssumption ==
    Nothing \notin LcdCodes \cup [code : LcdCodes \cup {Nothing}, value : Nat]

----------------------------------------------------------------------------
(* The row.                                                                *)

Fits(row)  == Len(row) <= Columns
Cycle(row) == row \o Separator

\* render(): the codes padded with blanks, or the part of the cycle at the offset.
Row(row, from) ==
    IF Fits(row) THEN [i \in 1 .. Columns |-> IF i <= Len(row) THEN row[i] ELSE Blank]
    ELSE [i \in 1 .. Columns |-> Cycle(row)[((from + i - 1) % Len(Cycle(row))) + 1]]

\* render(): only a row that differs is written.
Renders(row) ==
    /\ shown' = row
    /\ lcd' \in IF row = shown THEN {lcd} ELSE Sent(lcd, WriteRow(row))

\* Before the program runs.
ViewInit ==
    /\ text = Nothing /\ codes = <<>> /\ offset = 0 /\ shown = Nothing
    /\ timer = "none" /\ strays = 0 /\ late = 0

\* The program is gone, with all it knew; the destructor's clear may fail, or not be reached.
Ends(displays) ==
    /\ running' = FALSE
    /\ lcd' \in UNION {Interrupted(d, Clear) : d \in displays}
    /\ text' = Nothing /\ codes' = <<>> /\ offset' = 0 /\ shown' = Nothing
    /\ timer' = "none" /\ strays' = 0 /\ late' = 0

\* render() throws: the display didn't answer.
Throws(row) == row # shown /\ Ends(Interrupted(lcd, WriteRow(row)))

----------------------------------------------------------------------------
(* The event loop.                                                         *)

\* Mutation of CancelTimer: the timer is only forgotten.
CancelTimerForgets ==
    /\ strays + late < MaxLate
    /\ strays' = IF timer = "none" THEN strays ELSE strays + 1
    /\ UNCHANGED late

\* cancelTimer(): a step whose handler is queued runs all the same.
CancelTimer ==
    IF timer = "queued" THEN late < MaxLate /\ late' = late + 1 /\ strays' = strays + 1
                        ELSE UNCHANGED <<strays, late>>

\* show(): the text already shown changes nothing.
ShowsText(next) ==
    /\ running /\ text # next
    /\ text' = next /\ codes' = Encode(next) /\ offset' = 0
    /\ CancelTimer
    /\ Renders(Row(codes', 0))
    /\ timer' = IF Fits(codes') THEN "none" ELSE "waiting"
    /\ UNCHANGED running

ShowThrows(next) == running /\ text # next /\ Throws(Row(Encode(next), 0))

\* The timer's deadline passes: its handler is queued.
StepDue ==
    /\ timer = "waiting" /\ timer' = "queued"
    /\ UNCHANGED <<running, lcd, text, codes, offset, shown, strays, late>>

\* Mutation of NextOffset: leaves the separator out of the cycle.
NextOffsetInText == (offset + 1) % Len(codes)

NextOffset == (offset + 1) % Len(Cycle(codes))

\* onStep(), which asks for the next step whatever the text.
OnStep ==
    /\ offset' = NextOffset
    /\ Renders(Row(codes, NextOffset))
    /\ timer' = "waiting"
    /\ UNCHANGED <<running, text, codes, late>>

\* The timer's handler runs.
StepRuns == timer = "queued" /\ OnStep /\ UNCHANGED strays

\* One runs that was cancelled too late, or forgotten: the timer of the moment is forgotten too.
StrayRuns ==
    /\ strays > 0 /\ OnStep
    /\ strays' = IF timer = "none" THEN strays - 1 ELSE strays

StepThrows == (timer = "queued" \/ strays > 0) /\ Throws(Row(codes, NextOffset))

----------------------------------------------------------------------------
(* Properties.                                                             *)

\* What the display shows is what the view wrote last, and that is the part of the
\* text it scrolled to, whatever state an earlier run left the display in: the two
\* agree where bytes begin, or the row would be garbage until the next start.
GlassShowsText ==
    running /\ shown # Nothing =>
        /\ offset < Len(Cycle(codes)) /\ shown = Row(codes, offset)
        /\ lcd.row = shown /\ lcd.on /\ lcd.bits = 4 /\ lcd.half = Nothing

\* On a Scheduler that keeps its promise a text that doesn't fit has one step under
\* way, and timer_ names it, so that the next text can cancel it; a text that fits none.
OneScroll ==
    late = 0 => strays = 0 /\ (timer = "none" <=> Fits(codes))

\* A long text that stays scrolls through its whole cycle again and again.
ScrollComesRound ==
    \A t \in Texts : <>[](running /\ text = t) =>
        \A from \in 0 .. Len(Cycle(Encode(t))) - 1 : []<>(lcd.row = Row(Encode(t), from))
=============================================================================
