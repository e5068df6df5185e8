------------------------------- MODULE St7735 -------------------------------
(***************************************************************************)
(* The TFT (src/src/hw/st7735): what the driver sends, and what becomes of *)
(* it in the controller on the glass.  The glass shows a part of the       *)
(* controller's memory that doesn't begin at its first cell; memory holds  *)
(* noise after power-on, keeps what it holds across resets, and is written *)
(* through a window.  Memory, pictures and transfers are sequences of      *)
(* colours, row after row; columns and rows count from 0.                  *)
(*                                                                         *)
(* Nothing comes back over SPI: no transfer fails as far as the driver can *)
(* tell.  A program that is killed leaves the controller as it was.        *)
(***************************************************************************)
EXTENDS Integers, FiniteSetsExt, SequencesExt

CONSTANTS
    Width, Height,              \* kWidth, kHeight
    ColumnOffset, RowOffset,    \* config_.columnOffset and rowOffset: where the glass begins
    Noise,                      \* what memory holds after power-on
    Left,                       \* part of some picture of a program that is gone
    Black

ASSUME GlassAssumption ==
    {Width, Height} \subseteq Nat \ {0} /\ {ColumnOffset, RowOffset} \subseteq Nat

----------------------------------------------------------------------------
(* Areas: ui::Rect.                                                        *)

Rect(x, y, width, height) == [x |-> x, y |-> y, width |-> width, height |-> height]
Right(area)   == area.x + area.width
Bottom(area)  == area.y + area.height
IsEmpty(area) == area.width <= 0 \/ area.height <= 0
Pixels(area)  == (area.x .. Right(area) - 1) \X (area.y .. Bottom(area) - 1)

\* Rect::intersect().
Intersect(a, b) ==
    LET left   == Max({a.x, b.x})
        top    == Max({a.y, b.y})
        right  == Min({Right(a), Right(b)})
        bottom == Min({Bottom(a), Bottom(b)})
    IN IF right <= left \/ bottom <= top THEN Rect(0, 0, 0, 0)
       ELSE Rect(left, top, right - left, bottom - top)

Screen == Rect(0, 0, Width, Height)

----------------------------------------------------------------------------
(* The controller, external.                                               *)

RowAfterRow(area) ==
    [i \in 1 .. area.width * area.height |->
        <<area.x + ((i - 1) % area.width), area.y + ((i - 1) \div area.width)>>]
ColorAt(pixels, width, pixel) == pixels[pixel[2] * width + pixel[1] + 1]

MemoryWidth == Width + ColumnOffset

\* Whatever the backlight's pin does before the program, the display is off.
TftPoweredOn ==
    [lit |-> TRUE, awake |-> FALSE, on |-> FALSE, configured |-> FALSE,
     ram |-> [i \in 1 .. MemoryWidth * (Height + RowOffset) |-> Noise]]

\* A reset keeps the memory only.
Reset(tft) == [tft EXCEPT !.awake = FALSE, !.on = FALSE, !.configured = FALSE]

\* RAMWR and the pixels behind it, from the window's first cell.  In another pixel
\* format or orientation than the driver's, anything may come of them.
MemoryWrite(tft, window, pixels) ==
    LET Column(i) == ((i - 1) % MemoryWidth) - window.x
        Row(i)    == ((i - 1) \div MemoryWidth) - window.y
        Place(i)  == Row(i) * window.width + Column(i) + 1
        Written(i) == /\ Column(i) \in 0 .. window.width - 1
                      /\ Row(i) \in 0 .. window.height - 1
                      /\ Place(i) <= Len(pixels)
    IN IF tft.configured
       THEN [tft EXCEPT !.ram = [i \in DOMAIN @ |-> IF Written(i) THEN pixels[Place(i)] ELSE @[i]]]
       ELSE [tft EXCEPT !.ram = [i \in DOMAIN @ |-> Noise]]

\* What is seen when the display is on.
Glass(tft) ==
    LET cells == RowAfterRow(Rect(ColumnOffset, RowOffset, Width, Height))
    IN [i \in DOMAIN cells |-> ColorAt(tft.ram, MemoryWidth, cells[i])]
Visible(tft) == tft.lit /\ tft.awake /\ tft.on

\* The program is gone, maybe in the middle of a picture.
Abandoned(tft) ==
    [tft EXCEPT !.ram = [i \in DOMAIN @ |-> IF @[i] = Noise THEN Noise ELSE Left]]

----------------------------------------------------------------------------
(* The driver.                                                             *)

\* setWindow().
Window(area) == Rect(area.x + ColumnOffset, area.y + RowOffset, area.width, area.height)

\* write(), which takes whole areas on the screen only, and ignores others.
Write(tft, area, pixels) ==
    LET visible == Intersect(area, Screen)
    IN IF IsEmpty(visible) \/ visible # area \/ Len(pixels) # area.width * area.height
       THEN tft
       ELSE MemoryWrite(tft, Window(area), pixels)

\* The constructor: dark, and reset; then told how pixels come;
Resets(tft) ==
    [Reset([tft EXCEPT !.lit = FALSE]) EXCEPT !.awake = TRUE, !.configured = TRUE]

\* Mutation of Clears: leaves it to the first picture.
ClearsNothing(tft) == tft

\* black all over;
Clears(tft) == Write(tft, Screen, [i \in 1 .. Width * Height |-> Black])

\* and on, with the backlight.
Lights(tft) == [tft EXCEPT !.on = TRUE, !.lit = TRUE]

\* The destructor.
Shuts(tft) == [tft EXCEPT !.lit = FALSE, !.on = FALSE, !.awake = FALSE]
=============================================================================
