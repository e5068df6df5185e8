------------------------------ MODULE Hd44780 ------------------------------
(***************************************************************************)
(* The LCD (src/src/hw/hd44780): what the driver sends, and what becomes   *)
(* of it in the display.  A byte goes as two nibbles, which the display    *)
(* puts together again if it is in 4-bit mode and both ends agree where    *)
(* bytes begin.  A transfer that fails stops anywhere, the program may     *)
(* stop after any transfer, and the display stays as that left it.         *)
(*                                                                         *)
(* The display takes a nibble when E falls.  A transfer that stops with E  *)
(* high hasn't given it away, and the next nibble's E falls once.  How     *)
(* long instructions take is left out: the constructor's delays cover the  *)
(* slowest.                                                                *)
(***************************************************************************)
EXTENDS Naturals, SequencesExt

CONSTANTS
    Columns,        \* kColumns
    Garbage,        \* a place of the row that may show anything
    Nothing         \* no nibble, no row

ASSUME ColumnsAssumption == Columns \in Nat \ {0}

----------------------------------------------------------------------------
(* What is sent.                                                           *)

\* A nibble of a command is its value, one of a character its code and which half it is.
Command(value)   == [code |-> Nothing, value |-> value]
Data(code, half) == [code |-> code, value |-> half]
IsData(nibble)   == nibble.code # Nothing

\* queue(): a byte as two nibbles, the high one first.
CommandByte(value) == <<Command(value \div 16), Command(value % 16)>>
DataByte(code) == <<Data(code, 1), Data(code, 0)>>

Clear      == CommandByte(1)
EntryMode  == CommandByte(6)
DisplayOff == CommandByte(8)
DisplayOn  == CommandByte(12)
FunctionSet     == CommandByte(40)
SetDdramAddress == CommandByte(128)

\* Mutation of Initialisation: sure of 8-bit mode after two function sets.
InitialisationShort ==
    <<Command(3), Command(3), Command(2)>> \o
    FunctionSet \o DisplayOff \o Clear \o EntryMode \o DisplayOn

\* The constructor.
Initialisation ==
    <<Command(3), Command(3), Command(3), Command(2)>> \o
    FunctionSet \o DisplayOff \o Clear \o EntryMode \o DisplayOn

\* writeRow().
WriteRow(row) == SetDdramAddress \o FlattenSeq([i \in DOMAIN row |-> DataByte(row[i])])

----------------------------------------------------------------------------
(* The display, external.  An address past the row, or unknown, is 0.      *)

Blank       == " "
BlankRow    == [i \in 1 .. Columns |-> Blank]
GarbageRow  == [i \in 1 .. Columns |-> Garbage]

\* After power-on: 8 bits, and a row of blocks.
PoweredOn == [bits |-> 8, half |-> Nothing, row |-> GarbageRow, address |-> 0,
              toTheRight |-> FALSE, on |-> FALSE]

\* It did something, whatever that was.
Garbled(lcd) == [lcd EXCEPT !.row = GarbageRow, !.address = 0, !.toTheRight = FALSE, !.on = FALSE]

\* A function set's high nibble says how wide the bus is.
WithBus(lcd, high) ==
    [lcd EXCEPT !.bits = CASE high = 2 -> 4 [] high = 3 -> 8 [] OTHER -> @]

\* A command, given as its two nibbles.
Obeyed(lcd, high, low) ==
    LET command == <<Command(high), Command(low)>> IN
    CASE command = Clear           -> [lcd EXCEPT !.row = BlankRow, !.address = 1]
      [] command = EntryMode       -> [lcd EXCEPT !.toTheRight = TRUE]
      [] command = DisplayOff      -> [lcd EXCEPT !.on = FALSE]
      [] command = DisplayOn       -> [lcd EXCEPT !.on = TRUE]
      [] command = SetDdramAddress -> [lcd EXCEPT !.address = 1]
      [] high \in {2, 3}           -> WithBus(lcd, high)
      [] OTHER                     -> Garbled(lcd)

\* A character written where the address is.
Printed(lcd, code) ==
    IF ~lcd.toTheRight THEN Garbled(lcd)
    ELSE [lcd EXCEPT !.row = IF lcd.address = 0 THEN @ ELSE [@ EXCEPT ![lcd.address] = code],
                     !.address = IF @ \in 1 .. Columns - 1 THEN @ + 1 ELSE 0]

\* What two nibbles put together do; half a command and half a character, anything.
Done(lcd, high, low) ==
    CASE IsData(high) /\ <<high, low>> = DataByte(high.code) -> {Printed(lcd, high.code)}
      [] IsData(high) /\ IsData(low) /\ <<high, low>> # DataByte(high.code) -> {Garbled(lcd)}
      [] ~IsData(high) /\ ~IsData(low) -> {Obeyed(lcd, high.value, low.value)}
      [] OTHER -> {[Garbled(lcd) EXCEPT !.bits = bits] : bits \in {4, 8}}

\* The display takes a nibble.  At 8 bits it is an instruction whose other four lines
\* nobody drives: a function set at most.
Latched(lcd, nibble) ==
    CASE lcd.bits = 4 /\ lcd.half = Nothing -> {[lcd EXCEPT !.half = nibble]}
      [] lcd.bits = 4 /\ lcd.half # Nothing ->
           Done([lcd EXCEPT !.half = Nothing], lcd.half, nibble)
      [] lcd.bits = 8 /\ ~IsData(nibble) /\ nibble.value \in {2, 3} -> {WithBus(lcd, nibble.value)}
      [] OTHER -> {Garbled(lcd)}

\* What a transfer may make of the display; and one that stops anywhere.
Sent(lcd, nibbles) ==
    LET displays[n \in 0 .. Len(nibbles)] ==
            IF n = 0 THEN {lcd} ELSE UNION {Latched(d, nibbles[n]) : d \in displays[n - 1]}
    IN displays[Len(nibbles)]
Interrupted(lcd, nibbles) ==
    UNION {Sent(lcd, SubSeq(nibbles, 1, sent)) : sent \in 0 .. Len(nibbles)}
=============================================================================
