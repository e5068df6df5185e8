--------------------------- MODULE DisplaysProofs ---------------------------
(***************************************************************************)
(* Proofs about the displays: that both show what was written last, on     *)
(* glass of any size, for any texts and pictures, and whatever they were   *)
(* left with; that the LCD's scroll is one chain of timers; that the       *)
(* Station List's window and its scrollbar are right for lists of any      *)
(* length; that scaling shares the picture it is given out evenly, all of  *)
(* it and nothing else, and keeps its colours; and that the decoder of     *)
(* texts returns every text that is UTF-8, and reads every whole character *)
(* beside bytes that are none.                                             *)
(***************************************************************************)
EXTENDS Displays, Resample, Utf8, Recursion

----------------------------------------------------------------------------
(* The scroll.                                                             *)

\* Cancels that came too late are counted, and the scroll is one chain.
IInv == late \in Nat /\ OneScroll

\* Nothing is under way before the program runs.
LEMMA InitEstablishes == DisplaysInit => IInv
  BY ColumnsAssumption DEF DisplaysInit, ViewInit, IInv, OneScroll, Fits

\* The end of the program is the end of its timers.
LEMMA EndKeeps == ASSUME NEW displays, Ends(displays) PROVE IInv'
  BY ColumnsAssumption DEF Ends, IInv, OneScroll, Fits

\* Every step keeps it.
LEMMA StepKeeps == IInv /\ [DisplaysNext]_displaysVars => IInv'
  <1> SUFFICES ASSUME IInv, [DisplaysNext]_displaysVars PROVE IInv'
    OBVIOUS
  <1>1. CASE LcdShows
    <2>1. PICK next \in Texts : ShowsText(next)
      BY <1>1 DEF LcdShows
    <2>2. CancelTimer /\ timer' = IF Fits(codes') THEN "none" ELSE "waiting"
      BY <2>1 DEF ShowsText
    <2>3. late' \in Nat /\ (late' = 0 => late = 0 /\ strays' = strays)
      BY <2>2 DEF CancelTimer, IInv
    <2> QED
      BY <2>2, <2>3 DEF IInv, OneScroll, Fits
  <1>2. CASE LcdDue
    BY <1>2 DEF LcdDue, StepDue, IInv, OneScroll, Fits
  <1>3. CASE LcdSteps
    BY <1>3 DEF LcdSteps, StepRuns, OnStep, IInv, OneScroll, Fits
  <1>4. CASE LcdStrays
    BY <1>4 DEF LcdStrays, StrayRuns, OnStep, IInv, OneScroll, Fits
  <1>5. CASE LcdThrows
    BY <1>5, EndKeeps DEF LcdThrows, ShowThrows, StepThrows, Throws
  <1>6. CASE Exits
    BY <1>6, EndKeeps DEF Exits
  <1>7. CASE TftResets \/ TftClears \/ TftLights \/ KilledEarly \/ TftDraws
    BY <1>7 DEF TftResets, TftClears, TftLights, KilledEarly, TftDraws, DriverStep, lcdVars, viewVars,
       IInv, OneScroll, Fits
  <1>8. CASE Starts \/ StartFails
    BY <1>8 DEF Starts, StartFails, viewVars, IInv, OneScroll, Fits
  <1>9. CASE UNCHANGED displaysVars
    BY <1>9 DEF displaysVars, lcdVars, viewVars, IInv, OneScroll, Fits
  <1> QED
    BY <1>1, <1>2, <1>3, <1>4, <1>5, <1>6, <1>7, <1>8, <1>9 DEF DisplaysNext

\* LcdView::show(), onStep() and cancelTimer() leave one step under way for a text that
\* scrolls, and none for one that fits, on a Scheduler that keeps its promise.
THEOREM ScrollsOnce == DisplaysSpec => []OneScroll
  <1>1. IInv => OneScroll
    BY DEF IInv
  <1> QED
    BY InitEstablishes, StepKeeps, <1>1, PTL DEF DisplaysSpec

----------------------------------------------------------------------------
(* Two numbers.                                                            *)

\* The smaller and the larger of two.
LEMMA MinOfTwo == ASSUME NEW a \in Int, NEW b \in Int PROVE Min({a, b}) = IF a <= b THEN a ELSE b
  <1>1. PICK m \in {a, b} : m = (IF a <= b THEN a ELSE b) /\ \A x \in {a, b} : x >= m
    OBVIOUS
  <1> QED
    BY <1>1 DEF Min

\* And the larger.
LEMMA MaxOfTwo == ASSUME NEW a \in Int, NEW b \in Int PROVE Max({a, b}) = IF a >= b THEN a ELSE b
  <1>1. PICK m \in {a, b} : m = (IF a >= b THEN a ELSE b) /\ \A x \in {a, b} : x <= m
    OBVIOUS
  <1> QED
    BY <1>1 DEF Max

\* The larger and the smaller are one of them.
LEMMA LargerOf ==
    ASSUME NEW a \in Int, NEW b \in Int
    PROVE  Max({a, b}) \in {a, b} /\ Max({a, b}) >= a /\ Max({a, b}) >= b
  <1>1. \E x \in {a, b} : \A y \in {a, b} : x >= y
    OBVIOUS
  <1> QED
    BY <1>1 DEF Max

\* std::min of two.
LEMMA SmallerOf ==
    ASSUME NEW a \in Int, NEW b \in Int
    PROVE  Min({a, b}) \in {a, b} /\ Min({a, b}) <= a /\ Min({a, b}) <= b
  <1>1. \E x \in {a, b} : \A y \in {a, b} : x <= y
    OBVIOUS
  <1> QED
    BY <1>1 DEF Min

----------------------------------------------------------------------------
(* The LCD's states.                                                       *)

\* Switches, which the provers had better take for any two values.
Yes == TRUE
No  == FALSE
Switches == {Yes, No}

\* The nibbles there are, and the rows.
Nibbles == [code : LcdCodes \cup {Nothing}, value : Nat]
LcdRows == [1 .. Columns -> LcdCodes \cup {Garbage}]

\* The display, part by part.
Lcd(bits, half, row, address, right, on) ==
    [bits |-> bits, half |-> half, row |-> row, address |-> address, toTheRight |-> right, on |-> on]

\* At 8 bits there are no halves.
Lcds ==
    {display \in [bits : {4, 8}, half : Nibbles \cup {Nothing}, row : LcdRows,
                  address : 0 .. Columns, toTheRight : Switches, on : Switches] :
        display.bits = 8 => display.half = Nothing}

\* The parts of a display, and that they are all there is of it.
LEMMA LcdParts ==
    ASSUME NEW display \in Lcds
    PROVE  \E bits \in {4, 8}, half \in Nibbles \cup {Nothing}, row \in LcdRows,
              address \in 0 .. Columns, right \in Switches, on \in Switches :
                 /\ display = Lcd(bits, half, row, address, right, on)
                 /\ bits = 8 => half = Nothing
  <1>1. /\ display.bits \in {4, 8} /\ display.half \in Nibbles \cup {Nothing} /\ display.row \in LcdRows
        /\ display.address \in 0 .. Columns /\ display.toTheRight \in Switches /\ display.on \in Switches
        /\ display = Lcd(display.bits, display.half, display.row, display.address,
                         display.toTheRight, display.on)
        /\ display.bits = 8 => display.half = Nothing
    BY DEF Lcds, Lcd
  <1> QED
    BY <1>1

\* Parts of the right type make a display.
LEMMA LcdType ==
    ASSUME NEW bits \in {4, 8}, NEW half \in Nibbles \cup {Nothing}, NEW row \in LcdRows,
           NEW address \in 0 .. Columns, NEW right \in Switches, NEW on \in Switches,
           bits = 8 => half = Nothing
    PROVE  Lcd(bits, half, row, address, right, on) \in Lcds
  BY DEF Lcds, Lcd

\* Each part is where it was put.
LEMMA PartsOf ==
    ASSUME NEW bits, NEW half, NEW row, NEW address, NEW right, NEW on, NEW display,
           display = Lcd(bits, half, row, address, right, on)
    PROVE  /\ display.bits = bits /\ display.half = half /\ display.row = row
           /\ display.address = address /\ display.toTheRight = right /\ display.on = on
  BY DEF Lcd

\* The rows a display begins with.
LEMMA RowsType == BlankRow \in LcdRows /\ GarbageRow \in LcdRows
  BY DEF BlankRow, GarbageRow, LcdRows, LcdCodes

\* A part changed.
SetBits(display, v)    == [display EXCEPT !.bits = v]
SetHalf(display, v)    == [display EXCEPT !.half = v]
SetRow(display, v)     == [display EXCEPT !.row = v]
SetAddress(display, v) == [display EXCEPT !.address = v]
SetRight(display, v)   == [display EXCEPT !.toTheRight = v]
SetOn(display, v)      == [display EXCEPT !.on = v]

\* The setters change the part they name.
LEMMA PartChanged ==
    ASSUME NEW bits, NEW half, NEW row, NEW address, NEW right, NEW on, NEW v
    PROVE  /\ SetBits(Lcd(bits, half, row, address, right, on), v) = Lcd(v, half, row, address, right, on)
           /\ SetHalf(Lcd(bits, half, row, address, right, on), v) = Lcd(bits, v, row, address, right, on)
           /\ SetRow(Lcd(bits, half, row, address, right, on), v) = Lcd(bits, half, v, address, right, on)
           /\ SetAddress(Lcd(bits, half, row, address, right, on), v) = Lcd(bits, half, row, v, right, on)
           /\ SetRight(Lcd(bits, half, row, address, right, on), v) = Lcd(bits, half, row, address, v, on)
           /\ SetOn(Lcd(bits, half, row, address, right, on), v) = Lcd(bits, half, row, address, right, v)
  <1> DEFINE display == Lcd(bits, half, row, address, right, on)
  <1>1. [display EXCEPT !.bits = v] = Lcd(v, half, row, address, right, on)
    BY Z3 DEF Lcd
  <1>2. [display EXCEPT !.half = v] = Lcd(bits, v, row, address, right, on)
    BY Z3 DEF Lcd
  <1>3. [display EXCEPT !.row = v] = Lcd(bits, half, v, address, right, on)
    BY Z3 DEF Lcd
  <1>4. [display EXCEPT !.address = v] = Lcd(bits, half, row, v, right, on)
    BY Z3 DEF Lcd
  <1>5. [display EXCEPT !.toTheRight = v] = Lcd(bits, half, row, address, v, on)
    BY Z3 DEF Lcd
  <1>6. [display EXCEPT !.on = v] = Lcd(bits, half, row, address, right, v)
    BY Z3 DEF Lcd
  <1> QED
    BY <1>1, <1>2, <1>3, <1>4, <1>5, <1>6 DEF SetBits, SetHalf, SetRow, SetAddress, SetRight, SetOn

\* What commands and characters do to it, part by part.
LEMMA GarbledOf ==
    ASSUME NEW bits, NEW half, NEW row, NEW address, NEW right, NEW on
    PROVE  Garbled(Lcd(bits, half, row, address, right, on)) = Lcd(bits, half, GarbageRow, 0, No, No)
  <1> DEFINE display == Lcd(bits, half, row, address, right, on)
  <1> HIDE DEF display
  <1>1. Garbled(display) = [display EXCEPT !.row = GarbageRow, !.address = 0, !.toTheRight = No, !.on = No]
    BY DEF Garbled, No
  <1>2. Garbled(display) = SetOn(SetRight(SetAddress(SetRow(display, GarbageRow), 0), No), No)
    BY <1>1 DEF SetOn, SetRight, SetAddress, SetRow
  <1> QED
    BY <1>2, PartChanged DEF display

\* A function set changes how wide the bus is.
LEMMA WithBusOf ==
    ASSUME NEW bits, NEW half, NEW row, NEW address, NEW right, NEW on, NEW high
    PROVE  WithBus(Lcd(bits, half, row, address, right, on), high)
              = Lcd(IF high = 2 THEN 4 ELSE IF high = 3 THEN 8 ELSE bits, half, row, address, right, on)
  <1> DEFINE wide == IF high = 2 THEN 4 ELSE IF high = 3 THEN 8 ELSE bits
             display == Lcd(bits, half, row, address, right, on)
  <1>0. display.bits = bits
    BY DEF Lcd
  <1>1. WithBus(display, high) = [display EXCEPT !.bits = wide]
    <2> HIDE DEF display
    <2> QED
      BY <1>0 DEF WithBus
  <1> HIDE DEF wide
  <1>2. SetBits(display, wide) = Lcd(wide, half, row, address, right, on)
    BY PartChanged
  <1> QED
    BY <1>1, <1>2 DEF wide, SetBits

\* What a command is, by its nibbles.
LEMMA CommandsAre ==
    /\ Clear = <<Command(0), Command(1)>> /\ EntryMode = <<Command(0), Command(6)>>
    /\ DisplayOff = <<Command(0), Command(8)>> /\ DisplayOn = <<Command(0), Command(12)>>
    /\ FunctionSet = <<Command(2), Command(8)>> /\ SetDdramAddress = <<Command(8), Command(0)>>
  BY DEF Clear, EntryMode, DisplayOff, DisplayOn, FunctionSet, SetDdramAddress, CommandByte

\* Commands are told apart by their nibbles.
LEMMA SameCommand ==
    ASSUME NEW a, NEW b, NEW c, NEW d
    PROVE  <<Command(a), Command(b)>> = <<Command(c), Command(d)>> <=> a = c /\ b = d
  <1>1. Command(a).value = a /\ Command(b).value = b /\ Command(c).value = c /\ Command(d).value = d
    BY DEF Command
  <1> QED
    BY <1>1

\* What the display does with a command.
LEMMA ObeyedOf ==
    ASSUME NEW bits, NEW half, NEW row, NEW address, NEW right, NEW on, NEW display,
           display = Lcd(bits, half, row, address, right, on), NEW high, NEW low
    PROVE  /\ high = 0 /\ low = 1 => Obeyed(display, high, low) = Lcd(bits, half, BlankRow, 1, right, on)
           /\ high = 0 /\ low = 6 => Obeyed(display, high, low) = Lcd(bits, half, row, address, Yes, on)
           /\ high = 0 /\ low = 8 => Obeyed(display, high, low) = Lcd(bits, half, row, address, right, No)
           /\ high = 0 /\ low = 12 => Obeyed(display, high, low) = Lcd(bits, half, row, address, right, Yes)
           /\ high = 8 /\ low = 0 => Obeyed(display, high, low) = Lcd(bits, half, row, 1, right, on)
           /\ high \in {2, 3} => Obeyed(display, high, low) = WithBus(display, high)
           /\ <<high, low>> \notin {<<0, 1>>, <<0, 6>>, <<0, 8>>, <<0, 12>>, <<8, 0>>} /\ high \notin {2, 3} =>
                  Obeyed(display, high, low) = Garbled(display)
  <1> DEFINE command == <<Command(high), Command(low)>>
  <1>1. /\ command = Clear <=> high = 0 /\ low = 1
        /\ command = EntryMode <=> high = 0 /\ low = 6
        /\ command = DisplayOff <=> high = 0 /\ low = 8
        /\ command = DisplayOn <=> high = 0 /\ low = 12
        /\ command = SetDdramAddress <=> high = 8 /\ low = 0
    <2> HIDE DEF command
    <2>1. \A c, d : command = <<Command(c), Command(d)>> <=> high = c /\ low = d
      BY SameCommand DEF command
    <2> QED
      BY <2>1, CommandsAre
  <1>2. Obeyed(display, high, low) =
            CASE command = Clear           -> [display EXCEPT !.row = BlankRow, !.address = 1]
              [] command = EntryMode       -> [display EXCEPT !.toTheRight = Yes]
              [] command = DisplayOff      -> [display EXCEPT !.on = No]
              [] command = DisplayOn       -> [display EXCEPT !.on = Yes]
              [] command = SetDdramAddress -> [display EXCEPT !.address = 1]
              [] high \in {2, 3}           -> WithBus(display, high)
              [] OTHER                     -> Garbled(display)
    BY DEF Obeyed, Yes, No
  <1> HIDE DEF command
  <1>3. SetAddress(SetRow(display, BlankRow), 1) = Lcd(bits, half, BlankRow, 1, right, on)
    BY PartChanged
  <1>10. SetAddress(display, 1) = Lcd(bits, half, row, 1, right, on)
    BY PartChanged
  <1>4. SetRight(display, Yes) = Lcd(bits, half, row, address, Yes, on)
    BY PartChanged
  <1>5. SetOn(display, No) = Lcd(bits, half, row, address, right, No)
    BY PartChanged
  <1>6. SetOn(display, Yes) = Lcd(bits, half, row, address, right, Yes)
    BY PartChanged
  <1>8. PICK clear, right2, off, on2, first, bus, garbled :
            /\ clear = SetAddress(SetRow(display, BlankRow), 1)
            /\ right2 = SetRight(display, Yes)
            /\ off = SetOn(display, No)
            /\ on2 = SetOn(display, Yes)
            /\ first = SetAddress(display, 1)
            /\ bus = WithBus(display, high)
            /\ garbled = Garbled(display)
    OBVIOUS
  <1>9. Obeyed(display, high, low) =
            CASE command = Clear           -> clear
              [] command = EntryMode       -> right2
              [] command = DisplayOff      -> off
              [] command = DisplayOn       -> on2
              [] command = SetDdramAddress -> first
              [] high \in {2, 3}           -> bus
              [] OTHER                     -> garbled
    <2>1. [display EXCEPT !.row = BlankRow, !.address = 1] = SetAddress(SetRow(display, BlankRow), 1)
      BY DEF SetAddress, SetRow
    <2> QED
      BY <1>2, <1>8, <2>1 DEF SetRight, SetOn, SetAddress
  <1> QED
    <2> HIDE DEF command
    <2>1. high = 0 /\ low = 1 => Obeyed(display, high, low) = clear
      BY <1>1, <1>9
    <2>2. high = 0 /\ low = 6 => Obeyed(display, high, low) = right2
      BY <1>1, <1>9
    <2>3. high = 0 /\ low = 8 => Obeyed(display, high, low) = off
      BY <1>1, <1>9
    <2>4. high = 0 /\ low = 12 => Obeyed(display, high, low) = on2
      BY <1>1, <1>9
    <2>5. high = 8 /\ low = 0 => Obeyed(display, high, low) = first
      BY <1>1, <1>9
    <2>6. high \in {2, 3} => Obeyed(display, high, low) = bus
      BY <1>1, <1>9
    <2>7. <<high, low>> \notin {<<0, 1>>, <<0, 6>>, <<0, 8>>, <<0, 12>>, <<8, 0>>} /\ high \notin {2, 3} =>
              Obeyed(display, high, low) = garbled
      BY <1>1, <1>9
    <2> QED
      BY <1>3, <1>4, <1>5, <1>6, <1>8, <1>10, <2>1, <2>2, <2>3, <2>4, <2>5, <2>6, <2>7

\* A character.
LEMMA PrintedOf ==
    ASSUME NEW bits, NEW half, NEW row, NEW address, NEW right, NEW on, NEW code
    PROVE  /\ right = No => Printed(Lcd(bits, half, row, address, right, on), code)
                            = Lcd(bits, half, GarbageRow, 0, No, No)
           /\ right = Yes => Printed(Lcd(bits, half, row, address, right, on), code)
                            = Lcd(bits, half, IF address = 0 THEN row ELSE [row EXCEPT ![address] = code],
                                  IF address \in 1 .. Columns - 1 THEN address + 1 ELSE 0, right, on)
  <1> DEFINE display == Lcd(bits, half, row, address, right, on)
             next  == IF address \in 1 .. Columns - 1 THEN address + 1 ELSE 0
             after == IF address = 0 THEN row ELSE [row EXCEPT ![address] = code]
  <1>1. display.toTheRight = right /\ display.address = address /\ display.row = row
    BY PartsOf
  <1> HIDE DEF display
  <1>2. right = No => Printed(display, code) = Garbled(display)
    BY <1>1 DEF Printed, No
  <1>3. right = Yes => Printed(display, code) = SetAddress(SetRow(display, after), next)
    <2>1. right = Yes => Printed(display, code) = [display EXCEPT !.row = after, !.address = next]
      BY <1>1 DEF Printed, Yes
    <2> HIDE DEF after, next
    <2>2. [display EXCEPT !.row = after, !.address = next] = SetAddress(SetRow(display, after), next)
      BY DEF SetAddress, SetRow
    <2> QED
      BY <2>1, <2>2
  <1> HIDE DEF after, next
  <1>4. SetAddress(SetRow(display, after), next) = Lcd(bits, half, after, next, right, on)
    BY PartChanged DEF display
  <1> QED
    BY <1>2, <1>3, <1>4, GarbledOf DEF display, after, next

\* What is a command and what a character.
LEMMA CommandsAndData ==
    /\ \A value : ~IsData(Command(value)) /\ Command(value).value = value
    /\ \A code \in LcdCodes : \A half : IsData(Data(code, half)) /\ Data(code, half).code = code
    /\ \A value \in Nat : Command(value) \in Nibbles /\ Command(value) # Nothing
    /\ \A code \in LcdCodes, half \in Nat : Data(code, half) \in Nibbles /\ Data(code, half) # Nothing
    /\ Nothing \notin Nibbles
  BY CodesAssumption DEF IsData, Command, Data, Nibbles

\* What two nibbles put together do:
LEMMA DoneOf ==
    ASSUME NEW display
    PROVE  /\ \A high, low : Done(display, Command(high), Command(low)) = {Obeyed(display, high, low)}
           /\ \A code \in LcdCodes : Done(display, Data(code, 1), Data(code, 0)) = {Printed(display, code)}
  <1>1. ASSUME NEW high, NEW low
        PROVE  Done(display, Command(high), Command(low)) = {Obeyed(display, high, low)}
    <2>1. ~IsData(Command(high)) /\ ~IsData(Command(low))
      BY CommandsAndData
    <2>2. Command(high).value = high /\ Command(low).value = low
      BY CommandsAndData
    <2> QED
      BY <2>1, <2>2 DEF Done
  <1>2. ASSUME NEW code \in LcdCodes
        PROVE  Done(display, Data(code, 1), Data(code, 0)) = {Printed(display, code)}
    <2>1. IsData(Data(code, 1)) /\ Data(code, 1).code = code
      BY CommandsAndData
    <2>2. <<Data(code, 1), Data(code, 0)>> = DataByte(Data(code, 1).code)
      BY <2>1 DEF DataByte
    <2> QED
      BY <2>1, <2>2 DEF Done
  <1> QED
    BY <1>1, <1>2

\* A display with no half in it.
LEMMA WholeType ==
    ASSUME NEW bits \in {4, 8}, NEW row \in LcdRows, NEW address \in 0 .. Columns,
           NEW right \in Switches, NEW on \in Switches, NEW display,
           display = Lcd(bits, Nothing, row, address, right, on)
    PROVE  display \in Lcds /\ display.half = Nothing
  BY LcdType, PartsOf

\* one of the displays there are, with no half left.
LEMMA DoneType ==
    ASSUME NEW display \in Lcds, display.half = Nothing, NEW high \in Nibbles, NEW low \in Nibbles,
           NEW after \in Done(display, high, low)
    PROVE  after \in Lcds /\ after.half = Nothing
  <1>1. PICK bits \in {4, 8}, half \in Nibbles \cup {Nothing}, row \in LcdRows,
             address \in 0 .. Columns, right \in Switches, on \in Switches :
                 display = Lcd(bits, half, row, address, right, on)
    BY LcdParts
  <1>2. half = Nothing
    BY <1>1, PartsOf
  <1>4. display = Lcd(bits, Nothing, row, address, right, on)
    BY <1>1, <1>2
  <1>5. /\ 0 \in 0 .. Columns /\ 1 \in 0 .. Columns /\ BlankRow \in LcdRows /\ GarbageRow \in LcdRows
        /\ Yes \in Switches /\ No \in Switches
    BY ColumnsAssumption, RowsType DEF Switches
  <1>6. Garbled(display) = Lcd(bits, Nothing, GarbageRow, 0, No, No)
    BY <1>4, GarbledOf
  <1>7. CASE IsData(high) /\ <<high, low>> = DataByte(high.code)
    <2>1. after = Printed(display, high.code)
      BY <1>7 DEF Done
    <2>2. high.code \in LcdCodes
      BY <1>7 DEF IsData, Nibbles
    <2> DEFINE row2 == IF address = 0 THEN row ELSE [row EXCEPT ![address] = high.code]
               next == IF address \in 1 .. Columns - 1 THEN address + 1 ELSE 0
    <2>3. row2 \in LcdRows /\ next \in 0 .. Columns
      BY <2>2, ColumnsAssumption DEF LcdRows
    <2> HIDE DEF row2, next
    <2>4. /\ right = No => after = Lcd(bits, Nothing, GarbageRow, 0, No, No)
          /\ right = Yes => after = Lcd(bits, Nothing, row2, next, right, on)
      BY <1>4, <2>1, PrintedOf DEF row2, next
    <2>5. right = Yes \/ right = No
      BY DEF Switches
    <2>6. CASE right = Yes
      <3>1. after = Lcd(bits, Nothing, row2, next, right, on)
        BY <2>4, <2>6
      <3> QED
        BY <2>3, <3>1, WholeType
    <2>7. CASE right = No
      <3>1. after = Lcd(bits, Nothing, GarbageRow, 0, No, No)
        BY <2>4, <2>7
      <3> QED
        BY <1>5, <3>1, WholeType
    <2> QED
      BY <2>5, <2>6, <2>7
  <1>8. CASE ~IsData(high) /\ ~IsData(low)
    <2>1. after = Obeyed(display, high.value, low.value)
      BY <1>8 DEF Done
    <2> DEFINE h == high.value
               l == low.value
    <2> HIDE DEF h, l
    <2>2. after = Obeyed(display, h, l)
      BY <2>1 DEF h, l
    <2>3. /\ h = 0 /\ l = 1 => after = Lcd(bits, Nothing, BlankRow, 1, right, on)
          /\ h = 0 /\ l = 6 => after = Lcd(bits, Nothing, row, address, Yes, on)
          /\ h = 0 /\ l = 8 => after = Lcd(bits, Nothing, row, address, right, No)
          /\ h = 0 /\ l = 12 => after = Lcd(bits, Nothing, row, address, right, Yes)
          /\ h = 8 /\ l = 0 => after = Lcd(bits, Nothing, row, 1, right, on)
          /\ h \in {2, 3} => after = WithBus(display, h)
          /\ <<h, l>> \notin {<<0, 1>>, <<0, 6>>, <<0, 8>>, <<0, 12>>, <<8, 0>>} /\ h \notin {2, 3} =>
                 after = Garbled(display)
      BY <1>4, <2>2, ObeyedOf
    <2>4. WithBus(display, h)
             = Lcd(IF h = 2 THEN 4 ELSE IF h = 3 THEN 8 ELSE bits, Nothing, row, address, right, on)
      BY <1>4, WithBusOf
    <2>5. \/ after = Lcd(bits, Nothing, BlankRow, 1, right, on)
          \/ after = Lcd(bits, Nothing, row, address, Yes, on)
          \/ after = Lcd(bits, Nothing, row, address, right, No)
          \/ after = Lcd(bits, Nothing, row, address, right, Yes)
          \/ after = Lcd(bits, Nothing, row, 1, right, on)
          \/ after = Lcd(4, Nothing, row, address, right, on)
          \/ after = Lcd(8, Nothing, row, address, right, on)
          \/ after = Lcd(bits, Nothing, GarbageRow, 0, No, No)
      BY <1>6, <2>3, <2>4
    <2> QED
      BY <1>5, <2>5, WholeType
  <1>9. CASE IsData(high) /\ IsData(low) /\ <<high, low>> # DataByte(high.code)
    <2>1. after = Garbled(display)
      BY <1>9 DEF Done
    <2> QED
      BY <1>5, <1>6, <2>1, WholeType
  <1>10. CASE IsData(high) # IsData(low) /\ ~(IsData(high) /\ <<high, low>> = DataByte(high.code))
    <2>1. PICK character \in BOOLEAN, other \in BOOLEAN, both \in BOOLEAN :
              /\ character = IsData(high) /\ other = IsData(low)
              /\ both = (<<high, low>> = DataByte(high.code))
      BY DEF IsData
    <2>2. Done(display, high, low) = {SetBits(Garbled(display), b) : b \in {4, 8}}
      <3>1. Done(display, high, low) =
                CASE character /\ both -> {Printed(display, high.code)}
                  [] character /\ other /\ ~both -> {Garbled(display)}
                  [] ~character /\ ~other -> {Obeyed(display, high.value, low.value)}
                  [] OTHER -> {SetBits(Garbled(display), b) : b \in {4, 8}}
        BY <2>1 DEF Done, SetBits
      <3>2. character # other /\ ~(character /\ both)
        BY <1>10, <2>1
      <3> QED
        BY <3>1, <3>2
    <2>4. PICK b \in {4, 8} : after = SetBits(Garbled(display), b)
      BY <2>2
    <2>3. after = Lcd(b, Nothing, GarbageRow, 0, No, No)
      BY <1>6, <2>4, PartChanged
    <2> QED
      BY <1>5, <2>3, WholeType
  <1> QED
    BY <1>7, <1>8, <1>9, <1>10

\* The display takes a nibble.
LEMMA LatchedOf ==
    ASSUME NEW display \in Lcds, NEW nibble \in Nibbles
    PROVE  /\ display.bits = 4 /\ display.half = Nothing => Latched(display, nibble) = {SetHalf(display, nibble)}
           /\ display.bits = 4 /\ display.half # Nothing =>
                  Latched(display, nibble) = Done(SetHalf(display, Nothing), display.half, nibble)
           /\ display.bits = 8 /\ ~IsData(nibble) /\ nibble.value \in {2, 3} =>
                  Latched(display, nibble) = {WithBus(display, nibble.value)}
           /\ display.bits = 8 /\ ~(~IsData(nibble) /\ nibble.value \in {2, 3}) =>
                  Latched(display, nibble) = {Garbled(display)}
           /\ display.bits \in {4, 8}
  <1>1. display.bits \in {4, 8}
    BY DEF Lcds
  <1>2. PICK bits, half, set, unset : /\ bits = display.bits /\ half = display.half
                                      /\ set = SetHalf(display, nibble) /\ unset = SetHalf(display, Nothing)
    OBVIOUS
  <1>3. Latched(display, nibble) =
            CASE bits = 4 /\ half = Nothing -> {set}
              [] bits = 4 /\ half # Nothing -> Done(unset, half, nibble)
              [] bits = 8 /\ ~IsData(nibble) /\ nibble.value \in {2, 3} -> {WithBus(display, nibble.value)}
              [] OTHER -> {Garbled(display)}
    BY <1>2 DEF Latched, SetHalf
  <1> QED
    BY <1>1, <1>2, <1>3

\* What becomes of a display is one, and a half is put together with the next.
LEMMA LatchedType ==
    ASSUME NEW display \in Lcds, NEW nibble \in Nibbles, NEW after \in Latched(display, nibble)
    PROVE  /\ after \in Lcds
           /\ ~(display.bits = 4 /\ display.half = Nothing) => after.half = Nothing
  <1>1. PICK bits \in {4, 8}, half \in Nibbles \cup {Nothing}, row \in LcdRows,
             address \in 0 .. Columns, right \in Switches, on \in Switches :
                 /\ display = Lcd(bits, half, row, address, right, on)
                 /\ bits = 8 => half = Nothing
    BY LcdParts
  <1>2. display.bits = bits /\ display.half = half
    BY <1>1, PartsOf
  <1>3. CASE bits = 4 /\ half = Nothing
    <2>1. after = SetHalf(display, nibble)
      BY <1>2, <1>3, LatchedOf
    <2>2. after = Lcd(bits, nibble, row, address, right, on)
      BY <1>1, <2>1, PartChanged
    <2> QED
      BY <1>2, <1>3, <2>2, LcdType
  <1>4. CASE bits = 4 /\ half # Nothing
    <2>1. after \in Done(SetHalf(display, Nothing), half, nibble)
      BY <1>2, <1>4, LatchedOf
    <2>2. PICK whole : whole = SetHalf(display, Nothing)
      OBVIOUS
    <2>3. whole = Lcd(bits, Nothing, row, address, right, on)
      BY <1>1, <2>2, PartChanged
    <2>4. whole \in Lcds /\ whole.half = Nothing
      BY <2>3, LcdType, PartsOf
    <2>5. half \in Nibbles
      BY <1>4
    <2> QED
      BY <2>1, <2>2, <2>4, <2>5, DoneType
  <1>5. CASE bits = 8
    <2>1. half = Nothing /\ 0 \in 0 .. Columns
      BY <1>1, <1>5, ColumnsAssumption
    <2>2. after = Garbled(display) \/ after = WithBus(display, 2) \/ after = WithBus(display, 3)
      BY <1>2, <1>5, LatchedOf
    <2>3. /\ Garbled(display) = Lcd(bits, half, GarbageRow, 0, No, No)
          /\ WithBus(display, 2) = Lcd(4, half, row, address, right, on)
          /\ WithBus(display, 3) = Lcd(8, half, row, address, right, on)
      BY <1>1, GarbledOf, WithBusOf
    <2>4. No \in Switches /\ GarbageRow \in LcdRows /\ 4 \in {4, 8} /\ 8 \in {4, 8}
      BY RowsType DEF Switches
    <2>5. \/ after = Lcd(bits, Nothing, GarbageRow, 0, No, No)
          \/ after = Lcd(4, Nothing, row, address, right, on)
          \/ after = Lcd(8, Nothing, row, address, right, on)
      BY <2>1, <2>2, <2>3
    <2> QED
      BY <1>2, <1>5, <2>1, <2>4, <2>5, WholeType
  <1> QED
    BY <1>3, <1>4, <1>5

\* What nibbles, and transfers, make of displays.
LatchAll(displays, nibble) == UNION {Latched(d, nibble) : d \in displays}
SentAll(displays, nibbles) == UNION {Sent(d, nibbles) : d \in displays}

\* What becomes of the display, nibble by nibble.
Receives(f, display, nibbles) ==
    /\ f[0] = {display}
    /\ \A i \in 1 .. Len(nibbles) : f[i] = UNION {Latched(d, nibbles[i]) : d \in f[i - 1]}
    /\ Sent(display, nibbles) = f[Len(nibbles)]

\* A transfer is made of its nibbles, one by one,
LEMMA SentBy ==
    ASSUME NEW display \in Lcds, NEW nibbles \in Seq(Nibbles)
    PROVE  \E f \in [0 .. Len(nibbles) -> SUBSET Lcds] : Receives(f, display, nibbles)
  <1>1. PICK n \in Nat : n = Len(nibbles)
    OBVIOUS
  <1>2. \A i \in 1 .. n : nibbles[i] \in Nibbles
    BY <1>1
  <1> DEFINE Latch(i, displays) == UNION {Latched(d, nibbles[i]) : d \in displays}
             next == [p \in (1 .. n) \X SUBSET Lcds |-> Latch(p[1], p[2])]
  <1>3. \A i \in 1 .. n, displays \in SUBSET Lcds : Latch(i, displays) \in SUBSET Lcds
    BY <1>2, LatchedType
  <1> HIDE DEF Latch
  <1>4. next \in [(1 .. n) \X SUBSET Lcds -> SUBSET Lcds]
    BY <1>3
  <1>5. \A i \in 1 .. n, displays \in SUBSET Lcds : next[<<i, displays>>] = Latch(i, displays)
    OBVIOUS
  <1> HIDE DEF next
  <1>6. PICK f \in [0 .. n -> SUBSET Lcds] : Follows(f, n, {display}, next)
    <2>1. {display} \in SUBSET Lcds
      OBVIOUS
    <2> QED
      BY <1>4, <2>1, Iterated
  <1>7. f[0] = {display} /\ \A i \in 1 .. n : f[i] = next[<<i, f[i - 1]>>]
    BY <1>6 DEF Follows
  <1>8. ASSUME NEW i \in 1 .. n PROVE f[i] = Latch(i, f[i - 1])
    <2>1. i - 1 \in 0 .. n
      OBVIOUS
    <2>2. f[i - 1] \in SUBSET Lcds
      BY <2>1
    <2> QED
      BY <1>5, <1>7, <2>2
  <1>9. Sent(display, nibbles) = f[n]
    <2> DEFINE displays[i \in 0 .. Len(nibbles)] ==
                   IF i = 0 THEN {display} ELSE UNION {Latched(d, nibbles[i]) : d \in displays[i - 1]}
    <2>1. Sent(display, nibbles) = displays[n]
      BY <1>1 DEF Sent
    <2>2. f = [i \in 0 .. Len(nibbles) |->
                  IF i = 0 THEN {display} ELSE UNION {Latched(d, nibbles[i]) : d \in f[i - 1]}]
      <3> HIDE DEF displays
      <3>1. \A i \in 0 .. n : f[i] =
                IF i = 0 THEN {display} ELSE UNION {Latched(d, nibbles[i]) : d \in f[i - 1]}
        BY <1>7, <1>8 DEF Latch
      <3> QED
        BY <1>1, <3>1
    <2>3. displays = [i \in 0 .. Len(nibbles) |->
                  IF i = 0 THEN {display} ELSE UNION {Latched(d, nibbles[i]) : d \in displays[i - 1]}]
      BY <2>2 DEF displays
    <2> HIDE DEF displays
    <2>4. \A i \in 0 .. n : displays[i] = IF i = 0 THEN {display} ELSE Latch(i, displays[i - 1])
      BY <1>1, <2>3 DEF Latch
    <2> DEFINE S == {i \in 0 .. n : displays[i] = f[i]}
    <2>5. 0 \in S
      BY <1>7, <2>4
    <2>6. ASSUME NEW i \in 0 .. n - 1, i \in S PROVE i + 1 \in S
      <3>1. PICK j \in 1 .. n : j = i + 1
        OBVIOUS
      <3>2. f[j] = Latch(j, f[j - 1])
        BY <1>8
      <3>3. displays[j] = Latch(j, displays[j - 1])
        <4>1. j # 0 /\ j \in 0 .. n
          OBVIOUS
        <4> QED
          BY <2>4, <4>1
      <3>4. j - 1 = i /\ displays[i] = f[i]
        BY <2>6, <3>1
      <3>5. displays[j] = f[j]
        BY <3>2, <3>3, <3>4
      <3> QED
        BY <3>1, <3>5
    <2>7. \A i \in 0 .. n : i \in S
      <3> HIDE DEF S
      <3> QED
        BY <2>5, <2>6, InductionUpTo
    <2>8. displays[n] = f[n]
      BY <2>7
    <2> QED
      BY <2>1, <2>8
  <1>10. Receives(f, display, nibbles)
    BY <1>1, <1>7, <1>8, <1>9 DEF Receives, Latch
  <1> QED
    BY <1>1, <1>10

\* and makes displays of displays.
LEMMA SentType ==
    ASSUME NEW display \in Lcds, NEW nibbles \in Seq(Nibbles)
    PROVE  Sent(display, nibbles) \subseteq Lcds
  <1>1. PICK n \in Nat : n = Len(nibbles)
    OBVIOUS
  <1>2. PICK f \in [0 .. n -> SUBSET Lcds] : Receives(f, display, nibbles)
    BY <1>1, SentBy
  <1> QED
    BY <1>1, <1>2 DEF Receives

\* No nibble changes nothing.
LEMMA SentNothing ==
    ASSUME NEW display \in Lcds
    PROVE  Sent(display, <<>>) = {display}
  <1>1. PICK nibbles \in Seq(Nibbles) : nibbles = <<>> /\ Len(nibbles) = 0
    BY EmptySeq
  <1>2. PICK f \in [0 .. 0 -> SUBSET Lcds] : Receives(f, display, nibbles)
    BY <1>1, SentBy
  <1> QED
    BY <1>1, <1>2 DEF Receives

\* One nibble more.
LEMMA SentOneMore ==
    ASSUME NEW display \in Lcds, NEW nibbles \in Seq(Nibbles), NEW nibble \in Nibbles
    PROVE  Sent(display, Append(nibbles, nibble))
              = LatchAll(Sent(display, nibbles), nibble)
  <1>1. PICK n \in Nat : n = Len(nibbles)
    OBVIOUS
  <1>2. PICK more \in Seq(Nibbles) : more = Append(nibbles, nibble)
    BY AppendProperties
  <1>3. Len(more) = n + 1 /\ more[n + 1] = nibble /\ \A i \in 1 .. n : more[i] = nibbles[i]
    BY <1>1, <1>2
  <1>4. PICK f \in [0 .. n -> SUBSET Lcds] : Receives(f, display, nibbles)
    BY <1>1, SentBy
  <1>5. PICK m \in 1 .. n + 1 : m = n + 1 /\ m = Len(more)
    BY <1>3
  <1>6. PICK g \in [0 .. m -> SUBSET Lcds] : Receives(g, display, more)
    BY <1>5, SentBy
  <1> DEFINE Latch(x, displays) == UNION {Latched(d, x) : d \in displays}
  <1>7. f[0] = {display} /\ (\A i \in 1 .. n : f[i] = Latch(nibbles[i], f[i - 1]))
        /\ Sent(display, nibbles) = f[n]
    BY <1>1, <1>4 DEF Receives
  <1>8. g[0] = {display} /\ (\A i \in 1 .. m : g[i] = Latch(more[i], g[i - 1]))
        /\ Sent(display, more) = g[m]
    BY <1>5, <1>6 DEF Receives
  <1> HIDE DEF Latch
  <1> DEFINE S == {i \in 0 .. n : f[i] = g[i]}
  <1>9. 0 \in S
    <2>1. f[0] = g[0] /\ 0 \in 0 .. n
      BY <1>7, <1>8
    <2> QED
      BY <2>1
  <1>10. ASSUME NEW i \in 0 .. n - 1, i \in S PROVE i + 1 \in S
    <2>1. PICK j \in 1 .. n : j = i + 1
      OBVIOUS
    <2>2. f[j] = Latch(nibbles[j], f[j - 1])
      BY <1>7
    <2>3. g[j] = Latch(more[j], g[j - 1])
      <3>1. j \in 1 .. m
        BY <1>5
      <3> QED
        BY <1>8, <3>1
    <2>4. j - 1 = i /\ f[i] = g[i] /\ more[j] = nibbles[j]
      BY <1>3, <1>10, <2>1
    <2>5. f[j] = g[j]
      BY <2>2, <2>3, <2>4
    <2> QED
      BY <2>1, <2>5
  <1>11. \A i \in 0 .. n : i \in S
    <2> HIDE DEF S
    <2> QED
      BY <1>9, <1>10, InductionUpTo
  <1>12. f[n] = g[n]
    BY <1>11
  <1>13. g[m] = Latch(nibble, g[n])
    <2>1. g[m] = Latch(more[m], g[m - 1])
      BY <1>8
    <2>2. m - 1 = n /\ more[m] = nibble
      BY <1>3, <1>5
    <2> QED
      BY <2>1, <2>2
  <1>14. Sent(display, more) = Latch(nibble, Sent(display, nibbles))
    BY <1>7, <1>8, <1>12, <1>13
  <1> QED
    BY <1>2, <1>14 DEF Latch, LatchAll

\* Transfers one after the other.
LEMMA SentInTurn ==
    ASSUME NEW display \in Lcds, NEW first \in Seq(Nibbles), NEW second \in Seq(Nibbles)
    PROVE  Sent(display, first \o second) = SentAll(Sent(display, first), second)
  <1>1. PICK n \in Nat : n = Len(second)
    OBVIOUS
  <1> DEFINE Part(i) == SubSeq(second, 1, i)
             After(nibbles) == SentAll(Sent(display, first), nibbles)
             S == {i \in 0 .. n : Sent(display, first \o Part(i)) = After(Part(i))}
  <1>2. Sent(display, first) \subseteq Lcds
    BY SentType
  <1>3. 0 \in S
    <2>1. Part(0) = <<>> /\ first \o <<>> = first
      BY EmptySeq, ConcatEmptySeq, SubSeqEmpty
    <2>2. After(<<>>) = Sent(display, first)
      <3>1. \A d \in Sent(display, first) : Sent(d, <<>>) = {d}
        BY <1>2, SentNothing
      <3> QED
        BY <3>1 DEF SentAll
    <2>3. Sent(display, first \o Part(0)) = After(Part(0))
      <3>1. Sent(display, first \o <<>>) = After(<<>>)
        BY <2>1, <2>2
      <3> HIDE DEF After, Part
      <3> QED
        BY <2>1, <3>1
    <2>4. 0 \in 0 .. n
      OBVIOUS
    <2> HIDE DEF After, Part
    <2> QED
      BY <2>3, <2>4
  <1>4. ASSUME NEW i \in 0 .. n - 1, i \in S PROVE i + 1 \in S
    <2>1. PICK j \in 1 .. n : j = i + 1
      OBVIOUS
    <2>2. second[j] \in Nibbles
      BY <1>1
    <2>3. PICK part \in Seq(Nibbles) : part = Part(i)
      <3>1. Part(i) \in Seq(Nibbles)
        BY <1>1
      <3> QED
        BY <3>1
    <2>4. Part(j) = Append(part, second[j])
      BY <1>1, <2>1, <2>3
    <2>5. PICK whole \in Seq(Nibbles) : whole = first \o part
      BY ConcatProperties
    <2>6. first \o Append(part, second[j]) = Append(whole, second[j])
      BY <2>2, <2>5
    <2>7. Sent(display, whole) = After(part)
      BY <1>4, <2>3, <2>5
    <2>8. Sent(display, Append(whole, second[j])) = LatchAll(Sent(display, whole), second[j])
      BY <2>2, SentOneMore
    <2>9. \A d \in Sent(display, first) :
              Sent(d, Append(part, second[j])) = LatchAll(Sent(d, part), second[j])
      BY <1>2, <2>2, SentOneMore
    <2>10. After(Append(part, second[j])) = LatchAll(After(part), second[j])
      BY <2>9 DEF SentAll, LatchAll
    <2> HIDE DEF After, Part
    <2>11. Sent(display, first \o Part(j)) = After(Part(j))
      BY <2>4, <2>6, <2>7, <2>8, <2>10
    <2> QED
      BY <2>1, <2>11
  <1>5. \A i \in 0 .. n : i \in S
    <2> HIDE DEF S
    <2> QED
      BY <1>3, <1>4, InductionUpTo
  <1>6. Part(n) = second
    BY <1>1
  <1>7. Sent(display, first \o Part(n)) = After(Part(n))
    BY <1>5
  <1> QED
    BY <1>6, <1>7

\* A byte, when the display is where a byte begins.
LEMMA SentByte ==
    ASSUME NEW display \in Lcds, display.bits = 4, display.half = Nothing,
           NEW high \in Nibbles, NEW low \in Nibbles
    PROVE  Sent(display, <<high, low>>) = Done(display, high, low)
  <1>1. PICK row \in LcdRows, address \in 0 .. Columns, right \in Switches, on \in Switches :
            display = Lcd(4, Nothing, row, address, right, on)
    <2>1. PICK bits \in {4, 8}, half \in Nibbles \cup {Nothing}, row \in LcdRows,
               address \in 0 .. Columns, right \in Switches, on \in Switches :
                   /\ display = Lcd(bits, half, row, address, right, on)
                   /\ bits = 8 => half = Nothing
      BY LcdParts
    <2>2. bits = 4 /\ half = Nothing
      BY <2>1, PartsOf
    <2> QED
      BY <2>1, <2>2
  <1>2. PICK none \in Seq(Nibbles), one \in Seq(Nibbles), two \in Seq(Nibbles) :
            /\ none = <<>> /\ one = <<high>> /\ two = <<high, low>>
            /\ one = Append(none, high) /\ two = Append(one, low)
    <2>1. <<>> \in Seq(Nibbles) /\ <<high>> \in Seq(Nibbles) /\ <<high, low>> \in Seq(Nibbles)
      OBVIOUS
    <2>2. <<high>> = Append(<<>>, high) /\ <<high, low>> = Append(<<high>>, low)
      OBVIOUS
    <2> QED
      BY <2>1, <2>2
  <1>3. Sent(display, none) = {display}
    BY <1>2, SentNothing
  <1>4. PICK half : half = SetHalf(display, high)
    OBVIOUS
  <1>5. Sent(display, one) = {half}
    <2>1. Sent(display, one) = LatchAll(Sent(display, none), high)
      BY <1>2, SentOneMore
    <2>2. Latched(display, high) = {half}
      BY <1>4, LatchedOf
    <2> QED
      BY <1>3, <2>1, <2>2 DEF LatchAll
  <1>6. half = Lcd(4, high, row, address, right, on)
    BY <1>1, <1>4, PartChanged
  <1>7. half \in Lcds /\ half.bits = 4 /\ half.half = high /\ high # Nothing
    BY <1>6, LcdType, PartsOf, CommandsAndData
  <1>8. SetHalf(half, Nothing) = display
    BY <1>1, <1>6, PartChanged
  <1>9. Latched(half, low) = Done(display, high, low)
    BY <1>7, <1>8, LatchedOf
  <1>10. Sent(display, two) = LatchAll(Sent(display, one), low)
    <2>1. Sent(display, Append(one, low)) = LatchAll(Sent(display, one), low)
      BY SentOneMore
    <2>2. two = Append(one, low)
      BY <1>2
    <2> QED
      BY <2>1, <2>2
  <1> QED
    BY <1>2, <1>5, <1>9, <1>10 DEF LatchAll

\* A display that bytes can be sent to, and how far its address is.
At(row, address, right, on) == Lcd(4, Nothing, row, address, right, on)

\* Such a display's parts.
LEMMA AtType ==
    ASSUME NEW row \in LcdRows, NEW address \in 0 .. Columns, NEW right \in Switches, NEW on \in Switches,
           NEW display, display = At(row, address, right, on)
    PROVE  /\ display \in Lcds /\ display.bits = 4 /\ display.half = Nothing /\ display.row = row
           /\ display.toTheRight = right /\ display.on = on
  <1>1. display = Lcd(4, Nothing, row, address, right, on)
    BY DEF At
  <1>2. display \in Lcds
    BY <1>1, LcdType
  <1> QED
    BY <1>1, <1>2, PartsOf

\* The commands, sent to it.
LEMMA CommandsSent ==
    ASSUME NEW row \in LcdRows, NEW address \in 0 .. Columns, NEW right \in Switches, NEW on \in Switches,
           NEW display, display = At(row, address, right, on)
    PROVE  /\ Sent(display, FunctionSet) = {display}
           /\ Sent(display, DisplayOff) = {At(row, address, right, No)}
           /\ Sent(display, Clear) = {At(BlankRow, 1, right, on)}
           /\ Sent(display, EntryMode) = {At(row, address, Yes, on)}
           /\ Sent(display, DisplayOn) = {At(row, address, right, Yes)}
           /\ Sent(display, SetDdramAddress) = {At(row, 1, right, on)}
  <1>1. display \in Lcds /\ display.bits = 4 /\ display.half = Nothing
    BY AtType
  <1>2. ASSUME NEW high \in Nat, NEW low \in Nat
        PROVE  Sent(display, <<Command(high), Command(low)>>) = {Obeyed(display, high, low)}
    <2>1. Command(high) \in Nibbles /\ Command(low) \in Nibbles
      BY CommandsAndData
    <2>2. Sent(display, <<Command(high), Command(low)>>) = Done(display, Command(high), Command(low))
      BY <1>1, <2>1, SentByte
    <2> QED
      BY <2>2, DoneOf
  <1>3. display = Lcd(4, Nothing, row, address, right, on)
    BY DEF At
  <1>4. Obeyed(display, 2, 8) = display
    <2>1. Obeyed(display, 2, 8) = WithBus(display, 2)
      BY <1>3, ObeyedOf
    <2>2. WithBus(display, 2) = Lcd(4, Nothing, row, address, right, on)
      BY <1>3, WithBusOf
    <2> QED
      BY <1>3, <2>1, <2>2
  <1>5. /\ Obeyed(display, 0, 1) = At(BlankRow, 1, right, on)
        /\ Obeyed(display, 0, 6) = At(row, address, Yes, on)
        /\ Obeyed(display, 0, 8) = At(row, address, right, No)
        /\ Obeyed(display, 0, 12) = At(row, address, right, Yes)
        /\ Obeyed(display, 8, 0) = At(row, 1, right, on)
    BY <1>3, ObeyedOf DEF At
  <1> QED
    BY <1>2, <1>4, <1>5, CommandsAre

\* Whatever state the display is in, three function sets and a fourth leave it at 4 bits,
\* where a byte begins.
Synchronises == <<Command(3), Command(3), Command(3), Command(2)>>

\* They do.
LEMMA SynchronisesAny ==
    ASSUME NEW display \in Lcds, NEW after \in Sent(display, Synchronises)
    PROVE  \E row \in LcdRows, address \in 0 .. Columns, right \in Switches, on \in Switches :
               after = At(row, address, right, on)
  <1> DEFINE three == Command(3)
             two == Command(2)
  <1>1. /\ three \in Nibbles /\ two \in Nibbles /\ ~IsData(three) /\ ~IsData(two)
        /\ three.value = 3 /\ two.value = 2 /\ three # Nothing
    BY CommandsAndData
  <1>2. \A d : Done(d, three, three) = {Obeyed(d, 3, 3)}
    BY DoneOf
  <1>3. Synchronises = <<three, three, three, two>>
    BY DEF Synchronises
  <1> HIDE DEF three, two
  <1>4. PICK s0 \in Seq(Nibbles), s1 \in Seq(Nibbles), s2 \in Seq(Nibbles), s3 \in Seq(Nibbles) :
            /\ s0 = <<>> /\ s1 = Append(s0, three) /\ s2 = Append(s1, three) /\ s3 = Append(s2, three)
            /\ Synchronises = Append(s3, two)
    <2>1. /\ <<>> \in Seq(Nibbles) /\ <<three>> \in Seq(Nibbles) /\ <<three, three>> \in Seq(Nibbles)
          /\ <<three, three, three>> \in Seq(Nibbles)
      BY <1>1
    <2>2. /\ <<three>> = Append(<<>>, three) /\ <<three, three>> = Append(<<three>>, three)
          /\ <<three, three, three>> = Append(<<three, three>>, three)
          /\ Synchronises = Append(<<three, three, three>>, two)
      BY <1>3
    <2> QED
      BY <2>1, <2>2
  <1> DEFINE First(d)  == d.half = Nothing \/ (d.bits = 4 /\ d.half = three)
             Second(d) == d.bits = 8 \/ (d.bits = 4 /\ d.half = three)
  <1>21. /\ Sent(display, s0) \subseteq Lcds /\ Sent(display, s1) \subseteq Lcds
        /\ Sent(display, s2) \subseteq Lcds /\ Sent(display, s3) \subseteq Lcds
    BY SentType
  <1>22. ASSUME NEW d \in Lcds PROVE d.bits \in {4, 8} /\ (d.bits = 8 => d.half = Nothing)
    BY DEF Lcds
  <1>23. ASSUME NEW d \in Lcds, d.half = Nothing
        PROVE  /\ WithBus(d, 3).bits = 8 /\ WithBus(d, 3).half = Nothing
    <2>1. PICK bits \in {4, 8}, half \in Nibbles \cup {Nothing}, row \in LcdRows,
               address \in 0 .. Columns, right \in Switches, on \in Switches :
                   /\ d = Lcd(bits, half, row, address, right, on)
                   /\ bits = 8 => half = Nothing
      BY LcdParts
    <2>2. half = Nothing
      BY <1>23, <2>1, PartsOf
    <2>3. WithBus(d, 3) = Lcd(8, half, row, address, right, on)
      BY <2>1, WithBusOf
    <2> QED
      BY <2>2, <2>3, PartsOf
  <1>24. ASSUME NEW d \in Lcds, d.bits = 4, d.half = Nothing, NEW e \in Latched(d, three)
        PROVE  e.bits = 4 /\ e.half = three
    <2>1. e = SetHalf(d, three)
      BY <1>1, <1>24, LatchedOf
    <2>2. PICK bits \in {4, 8}, half \in Nibbles \cup {Nothing}, row \in LcdRows,
               address \in 0 .. Columns, right \in Switches, on \in Switches :
                   /\ d = Lcd(bits, half, row, address, right, on)
                   /\ bits = 8 => half = Nothing
      BY LcdParts
    <2>3. bits = 4
      BY <1>24, <2>2, PartsOf
    <2>4. e = Lcd(bits, three, row, address, right, on)
      BY <2>1, <2>2, PartChanged
    <2> QED
      BY <2>3, <2>4, PartsOf
  <1>25. ASSUME NEW d \in Lcds, d.bits = 4, d.half = three, NEW e \in Latched(d, three)
        PROVE  e.bits = 8
    <2>1. e \in Done(SetHalf(d, Nothing), three, three)
      BY <1>1, <1>25, LatchedOf
    <2>2. PICK whole : whole = SetHalf(d, Nothing)
      OBVIOUS
    <2>3. PICK bits \in {4, 8}, half \in Nibbles \cup {Nothing}, row \in LcdRows,
               address \in 0 .. Columns, right \in Switches, on \in Switches :
                   /\ d = Lcd(bits, half, row, address, right, on)
                   /\ bits = 8 => half = Nothing
      BY LcdParts
    <2>4. whole = Lcd(bits, Nothing, row, address, right, on)
      BY <2>2, <2>3, PartChanged
    <2>5. whole \in Lcds /\ whole.half = Nothing
      BY <2>4, WholeType
    <2>6. e = WithBus(whole, 3)
      BY <1>2, <2>1, <2>2, <2>4, ObeyedOf
    <2> QED
      BY <1>23, <2>5, <2>6
  <1>26. ASSUME NEW d \in Lcds, d.bits = 8, NEW e \in Latched(d, three) PROVE e.bits = 8
    <2>1. e = WithBus(d, 3)
      BY <1>1, <1>26, LatchedOf
    <2> QED
      BY <1>22, <1>26, <1>23, <2>1
  <1>5. \A d \in Sent(display, s1) : First(d)
    <2>1. Sent(display, s1) = LatchAll(Sent(display, s0), three)
      BY <1>1, <1>4, SentOneMore
    <2>2. Sent(display, s0) = {display}
      BY <1>4, SentNothing
    <2>3. ASSUME NEW e \in Latched(display, three) PROVE First(e)
      <3>1. CASE display.bits = 4 /\ display.half = Nothing
        BY <1>24, <3>1
      <3>2. CASE ~(display.bits = 4 /\ display.half = Nothing)
        BY <1>1, <3>2, LatchedType
      <3> QED
        BY <3>1, <3>2
    <2> HIDE DEF First
    <2> QED
      BY <2>1, <2>2, <2>3 DEF LatchAll
  <1>6. \A d \in Sent(display, s2) : Second(d)
    <2>1. Sent(display, s2) = LatchAll(Sent(display, s1), three)
      BY <1>1, <1>4, SentOneMore
    <2>2. ASSUME NEW d \in Sent(display, s1), NEW e \in Latched(d, three) PROVE Second(e)
      <3>1. d \in Lcds /\ First(d)
        BY <1>5, <1>21
      <3>2. d.bits \in {4, 8}
        BY <1>22, <3>1
      <3>3. CASE d.bits = 8
        BY <1>26, <3>1, <3>3
      <3>4. CASE d.bits = 4 /\ d.half = Nothing
        BY <1>24, <3>1, <3>4
      <3>5. CASE d.bits = 4 /\ d.half # Nothing
        BY <1>25, <3>1, <3>5
      <3> QED
        BY <3>2, <3>3, <3>4, <3>5
    <2> HIDE DEF Second
    <2> QED
      BY <2>1, <2>2 DEF LatchAll
  <1>7. \A d \in Sent(display, s3) : d.bits = 8
    <2>1. Sent(display, s3) = LatchAll(Sent(display, s2), three)
      BY <1>1, <1>4, SentOneMore
    <2>2. ASSUME NEW d \in Sent(display, s2), NEW e \in Latched(d, three) PROVE e.bits = 8
      <3>1. d \in Lcds /\ Second(d)
        BY <1>6, <1>21
      <3> QED
        BY <1>25, <1>26, <3>1
    <2> QED
      BY <2>1, <2>2 DEF LatchAll
  <1>8. PICK d \in Sent(display, s3) : after \in Latched(d, two)
    <2>1. Sent(display, Append(s3, two)) = LatchAll(Sent(display, s3), two)
      BY <1>1, SentOneMore
    <2> QED
      BY <1>4, <2>1 DEF LatchAll
  <1>9. d \in Lcds /\ d.bits = 8
    BY <1>7, <1>21
  <1>10. after = WithBus(d, 2)
    BY <1>1, <1>8, <1>9, LatchedOf
  <1>11. PICK bits \in {4, 8}, half \in Nibbles \cup {Nothing}, row \in LcdRows,
              address \in 0 .. Columns, right \in Switches, on \in Switches :
                  /\ d = Lcd(bits, half, row, address, right, on)
                  /\ bits = 8 => half = Nothing
    BY <1>9, LcdParts
  <1>12. half = Nothing
    BY <1>9, <1>11, PartsOf
  <1>13. after = Lcd(4, half, row, address, right, on)
    BY <1>10, <1>11, WithBusOf
  <1> QED
    BY <1>12, <1>13 DEF At

\* On, at 4 bits, where a byte begins, and writing to the right.
Ready(display) ==
    display.bits = 4 /\ display.half = Nothing /\ display.toTheRight /\ display.on

\* A display that is ready,
LEMMA ReadyAt ==
    ASSUME NEW display \in Lcds, Ready(display)
    PROVE  \E row \in LcdRows, address \in 0 .. Columns : display = At(row, address, Yes, Yes)
  <1>1. PICK bits \in {4, 8}, half \in Nibbles \cup {Nothing}, row \in LcdRows,
             address \in 0 .. Columns, right \in Switches, on \in Switches :
                 /\ display = Lcd(bits, half, row, address, right, on)
                 /\ bits = 8 => half = Nothing
    BY LcdParts
  <1>2. bits = 4 /\ half = Nothing
    BY <1>1, PartsOf DEF Ready
  <1>3. display.toTheRight = right /\ display.on = on
    BY <1>1, PartsOf
  <1>4. right = Yes /\ on = Yes
    BY <1>3 DEF Ready, Switches, Yes, No
  <1> QED
    BY <1>1, <1>2, <1>4 DEF At

\* and what makes it so.
LEMMA AtReady ==
    ASSUME NEW row \in LcdRows, NEW address \in 0 .. Columns, NEW display, display = At(row, address, Yes, Yes)
    PROVE  display \in Lcds /\ Ready(display) /\ display.row = row
  <1>1. Yes \in Switches
    BY DEF Switches
  <1>2. /\ display \in Lcds /\ display.bits = 4 /\ display.half = Nothing /\ display.row = row
        /\ display.toTheRight = Yes /\ display.on = Yes
    BY <1>1, AtType
  <1> QED
    BY <1>2 DEF Ready, Yes

\* What the commands and a character's code are, as nibbles.
LEMMA SentSequences ==
    /\ Synchronises \in Seq(Nibbles) /\ FunctionSet \in Seq(Nibbles) /\ DisplayOff \in Seq(Nibbles)
    /\ Clear \in Seq(Nibbles) /\ EntryMode \in Seq(Nibbles) /\ DisplayOn \in Seq(Nibbles)
    /\ SetDdramAddress \in Seq(Nibbles)
    /\ \A code \in LcdCodes : DataByte(code) \in Seq(Nibbles)
  <1>1. /\ Command(0) \in Nibbles /\ Command(1) \in Nibbles /\ Command(2) \in Nibbles
        /\ Command(3) \in Nibbles /\ Command(6) \in Nibbles /\ Command(8) \in Nibbles
        /\ Command(12) \in Nibbles
    BY CommandsAndData
  <1>2. \A a \in Nibbles, b \in Nibbles : <<a, b>> \in Seq(Nibbles)
    OBVIOUS
  <1>3. Synchronises \in Seq(Nibbles)
    BY <1>1 DEF Synchronises
  <1>4. \A code \in LcdCodes : DataByte(code) \in Seq(Nibbles)
    BY <1>2, CommandsAndData DEF DataByte
  <1> QED
    BY <1>1, <1>2, <1>3, <1>4, CommandsAre

\* The constructor makes any display ready.
LEMMA InitialisationReadies ==
    ASSUME NEW display \in Lcds, NEW after \in Sent(display, Initialisation)
    PROVE  after \in Lcds /\ Ready(after)
  <1> DEFINE upTo1 == Synchronises \o FunctionSet
             upTo2 == upTo1 \o DisplayOff
             upTo3 == upTo2 \o Clear
             upTo4 == upTo3 \o EntryMode
  <1>1. Initialisation = upTo4 \o DisplayOn
    BY DEF Initialisation, Synchronises
  <1>2. /\ upTo1 \in Seq(Nibbles) /\ upTo2 \in Seq(Nibbles) /\ upTo3 \in Seq(Nibbles)
        /\ upTo4 \in Seq(Nibbles)
    <2>1. upTo1 \in Seq(Nibbles)
      BY SentSequences, ConcatProperties
    <2> HIDE DEF upTo1
    <2>2. upTo2 \in Seq(Nibbles)
      BY <2>1, SentSequences, ConcatProperties
    <2> HIDE DEF upTo2
    <2>3. upTo3 \in Seq(Nibbles)
      BY <2>2, SentSequences, ConcatProperties
    <2> HIDE DEF upTo3
    <2>4. upTo4 \in Seq(Nibbles)
      BY <2>3, SentSequences, ConcatProperties
    <2> QED
      BY <2>1, <2>2, <2>3, <2>4
  <1>3. /\ Sent(display, upTo1) = SentAll(Sent(display, Synchronises), FunctionSet)
        /\ Sent(display, upTo2) = SentAll(Sent(display, upTo1), DisplayOff)
        /\ Sent(display, upTo3) = SentAll(Sent(display, upTo2), Clear)
        /\ Sent(display, upTo4) = SentAll(Sent(display, upTo3), EntryMode)
        /\ Sent(display, upTo4 \o DisplayOn) = SentAll(Sent(display, upTo4), DisplayOn)
    <2>1. Sent(display, upTo1) = SentAll(Sent(display, Synchronises), FunctionSet)
      BY SentSequences, SentInTurn
    <2> HIDE DEF upTo1
    <2>2. Sent(display, upTo2) = SentAll(Sent(display, upTo1), DisplayOff)
      BY <1>2, SentSequences, SentInTurn
    <2> HIDE DEF upTo2
    <2>3. Sent(display, upTo3) = SentAll(Sent(display, upTo2), Clear)
      BY <1>2, SentSequences, SentInTurn
    <2> HIDE DEF upTo3
    <2>4. Sent(display, upTo4) = SentAll(Sent(display, upTo3), EntryMode)
      BY <1>2, SentSequences, SentInTurn
    <2> HIDE DEF upTo4
    <2>5. Sent(display, upTo4 \o DisplayOn) = SentAll(Sent(display, upTo4), DisplayOn)
      BY <1>2, SentSequences, SentInTurn
    <2> QED
      BY <2>1, <2>2, <2>3, <2>4, <2>5
  <1> HIDE DEF upTo1, upTo2, upTo3, upTo4
  <1>4. PICK d4 \in Sent(display, upTo4) : after \in Sent(d4, DisplayOn)
    BY <1>1, <1>3 DEF SentAll
  <1>5. PICK d3 \in Sent(display, upTo3) : d4 \in Sent(d3, EntryMode)
    BY <1>3 DEF SentAll
  <1>6. PICK d2 \in Sent(display, upTo2) : d3 \in Sent(d2, Clear)
    BY <1>3 DEF SentAll
  <1>7. PICK d1 \in Sent(display, upTo1) : d2 \in Sent(d1, DisplayOff)
    BY <1>3 DEF SentAll
  <1>8. PICK d0 \in Sent(display, Synchronises) : d1 \in Sent(d0, FunctionSet)
    BY <1>3 DEF SentAll
  <1>9. PICK row \in LcdRows, address \in 0 .. Columns, right \in Switches, on \in Switches :
            d0 = At(row, address, right, on)
    BY SynchronisesAny
  <1>10. No \in Switches /\ Yes \in Switches /\ BlankRow \in LcdRows /\ 1 \in 0 .. Columns
    BY RowsType, ColumnsAssumption DEF Switches
  <1>11. d1 = At(row, address, right, on)
    BY <1>8, <1>9, CommandsSent
  <1>12. d2 = At(row, address, right, No)
    BY <1>7, <1>11, CommandsSent
  <1>13. d3 = At(BlankRow, 1, right, No)
    BY <1>6, <1>10, <1>12, CommandsSent
  <1>14. d4 = At(BlankRow, 1, Yes, No)
    BY <1>5, <1>10, <1>13, CommandsSent
  <1>15. after = At(BlankRow, 1, Yes, Yes)
    BY <1>4, <1>10, <1>14, CommandsSent
  <1> QED
    BY <1>10, <1>15, AtReady

\* A character in its place.
LEMMA CharacterSent ==
    ASSUME NEW row \in LcdRows, NEW address \in 1 .. Columns, NEW code \in LcdCodes
    PROVE  Sent(At(row, address, Yes, Yes), DataByte(code))
              = {At([row EXCEPT ![address] = code], IF address < Columns THEN address + 1 ELSE 0, Yes, Yes)}
  <1> DEFINE display == At(row, address, Yes, Yes)
             next == IF address < Columns THEN address + 1 ELSE 0
             after == [row EXCEPT ![address] = code]
  <1>1. Yes \in Switches /\ address \in 0 .. Columns
    BY DEF Switches
  <1>2. display \in Lcds /\ display.bits = 4 /\ display.half = Nothing
    BY <1>1, AtType
  <1>3. Data(code, 1) \in Nibbles /\ Data(code, 0) \in Nibbles
    BY CommandsAndData
  <1> HIDE DEF display
  <1>4. Sent(display, DataByte(code)) = Done(display, Data(code, 1), Data(code, 0))
    BY <1>2, <1>3, SentByte DEF DataByte
  <1>5. Sent(display, DataByte(code)) = {Printed(display, code)}
    BY <1>4, DoneOf
  <1>6. Printed(display, code) =
            Lcd(4, Nothing, IF address = 0 THEN row ELSE [row EXCEPT ![address] = code],
                IF address \in 1 .. Columns - 1 THEN address + 1 ELSE 0, Yes, Yes)
    BY PrintedOf DEF display, At
  <1>7. /\ (IF address = 0 THEN row ELSE [row EXCEPT ![address] = code]) = after
        /\ (IF address \in 1 .. Columns - 1 THEN address + 1 ELSE 0) = next
    BY ColumnsAssumption
  <1> HIDE DEF after, next
  <1>8. Printed(display, code) = Lcd(4, Nothing, after, next, Yes, Yes)
    BY <1>6, <1>7
  <1> QED
    BY <1>5, <1>8 DEF At, display, after, next

\* After these nibbles as many characters of the row are where they belong, and the
\* address follows them.
WrittenSoFar(display, nibbles, row, many, address) ==
    \E r \in LcdRows :
        /\ Sent(display, nibbles) = {At(r, address, Yes, Yes)}
        /\ \A j \in 1 .. many : r[j] = row[j]

\* writeRow() puts every character in its place, if the display is ready.
LEMMA WriteRowShows ==
    ASSUME NEW display \in Lcds, Ready(display), NEW row \in [1 .. Columns -> LcdCodes],
           NEW after \in Sent(display, WriteRow(row))
    PROVE  after \in Lcds /\ Ready(after) /\ after.row = row
  <1>1. PICK old \in LcdRows, address \in 0 .. Columns : display = At(old, address, Yes, Yes)
    BY ReadyAt
  <1>2. PICK bytes \in Seq(Seq(Nibbles)) :
            /\ Len(bytes) = Columns /\ \A i \in 1 .. Columns : bytes[i] = DataByte(row[i])
            /\ WriteRow(row) = SetDdramAddress \o FlattenSeq(bytes)
    <2> DEFINE all == [i \in 1 .. Columns |-> DataByte(row[i])]
    <2>1. \A i \in 1 .. Columns : DataByte(row[i]) \in Seq(Nibbles)
      BY SentSequences
    <2>2. all \in Seq(Seq(Nibbles)) /\ Len(all) = Columns
      BY <2>1, ColumnsAssumption
    <2>3. \A i \in 1 .. Columns : all[i] = DataByte(row[i])
      OBVIOUS
    <2>4. WriteRow(row) = SetDdramAddress \o FlattenSeq(all)
      BY DEF WriteRow
    <2> HIDE DEF all
    <2> QED
      BY <2>2, <2>3, <2>4
  <1>3. PICK n \in Nat \ {0} : n = Columns /\ n = Len(bytes)
    BY <1>2, ColumnsAssumption
  <1>4. PICK f \in [0 .. n -> Seq(Nibbles)] : Gathers(f, bytes)
    BY <1>3, Gathered
  <1>5. /\ f[0] = <<>> /\ (\A i \in 1 .. n : f[i] = f[i - 1] \o bytes[i])
        /\ FlattenSeq(bytes) = f[n]
    BY <1>3, <1>4 DEF Gathers
  <1> DEFINE Next(i) == IF i < n THEN i + 1 ELSE 0
             first == At(old, 1, Yes, Yes)
             S == {i \in 0 .. n : WrittenSoFar(first, f[i], row, i, Next(i))}
  <1>6. Yes \in Switches /\ 1 \in 0 .. Columns
    BY ColumnsAssumption DEF Switches
  <1>7. Sent(display, SetDdramAddress) = {first}
    BY <1>1, <1>6, CommandsSent
  <1>8. first \in Lcds
    BY <1>6, AtType
  <1>9. 0 \in S
    <2>1. Sent(first, f[0]) = {first}
      <3> HIDE DEF first
      <3> QED
        BY <1>5, <1>8, SentNothing
    <2>2. Next(0) = 1
      BY <1>3
    <2>3. Sent(first, f[0]) = {At(old, Next(0), Yes, Yes)}
      BY <2>1, <2>2
    <2> HIDE DEF first, Next
    <2>4. WrittenSoFar(first, f[0], row, 0, Next(0))
      <3>1. \A j \in 1 .. 0 : old[j] = row[j]
        OBVIOUS
      <3> QED
        BY <2>3, <3>1 DEF WrittenSoFar
    <2> QED
      BY <2>4
  <1>10. ASSUME NEW i \in 0 .. n - 1, i \in S PROVE i + 1 \in S
    <2>1. PICK j \in 1 .. n : j = i + 1
      OBVIOUS
    <2>2. f[j] = f[j - 1] \o bytes[j]
      BY <1>5
    <2>3. j - 1 = i /\ i \in 0 .. n
      BY <2>1
    <2>4. f[j] = f[i] \o bytes[j] /\ f[i] \in Seq(Nibbles) /\ bytes[j] \in Seq(Nibbles)
          /\ bytes[j] = DataByte(row[j]) /\ row[j] \in LcdCodes
      BY <1>2, <1>3, <2>2, <2>3
    <2>5. WrittenSoFar(first, f[i], row, i, Next(i))
      BY <1>10
    <2>6. Next(i) = j
      BY <1>3, <2>1
    <2> HIDE DEF first, Next, S
    <2>7. PICK r \in LcdRows : /\ Sent(first, f[i]) = {At(r, j, Yes, Yes)}
                              /\ \A k \in 1 .. i : r[k] = row[k]
      BY <2>5, <2>6 DEF WrittenSoFar
    <2>8. PICK d, more : d = At(r, j, Yes, Yes) /\ more = [r EXCEPT ![j] = row[j]]
      OBVIOUS
    <2>9. Sent(first, f[j]) = Sent(d, DataByte(row[j]))
      <3>1. Sent(first, f[i] \o bytes[j]) = SentAll(Sent(first, f[i]), bytes[j])
        BY <1>8, <2>4, SentInTurn
      <3>2. Sent(first, f[i]) = {d}
        BY <2>7, <2>8
      <3>3. SentAll({d}, bytes[j]) = Sent(d, bytes[j])
        BY DEF SentAll
      <3> QED
        BY <2>4, <3>1, <3>2, <3>3
    <2>10. Sent(d, DataByte(row[j])) = {At(more, IF j < Columns THEN j + 1 ELSE 0, Yes, Yes)}
      BY <1>3, <2>4, <2>8, CharacterSent
    <2>11. (IF j < Columns THEN j + 1 ELSE 0) = Next(j)
      BY <1>3 DEF Next
    <2>12. Sent(first, f[j]) = {At(more, Next(j), Yes, Yes)}
      BY <2>9, <2>10, <2>11
    <2>13. more \in LcdRows /\ \A k \in 1 .. j : more[k] = row[k]
      BY <1>3, <2>1, <2>4, <2>7, <2>8 DEF LcdRows
    <2>14. WrittenSoFar(first, f[j], row, j, Next(j))
      BY <2>12, <2>13 DEF WrittenSoFar
    <2> QED
      BY <2>1, <2>14 DEF S
  <1>11. \A i \in 0 .. n : i \in S
    <2> HIDE DEF S
    <2> QED
      BY <1>9, <1>10, InductionUpTo
  <1>12. PICK r \in LcdRows : /\ Sent(first, f[n]) = {At(r, Next(n), Yes, Yes)}
                             /\ \A j \in 1 .. n : r[j] = row[j]
    <2>1. WrittenSoFar(first, f[n], row, n, Next(n))
      BY <1>11
    <2> QED
      BY <2>1 DEF WrittenSoFar
  <1>13. r = row
    BY <1>3, <1>12 DEF LcdRows
  <1>14. Next(n) = 0 /\ 0 \in 0 .. Columns
    BY <1>3
  <1> HIDE DEF first, Next, S
  <1>15. Sent(display, WriteRow(row)) = {At(row, 0, Yes, Yes)}
    <2>1. f[n] \in Seq(Nibbles)
      OBVIOUS
    <2>2. Sent(display, SetDdramAddress \o f[n]) = SentAll(Sent(display, SetDdramAddress), f[n])
      BY <2>1, SentSequences, SentInTurn
    <2>3. SentAll(Sent(display, SetDdramAddress), f[n]) = Sent(first, f[n])
      BY <1>7 DEF SentAll
    <2> QED
      BY <1>2, <1>5, <1>12, <1>13, <1>14, <2>2, <2>3
  <1>16. after = At(r, 0, Yes, Yes)
    BY <1>13, <1>15
  <1> QED
    BY <1>13, <1>14, <1>16, AtReady

\* What is encoded is of the display's codes,
LEMMA CodesType == \A character : Codes(character) \in Seq(LcdCodes)
  <1> SUFFICES ASSUME NEW character PROVE Codes(character) \in Seq(LcdCodes)
    OBVIOUS
  <1>1. /\ "a" \in LcdCodes /\ "b" \in LcdCodes /\ "/" \in LcdCodes /\ "-" \in LcdCodes
        /\ "u" \in LcdCodes /\ "y" \in LcdCodes /\ "?" \in LcdCodes /\ Blank \in LcdCodes
    BY DEF LcdCodes
  <1> DEFINE simple == character \in {"a", "b", Blank}
  <1>2. simple => character \in LcdCodes
    BY <1>1
  <1> HIDE DEF simple
  <1>3. \/ simple /\ Codes(character) = <<character>>
        \/ Codes(character) \in
               {<<Blank>>, <<"/">>, <<"-">>, <<"u">>, <<"y", "a">>, <<>>, <<"a">>, <<"?">>}
    BY DEF Codes, simple
  <1>4. \A code \in LcdCodes : <<code>> \in Seq(LcdCodes)
    OBVIOUS
  <1>5. <<"y", "a">> \in Seq(LcdCodes) /\ <<>> \in Seq(LcdCodes)
    BY <1>1
  <1> QED
    BY <1>1, <1>2, <1>3, <1>4, <1>5

\* for every text,
LEMMA EncodeType == \A characters \in Texts : Encode(characters) \in Seq(LcdCodes)
  <1> SUFFICES ASSUME NEW characters \in Texts PROVE Encode(characters) \in Seq(LcdCodes)
    OBVIOUS
  <1>1. characters \in Seq(STRING)
    BY LcdAssumption
  <1>2. PICK n \in Nat : n = Len(characters) /\ DOMAIN characters = 1 .. n
    BY <1>1
  <1> DEFINE all == [i \in DOMAIN characters |-> Codes(characters[i])]
  <1>3. all \in Seq(Seq(LcdCodes))
    <2>1. all = [i \in 1 .. n |-> Codes(characters[i])]
      BY <1>2
    <2>2. \A i \in 1 .. n : Codes(characters[i]) \in Seq(LcdCodes)
      BY CodesType
    <2> QED
      BY <2>1, <2>2
  <1> HIDE DEF all
  <1>4. FlattenSeq(all) \in Seq(LcdCodes)
    BY <1>3, FlattenSeqOf
  <1> QED
    BY <1>4 DEF Encode, all

\* and so are the cycle and the row.
LEMMA CycleType ==
    ASSUME NEW row \in Seq(LcdCodes)
    PROVE  Cycle(row) \in Seq(LcdCodes) /\ Len(Cycle(row)) \in Nat \ {0}
  <1>1. Separator \in Seq(STRING) /\ Len(Separator) > 0
    BY LcdAssumption
  <1>2. \A i \in 1 .. Len(Separator) : Separator[i] \in LcdCodes
    <2>1. \A i \in DOMAIN Separator : Separator[i] \in ToSet(Separator)
      BY DEF ToSet
    <2> QED
      BY <1>1, <2>1 DEF LcdCodes
  <1>3. Separator \in Seq(LcdCodes)
    BY <1>1, <1>2
  <1>4. PICK cycle : cycle = row \o Separator
    OBVIOUS
  <1>5. cycle \in Seq(LcdCodes) /\ Len(cycle) = Len(row) + Len(Separator)
    BY <1>3, <1>4, ConcatProperties
  <1> QED
    BY <1>1, <1>4, <1>5 DEF Cycle

\* A row the view renders is a row.
LEMMA RowType ==
    ASSUME NEW row \in Seq(LcdCodes), NEW from \in Nat
    PROVE  Row(row, from) \in [1 .. Columns -> LcdCodes]
  <1>1. PICK cycle \in Seq(LcdCodes), n \in Nat \ {0} : cycle = Cycle(row) /\ n = Len(cycle)
    <2>1. Cycle(row) \in Seq(LcdCodes) /\ Len(Cycle(row)) \in Nat \ {0}
      BY CycleType
    <2> QED
      BY <2>1
  <1>2. \A i \in 1 .. Columns : cycle[((from + i - 1) % n) + 1] \in LcdCodes
    <2> SUFFICES ASSUME NEW i \in 1 .. Columns PROVE cycle[((from + i - 1) % n) + 1] \in LcdCodes
      OBVIOUS
    <2>1. PICK place \in Nat : place = from + i - 1
      BY ColumnsAssumption
    <2>2. place % n \in 0 .. n - 1
      OBVIOUS
    <2>3. (place % n) + 1 \in 1 .. Len(cycle)
      BY <1>1, <2>2
    <2> QED
      BY <1>1, <2>1, <2>3
  <1>3. Blank \in LcdCodes
    BY DEF LcdCodes
  <1>4. \A i \in 1 .. Columns : (IF i <= Len(row) THEN row[i] ELSE Blank) \in LcdCodes
    BY <1>3
  <1>5. Fits(row) => Row(row, from) = [i \in 1 .. Columns |-> IF i <= Len(row) THEN row[i] ELSE Blank]
    BY DEF Row
  <1>6. ~Fits(row) => Row(row, from) = [i \in 1 .. Columns |-> cycle[((from + i - 1) % n) + 1]]
    BY <1>1 DEF Row
  <1> HIDE DEF Row
  <1>7. Fits(row) => Row(row, from) \in [1 .. Columns -> LcdCodes]
    BY <1>4, <1>5
  <1>8. ~Fits(row) => Row(row, from) \in [1 .. Columns -> LcdCodes]
    BY <1>2, <1>6
  <1> QED
    BY <1>7, <1>8

\* What a transfer that stops anywhere makes of the display.
LEMMA InterruptedType ==
    ASSUME NEW display \in Lcds, NEW nibbles \in Seq(Nibbles)
    PROVE  Interrupted(display, nibbles) \subseteq Lcds
  <1>1. \A sent \in 0 .. Len(nibbles) : SubSeq(nibbles, 1, sent) \in Seq(Nibbles)
    OBVIOUS
  <1>2. \A sent \in 0 .. Len(nibbles) : Sent(display, SubSeq(nibbles, 1, sent)) \subseteq Lcds
    BY <1>1, SentType
  <1> QED
    BY <1>2 DEF Interrupted

\* What the driver sends is made of nibbles.
LEMMA WriteRowSequence ==
    ASSUME NEW row \in [1 .. Columns -> LcdCodes]
    PROVE  WriteRow(row) \in Seq(Nibbles)
  <1> DEFINE all == [i \in 1 .. Columns |-> DataByte(row[i])]
  <1>1. \A i \in 1 .. Columns : DataByte(row[i]) \in Seq(Nibbles)
    BY SentSequences
  <1>2. all \in Seq(Seq(Nibbles))
    BY <1>1, ColumnsAssumption
  <1>3. WriteRow(row) = SetDdramAddress \o FlattenSeq(all)
    BY DEF WriteRow
  <1> HIDE DEF all
  <1>4. FlattenSeq(all) \in Seq(Nibbles)
    BY <1>2, FlattenSeqOf
  <1> QED
    BY <1>3, <1>4, SentSequences, ConcatProperties

\* What the constructor sends is nibbles.
LEMMA InitialisationSequence == Initialisation \in Seq(Nibbles)
  <1>1. Command(3) \in Nibbles /\ Command(2) \in Nibbles
    BY CommandsAndData
  <1>2. <<Command(3), Command(3), Command(3), Command(2)>> \in Seq(Nibbles)
    BY <1>1
  <1> QED
    BY <1>2, SentSequences, ConcatProperties DEF Initialisation

----------------------------------------------------------------------------
(* The LCD's inductive invariant.                                          *)

\* The LCD's and the view's states.
LcdTyped ==
    /\ running \in BOOLEAN /\ lcd \in Lcds
    /\ codes \in Seq(LcdCodes) /\ offset \in 0 .. Len(Cycle(codes)) - 1

\* The view is gone when the program is.
NothingShownBefore == ~running => shown = Nothing /\ timer = "none" /\ strays = 0

\* The display is where bytes begin while the program runs.
LcdReady == running => Ready(lcd)

\* What was written last is what the view scrolled to, and the display has it.
RowIsShown == running /\ shown # Nothing => lcd.row = shown /\ shown = Row(codes, offset)

\* The LCD's inductive invariant.
LcdInv == LcdTyped /\ NothingShownBefore /\ LcdReady /\ RowIsShown

\* It holds before the program runs,
LEMMA LcdInitEstablishes == DisplaysInit => LcdInv
  <1> SUFFICES ASSUME DisplaysInit PROVE LcdInv
    OBVIOUS
  <1>1. PICK none \in Seq(LcdCodes) : none = <<>>
    BY EmptySeq
  <1>2. 0 \in 0 .. Len(Cycle(none)) - 1
    BY CycleType
  <1>3. PoweredOn \in Lcds
    <2>1. PoweredOn = Lcd(8, Nothing, GarbageRow, 0, No, No)
      BY DEF PoweredOn, Lcd, No
    <2>2. 0 \in 0 .. Columns /\ No \in Switches /\ GarbageRow \in LcdRows
      BY ColumnsAssumption, RowsType DEF Switches
    <2> QED
      BY <2>1, <2>2, LcdType
  <1> QED
    BY <1>1, <1>2, <1>3 DEF DisplaysInit, ViewInit, LcdInv, LcdTyped, NothingShownBefore, LcdReady, RowIsShown

\* The program ends.
LEMMA LcdEndKeeps ==
    ASSUME NEW displays, displays \subseteq Lcds, Ends(displays)
    PROVE  LcdInv'
  <1>1. PICK none \in Seq(LcdCodes) : none = <<>>
    BY EmptySeq
  <1>2. 0 \in 0 .. Len(Cycle(none)) - 1
    BY CycleType
  <1>3. \A d \in displays : Interrupted(d, Clear) \subseteq Lcds
    BY SentSequences, InterruptedType
  <1>4. lcd' \in Lcds
    BY <1>3 DEF Ends
  <1>5. codes' = none /\ offset' = 0 /\ running' = FALSE /\ shown' = Nothing /\ timer' = "none" /\ strays' = 0
    BY <1>1 DEF Ends
  <1> QED
    BY <1>2, <1>4, <1>5 DEF LcdInv, LcdTyped, NothingShownBefore, LcdReady, RowIsShown, Cycle

\* render() with a row of what the view scrolled to.
LEMMA RendersKeeps ==
    ASSUME LcdInv, running, UNCHANGED running,
           codes' \in Seq(LcdCodes), offset' \in 0 .. Len(Cycle(codes')) - 1,
           Renders(Row(codes', offset'))
    PROVE  LcdInv'
  <1>1. lcd \in Lcds /\ Ready(lcd)
    BY DEF LcdInv, LcdTyped, LcdReady
  <1>2. PICK row : row = Row(codes', offset')
    OBVIOUS
  <1>0. offset' \in Nat
    <2>1. Len(Cycle(codes')) \in Nat
      BY CycleType
    <2> QED
      BY <2>1
  <1>3. row \in [1 .. Columns -> LcdCodes]
    BY <1>0, <1>2, RowType
  <1>4. shown' = row /\ lcd' \in IF row = shown THEN {lcd} ELSE Sent(lcd, WriteRow(row))
    BY <1>2 DEF Renders
  <1>5. lcd' \in Lcds /\ Ready(lcd') /\ (row # Nothing => lcd'.row = row)
    <2>1. CASE row = shown
      BY <1>1, <1>4, <2>1 DEF LcdInv, RowIsShown
    <2>2. CASE row # shown
      <3>1. PICK after : after = lcd' /\ after \in Sent(lcd, WriteRow(row))
        BY <1>4, <2>2
      <3>2. after \in Lcds /\ Ready(after) /\ after.row = row
        BY <1>1, <1>3, <3>1, WriteRowShows
      <3> QED
        BY <3>1, <3>2
    <2> QED
      BY <2>1, <2>2
  <1>6. LcdTyped' /\ LcdReady'
    BY <1>5 DEF LcdTyped, LcdReady, Cycle, Ready, LcdInv
  <1>7. RowIsShown' /\ NothingShownBefore'
    BY <1>2, <1>4, <1>5 DEF RowIsShown, NothingShownBefore
  <1> QED
    BY <1>6, <1>7 DEF LcdInv

\* onStep().
LEMMA OnStepKeeps == ASSUME LcdInv, running, OnStep PROVE LcdInv'
  <1>1. codes \in Seq(LcdCodes) /\ offset \in 0 .. Len(Cycle(codes)) - 1
    BY DEF LcdInv, LcdTyped
  <1>2. PICK n \in Nat \ {0} : n = Len(Cycle(codes))
    BY <1>1, CycleType
  <1>3. PICK next \in Nat : next = offset + 1
    BY <1>1, <1>2
  <1>4. next % n \in 0 .. n - 1
    OBVIOUS
  <1>5. NextOffset = next % n
    BY <1>2, <1>3 DEF NextOffset
  <1>6. /\ offset' = NextOffset /\ codes' = codes /\ running' = running
        /\ Renders(Row(codes', offset'))
    BY DEF OnStep
  <1>7. codes' \in Seq(LcdCodes) /\ offset' \in 0 .. Len(Cycle(codes')) - 1
    BY <1>1, <1>2, <1>4, <1>5, <1>6
  <1> QED
    BY <1>6, <1>7, RendersKeeps

\* render() throws.
LEMMA ThrowsKeeps ==
    ASSUME LcdInv, NEW row \in [1 .. Columns -> LcdCodes], Throws(row)
    PROVE  LcdInv'
  <1>1. Interrupted(lcd, WriteRow(row)) \subseteq Lcds
    BY WriteRowSequence, InterruptedType DEF LcdInv, LcdTyped
  <1> QED
    BY <1>1, LcdEndKeeps DEF Throws

\* and every step keeps it.
LEMMA LcdStepKeeps == LcdInv /\ [DisplaysNext]_displaysVars => LcdInv'
  <1> SUFFICES ASSUME LcdInv, [DisplaysNext]_displaysVars PROVE LcdInv'
    OBVIOUS
  <1>0. /\ lcd \in Lcds /\ codes \in Seq(LcdCodes) /\ offset \in 0 .. Len(Cycle(codes)) - 1
        /\ (~running => shown = Nothing /\ timer = "none" /\ strays = 0) /\ (running => Ready(lcd))
    BY DEF LcdInv, LcdTyped, NothingShownBefore, LcdReady
  <1>1. CASE Starts
    <2>1. running' = TRUE /\ UNCHANGED <<codes, offset, shown>> /\ shown = Nothing
          /\ lcd' \in Sent(lcd, Initialisation)
      BY <1>0, <1>1 DEF Starts, viewVars
    <2>2. PICK after : after = lcd' /\ after \in Sent(lcd, Initialisation)
      BY <2>1
    <2>3. after \in Lcds /\ Ready(after)
      BY <1>0, <2>2, InitialisationReadies
    <2> QED
      BY <1>0, <2>1, <2>2, <2>3 DEF LcdInv, LcdTyped, NothingShownBefore, LcdReady, RowIsShown, Cycle, Ready
  <1>2. CASE LcdShows
    <2>1. PICK next \in Texts : ShowsText(next)
      BY <1>2 DEF LcdShows
    <2>2. codes' \in Seq(LcdCodes) /\ offset' = 0 /\ running /\ UNCHANGED running /\ Renders(Row(codes', offset'))
      BY <2>1, EncodeType DEF ShowsText
    <2>3. PICK encoded \in Seq(LcdCodes) : encoded = codes'
      BY <2>2
    <2>4. offset' \in 0 .. Len(Cycle(encoded)) - 1
      BY <2>2, CycleType
    <2> QED
      BY <2>2, <2>3, <2>4, RendersKeeps DEF Cycle
  <1>3. CASE LcdDue
    <2>1. timer # "none" /\ UNCHANGED <<running, lcd, codes, offset, shown, strays>>
      BY <1>3 DEF LcdDue, StepDue
    <2>2. running
      BY <1>0, <2>1
    <2> QED
      BY <2>1, <2>2 DEF LcdInv, LcdTyped, NothingShownBefore, LcdReady, RowIsShown, Cycle, Ready, Row, Fits
  <1>4. CASE LcdSteps \/ LcdStrays
    <2>1. OnStep /\ (timer = "queued" \/ strays > 0)
      BY <1>4 DEF LcdSteps, LcdStrays, StepRuns, StrayRuns
    <2>2. running
      BY <1>0, <2>1
    <2> QED
      BY <2>1, <2>2, OnStepKeeps
  <1>5. CASE StartFails
    <2>1. ~running /\ UNCHANGED <<running, viewVars>> /\ lcd' \in Interrupted(lcd, Initialisation)
      BY <1>5 DEF StartFails
    <2>2. lcd' \in Lcds
      BY <1>0, <2>1, InitialisationSequence, InterruptedType
    <2> QED
      BY <2>1, <2>2 DEF viewVars, LcdInv, LcdTyped, NothingShownBefore, LcdReady, RowIsShown, Cycle
  <1>6. CASE LcdThrows
    <2>1. (\E next \in Texts : ShowThrows(next)) \/ StepThrows
      BY <1>6 DEF LcdThrows
    <2>2. ASSUME NEW next \in Texts, ShowThrows(next) PROVE LcdInv'
      <3>1. Row(Encode(next), 0) \in [1 .. Columns -> LcdCodes]
        BY EncodeType, RowType
      <3> QED
        BY <2>2, <3>1, ThrowsKeeps DEF ShowThrows
    <2>3. ASSUME StepThrows PROVE LcdInv'
      <3>1. PICK n \in Nat \ {0} : n = Len(Cycle(codes))
        BY <1>0, CycleType
      <3>2. PICK next \in Nat : next = offset + 1
        BY <1>0, <3>1
      <3>3. next % n \in Nat
        OBVIOUS
      <3>4. NextOffset = next % n
        BY <3>1, <3>2 DEF NextOffset
      <3>5. Row(codes, NextOffset) \in [1 .. Columns -> LcdCodes]
        BY <1>0, <3>3, <3>4, RowType
      <3> QED
        BY <2>3, <3>5, ThrowsKeeps DEF StepThrows
    <2> QED
      BY <2>1, <2>2, <2>3
  <1>7. CASE Exits
    <2>1. {lcd} \subseteq Lcds /\ Ends({lcd})
      BY <1>0, <1>7 DEF Exits
    <2> QED
      BY <2>1, LcdEndKeeps
  <1>8. CASE TftResets \/ TftClears \/ TftLights \/ TftDraws \/ KilledEarly \/ UNCHANGED displaysVars
    <2>1. UNCHANGED <<running, lcd, codes, offset, shown, timer, strays>>
      BY <1>8 DEF TftResets, TftClears, TftLights, DriverStep, TftDraws, KilledEarly,
                  displaysVars, lcdVars, viewVars
    <2> QED
      BY <2>1 DEF LcdInv, LcdTyped, NothingShownBefore, LcdReady, RowIsShown, Cycle, Ready, Row, Fits
  <1> QED
    BY <1>1, <1>2, <1>3, <1>4, <1>5, <1>6, <1>7, <1>8 DEF DisplaysNext

\* The LCD is where bytes begin whenever the program runs, and shows what LcdView wrote last.
THEOREM LcdInductive == DisplaysSpec => []LcdInv
  BY LcdInitEstablishes, LcdStepKeeps, PTL DEF DisplaysSpec

\* The LCD shows the part of the text LcdView scrolled to, whatever was on it before and
\* wherever a transfer of an earlier run stopped: the function sets of the driver's
\* constructor (src/src/hw/hd44780.cpp) bring any display to where bytes begin, and
\* writeRow() puts every character of the row in its place.
THEOREM TextOnGlass == DisplaysSpec => []GlassShowsText
  <1>1. LcdInv => GlassShowsText
    <2> SUFFICES ASSUME LcdInv, running, shown # Nothing PROVE GlassShowsText
      BY DEF GlassShowsText
    <2>1. offset \in 0 .. Len(Cycle(codes)) - 1 /\ Len(Cycle(codes)) \in Nat
      BY CycleType DEF LcdInv, LcdTyped
    <2>2. offset < Len(Cycle(codes))
      BY <2>1
    <2> QED
      BY <2>2 DEF GlassShowsText, LcdInv, LcdReady, Ready, RowIsShown
  <1> QED
    BY <1>1, LcdInductive, PTL

----------------------------------------------------------------------------
(* Cells and pixels.                                                       *)

\* The cells of a block, row after row: where a row and a column are,
LEMMA CellOf ==
    ASSUME NEW width \in Nat \ {0}, NEW row \in Nat, NEW column \in 0 .. width - 1
    PROVE  /\ row * width + column \in Nat
           /\ (row * width + column) % width = column
           /\ (row * width + column) \div width = row
  <1>1. row * width \in Nat
    BY Z3
  <1>2. PICK n \in Nat : n = row * width + column
    BY <1>1
  <1>3. n \div width = row
    BY <1>2, Z3
  <1>4. n % width = n - (n \div width) * width
    BY Z3
  <1> QED
    BY <1>1, <1>2, <1>3, <1>4

\* that they are in the block,
LEMMA CellInBlock ==
    ASSUME NEW width \in Nat \ {0}, NEW height \in Nat, NEW row \in 0 .. height - 1,
           NEW column \in 0 .. width - 1
    PROVE  row * width + column + 1 \in 1 .. width * height
  <1>1. row * width \in Nat /\ (row + 1) * width <= height * width
        /\ (row + 1) * width = row * width + width /\ height * width = width * height
    BY Z3
  <1> QED
    BY <1>1

\* and the row and the column of a cell.
LEMMA CellAt ==
    ASSUME NEW width \in Nat \ {0}, NEW height \in Nat, NEW cell \in 1 .. width * height
    PROVE  /\ (cell - 1) \div width \in 0 .. height - 1
           /\ (cell - 1) % width \in 0 .. width - 1
           /\ ((cell - 1) \div width) * width + ((cell - 1) % width) + 1 = cell
  <1>1. width * height \in Nat /\ width * height = height * width
    BY Z3
  <1>2. PICK n \in Nat : n = cell - 1 /\ n < height * width
    BY <1>1
  <1>3. n \div width \in Nat /\ n % width \in 0 .. width - 1 /\ n = (n \div width) * width + (n % width)
    <2>1. n \div width \in Nat /\ (n \div width) * width \in Nat
      BY Z3
    <2>2. n % width = n - (n \div width) * width
      BY Z3
    <2>3. n % width \in 0 .. width - 1
      OBVIOUS
    <2> QED
      BY <2>1, <2>2, <2>3
  <1>4. n \div width < height
    <2> SUFFICES ASSUME height <= n \div width PROVE FALSE
      BY <1>3
    <2>1. height * width <= (n \div width) * width
      BY <1>3, Z3
    <2>2. (n \div width) * width \in Nat
      BY <1>3, Z3
    <2> QED
      BY <1>1, <1>2, <1>3, <2>1, <2>2
  <1> QED
    BY <1>1, <1>2, <1>3, <1>4

----------------------------------------------------------------------------
(* The glass and the memory behind it.                                     *)

Cells   == 1 .. MemoryWidth * (Height + RowOffset)
\* The cells of the memory, and the places of a picture.
OnGlass == 1 .. Width * Height

\* The controller, with these colours in its memory.
Tfts(colors) ==
    [lit : BOOLEAN, awake : BOOLEAN, on : BOOLEAN, configured : BOOLEAN, ram : [Cells -> colors]]

\* The pixel a place of a picture is, and the cell behind it.
PixelOf(place)  == <<(place - 1) % Width, (place - 1) \div Width>>
CellUnder(place) ==
    (RowOffset + ((place - 1) \div Width)) * MemoryWidth
        + (ColumnOffset + ((place - 1) % Width)) + 1

\* An area the driver takes.
OnScreen(area) ==
    /\ area \in [x : Nat, y : Nat, width : Nat \ {0}, height : Nat \ {0}]
    /\ Right(area) <= Width /\ Bottom(area) <= Height

\* Every pixel of the glass has its cell, which nothing is left of, or above.
LEMMA CellUnderPixel ==
    ASSUME NEW place \in OnGlass
    PROVE  /\ (place - 1) % Width \in 0 .. Width - 1 /\ (place - 1) \div Width \in 0 .. Height - 1
           /\ CellUnder(place) \in Cells
           /\ (CellUnder(place) - 1) % MemoryWidth = ColumnOffset + ((place - 1) % Width)
           /\ (CellUnder(place) - 1) \div MemoryWidth = RowOffset + ((place - 1) \div Width)
  <1>0. /\ Width \in Nat \ {0} /\ Height \in Nat \ {0} /\ ColumnOffset \in Nat /\ RowOffset \in Nat
        /\ MemoryWidth \in Nat \ {0} /\ MemoryWidth = Width + ColumnOffset
    BY GlassAssumption DEF MemoryWidth
  <1>1. (place - 1) \div Width \in 0 .. Height - 1 /\ (place - 1) % Width \in 0 .. Width - 1
    BY <1>0, CellAt DEF OnGlass
  <1>2. PICK row \in 0 .. Height - 1 : row = (place - 1) \div Width
    BY <1>1
  <1>3. PICK column \in 0 .. Width - 1 : column = (place - 1) % Width
    BY <1>1
  <1> DEFINE r == RowOffset + row
             c == ColumnOffset + column
  <1>4. r \in 0 .. (Height + RowOffset) - 1 /\ c \in 0 .. MemoryWidth - 1
        /\ Height + RowOffset \in Nat /\ r \in Nat
    BY <1>0
  <1>5. CellUnder(place) = r * MemoryWidth + c + 1
    BY <1>2, <1>3 DEF CellUnder
  <1> HIDE DEF r, c
  <1>6. CellUnder(place) \in Cells
    BY <1>0, <1>4, <1>5, CellInBlock DEF Cells
  <1>7. /\ r * MemoryWidth + c \in Nat /\ (r * MemoryWidth + c) % MemoryWidth = c
        /\ (r * MemoryWidth + c) \div MemoryWidth = r
    BY <1>0, <1>4, CellOf
  <1>8. CellUnder(place) - 1 = r * MemoryWidth + c
    BY <1>5, <1>7
  <1> QED
    BY <1>1, <1>2, <1>3, <1>6, <1>7, <1>8 DEF r, c

\* What the glass shows of it.
LEMMA GlassOf ==
    ASSUME NEW colors, NEW t \in Tfts(colors)
    PROVE  /\ Glass(t) \in [OnGlass -> colors]
           /\ \A place \in OnGlass : Glass(t)[place] = t.ram[CellUnder(place)]
  <1> DEFINE cells == RowAfterRow(Rect(ColumnOffset, RowOffset, Width, Height))
  <1>1. Glass(t) = [place \in DOMAIN cells |-> ColorAt(t.ram, MemoryWidth, cells[place])]
    BY DEF Glass
  <1>2. cells = [place \in OnGlass |-> <<ColumnOffset + ((place - 1) % Width),
                                          RowOffset + ((place - 1) \div Width)>>]
    BY DEF RowAfterRow, Rect, OnGlass
  <1> HIDE DEF cells
  <1>3. DOMAIN cells = OnGlass
    BY <1>2
  <1>4. ASSUME NEW place \in OnGlass
        PROVE  ColorAt(t.ram, MemoryWidth, cells[place]) = t.ram[CellUnder(place)]
    <2>1. PICK row \in Nat : row = (place - 1) \div Width
      BY GlassAssumption, CellUnderPixel
    <2>2. PICK column \in Nat : column = (place - 1) % Width
      BY GlassAssumption, CellUnderPixel
    <2>3. cells[place] = <<ColumnOffset + column, RowOffset + row>>
      BY <1>2, <2>1, <2>2
    <2>4. cells[place][1] = ColumnOffset + column /\ cells[place][2] = RowOffset + row
      BY <2>3
    <2>5. CellUnder(place) = (RowOffset + row) * MemoryWidth + (ColumnOffset + column) + 1
      BY <2>1, <2>2 DEF CellUnder
    <2> QED
      BY <2>4, <2>5 DEF ColorAt
  <1>5. \A place \in OnGlass : t.ram[CellUnder(place)] \in colors
    BY CellUnderPixel DEF Tfts
  <1>6. \A place \in OnGlass : Glass(t)[place] = t.ram[CellUnder(place)]
    BY <1>1, <1>3, <1>4
  <1>7. Glass(t) = [place \in OnGlass |-> t.ram[CellUnder(place)]]
    BY <1>1, <1>3, <1>4
  <1> QED
    BY <1>5, <1>6, <1>7

\* write() takes what is on the screen as it is.
LEMMA OnScreenIntersect ==
    ASSUME NEW area, OnScreen(area)
    PROVE  Intersect(area, Screen) = area /\ ~IsEmpty(area)
  <1>0. /\ Width \in Nat \ {0} /\ Height \in Nat \ {0}
        /\ area.x \in Nat /\ area.y \in Nat /\ area.width \in Nat \ {0} /\ area.height \in Nat \ {0}
        /\ Right(area) = area.x + area.width /\ Bottom(area) = area.y + area.height
        /\ Right(area) <= Width /\ Bottom(area) <= Height
        /\ area = Rect(area.x, area.y, area.width, area.height)
    BY GlassAssumption DEF OnScreen, Right, Bottom, Rect
  <1>1. /\ Screen.x = 0 /\ Screen.y = 0 /\ Right(Screen) = Width /\ Bottom(Screen) = Height
    BY <1>0 DEF Screen, Rect, Right, Bottom
  <1>2. /\ Max({area.x, Screen.x}) = area.x /\ Max({area.y, Screen.y}) = area.y
    BY <1>0, <1>1, MaxOfTwo
  <1>3. /\ Min({Right(area), Right(Screen)}) = Right(area)
        /\ Min({Bottom(area), Bottom(Screen)}) = Bottom(area)
    BY <1>0, <1>1, MinOfTwo
  <1>4. Intersect(area, Screen) = Rect(area.x, area.y, area.width, area.height)
    <2>1. Right(area) - area.x = area.width /\ Bottom(area) - area.y = area.height
          /\ ~(Right(area) <= area.x \/ Bottom(area) <= area.y)
      BY <1>0
    <2> QED
      BY <1>2, <1>3, <2>1 DEF Intersect
  <1> QED
    BY <1>0, <1>4 DEF IsEmpty

\* What is in an area.
LEMMA PixelsOf ==
    ASSUME NEW area, NEW x, NEW y
    PROVE  <<x, y>> \in Pixels(area)
              <=> /\ x \in area.x .. (area.x + area.width) - 1
                  /\ y \in area.y .. (area.y + area.height) - 1
  BY DEF Pixels, Right, Bottom

\* The numbers of an area on the screen.
LEMMA AreaNumbers ==
    ASSUME NEW area, OnScreen(area)
    PROVE  /\ Width \in Nat \ {0} /\ Height \in Nat \ {0}
           /\ area.x \in Nat /\ area.y \in Nat /\ area.width \in Nat \ {0} /\ area.height \in Nat \ {0}
           /\ area.x + area.width <= Width /\ area.y + area.height <= Height
           /\ area.width * area.height \in Nat
  <1>1. /\ Width \in Nat \ {0} /\ Height \in Nat \ {0}
        /\ area.x \in Nat /\ area.y \in Nat /\ area.width \in Nat \ {0} /\ area.height \in Nat \ {0}
        /\ area.x + area.width <= Width /\ area.y + area.height <= Height
    BY GlassAssumption DEF OnScreen, Right, Bottom
  <1>2. area.width * area.height \in Nat
    BY <1>1, Z3
  <1> QED
    BY <1>1, <1>2

\* What crop() takes of a picture,
LEMMA CropAt ==
    ASSUME NEW area, OnScreen(area), NEW frame, NEW i \in 1 .. area.width * area.height,
           NEW column, column = (i - 1) % area.width, NEW row, row = (i - 1) \div area.width
    PROVE  /\ column \in 0 .. area.width - 1 /\ row \in 0 .. area.height - 1
           /\ Crop(frame, area)[i] = frame[(area.y + row) * Width + (area.x + column) + 1]
  <1> DEFINE pixels == RowAfterRow(area)
             ColumnAt(n) == (n - 1) % area.width
             RowAt(n) == (n - 1) \div area.width
  <1>1. column \in 0 .. area.width - 1 /\ row \in 0 .. area.height - 1
    BY AreaNumbers, CellAt
  <1>2. pixels = [n \in 1 .. area.width * area.height |-> <<area.x + ColumnAt(n), area.y + RowAt(n)>>]
    BY DEF RowAfterRow
  <1>3. Crop(frame, area) = [n \in 1 .. area.width * area.height |-> ColorAt(frame, Width, pixels[n])]
    <2>1. DOMAIN pixels = 1 .. area.width * area.height
      BY <1>2
    <2> HIDE DEF pixels
    <2> QED
      BY <2>1 DEF Crop, pixels
  <1>4. ColumnAt(i) = column /\ RowAt(i) = row
    OBVIOUS
  <1> HIDE DEF pixels, ColumnAt, RowAt
  <1>5. pixels[i][1] = area.x + column /\ pixels[i][2] = area.y + row
    BY <1>2, <1>4
  <1>6. Crop(frame, area)[i] = ColorAt(frame, Width, pixels[i])
    BY <1>3
  <1> QED
    BY <1>1, <1>5, <1>6 DEF ColorAt

\* which is as many pixels as there are in the area,
LEMMA CropType ==
    ASSUME NEW area, OnScreen(area), NEW colors, NEW frame \in [OnGlass -> colors]
    PROVE  /\ Crop(frame, area) \in [1 .. area.width * area.height -> colors]
           /\ Len(Crop(frame, area)) = area.width * area.height
  <1>1. DOMAIN Crop(frame, area) = 1 .. area.width * area.height
    BY DEF Crop, RowAfterRow
  <1>2. Crop(frame, area) = [i \in 1 .. area.width * area.height |-> Crop(frame, area)[i]]
    BY DEF Crop, RowAfterRow
  <1>3. ASSUME NEW i \in 1 .. area.width * area.height PROVE Crop(frame, area)[i] \in colors
    <2>1. PICK column : column = (i - 1) % area.width
      OBVIOUS
    <2>2. PICK row : row = (i - 1) \div area.width
      OBVIOUS
    <2>3. /\ column \in 0 .. area.width - 1 /\ row \in 0 .. area.height - 1
          /\ Crop(frame, area)[i] = frame[(area.y + row) * Width + (area.x + column) + 1]
      BY <2>1, <2>2, CropAt
    <2>4. area.y + row \in 0 .. Height - 1 /\ area.x + column \in 0 .. Width - 1
      BY <2>3, AreaNumbers
    <2>5. (area.y + row) * Width + (area.x + column) + 1 \in OnGlass
      BY <2>4, AreaNumbers, CellInBlock DEF OnGlass
    <2> QED
      BY <2>3, <2>5
  <1>4. Crop(frame, area) \in [1 .. area.width * area.height -> colors]
    BY <1>2, <1>3
  <1> QED
    BY <1>1, <1>4, AreaNumbers

\* and the place in it of each of the area's pixels.
PlaceIn(area, place) ==
    (PixelOf(place)[2] - area.y) * area.width + (PixelOf(place)[1] - area.x) + 1

\* A pixel of what crop() cuts out is the one of the frame it lies over.
LEMMA CropPixel ==
    ASSUME NEW area, OnScreen(area), NEW colors, NEW frame \in [OnGlass -> colors],
           NEW place \in OnGlass, PixelOf(place) \in Pixels(area)
    PROVE  /\ PlaceIn(area, place) \in 1 .. area.width * area.height
           /\ Crop(frame, area)[PlaceIn(area, place)] = frame[place]
  <1> DEFINE at == PlaceIn(area, place)
  <1>1. /\ (place - 1) % Width \in 0 .. Width - 1 /\ (place - 1) \div Width \in 0 .. Height - 1
        /\ ((place - 1) \div Width) * Width + ((place - 1) % Width) + 1 = place
    BY AreaNumbers, CellAt DEF OnGlass
  <1>2. PICK x \in 0 .. Width - 1 : x = (place - 1) % Width
    BY <1>1
  <1>3. PICK y \in 0 .. Height - 1 : y = (place - 1) \div Width
    BY <1>1
  <1>4. PixelOf(place) = <<x, y>> /\ place = y * Width + x + 1
    BY <1>1, <1>2, <1>3 DEF PixelOf
  <1>5. /\ x \in area.x .. (area.x + area.width) - 1
        /\ y \in area.y .. (area.y + area.height) - 1
    BY <1>4, PixelsOf
  <1> DEFINE row == y - area.y
             column == x - area.x
  <1>6. row \in 0 .. area.height - 1 /\ column \in 0 .. area.width - 1 /\ row \in Nat
        /\ area.y + row = y /\ area.x + column = x
    BY <1>5, AreaNumbers
  <1>7. at = row * area.width + column + 1
    BY <1>4 DEF PlaceIn
  <1> HIDE DEF row, column
  <1>8. at \in 1 .. area.width * area.height
    BY <1>6, <1>7, AreaNumbers, CellInBlock
  <1>9. (at - 1) % area.width = column /\ (at - 1) \div area.width = row
    <2>1. /\ row * area.width + column \in Nat
          /\ (row * area.width + column) % area.width = column
          /\ (row * area.width + column) \div area.width = row
      BY <1>6, AreaNumbers, CellOf
    <2>2. at - 1 = row * area.width + column
      BY <1>7, <2>1
    <2> QED
      BY <2>1, <2>2
  <1> HIDE DEF at
  <1>10. Crop(frame, area)[at] = frame[(area.y + row) * Width + (area.x + column) + 1]
    BY <1>8, <1>9, CropAt
  <1>11. Crop(frame, area)[at] = frame[place]
    BY <1>4, <1>6, <1>10
  <1> QED
    BY <1>8, <1>11 DEF at

\* A transfer of a picture's part puts it where it belongs, and nothing elsewhere.
LEMMA WriteShows ==
    ASSUME NEW area, OnScreen(area), NEW colors, NEW frame \in [OnGlass -> colors],
           NEW t \in Tfts(colors), t.configured
    PROVE  /\ \E ram \in [Cells -> colors] : Write(t, area, Crop(frame, area)) = [t EXCEPT !.ram = ram]
           /\ \A place \in OnGlass : Glass(Write(t, area, Crop(frame, area)))[place] =
                 IF PixelOf(place) \in Pixels(area) THEN frame[place] ELSE Glass(t)[place]
  <1>0. /\ Width \in Nat \ {0} /\ Height \in Nat \ {0} /\ ColumnOffset \in Nat /\ RowOffset \in Nat
        /\ area.x \in Nat /\ area.y \in Nat /\ area.width \in Nat \ {0} /\ area.height \in Nat \ {0}
        /\ MemoryWidth \in Nat \ {0}
    BY GlassAssumption DEF OnScreen, MemoryWidth
  <1> DEFINE pixels == Crop(frame, area)
             count  == area.width * area.height
             ColumnAt(i) == ((i - 1) % MemoryWidth) - (area.x + ColumnOffset)
             RowAt(i)    == ((i - 1) \div MemoryWidth) - (area.y + RowOffset)
             Place(i)    == RowAt(i) * area.width + ColumnAt(i) + 1
             Written(i)  == /\ ColumnAt(i) \in 0 .. area.width - 1
                            /\ RowAt(i) \in 0 .. area.height - 1
                            /\ Place(i) <= Len(pixels)
             ram == [i \in Cells |-> IF Written(i) THEN pixels[Place(i)] ELSE t.ram[i]]
  <1>1. pixels \in [1 .. count -> colors] /\ Len(pixels) = count
    BY CropType
  <1>2. Write(t, area, pixels) = [t EXCEPT !.ram = ram]
    <2>1. Write(t, area, pixels) = MemoryWrite(t, Window(area), pixels)
      BY <1>1, OnScreenIntersect DEF Write
    <2>2. /\ Window(area).x = area.x + ColumnOffset /\ Window(area).y = area.y + RowOffset
          /\ Window(area).width = area.width /\ Window(area).height = area.height
      BY DEF Window, Rect
    <2>3. DOMAIN t.ram = Cells /\ t.configured
      BY DEF Tfts
    <2> HIDE DEF pixels
    <2> QED
      BY <2>1, <2>2, <2>3 DEF MemoryWrite
  <1>3. ASSUME NEW i \in Cells, Written(i) PROVE Place(i) \in 1 .. count
    <2>1. ColumnAt(i) \in 0 .. area.width - 1 /\ RowAt(i) \in 0 .. area.height - 1
      BY <1>3
    <2> HIDE DEF ColumnAt, RowAt
    <2>2. RowAt(i) * area.width + ColumnAt(i) + 1 \in 1 .. count
      BY <1>0, <2>1, CellInBlock
    <2> QED
      BY <2>2
  <1>4. ram \in [Cells -> colors]
    <2>1. \A i \in Cells : t.ram[i] \in colors
      BY DEF Tfts
    <2> HIDE DEF pixels, count, Written, Place
    <2> QED
      BY <1>1, <1>3, <2>1
  <1>5. [t EXCEPT !.ram = ram] \in Tfts(colors) /\ [t EXCEPT !.ram = ram].ram = ram
    <2> HIDE DEF ram
    <2> QED
      BY <1>4 DEF Tfts
  <1>6. ASSUME NEW place \in OnGlass
        PROVE  ram[CellUnder(place)] =
                   IF PixelOf(place) \in Pixels(area) THEN frame[place] ELSE Glass(t)[place]
    <2> DEFINE i == CellUnder(place)
    <2>1. /\ (place - 1) % Width \in 0 .. Width - 1 /\ (place - 1) \div Width \in 0 .. Height - 1
          /\ i \in Cells /\ (i - 1) % MemoryWidth = ColumnOffset + ((place - 1) % Width)
          /\ (i - 1) \div MemoryWidth = RowOffset + ((place - 1) \div Width)
      BY CellUnderPixel
    <2>2. PICK x \in 0 .. Width - 1 : x = (place - 1) % Width
      BY <2>1
    <2>3. PICK y \in 0 .. Height - 1 : y = (place - 1) \div Width
      BY <2>1
    <2>4. PixelOf(place) = <<x, y>>
      BY <2>2, <2>3 DEF PixelOf
    <2>5. ColumnAt(i) = x - area.x /\ RowAt(i) = y - area.y
      <3>1. (i - 1) % MemoryWidth = ColumnOffset + x /\ (i - 1) \div MemoryWidth = RowOffset + y
        BY <2>1, <2>2, <2>3
      <3> HIDE DEF i
      <3> QED
        BY <1>0, <3>1
    <2>6. PixelOf(place) \in Pixels(area)
            <=> ColumnAt(i) \in 0 .. area.width - 1 /\ RowAt(i) \in 0 .. area.height - 1
      <3> HIDE DEF ColumnAt, RowAt, i
      <3>1. PixelOf(place) \in Pixels(area)
              <=> /\ x \in area.x .. (area.x + area.width) - 1
                  /\ y \in area.y .. (area.y + area.height) - 1
        BY <2>4, PixelsOf
      <3> QED
        BY <1>0, <2>5, <3>1
    <2>7. CASE PixelOf(place) \in Pixels(area)
      <3>1. Place(i) = PlaceIn(area, place)
        <4> HIDE DEF ColumnAt, RowAt, i
        <4> QED
          BY <2>4, <2>5 DEF PlaceIn
      <3> HIDE DEF Place, ColumnAt, RowAt, i
      <3>2. Place(i) \in 1 .. count /\ pixels[Place(i)] = frame[place]
        <4>1. /\ PlaceIn(area, place) \in 1 .. area.width * area.height
              /\ Crop(frame, area)[PlaceIn(area, place)] = frame[place]
          BY <2>7, CropPixel
        <4> QED
          BY <3>1, <4>1
      <3>3. Written(i)
        <4>1. count \in Nat
          BY <1>0, Z3
        <4> HIDE DEF pixels, count
        <4> QED
          BY <1>1, <2>6, <2>7, <3>2, <4>1
      <3>4. i \in Cells
        BY <2>1
      <3> HIDE DEF Written, pixels, count
      <3>5. ram[i] = pixels[Place(i)]
        BY <3>3, <3>4
      <3> HIDE DEF ram
      <3> QED
        BY <2>7, <3>2, <3>5 DEF i
    <2>8. CASE PixelOf(place) \notin Pixels(area)
      <3>1. ~Written(i)
        <4> HIDE DEF Place, ColumnAt, RowAt, i
        <4> QED
          BY <2>6, <2>8
      <3> HIDE DEF Written, Place, i
      <3>2. ram[i] = t.ram[i]
        BY <2>1, <3>1
      <3>3. Glass(t)[place] = t.ram[i]
        BY GlassOf DEF i
      <3> HIDE DEF ram
      <3> QED
        BY <2>8, <3>2, <3>3 DEF i
    <2> QED
      BY <2>7, <2>8
  <1>7. \A place \in OnGlass : Glass([t EXCEPT !.ram = ram])[place] = ram[CellUnder(place)]
    <2> HIDE DEF ram
    <2> QED
      BY <1>5, GlassOf
  <1> HIDE DEF ram
  <1> QED
    BY <1>2, <1>4, <1>6, <1>7

\* The TFT's memory changed, and nothing else of it.
OnlyMemory(t, after, colors) == \E ram \in [Cells -> colors] : after = [t EXCEPT !.ram = ram]

\* A glass shows of a picture what is in these areas, and elsewhere what it showed before.
Redrawn(after, before, areas, frame) ==
    \A place \in OnGlass :
        after[place] = IF \E area \in areas : PixelOf(place) \in Pixels(area)
                       THEN frame[place] ELSE before[place]

\* A write redraws its area.
LEMMA WriteRedraws ==
    ASSUME NEW area, OnScreen(area), NEW colors, NEW frame \in [OnGlass -> colors],
           NEW t \in Tfts(colors), t.configured
    PROVE  /\ OnlyMemory(t, Write(t, area, Crop(frame, area)), colors)
           /\ Redrawn(Glass(Write(t, area, Crop(frame, area))), Glass(t), {area}, frame)
  BY WriteShows DEF OnlyMemory, Redrawn

\* Such a change keeps the rest, and two of them are one.
LEMMA OnlyMemoryType ==
    ASSUME NEW colors, NEW t \in Tfts(colors), NEW u, OnlyMemory(t, u, colors)
    PROVE  /\ u \in Tfts(colors) /\ u.lit = t.lit /\ u.awake = t.awake /\ u.on = t.on
           /\ u.configured = t.configured
           /\ \A v : OnlyMemory(u, v, colors) => OnlyMemory(t, v, colors)
  <1>1. PICK ram \in [Cells -> colors] : u = [t EXCEPT !.ram = ram]
    BY DEF OnlyMemory
  <1>2. /\ u \in Tfts(colors) /\ u.lit = t.lit /\ u.awake = t.awake /\ u.on = t.on
        /\ u.configured = t.configured
    BY <1>1 DEF Tfts
  <1>3. ASSUME NEW v, OnlyMemory(u, v, colors) PROVE OnlyMemory(t, v, colors)
    <2>1. PICK other \in [Cells -> colors] : v = [u EXCEPT !.ram = other]
      BY <1>3 DEF OnlyMemory
    <2>2. v = [t EXCEPT !.ram = other]
      BY <1>1, <2>1 DEF Tfts
    <2> QED
      BY <2>2 DEF OnlyMemory
  <1> QED
    BY <1>2, <1>3

\* flush() puts all its areas where they belong.
LEMMA FlushRedraws ==
    ASSUME NEW colors, NEW frame \in [OnGlass -> colors], NEW t \in Tfts(colors), t.configured,
           NEW areas, Len(areas) \in Nat, \A i \in 1 .. Len(areas) : OnScreen(areas[i])
    PROVE  /\ OnlyMemory(t, Flush(t, areas, frame), colors)
           /\ Redrawn(Glass(Flush(t, areas, frame)), Glass(t),
                      {areas[i] : i \in 1 .. Len(areas)}, frame)
  <1> DEFINE Next1(u, i) == Write(u, areas[i], Crop(frame, areas[i]))
  <1>1. PICK n \in Nat : n = Len(areas)
    OBVIOUS
  <1> DEFINE D == {u \in Tfts(colors) : OnlyMemory(t, u, colors)}
             next == [p \in (1 .. n) \X D |-> Next1(p[2], p[1])]
  <1>2. ASSUME NEW u \in D, NEW i \in 1 .. n
        PROVE  Next1(u, i) \in D /\ Redrawn(Glass(Next1(u, i)), Glass(u), {areas[i]}, frame)
    <2>1. u \in Tfts(colors) /\ u.configured /\ OnlyMemory(t, u, colors)
      BY OnlyMemoryType
    <2>2. OnScreen(areas[i])
      BY <1>1
    <2>3. OnlyMemory(u, Next1(u, i), colors) /\ Redrawn(Glass(Next1(u, i)), Glass(u), {areas[i]}, frame)
      BY <2>1, <2>2, WriteRedraws
    <2> HIDE DEF Next1
    <2>4. Next1(u, i) \in Tfts(colors)
      BY <2>1, <2>3, OnlyMemoryType
    <2>5. OnlyMemory(t, Next1(u, i), colors)
      BY <2>1, <2>3, OnlyMemoryType
    <2> QED
      BY <2>3, <2>4, <2>5
  <1>3. t \in D
    <2>1. t = [t EXCEPT !.ram = t.ram] /\ t.ram \in [Cells -> colors]
      BY DEF Tfts
    <2> QED
      BY <2>1 DEF OnlyMemory
  <1>21. \A i \in 1 .. n, u \in D : next[<<i, u>>] = Next1(u, i)
    <2> HIDE DEF D, Next1
    <2> QED
      OBVIOUS
  <1>4. next \in [(1 .. n) \X D -> D]
    <2> HIDE DEF D, Next1
    <2> QED
      BY <1>2
  <1> HIDE DEF next
  <1>5. PICK f \in [0 .. n -> D] : Follows(f, n, t, next)
    BY <1>3, <1>4, Iterated
  <1>6. f[0] = t /\ \A i \in 1 .. n : f[i] = next[<<i, f[i - 1]>>]
    BY <1>5 DEF Follows
  <1>7. ASSUME NEW i \in 1 .. n PROVE f[i] = Next1(f[i - 1], i)
    <2> HIDE DEF D, Next1
    <2>1. i - 1 \in 0 .. n
      OBVIOUS
    <2>2. f[i - 1] \in D
      BY <2>1
    <2>3. f[i] = next[<<i, f[i - 1]>>]
      BY <1>6
    <2> QED
      BY <1>21, <2>2, <2>3
  <1> HIDE DEF D
  <1>8. Flush(t, areas, frame) = f[n]
    <2> DEFINE flushed[i \in 0 .. Len(areas)] ==
                   IF i = 0 THEN t ELSE Write(flushed[i - 1], areas[i], Crop(frame, areas[i]))
    <2>1. Flush(t, areas, frame) = flushed[n]
      BY <1>1 DEF Flush
    <2>2. f = [i \in 0 .. Len(areas) |->
                  IF i = 0 THEN t ELSE Write(f[i - 1], areas[i], Crop(frame, areas[i]))]
      <3> HIDE DEF flushed
      <3>1. \A i \in 0 .. n : f[i] = IF i = 0 THEN t ELSE Write(f[i - 1], areas[i], Crop(frame, areas[i]))
        BY <1>6, <1>7
      <3> QED
        BY <1>1, <3>1
    <2>3. flushed = [i \in 0 .. Len(areas) |->
                  IF i = 0 THEN t ELSE Write(flushed[i - 1], areas[i], Crop(frame, areas[i]))]
      BY <2>2 DEF flushed
    <2> HIDE DEF flushed
    <2>4. \A i \in 0 .. n : flushed[i] =
              IF i = 0 THEN t ELSE Write(flushed[i - 1], areas[i], Crop(frame, areas[i]))
      BY <1>1, <2>3
    <2> DEFINE S == {i \in 0 .. n : flushed[i] = f[i]}
    <2>5. 0 \in S
      BY <1>6, <2>4
    <2>6. ASSUME NEW i \in 0 .. n - 1, i \in S PROVE i + 1 \in S
      <3>1. PICK j \in 1 .. n : j = i + 1
        OBVIOUS
      <3>2. f[j] = Write(f[j - 1], areas[j], Crop(frame, areas[j]))
        BY <1>7
      <3>3. flushed[j] = Write(flushed[j - 1], areas[j], Crop(frame, areas[j]))
        <4>1. j # 0 /\ j \in 0 .. n
          OBVIOUS
        <4> QED
          BY <2>4, <4>1
      <3>4. j - 1 = i /\ flushed[i] = f[i]
        BY <2>6, <3>1
      <3>5. flushed[j] = f[j]
        BY <3>2, <3>3, <3>4
      <3> QED
        BY <3>1, <3>5
    <2>7. \A i \in 0 .. n : i \in S
      <3> HIDE DEF S
      <3> QED
        BY <2>5, <2>6, InductionUpTo
    <2>8. flushed[n] = f[n]
      BY <2>7
    <2> QED
      BY <2>1, <2>8
  <1> DEFINE T == {i \in 0 .. n : Redrawn(Glass(f[i]), Glass(t), {areas[j] : j \in 1 .. i}, frame)}
  <1>9. 0 \in T
    BY <1>6 DEF Redrawn
  <1>10. ASSUME NEW i \in 0 .. n - 1, i \in T PROVE i + 1 \in T
    <2>1. PICK k \in 1 .. n : k = i + 1
      OBVIOUS
    <2>2. f[k] = Next1(f[k - 1], k)
      BY <1>7
    <2>3. k - 1 = i /\ i \in 0 .. n
      BY <2>1
    <2>4. f[k] = Next1(f[i], k) /\ f[i] \in D
      BY <2>2, <2>3
    <2>5. Redrawn(Glass(f[k]), Glass(f[i]), {areas[k]}, frame)
      <3> HIDE DEF Next1
      <3> QED
        BY <1>2, <2>4
    <2>6. Redrawn(Glass(f[i]), Glass(t), {areas[j] : j \in 1 .. i}, frame)
      BY <1>10
    <2> HIDE DEF T
    <2>7. {areas[j] : j \in 1 .. k} = {areas[j] : j \in 1 .. i} \cup {areas[k]}
      <3>1. 1 .. k = (1 .. i) \cup {k}
        BY <2>1
      <3> QED
        BY <3>1
    <2>8. Redrawn(Glass(f[k]), Glass(t), {areas[j] : j \in 1 .. k}, frame)
      <3>1. PICK before : before = {areas[j] : j \in 1 .. i}
        OBVIOUS
      <3>2. Redrawn(Glass(f[k]), Glass(t), before \cup {areas[k]}, frame)
        BY <2>5, <2>6, <3>1 DEF Redrawn
      <3> QED
        BY <2>7, <3>1, <3>2
    <2> QED
      BY <2>1, <2>8 DEF T
  <1>11. \A i \in 0 .. n : i \in T
    <2> HIDE DEF T
    <2> QED
      BY <1>9, <1>10, InductionUpTo
  <1>12. Redrawn(Glass(f[n]), Glass(t), {areas[j] : j \in 1 .. n}, frame)
    BY <1>11
  <1>13. OnlyMemory(t, f[n], colors)
    BY DEF D
  <1> HIDE DEF T
  <1> QED
    BY <1>1, <1>8, <1>12, <1>13

\* The colour of a pixel.
LEMMA ColorAtPixel ==
    ASSUME NEW frame, NEW place \in OnGlass
    PROVE  /\ ColorAt(frame, Width, PixelOf(place)) = frame[place]
           /\ PixelOf(place) \in (0 .. Width - 1) \X (0 .. Height - 1)
  <1>1. /\ (place - 1) % Width \in 0 .. Width - 1 /\ (place - 1) \div Width \in 0 .. Height - 1
        /\ ((place - 1) \div Width) * Width + ((place - 1) % Width) + 1 = place
    BY GlassAssumption, CellAt DEF OnGlass
  <1>2. PICK x \in 0 .. Width - 1 : x = (place - 1) % Width
    BY <1>1
  <1>3. PICK y \in 0 .. Height - 1 : y = (place - 1) \div Width
    BY <1>1
  <1>4. PixelOf(place) = <<x, y>> /\ place = y * Width + x + 1
    BY <1>1, <1>2, <1>3 DEF PixelOf
  <1> QED
    BY <1>4 DEF ColorAt

\* The areas of the screen.
Areas == {area \in [x : Nat, y : Nat, width : Nat \ {0}, height : Nat \ {0}] : OnScreen(area)}

\* changedAreas() in one band: the least area around all that changed there.
LEMMA ChangedInOf ==
    ASSUME NEW before, NEW after, NEW band, OnScreen(band)
    PROVE  /\ ChangedIn(before, after, band) \in Seq(Areas)
           /\ \A place \in OnGlass :
                 before[place] # after[place] /\ PixelOf(place) \in Pixels(band) =>
                     \E area \in ToSet(ChangedIn(before, after, band)) : PixelOf(place) \in Pixels(area)
  <1> DEFINE changed == {p \in Pixels(band) : ColorAt(before, Width, p) # ColorAt(after, Width, p)}
             xs == {p[1] : p \in changed}
             ys == {p[2] : p \in changed}
             area == Rect(Min(xs), Min(ys), Max(xs) - Min(xs) + 1, Max(ys) - Min(ys) + 1)
  <1>1. ChangedIn(before, after, band) = IF changed = {} THEN <<>> ELSE <<area>>
    BY DEF ChangedIn
  <1>2. changed \subseteq (0 .. Width - 1) \X (0 .. Height - 1)
    <2>1. Pixels(band) \subseteq (0 .. Width - 1) \X (0 .. Height - 1)
      BY AreaNumbers DEF Pixels, Right, Bottom
    <2> QED
      BY <2>1
  <1>3. ASSUME NEW place \in OnGlass, before[place] # after[place], PixelOf(place) \in Pixels(band)
        PROVE  PixelOf(place) \in changed
    BY <1>3, ColorAtPixel
  <1>4. CASE changed = {}
    <2>1. ChangedIn(before, after, band) = <<>>
      BY <1>1, <1>4
    <2> HIDE DEF changed
    <2> QED
      BY <1>3, <1>4, <2>1
  <1>5. CASE changed # {}
    <2> HIDE DEF changed
    <2>1. xs \subseteq 0 .. Width - 1 /\ ys \subseteq 0 .. Height - 1 /\ xs # {} /\ ys # {}
      BY <1>2, <1>5
    <2>2. \A p \in changed : p[1] \in xs /\ p[2] \in ys /\ p = <<p[1], p[2]>>
      BY <1>2
    <2> HIDE DEF xs, ys
    <2>3. /\ Width \in Nat \ {0} /\ Height \in Nat \ {0} /\ Width - 1 \in Nat /\ Height - 1 \in Nat
          /\ xs \subseteq Nat /\ ys \subseteq Nat
      BY <2>1, GlassAssumption
    <2>4. Min(xs) \in xs /\ \A x \in xs : Min(xs) <= x
      BY <2>1, <2>3, MinOf
    <2>5. Max(xs) \in xs /\ \A x \in xs : x <= Max(xs)
      BY <2>1, <2>3, MaxOf
    <2>6. Min(ys) \in ys /\ \A y \in ys : Min(ys) <= y
      BY <2>1, <2>3, MinOf
    <2>7. Max(ys) \in ys /\ \A y \in ys : y <= Max(ys)
      BY <2>1, <2>3, MaxOf
    <2>8. PICK x1 \in 0 .. Width - 1 : x1 = Min(xs)
      BY <2>1, <2>4
    <2>9. PICK x2 \in 0 .. Width - 1 : x2 = Max(xs)
      BY <2>1, <2>5
    <2>10. PICK y1 \in 0 .. Height - 1 : y1 = Min(ys)
      BY <2>1, <2>6
    <2>11. PICK y2 \in 0 .. Height - 1 : y2 = Max(ys)
      BY <2>1, <2>7
    <2>12. area = Rect(x1, y1, x2 - x1 + 1, y2 - y1 + 1)
      BY <2>8, <2>9, <2>10, <2>11
    <2>13. x1 <= x2 /\ y1 <= y2
      BY <2>4, <2>5, <2>6, <2>7, <2>8, <2>9, <2>10, <2>11
    <2> HIDE DEF area
    <2>14. /\ area.x = x1 /\ area.y = y1 /\ area.width = x2 - x1 + 1 /\ area.height = y2 - y1 + 1
           /\ area = [x |-> x1, y |-> y1, width |-> x2 - x1 + 1, height |-> y2 - y1 + 1]
      BY <2>12 DEF Rect
    <2>15. OnScreen(area)
      <3>1. area \in [x : Nat, y : Nat, width : Nat \ {0}, height : Nat \ {0}]
        BY <2>13, <2>14
      <3>2. Right(area) <= Width /\ Bottom(area) <= Height
        BY <2>3, <2>13, <2>14 DEF Right, Bottom
      <3> QED
        BY <3>1, <3>2 DEF OnScreen
    <2>16. ASSUME NEW p \in changed PROVE p \in Pixels(area)
      <3>1. PICK x \in 0 .. Width - 1, y \in 0 .. Height - 1 : p = <<x, y>> /\ x \in xs /\ y \in ys
        BY <1>2, <2>2
      <3>2. x1 <= x /\ x <= x2 /\ y1 <= y /\ y <= y2
        BY <2>4, <2>5, <2>6, <2>7, <2>8, <2>9, <2>10, <2>11, <3>1
      <3>3. x \in area.x .. (area.x + area.width) - 1 /\ y \in area.y .. (area.y + area.height) - 1
        BY <2>14, <3>2
      <3> QED
        BY <3>1, <3>3, PixelsOf
    <2>17. ChangedIn(before, after, band) = <<area>>
      BY <1>1, <1>5
    <2>18. ToSet(<<area>>) = {area}
      BY DEF ToSet
    <2>19. <<area>> \in Seq(Areas)
      <3>1. area \in Areas
        BY <2>15 DEF Areas, OnScreen
      <3> QED
        BY <3>1
    <2> QED
      BY <1>3, <2>19, <2>16, <2>17, <2>18
  <1> QED
    BY <1>4, <1>5

\* A band of the screen, by its number from 1.
Band(b) == Intersect(Rect(0, (b - 1) * BandHeight, Width, BandHeight), Screen)

\* The bands are on the screen, and every row of it is in one.
LEMMA BandOf ==
    ASSUME NEW b \in 1 .. (Height + BandHeight - 1) \div BandHeight
    PROVE  /\ OnScreen(Band(b))
           /\ \A x \in 0 .. Width - 1, y \in 0 .. Height - 1 :
                 (b - 1) * BandHeight <= y /\ y <= (b - 1) * BandHeight + (BandHeight - 1)
                     => <<x, y>> \in Pixels(Band(b))
  <1>1. Width \in Nat \ {0} /\ Height \in Nat \ {0} /\ BandHeight \in Nat \ {0}
    BY GlassAssumption, LayoutAssumption
  <1>2. PICK above \in Nat : above = (b - 1) * BandHeight
    <2>1. (b - 1) * BandHeight \in Nat
      BY <1>1, Z3
    <2> QED
      BY <2>1
  <1>3. above < Height
    <2>1. PICK bands \in Nat : bands = (Height + BandHeight - 1) \div BandHeight
      BY <1>1, Z3
    <2>2. bands * BandHeight <= Height + BandHeight - 1
      <3>1. PICK n \in Nat : n = Height + BandHeight - 1
        BY <1>1
      <3>2. (n \div BandHeight) * BandHeight <= n
        BY <1>1, Z3
      <3> QED
        BY <2>1, <3>1, <3>2
    <2>3. b * BandHeight <= bands * BandHeight
      BY <1>1, <2>1, Z3
    <2>4. b * BandHeight = (b - 1) * BandHeight + BandHeight
      BY <1>1, Z3
    <2>5. b * BandHeight \in Nat /\ bands * BandHeight \in Nat
      BY <1>1, <2>1, Z3
    <2> QED
      BY <1>1, <1>2, <2>2, <2>3, <2>4, <2>5
  <1> DEFINE whole == Rect(0, above, Width, BandHeight)
  <1>4. /\ whole.x = 0 /\ whole.y = above /\ Right(whole) = Width /\ Bottom(whole) = above + BandHeight
        /\ Screen.x = 0 /\ Screen.y = 0 /\ Right(Screen) = Width /\ Bottom(Screen) = Height
    BY <1>1 DEF Rect, Screen, Right, Bottom
  <1>5. PICK bottom \in Nat : bottom = IF above + BandHeight <= Height THEN above + BandHeight ELSE Height
    BY <1>1
  <1>6. Band(b) = Intersect(whole, Screen)
    BY <1>2 DEF Band
  <1> HIDE DEF whole
  <1>7. Band(b) = Rect(0, above, Width, bottom - above)
    <2>1. Max({whole.x, Screen.x}) = 0 /\ Max({whole.y, Screen.y}) = above
      BY <1>4, MaxOfTwo
    <2>2. Min({Right(whole), Right(Screen)}) = Width /\ Min({Bottom(whole), Bottom(Screen)}) = bottom
      BY <1>1, <1>4, <1>5, MinOfTwo
    <2>3. ~(Width <= 0 \/ bottom <= above) /\ Width - 0 = Width
      BY <1>1, <1>3, <1>5
    <2> QED
      BY <1>6, <2>1, <2>2, <2>3 DEF Intersect
  <1>8. /\ Band(b) = [x |-> 0, y |-> above, width |-> Width, height |-> bottom - above]
        /\ Band(b).x = 0 /\ Band(b).y = above /\ Band(b).width = Width /\ Band(b).height = bottom - above
    BY <1>7 DEF Rect
  <1>9. OnScreen(Band(b))
    <2>1. bottom - above \in Nat \ {0} /\ bottom <= Height
      BY <1>1, <1>3, <1>5
    <2>2. Right(Band(b)) <= Width /\ Bottom(Band(b)) <= Height
      BY <1>1, <1>8, <2>1 DEF Right, Bottom
    <2>3. Band(b) \in [x : Nat, y : Nat, width : Nat \ {0}, height : Nat \ {0}]
      BY <1>1, <1>8, <2>1
    <2> QED
      BY <2>2, <2>3 DEF OnScreen
  <1>10. ASSUME NEW x \in 0 .. Width - 1, NEW y \in 0 .. Height - 1,
                above <= y, y <= above + (BandHeight - 1)
         PROVE  <<x, y>> \in Pixels(Band(b))
    <2>1. x \in Band(b).x .. (Band(b).x + Band(b).width) - 1
      BY <1>1, <1>8
    <2>2. y \in Band(b).y .. (Band(b).y + Band(b).height) - 1
      BY <1>1, <1>3, <1>5, <1>8, <1>10
    <2> QED
      BY <2>1, <2>2, PixelsOf
  <1> QED
    BY <1>2, <1>9, <1>10

\* The band a row is in.
LEMMA BandAt ==
    ASSUME NEW y \in 0 .. Height - 1
    PROVE  \E b \in 1 .. (Height + BandHeight - 1) \div BandHeight :
              (b - 1) * BandHeight <= y /\ y <= (b - 1) * BandHeight + (BandHeight - 1)
  <1>1. Height \in Nat \ {0} /\ BandHeight \in Nat \ {0}
    BY GlassAssumption, LayoutAssumption
  <1>2. PICK above \in Nat : above = y \div BandHeight
    BY <1>1, Z3
  <1>3. /\ above * BandHeight \in Nat
        /\ above * BandHeight <= y /\ y <= above * BandHeight + (BandHeight - 1)
    <2>1. /\ (y \div BandHeight) * BandHeight <= y
          /\ y < (y \div BandHeight) * BandHeight + BandHeight
      BY <1>1, Z3
    <2>2. above * BandHeight \in Nat
      BY <1>1, Z3
    <2> QED
      BY <1>1, <1>2, <2>1, <2>2
  <1>4. above + 1 <= (Height + BandHeight - 1) \div BandHeight
    <2>1. PICK n \in Nat : n = Height + BandHeight - 1
      BY <1>1
    <2>2. (above + 1) * BandHeight = above * BandHeight + BandHeight
      BY <1>1, Z3
    <2>3. (above + 1) * BandHeight <= n
      BY <1>1, <1>3, <2>1, <2>2
    <2>4. above + 1 <= n \div BandHeight
      BY <1>1, <2>3, Z3
    <2> QED
      BY <2>1, <2>4
  <1>5. PICK b \in 1 .. (Height + BandHeight - 1) \div BandHeight : b = above + 1
    <2>1. (Height + BandHeight - 1) \div BandHeight \in Nat
      BY <1>1, Z3
    <2> QED
      BY <1>4, <2>1
  <1>6. b - 1 = above
    BY <1>5
  <1> QED
    BY <1>3, <1>5, <1>6

\* changedAreas(): every change is in an area, and every area is on the screen.
LEMMA ChangedAreasCover ==
    ASSUME NEW before, NEW after
    PROVE  /\ ChangedAreas(before, after) \in Seq(Areas)
           /\ \A place \in OnGlass : before[place] # after[place] =>
                 \E area \in ToSet(ChangedAreas(before, after)) : PixelOf(place) \in Pixels(area)
  <1> DEFINE In(b) == ChangedIn(before, after, Band(b))
             bands == (Height + BandHeight - 1) \div BandHeight
             all == [b \in 1 .. bands |-> In(b)]
  <1>1. ChangedAreas(before, after) = FlattenSeq(all)
    BY DEF ChangedAreas, Band
  <1>2. bands \in Nat
    <2>1. Height \in Nat \ {0} /\ BandHeight \in Nat \ {0}
      BY GlassAssumption, LayoutAssumption
    <2>2. PICK n \in Nat : n = Height + BandHeight - 1
      BY <2>1
    <2>3. n \div BandHeight \in Nat
      BY <2>1, Z3
    <2> QED
      BY <2>2, <2>3
  <1>3. \A b \in 1 .. bands : In(b) \in Seq(Areas)
    <2>1. \A b \in 1 .. bands : OnScreen(Band(b))
      BY BandOf
    <2> QED
      BY <2>1, ChangedInOf
  <1>4. \A x \in 0 .. Width - 1, y \in 0 .. Height - 1 :
            \E b \in 1 .. bands : OnScreen(Band(b)) /\ <<x, y>> \in Pixels(Band(b))
    <2> SUFFICES ASSUME NEW x \in 0 .. Width - 1, NEW y \in 0 .. Height - 1
                 PROVE  \E b \in 1 .. bands : OnScreen(Band(b)) /\ <<x, y>> \in Pixels(Band(b))
      OBVIOUS
    <2>1. PICK b \in 1 .. bands : (b - 1) * BandHeight <= y /\ y <= (b - 1) * BandHeight + (BandHeight - 1)
      BY BandAt
    <2> QED
      BY <2>1, BandOf
  <1> HIDE DEF In, bands
  <1>5. all \in Seq(Seq(Areas)) /\ Len(all) = bands /\ \A b \in 1 .. bands : all[b] = In(b)
    BY <1>2, <1>3
  <1> HIDE DEF all
  <1>6. /\ FlattenSeq(all) \in Seq(Areas)
        /\ ToSet(FlattenSeq(all)) = UNION {ToSet(all[b]) : b \in 1 .. bands}
    BY <1>5, FlattenSeqOf
  <1>7. ASSUME NEW place \in OnGlass, before[place] # after[place]
        PROVE  \E area \in ToSet(ChangedAreas(before, after)) : PixelOf(place) \in Pixels(area)
    <2>1. PICK x \in 0 .. Width - 1, y \in 0 .. Height - 1 : PixelOf(place) = <<x, y>>
      BY ColorAtPixel
    <2>2. PICK b \in 1 .. bands : OnScreen(Band(b)) /\ <<x, y>> \in Pixels(Band(b))
      BY <1>4
    <2>3. PICK area \in ToSet(In(b)) : PixelOf(place) \in Pixels(area)
      BY <1>7, <2>1, <2>2, ChangedInOf DEF In
    <2>4. area \in ToSet(FlattenSeq(all))
      BY <1>5, <1>6, <2>3
    <2> QED
      BY <1>1, <2>3, <2>4
  <1> QED
    BY <1>1, <1>6, <1>7

\* All of the glass is on the screen.
LEMMA ScreenPixels ==
    ASSUME NEW place \in OnGlass
    PROVE  PixelOf(place) \in Pixels(Screen)
  <1>1. PICK x \in 0 .. Width - 1, y \in 0 .. Height - 1 : PixelOf(place) = <<x, y>>
    BY ColorAtPixel
  <1>2. Screen = [x |-> 0, y |-> 0, width |-> Width, height |-> Height]
    BY DEF Screen, Rect
  <1>3. /\ x \in Screen.x .. (Screen.x + Screen.width) - 1
        /\ y \in Screen.y .. (Screen.y + Screen.height) - 1
    BY <1>2, GlassAssumption
  <1> QED
    BY <1>1, <1>3, PixelsOf

\* What flush() sends makes the glass show the new picture, if it showed the old one.
LEMMA FlushShows ==
    ASSUME NEW colors, NEW frame \in [OnGlass -> colors], NEW t \in Tfts(colors), t.configured,
           NEW valid \in BOOLEAN, NEW known, valid => known = Glass(t)
    PROVE  /\ OnlyMemory(t, Flush(t, ToWrite(valid, known, frame), frame), colors)
           /\ Glass(Flush(t, ToWrite(valid, known, frame), frame)) = frame
  <1> DEFINE areas == ToWrite(valid, known, frame)
             after == Flush(t, areas, frame)
  <1>1. /\ areas \in Seq(Areas)
        /\ \A place \in OnGlass : (~valid \/ known[place] # frame[place]) =>
               \E area \in ToSet(areas) : PixelOf(place) \in Pixels(area)
    <2>1. CASE valid
      <3>1. areas = ChangedAreas(known, frame)
        BY <2>1 DEF ToWrite
      <3> QED
        BY <2>1, <3>1, ChangedAreasCover
    <2>2. CASE ~valid
      <3>1. areas = <<Screen>>
        BY <2>2 DEF ToWrite
      <3>2. Screen = [x |-> 0, y |-> 0, width |-> Width, height |-> Height]
        BY DEF Screen, Rect
      <3>3. Screen \in Areas
        <4>1. Right(Screen) = Width /\ Bottom(Screen) = Height
          BY <3>2, GlassAssumption DEF Right, Bottom
        <4>2. Screen \in [x : Nat, y : Nat, width : Nat \ {0}, height : Nat \ {0}]
          BY <3>2, GlassAssumption
        <4>3. Right(Screen) <= Width /\ Bottom(Screen) <= Height
          BY <4>1, GlassAssumption
        <4> QED
          BY <4>2, <4>3 DEF Areas, OnScreen
      <3>4. ToSet(<<Screen>>) = {Screen}
        BY DEF ToSet
      <3>5. \A place \in OnGlass : PixelOf(place) \in Pixels(Screen)
        BY ScreenPixels
      <3>6. <<Screen>> \in Seq(Areas)
        BY <3>3
      <3> HIDE DEF areas
      <3> QED
        BY <3>1, <3>4, <3>5, <3>6
    <2> QED
      BY <2>1, <2>2
  <1> HIDE DEF areas
  <1>2. Len(areas) \in Nat /\ ToSet(areas) = {areas[i] : i \in 1 .. Len(areas)}
    BY <1>1 DEF ToSet
  <1>3. \A i \in 1 .. Len(areas) : OnScreen(areas[i])
    <2>1. \A i \in 1 .. Len(areas) : areas[i] \in Areas
      BY <1>1
    <2> QED
      BY <2>1 DEF Areas
  <1>4. OnlyMemory(t, after, colors) /\ Redrawn(Glass(after), Glass(t), ToSet(areas), frame)
    BY <1>2, <1>3, FlushRedraws
  <1> HIDE DEF after
  <1>5. \A place \in OnGlass : Glass(after)[place] = frame[place]
    BY <1>1, <1>4 DEF Redrawn
  <1>6. Glass(after) \in [OnGlass -> colors]
    BY <1>4, OnlyMemoryType, GlassOf
  <1>7. Glass(after) = frame
    BY <1>5, <1>6
  <1> QED
    BY <1>4, <1>7 DEF after, areas

\* All that may be in the TFT's memory.
Colors == {Noise, Left, Black} \cup UNION {ToSet(Render(p)) : p \in Pictures}

\* The TFT's and its driver's states.
TftTyped ==
    /\ driver \in {"gone", "reset", "cleared", "ready"} /\ tft \in Tfts(Colors)
    /\ running \in BOOLEAN

\* What was drawn is known to the program only.
NothingDrawnBefore ==
    /\ running => driver = "ready"
    /\ ~running => picture = Nothing /\ tftShown = Nothing

\* What the driver made of the TFT.
DriverKnows ==
    /\ driver \in {"reset", "cleared"} => ~tft.lit /\ tft.awake /\ ~tft.on /\ tft.configured
    /\ driver = "ready" => tft.lit /\ tft.awake /\ tft.on /\ tft.configured
    /\ driver \in {"cleared", "ready"} \/ Visible(tft) => Noise \notin ToSet(Glass(tft))

\* What TftView takes the glass to show, which it compares the next picture with.
GlassIsShown ==
    /\ tftShown # Nothing => Glass(tft) = tftShown
    /\ picture # Nothing => [picture |-> picture, frame |-> Glass(tft)] \in Drawings

\* The TFT's inductive invariant.
TftInv == TftTyped /\ NothingDrawnBefore /\ DriverKnows /\ GlassIsShown

\* A picture drawn is a colour for each pixel.
LEMMA RenderType ==
    ASSUME NEW p \in Pictures
    PROVE  Render(p) \in [OnGlass -> Colors] /\ Noise \notin ToSet(Render(p))
  <1>1. DOMAIN Render(p) = OnGlass
    BY DEF Render, Frame, RowAfterRow, Screen, Rect, OnGlass
  <1>2. Render(p) = [place \in OnGlass |-> Render(p)[place]]
    BY <1>1 DEF Render, Frame
  <1>3. \A place \in OnGlass : Render(p)[place] \in ToSet(Render(p))
    BY <1>1 DEF ToSet
  <1>4. ToSet(Render(p)) \subseteq Colors
    BY DEF Colors
  <1> QED
    BY <1>2, <1>3, <1>4, NoiseAssumption

\* Noise is seen where it is.
LEMMA NoiseSeen ==
    ASSUME NEW colors, NEW t \in Tfts(colors)
    PROVE  Noise \in ToSet(Glass(t)) <=> \E place \in OnGlass : t.ram[CellUnder(place)] = Noise
  <1>1. /\ Glass(t) \in [OnGlass -> colors]
        /\ \A place \in OnGlass : Glass(t)[place] = t.ram[CellUnder(place)]
    BY GlassOf
  <1> QED
    BY <1>1 DEF ToSet

\* The constructor's black.
LEMMA ClearsToBlack ==
    ASSUME NEW t \in Tfts(Colors), t.configured
    PROVE  /\ OnlyMemory(t, Clears(t), Colors)
           /\ \A place \in OnGlass : Glass(Clears(t))[place] = Black
  <1> DEFINE black == [i \in OnGlass |-> Black]
  <1>1. Black \in Colors /\ black \in [OnGlass -> Colors] /\ black \in [OnGlass -> {Black}]
    BY DEF Colors
  <1>2. /\ OnScreen(Screen) /\ Screen.width = Width /\ Screen.height = Height
    <2>1. Screen = [x |-> 0, y |-> 0, width |-> Width, height |-> Height]
      BY DEF Screen, Rect
    <2>2. Right(Screen) = Width /\ Bottom(Screen) = Height
      BY <2>1, GlassAssumption DEF Right, Bottom
    <2>3. Right(Screen) <= Width /\ Bottom(Screen) <= Height
      BY <2>2, GlassAssumption
    <2> QED
      BY <2>1, <2>3, GlassAssumption DEF OnScreen
  <1>3. Crop(black, Screen) \in [OnGlass -> {Black}]
    BY <1>1, <1>2, CropType DEF OnGlass
  <1>4. Crop(black, Screen) = [i \in 1 .. Width * Height |-> Black]
    BY <1>3 DEF OnGlass
  <1>5. Clears(t) = Write(t, Screen, Crop(black, Screen))
    BY <1>4 DEF Clears
  <1>6. /\ OnlyMemory(t, Clears(t), Colors)
        /\ Redrawn(Glass(Clears(t)), Glass(t), {Screen}, black)
    BY <1>1, <1>2, <1>5, WriteRedraws
  <1>7. \A place \in OnGlass : PixelOf(place) \in Pixels(Screen)
    BY ColorAtPixel, ScreenPixels
  <1> QED
    BY <1>6, <1>7 DEF Redrawn

\* What is left of a program's picture is no noise, and noise stays.
LEMMA AbandonedKeeps ==
    ASSUME NEW t \in Tfts(Colors)
    PROVE  /\ Abandoned(t) \in Tfts(Colors)
           /\ Noise \in ToSet(Glass(Abandoned(t))) <=> Noise \in ToSet(Glass(t))
           /\ Visible(Abandoned(t)) <=> Visible(t)
  <1> DEFINE ram == [i \in Cells |-> IF t.ram[i] = Noise THEN Noise ELSE Left]
  <1>1. DOMAIN t.ram = Cells
    BY DEF Tfts
  <1>2. Abandoned(t) = [t EXCEPT !.ram = ram]
    BY <1>1 DEF Abandoned
  <1>3. ram \in [Cells -> Colors]
    BY DEF Colors
  <1>4. \A i \in Cells : ram[i] = Noise <=> t.ram[i] = Noise
    BY NoiseAssumption
  <1> HIDE DEF ram
  <1>5. /\ Abandoned(t) \in Tfts(Colors) /\ Abandoned(t).ram = ram
        /\ Abandoned(t).lit = t.lit /\ Abandoned(t).awake = t.awake /\ Abandoned(t).on = t.on
    BY <1>2, <1>3 DEF Tfts
  <1>6. \A place \in OnGlass : CellUnder(place) \in Cells
    BY CellUnderPixel
  <1> QED
    BY <1>4, <1>5, <1>6, NoiseSeen DEF Visible

\* The switches leave the memory alone.
LEMMA SwitchesKeep ==
    ASSUME NEW t \in Tfts(Colors), NEW lit \in BOOLEAN, NEW awake \in BOOLEAN, NEW on \in BOOLEAN,
           NEW configured \in BOOLEAN, NEW u,
           u = [lit |-> lit, awake |-> awake, on |-> on, configured |-> configured, ram |-> t.ram]
    PROVE  u \in Tfts(Colors) /\ Glass(u) = Glass(t)
  BY DEF Tfts, Glass

\* What a reset, the first light and the end make of them.
LEMMA SwitchesOf ==
    ASSUME NEW t \in Tfts(Colors)
    PROVE  /\ Resets(t) = [lit |-> FALSE, awake |-> TRUE, on |-> FALSE, configured |-> TRUE, ram |-> t.ram]
           /\ Lights(t) = [lit |-> TRUE, awake |-> t.awake, on |-> TRUE, configured |-> t.configured,
                           ram |-> t.ram]
           /\ Shuts(t) = [lit |-> FALSE, awake |-> FALSE, on |-> FALSE, configured |-> t.configured,
                          ram |-> t.ram]
           /\ t.lit \in BOOLEAN /\ t.awake \in BOOLEAN /\ t.on \in BOOLEAN /\ t.configured \in BOOLEAN
  <1>1. /\ t = [lit |-> t.lit, awake |-> t.awake, on |-> t.on, configured |-> t.configured, ram |-> t.ram]
        /\ t.lit \in BOOLEAN /\ t.awake \in BOOLEAN /\ t.on \in BOOLEAN /\ t.configured \in BOOLEAN
    BY DEF Tfts
  <1>2. PICK lit, awake, on, configured, ram :
            /\ t = [lit |-> lit, awake |-> awake, on |-> on, configured |-> configured, ram |-> ram]
            /\ awake = t.awake /\ configured = t.configured /\ ram = t.ram
    BY <1>1
  <1> DEFINE no  == FALSE
             yes == TRUE
  <1>3. /\ Resets(t) = [[[t EXCEPT !.lit = no] EXCEPT !.awake = no, !.on = no, !.configured = no]
                            EXCEPT !.awake = yes, !.configured = yes]
        /\ Lights(t) = [t EXCEPT !.on = yes, !.lit = yes]
        /\ Shuts(t) = [t EXCEPT !.lit = no, !.on = no, !.awake = no]
    BY DEF Resets, Reset, Lights, Shuts
  <1> HIDE DEF no, yes
  <1>4. /\ Resets(t) = [lit |-> no, awake |-> yes, on |-> no, configured |-> yes, ram |-> ram]
        /\ Lights(t) = [lit |-> yes, awake |-> awake, on |-> yes, configured |-> configured, ram |-> ram]
        /\ Shuts(t) = [lit |-> no, awake |-> no, on |-> no, configured |-> configured, ram |-> ram]
    BY <1>2, <1>3
  <1> QED
    BY <1>1, <1>2, <1>4 DEF no, yes

\* It holds before the program starts.
LEMMA TftInitEstablishes == DisplaysInit => TftInv
  <1> SUFFICES ASSUME DisplaysInit PROVE TftInv
    OBVIOUS
  <1>1. tft \in Tfts(Colors)
    BY DEF DisplaysInit, TftPoweredOn, Tfts, Cells, Colors
  <1>2. ~Visible(tft)
    BY DEF DisplaysInit, TftPoweredOn, Visible
  <1> QED
    BY <1>1, <1>2 DEF DisplaysInit, TftInv, TftTyped, NothingDrawnBefore, DriverKnows, GlassIsShown

\* The TFT's driver goes.
LEMMA TftEndKeeps == ASSUME TftInv, TftEnds, running' = FALSE PROVE TftInv'
  <1>1. tft \in Tfts(Colors)
    BY DEF TftInv, TftTyped
  <1>2. /\ Abandoned(tft) \in Tfts(Colors)
        /\ Noise \in ToSet(Glass(Abandoned(tft))) <=> Noise \in ToSet(Glass(tft))
        /\ Visible(Abandoned(tft)) <=> Visible(tft)
    BY <1>1, AbandonedKeeps
  <1>3. Shuts(Abandoned(tft)) \in Tfts(Colors) /\ ~Visible(Shuts(Abandoned(tft)))
    <2>1. Shuts(Abandoned(tft)) =
              [lit |-> FALSE, awake |-> FALSE, on |-> FALSE, configured |-> Abandoned(tft).configured,
               ram |-> Abandoned(tft).ram] /\ Abandoned(tft).configured \in BOOLEAN
      BY <1>2, SwitchesOf
    <2>2. Shuts(Abandoned(tft)) \in Tfts(Colors)
      BY <1>2, <2>1, SwitchesKeep
    <2>3. ~Visible(Shuts(Abandoned(tft)))
      BY <2>1 DEF Visible
    <2> QED
      BY <2>2, <2>3
  <1>4. /\ tft' \in Tfts(Colors)
        /\ Visible(tft') => Noise \notin ToSet(Glass(tft'))
    BY <1>2, <1>3 DEF TftEnds, TftInv, DriverKnows
  <1> QED
    BY <1>4 DEF TftEnds, TftInv, TftTyped, NothingDrawnBefore, DriverKnows, GlassIsShown

\* Every step keeps it.
LEMMA TftStepKeeps == TftInv /\ [DisplaysNext]_displaysVars => TftInv'
  <1> SUFFICES ASSUME TftInv, [DisplaysNext]_displaysVars PROVE TftInv'
    OBVIOUS
  <1>0. tft \in Tfts(Colors) /\ running \in BOOLEAN
    BY DEF TftInv, TftTyped
  <1>1. CASE TftResets
    <2>1. driver' = "reset" /\ tft' = Resets(tft) /\ UNCHANGED <<picture, tftShown, running>>
          /\ driver = "gone"
      BY <1>1 DEF TftResets, DriverStep, lcdVars
    <2>2. Resets(tft) = [lit |-> FALSE, awake |-> TRUE, on |-> FALSE, configured |-> TRUE, ram |-> tft.ram]
      BY <1>0, SwitchesOf
    <2>3. tft' \in Tfts(Colors)
      BY <1>0, <2>1, <2>2, SwitchesKeep
    <2> QED
      BY <2>1, <2>2, <2>3 DEF TftInv, TftTyped, NothingDrawnBefore, DriverKnows, GlassIsShown, Visible
  <1>2. CASE TftClears
    <2>1. driver' = "cleared" /\ tft' = Clears(tft) /\ UNCHANGED <<picture, tftShown, running>>
          /\ driver = "reset"
      BY <1>2 DEF TftClears, DriverStep, lcdVars
    <2>2. tft.configured
      BY <2>1 DEF TftInv, DriverKnows
    <2>3. OnlyMemory(tft, tft', Colors) /\ \A place \in OnGlass : Glass(tft')[place] = Black
      BY <1>0, <2>1, <2>2, ClearsToBlack
    <2>4. /\ tft' \in Tfts(Colors) /\ tft'.lit = tft.lit /\ tft'.awake = tft.awake
          /\ tft'.on = tft.on /\ tft'.configured = tft.configured
      BY <1>0, <2>3, OnlyMemoryType
    <2>5. Noise \notin ToSet(Glass(tft'))
      <3>1. Glass(tft') \in [OnGlass -> Colors]
        BY <2>4, GlassOf
      <3> QED
        BY <2>3, <3>1, NoiseAssumption DEF ToSet
    <2> QED
      BY <2>1, <2>4, <2>5 DEF TftInv, TftTyped, NothingDrawnBefore, DriverKnows, GlassIsShown
  <1>3. CASE TftLights
    <2>1. driver' = "ready" /\ tft' = Lights(tft) /\ UNCHANGED <<picture, tftShown, running>>
          /\ driver = "cleared"
      BY <1>3 DEF TftLights, DriverStep, lcdVars
    <2>2. /\ Lights(tft) = [lit |-> TRUE, awake |-> tft.awake, on |-> TRUE,
                            configured |-> tft.configured, ram |-> tft.ram]
          /\ tft.awake \in BOOLEAN /\ tft.configured \in BOOLEAN
      BY <1>0, SwitchesOf
    <2>3. PICK awake \in BOOLEAN, configured \in BOOLEAN :
              awake = tft.awake /\ configured = tft.configured
      BY <2>2
    <2>4. tft' \in Tfts(Colors) /\ Glass(tft') = Glass(tft)
      <3> DEFINE yes == TRUE
      <3>1. yes \in BOOLEAN
        OBVIOUS
      <3>2. tft' = [lit |-> yes, awake |-> tft.awake, on |-> yes, configured |-> tft.configured,
                    ram |-> tft.ram]
        BY <2>1, <2>2
      <3> HIDE DEF yes
      <3>3. tft' = [lit |-> yes, awake |-> awake, on |-> yes, configured |-> configured, ram |-> tft.ram]
        BY <2>3, <3>2
      <3> QED
        BY <1>0, <3>1, <3>3, SwitchesKeep
    <2> QED
      BY <2>1, <2>2, <2>4 DEF TftInv, TftTyped, NothingDrawnBefore, DriverKnows, GlassIsShown
  <1>4. CASE Starts
    BY <1>4 DEF Starts, tftVars, TftInv, TftTyped, NothingDrawnBefore, DriverKnows, GlassIsShown, Visible
  <1>5. CASE TftDraws
    <2>1. PICK drawing \in Drawings : Draws(drawing)
      BY <1>5 DEF TftDraws
    <2>2. PICK p \in Pictures : drawing = [picture |-> p, frame |-> Render(p)]
      BY DEF Drawings
    <2>3. running /\ driver = "ready" /\ UNCHANGED <<running, driver>>
      BY <1>5 DEF TftDraws, lcdVars, TftInv, NothingDrawnBefore
    <2>4. PICK frame : frame = Render(p)
      OBVIOUS
    <2>5. /\ picture' = p /\ tftShown' = frame
          /\ tft' = Flush(tft, ToWrite(tftShown # Nothing, tftShown, frame), frame)
      BY <2>1, <2>2, <2>4 DEF Draws
    <2>6. frame \in [OnGlass -> Colors] /\ Noise \notin ToSet(frame)
      BY <2>4, RenderType
    <2>7. tft.configured /\ (tftShown # Nothing => tftShown = Glass(tft))
      BY <2>3 DEF TftInv, DriverKnows, GlassIsShown
    <2>8. OnlyMemory(tft, tft', Colors) /\ Glass(tft') = frame
      <3>1. PICK valid \in BOOLEAN : valid = (tftShown # Nothing)
        OBVIOUS
      <3>2. tft' = Flush(tft, ToWrite(valid, tftShown, frame), frame) /\ (valid => tftShown = Glass(tft))
        BY <2>5, <2>7, <3>1
      <3> QED
        BY <1>0, <2>6, <2>7, <3>2, FlushShows
    <2>9. /\ tft' \in Tfts(Colors) /\ tft'.lit = tft.lit /\ tft'.awake = tft.awake
          /\ tft'.on = tft.on /\ tft'.configured = tft.configured
      BY <1>0, <2>8, OnlyMemoryType
    <2>10. [picture |-> picture', frame |-> Glass(tft')] \in Drawings
      BY <2>4, <2>5, <2>8 DEF Drawings
    <2>11. TftTyped' /\ NothingDrawnBefore'
      BY <2>3, <2>9 DEF TftInv, TftTyped, NothingDrawnBefore
    <2>12. DriverKnows'
      BY <2>3, <2>6, <2>8, <2>9 DEF TftInv, DriverKnows
    <2>13. GlassIsShown'
      BY <2>5, <2>8, <2>10 DEF GlassIsShown, Drawings
    <2> QED
      BY <2>11, <2>12, <2>13 DEF TftInv
  <1>6. CASE LcdShows \/ LcdDue \/ LcdSteps \/ LcdStrays
    <2>1. UNCHANGED <<running, tftVars>>
      BY <1>6 DEF LcdShows, LcdDue, LcdSteps, LcdStrays, ShowsText, StepDue, StepRuns, StrayRuns, OnStep
    <2> QED
      BY <2>1 DEF tftVars, TftInv, TftTyped, NothingDrawnBefore, DriverKnows, GlassIsShown, Visible
  <1>7. CASE StartFails \/ LcdThrows \/ Exits
    <2>1. TftEnds /\ running' = FALSE
      BY <1>0, <1>7 DEF StartFails, LcdThrows, Exits, ShowThrows, StepThrows, Throws, Ends
    <2> QED
      BY <2>1, TftEndKeeps
  <1>8. CASE KilledEarly
    <2>1. driver \in {"reset", "cleared"} /\ driver' = "gone" /\ tft' = Abandoned(tft)
          /\ UNCHANGED <<picture, tftShown, running>>
      BY <1>8 DEF KilledEarly, lcdVars
    <2>2. ~Visible(tft)
      BY <2>1 DEF TftInv, DriverKnows, Visible
    <2>3. tft' \in Tfts(Colors) /\ ~Visible(tft')
      BY <1>0, <2>1, <2>2, AbandonedKeeps
    <2>4. picture' = Nothing /\ tftShown' = Nothing /\ ~running'
      BY <2>1 DEF TftInv, TftTyped, NothingDrawnBefore
    <2> QED
      BY <2>1, <2>3, <2>4 DEF TftInv, TftTyped, NothingDrawnBefore, DriverKnows, GlassIsShown
  <1>9. CASE UNCHANGED displaysVars
    BY <1>9 DEF displaysVars, lcdVars, tftVars, TftInv, TftTyped, NothingDrawnBefore, DriverKnows,
       GlassIsShown, Visible
  <1> QED
    BY <1>1, <1>2, <1>3, <1>4, <1>5, <1>6, <1>7, <1>8, <1>9 DEF DisplaysNext

\* The TFT keeps its invariant, whatever it was left with and however often the program starts.
LEMMA TftInductive == DisplaysSpec => []TftInv
  BY TftInitEstablishes, TftStepKeeps, PTL DEF DisplaysSpec

\* The glass shows the picture TftView drew last, pixel for pixel, though flush()
\* (src/src/ui/tft_view.cpp) sends only the least areas around what changed, band by band
\* (changedAreas() in src/src/ui/display.cpp), and whatever the glass showed before the
\* St7735's constructor.
THEOREM PictureOnGlass == DisplaysSpec => []GlassShowsPicture
  <1>1. TftInv => GlassShowsPicture
    BY DEF TftInv, TftTyped, NothingDrawnBefore, DriverKnows, GlassIsShown, GlassShowsPicture, Visible
  <1> QED
    BY <1>1, TftInductive, PTL

\* What the TFT's memory holds at power-on is never lit: the driver's constructor blackens
\* the glass before it turns the display on, and what it writes has its place on the glass.
THEOREM NoiseNeverSeen == DisplaysSpec => []NoiseStaysDark
  <1>1. TftInv => NoiseStaysDark
    BY DEF TftInv, DriverKnows, NoiseStaysDark
  <1> QED
    BY <1>1, TftInductive, PTL

----------------------------------------------------------------------------
(* The Station List.                                                       *)

\* The clamp of drawStationList(): of a list of any length the window holds the
\* highlighted Station, begins at a Station there is, and leaves no row empty while
\* there are more Stations than rows.
THEOREM WindowHoldsHighlight ==
    ASSUME NEW count \in Nat, NEW selected \in 0 .. count - 1
    PROVE  /\ TopRow(count, selected) \in 0 .. selected
           /\ selected < TopRow(count, selected) + VisibleRows
           /\ count > VisibleRows => TopRow(count, selected) + VisibleRows <= count
           /\ count <= VisibleRows => TopRow(count, selected) = 0
  <1>1. VisibleRows \in Nat \ {0}
    BY LayoutAssumption
  <1> DEFINE half == VisibleRows \div 2
             last == Max({0, count - VisibleRows})
             low  == Min({selected - half, last})
  <1>2. half \in Nat /\ half < VisibleRows
    BY <1>1
  <1>3. last \in {0, count - VisibleRows} /\ last >= 0 /\ last >= count - VisibleRows
    BY <1>1, LargerOf
  <1>4. selected - half \in Int /\ last \in Int
    BY <1>1, <1>2, <1>3
  <1>5. low \in {selected - half, last} /\ low <= selected - half /\ low <= last
    BY <1>4, SmallerOf
  <1>6. low \in Int
    BY <1>4, <1>5
  <1>7. TopRow(count, selected) = Max({0, low})
    BY DEF TopRow
  <1> HIDE DEF half, last, low
  <1>8. Max({0, low}) \in {0, low} /\ Max({0, low}) >= 0 /\ Max({0, low}) >= low
    BY <1>6, LargerOf
  <1> QED
    BY <1>1, <1>2, <1>3, <1>5, <1>7, <1>8

\* The scrollbar of a list that has more Stations than rows: its thumb stays in the
\* track, wherever the window is, and touches the track's ends exactly when the window
\* is at the list's.
THEOREM ThumbStaysInTrack ==
    ASSUME NEW count \in Nat, count > VisibleRows,
           NEW top \in 0 .. count - VisibleRows
    PROVE  /\ ThumbY(count, top) >= RowsTop
           /\ ThumbY(count, top) + ThumbHeight(count) <= RowsTop + TrackHeight
           /\ top = 0 => ThumbY(count, top) = RowsTop
           /\ top = count - VisibleRows =>
                  ThumbY(count, top) + ThumbHeight(count) = RowsTop + TrackHeight
  <1>1. /\ VisibleRows \in Nat \ {0} /\ RowHeight \in Nat \ {0} /\ MinThumb \in Nat \ {0}
        /\ RowsTop \in Nat /\ MinThumb <= TrackHeight
    BY LayoutAssumption DEF TrackHeight
  <1> DEFINE hidden == count - VisibleRows
             share  == (TrackHeight * VisibleRows) \div count
             room   == TrackHeight - ThumbHeight(count)
  <1>2. TrackHeight \in Nat
    BY <1>1 DEF TrackHeight
  <1>3. hidden \in Nat \ {0} /\ top <= hidden
    BY <1>1
  <1>4. share \in Nat /\ share <= TrackHeight
    <2>1. TrackHeight * VisibleRows \in Nat /\ TrackHeight * VisibleRows <= TrackHeight * count
      BY <1>1, <1>2
    <2> QED
      BY <1>1, <1>2, <2>1
  <1>5. ThumbHeight(count) \in {MinThumb, share}
    <2>1. ThumbHeight(count) = Max({MinThumb, share})
      BY DEF ThumbHeight
    <2>2. MinThumb \in Int /\ share \in Int
      BY <1>1, <1>4
    <2> HIDE DEF share
    <2>3. Max({MinThumb, share}) \in {MinThumb, share}
      BY <2>2, LargerOf
    <2> QED
      BY <2>1, <2>3
  <1>6. room \in Nat
    BY <1>1, <1>2, <1>4, <1>5
  <1>7. room * top \in Nat /\ room * top <= room * hidden
    BY <1>3, <1>6
  <1>8. (room * top) \div hidden \in 0 .. room
    BY <1>3, <1>6, <1>7
  <1>9. top = 0 => (room * top) \div hidden = 0
    BY <1>3, <1>6
  <1>10. top = hidden => (room * top) \div hidden = room
    BY <1>3, <1>6
  <1>11. ThumbY(count, top) = RowsTop + ((room * top) \div hidden)
    BY DEF ThumbY
  <1>12. ThumbHeight(count) = TrackHeight - room /\ ThumbHeight(count) \in Nat
    BY <1>1, <1>2, <1>4, <1>5
  <1> HIDE DEF hidden, room, share
  <1> QED
    BY <1>1, <1>2, <1>6, <1>8, <1>9, <1>10, <1>11, <1>12 DEF hidden

----------------------------------------------------------------------------
(* The Station List on the glass: strokes, and what is seen of them.       *)

\* The strokes over a pixel, and the colour it has in the end.
Over(strokes, x, y)   == {i \in DOMAIN strokes : <<x, y>> \in Pixels(strokes[i].area)}
Covers(strokes, x, y) == Over(strokes, x, y) # {}
Seen(strokes, x, y) ==
    IF Covers(strokes, x, y) THEN strokes[Max(Over(strokes, x, y))].color ELSE Black

\* A frame has that colour there.
LEMMA FramePixel ==
    ASSUME NEW strokes, NEW x \in 0 .. Width - 1, NEW y \in 0 .. Height - 1
    PROVE  ColorAt(Frame(strokes), Width, <<x, y>>) = Seen(strokes, x, y)
  <1>1. Width \in Nat \ {0} /\ Height \in Nat \ {0}
    BY GlassAssumption
  <1>2. PICK place \in OnGlass : place = y * Width + x + 1
    BY <1>1, CellInBlock DEF OnGlass
  <1>3. (place - 1) % Width = x /\ (place - 1) \div Width = y
    <2>1. /\ y * Width + x \in Nat /\ (y * Width + x) % Width = x
          /\ (y * Width + x) \div Width = y
      BY <1>1, CellOf
    <2>2. place - 1 = y * Width + x
      BY <1>2, <2>1
    <2> QED
      BY <2>1, <2>2
  <1> DEFINE pixels == RowAfterRow(Screen)
  <1>4. pixels = [i \in OnGlass |-> <<0 + ((i - 1) % Width), 0 + ((i - 1) \div Width)>>]
    BY DEF RowAfterRow, Screen, Rect, OnGlass
  <1>5. DOMAIN pixels = OnGlass /\ pixels[place] = <<x, y>>
    <2>1. pixels[place] = <<0 + ((place - 1) % Width), 0 + ((place - 1) \div Width)>>
      BY <1>4
    <2>2. 0 + x = x /\ 0 + y = y
      OBVIOUS
    <2> QED
      BY <1>3, <1>4, <2>1, <2>2
  <1> HIDE DEF pixels
  <1>6. Frame(strokes)[place] =
            IF {s \in DOMAIN strokes : pixels[place] \in Pixels(strokes[s].area)} = {} THEN Black
            ELSE strokes[Max({s \in DOMAIN strokes : pixels[place] \in Pixels(strokes[s].area)})].color
    BY <1>5 DEF Frame, pixels
  <1>7. Frame(strokes)[place] = Seen(strokes, x, y)
    BY <1>5, <1>6 DEF Seen, Covers, Over
  <1>8. ColorAt(Frame(strokes), Width, <<x, y>>) = Frame(strokes)[place]
    BY <1>2 DEF ColorAt
  <1> QED
    BY <1>7, <1>8

\* The last stroke over a pixel is the one seen,
LEMMA LastSeen ==
    ASSUME NEW A, NEW strokes \in Seq(A), NEW x, NEW y, NEW last \in Over(strokes, x, y),
           \A i \in Over(strokes, x, y) : i <= last
    PROVE  Covers(strokes, x, y) /\ Seen(strokes, x, y) = strokes[last].color
  <1>1. PICK n \in Nat : n = Len(strokes) /\ DOMAIN strokes = 1 .. n
    OBVIOUS
  <1>2. Over(strokes, x, y) \subseteq 0 .. n
    BY <1>1 DEF Over
  <1>3. PICK over : over = Over(strokes, x, y)
    OBVIOUS
  <1>4. Max(over) \in over /\ \A i \in over : i <= Max(over)
    BY <1>1, <1>2, <1>3, MaxOf
  <1>5. Max(over) \in Nat /\ last \in Nat /\ last \in over
    BY <1>2, <1>3, <1>4
  <1>6. Max(over) <= last /\ last <= Max(over)
    BY <1>3, <1>4
  <1>7. Max(over) = last
    BY <1>5, <1>6
  <1> QED
    BY <1>3, <1>7 DEF Covers, Seen

\* and there is one, if any is over it.
LEMMA LastOver ==
    ASSUME NEW A, NEW strokes \in Seq(A), NEW x, NEW y, Covers(strokes, x, y)
    PROVE  \E last \in Over(strokes, x, y) :
               /\ last \in 1 .. Len(strokes) /\ \A i \in Over(strokes, x, y) : i <= last
               /\ Seen(strokes, x, y) = strokes[last].color
  <1>1. PICK n \in Nat : n = Len(strokes) /\ DOMAIN strokes = 1 .. n
    OBVIOUS
  <1>2. Over(strokes, x, y) \subseteq 0 .. n /\ Over(strokes, x, y) \subseteq 1 .. n
    BY <1>1 DEF Over
  <1>3. PICK last \in Over(strokes, x, y) : \A i \in Over(strokes, x, y) : i <= last
    BY <1>2, GreatestOf DEF Covers
  <1>4. Seen(strokes, x, y) = strokes[last].color
    BY <1>3, LastSeen
  <1> QED
    BY <1>1, <1>2, <1>3, <1>4

\* Of two lists of strokes, one after the other, the second is seen where it covers.
LEMMA SeenOfBoth ==
    ASSUME NEW A, NEW s \in Seq(A), NEW t \in Seq(A), NEW x, NEW y
    PROVE  /\ s \o t \in Seq(A)
           /\ Covers(s \o t, x, y) <=> Covers(s, x, y) \/ Covers(t, x, y)
           /\ Seen(s \o t, x, y) = IF Covers(t, x, y) THEN Seen(t, x, y) ELSE Seen(s, x, y)
  <1>1. PICK both \in Seq(A) : both = s \o t
    BY ConcatProperties
  <1>2. PICK n \in Nat : n = Len(s) /\ DOMAIN s = 1 .. n
    OBVIOUS
  <1>3. PICK m \in Nat : m = Len(t) /\ DOMAIN t = 1 .. m
    OBVIOUS
  <1>4. /\ DOMAIN both = 1 .. n + m
        /\ \A i \in 1 .. n : both[i] = s[i]
        /\ \A i \in 1 .. m : both[n + i] = t[i]
    <2>1. /\ Len(both) = n + m
          /\ \A i \in 1 .. Len(both) : both[i] = IF i <= n THEN s[i] ELSE t[i - n]
      BY <1>1, <1>2, <1>3
    <2>2. ASSUME NEW i \in 1 .. m PROVE both[n + i] = t[i]
      <3>1. PICK k \in 1 .. Len(both) : k = n + i
        BY <2>1
      <3>2. k - n = i /\ ~(k <= n)
        BY <3>1
      <3> QED
        BY <2>1, <3>1, <3>2
    <2> QED
      BY <2>1, <2>2
  <1>5. \A i \in 1 .. n : i \in Over(both, x, y) <=> i \in Over(s, x, y)
    BY <1>2, <1>4 DEF Over
  <1>6. \A i \in 1 .. m : n + i \in Over(both, x, y) <=> i \in Over(t, x, y)
    <2> SUFFICES ASSUME NEW i \in 1 .. m
                 PROVE  n + i \in Over(both, x, y) <=> i \in Over(t, x, y)
      OBVIOUS
    <2>1. both[n + i] = t[i] /\ n + i \in DOMAIN both /\ i \in DOMAIN t
      BY <1>3, <1>4
    <2> QED
      BY <2>1 DEF Over
  <1>7. Over(both, x, y) \subseteq 1 .. n + m /\ Over(s, x, y) \subseteq 1 .. n
        /\ Over(t, x, y) \subseteq 1 .. m
    BY <1>2, <1>3, <1>4 DEF Over
  <1>8. ASSUME NEW i \in Over(both, x, y) PROVE i \in Over(s, x, y) \/ i - n \in Over(t, x, y)
    <2>1. i \in 1 .. n + m
      BY <1>7
    <2>2. CASE i <= n
      BY <1>5, <2>1, <2>2
    <2>3. CASE i > n
      <3>1. PICK k \in 1 .. m : k = i - n
        BY <2>1, <2>3
      <3>2. n + k = i
        BY <2>1, <3>1
      <3> QED
        BY <1>6, <3>1, <3>2
    <2> QED
      BY <2>1, <2>2, <2>3
  <1>9. Covers(both, x, y) <=> Covers(s, x, y) \/ Covers(t, x, y)
    <2>1. Covers(both, x, y) => Covers(s, x, y) \/ Covers(t, x, y)
      BY <1>8 DEF Covers
    <2>2. Covers(s, x, y) => Covers(both, x, y)
      BY <1>5, <1>7 DEF Covers
    <2>3. Covers(t, x, y) => Covers(both, x, y)
      BY <1>6, <1>7 DEF Covers
    <2> QED
      BY <2>1, <2>2, <2>3
  <1>10. CASE Covers(t, x, y)
    <2>1. PICK last \in Over(t, x, y) :
              /\ last \in 1 .. m /\ \A i \in Over(t, x, y) : i <= last
              /\ Seen(t, x, y) = t[last].color
      BY <1>3, <1>10, LastOver
    <2>2. n + last \in Over(both, x, y)
      BY <1>6, <2>1
    <2>3. ASSUME NEW i \in Over(both, x, y) PROVE i <= n + last
      <3>1. i \in 1 .. n + m
        BY <1>7
      <3>2. CASE i <= n
        BY <2>1, <3>1, <3>2
      <3>3. CASE i > n
        <4>1. i \notin Over(s, x, y)
          BY <1>7, <3>1, <3>3
        <4>2. i - n \in Over(t, x, y)
          BY <1>8, <4>1
        <4>3. i - n <= last
          BY <2>1, <4>2
        <4> QED
          BY <2>1, <3>1, <4>3
      <3> QED
        BY <3>1, <3>2, <3>3
    <2>4. Seen(both, x, y) = both[n + last].color
      BY <2>2, <2>3, LastSeen
    <2>5. both[n + last] = t[last]
      BY <1>4, <2>1
    <2> QED
      BY <1>1, <1>9, <1>10, <2>1, <2>4, <2>5
  <1>11. CASE ~Covers(t, x, y) /\ Covers(s, x, y)
    <2>1. PICK last \in Over(s, x, y) :
              /\ last \in 1 .. n /\ \A i \in Over(s, x, y) : i <= last
              /\ Seen(s, x, y) = s[last].color
      BY <1>2, <1>11, LastOver
    <2>2. last \in Over(both, x, y)
      BY <1>5, <2>1
    <2>3. \A i \in Over(both, x, y) : i <= last
      BY <1>8, <1>11, <2>1 DEF Covers
    <2>4. Seen(both, x, y) = both[last].color
      BY <2>2, <2>3, LastSeen
    <2>5. both[last] = s[last]
      BY <1>4, <2>1
    <2> QED
      BY <1>1, <1>9, <1>11, <2>1, <2>4, <2>5
  <1>12. CASE ~Covers(t, x, y) /\ ~Covers(s, x, y)
    BY <1>1, <1>9, <1>12 DEF Seen
  <1> QED
    BY <1>10, <1>11, <1>12

\* None covers nothing.
LEMMA NoneCovers == ASSUME NEW x, NEW y PROVE ~Covers(<<>>, x, y)
  <1>1. DOMAIN <<>> = {}
    OBVIOUS
  <1> QED
    BY <1>1 DEF Covers, Over

\* A stroke alone.
LEMMA SeenOfOne ==
    ASSUME NEW area, NEW color, NEW x, NEW y
    PROVE  /\ Covers(<<Stroke(area, color)>>, x, y) <=> <<x, y>> \in Pixels(area)
           /\ Covers(<<Stroke(area, color)>>, x, y) => Seen(<<Stroke(area, color)>>, x, y) = color
  <1> DEFINE one == <<Stroke(area, color)>>
  <1>1. one \in Seq({Stroke(area, color)}) /\ DOMAIN one = {1} /\ one[1].area = area
        /\ one[1].color = color
    BY DEF Stroke
  <1> HIDE DEF one
  <1>2. Over(one, x, y) = IF <<x, y>> \in Pixels(area) THEN {1} ELSE {}
    BY <1>1 DEF Over
  <1>3. Covers(one, x, y) <=> <<x, y>> \in Pixels(area)
    BY <1>2 DEF Covers
  <1>4. ASSUME Covers(one, x, y) PROVE Seen(one, x, y) = color
    <2>1. 1 \in Over(one, x, y) /\ \A i \in Over(one, x, y) : i <= 1
      BY <1>2, <1>3, <1>4
    <2>2. Seen(one, x, y) = one[1].color
      BY <1>1, <2>1, LastSeen
    <2> QED
      BY <1>1, <2>2
  <1> QED
    BY <1>3, <1>4 DEF one

\* Of lists of strokes of which one only covers a pixel, that one is seen.
LEMMA SeenOfMany ==
    ASSUME NEW A, NEW seqs \in Seq(Seq(A)), NEW x, NEW y, NEW only \in 1 .. Len(seqs),
           \A i \in 1 .. Len(seqs) : Covers(seqs[i], x, y) => i = only
    PROVE  /\ FlattenSeq(seqs) \in Seq(A)
           /\ Covers(FlattenSeq(seqs), x, y) <=> Covers(seqs[only], x, y)
           /\ Seen(FlattenSeq(seqs), x, y) = Seen(seqs[only], x, y)
  <1>1. PICK n \in Nat : n = Len(seqs)
    OBVIOUS
  <1>2. PICK f \in [0 .. n -> Seq(A)] : Gathers(f, seqs)
    BY <1>1, Gathered
  <1>3. /\ f[0] = <<>> /\ \A i \in 1 .. n : f[i] = f[i - 1] \o seqs[i]
        /\ FlattenSeq(seqs) = f[n]
    BY <1>1, <1>2 DEF Gathers
  <1>4. (\A i \in 1 .. n : seqs[i] \in Seq(A)) /\ only \in 1 .. n
    BY <1>1
  <1> DEFINE Good(i) == IF i < only THEN ~Covers(f[i], x, y)
                        ELSE /\ Covers(f[i], x, y) <=> Covers(seqs[only], x, y)
                             /\ Seen(f[i], x, y) = Seen(seqs[only], x, y)
             S == {i \in 0 .. n : Good(i)}
  <1>5. 0 \in S
    <2>1. ~Covers(f[0], x, y) /\ 0 < only
      BY <1>3, <1>4, NoneCovers
    <2> QED
      BY <2>1
  <1>6. ASSUME NEW i \in 0 .. n - 1, i \in S PROVE i + 1 \in S
    <2>1. PICK next \in 1 .. n : next = i + 1
      OBVIOUS
    <2>2. next - 1 = i /\ i \in 0 .. n
      BY <2>1
    <2>3. f[next] = f[i] \o seqs[next] /\ f[i] \in Seq(A) /\ seqs[next] \in Seq(A)
      BY <1>3, <1>4, <2>2
    <2>4. /\ Covers(f[next], x, y) <=> Covers(f[i], x, y) \/ Covers(seqs[next], x, y)
          /\ Seen(f[next], x, y) = IF Covers(seqs[next], x, y) THEN Seen(seqs[next], x, y)
                                   ELSE Seen(f[i], x, y)
      BY <2>3, SeenOfBoth
    <2>5. Covers(seqs[next], x, y) => next = only
      BY <1>1
    <2>6. Good(i)
      BY <1>6
    <2> HIDE DEF S
    <2>7. CASE next < only
      <3>1. ~Covers(f[i], x, y)
        BY <1>4, <2>1, <2>6, <2>7
      <3>2. ~Covers(seqs[next], x, y)
        BY <1>4, <2>5, <2>7
      <3>3. Good(next)
        BY <2>4, <2>7, <3>1, <3>2
      <3> QED
        BY <2>1, <3>3 DEF S
    <2>8. CASE next = only
      <3>1. ~Covers(f[i], x, y)
        BY <1>4, <2>1, <2>6, <2>8
      <3>2. Covers(seqs[only], x, y) \/ Seen(seqs[only], x, y) = Seen(f[i], x, y)
        BY <3>1 DEF Seen
      <3>3. ~(next < only)
        BY <1>4, <2>8
      <3>4. Good(next)
        BY <2>4, <2>8, <3>1, <3>2, <3>3
      <3> QED
        BY <2>1, <3>4 DEF S
    <2>9. CASE next > only
      <3>1. ~(i < only) /\ ~(next < only)
        BY <1>4, <2>1, <2>9
      <3>2. ~Covers(seqs[next], x, y)
        BY <1>4, <2>5, <2>9
      <3>3. Good(next)
        BY <2>4, <2>6, <3>1, <3>2
      <3> QED
        BY <2>1, <3>3 DEF S
    <2> QED
      BY <1>4, <2>7, <2>8, <2>9
  <1>7. \A i \in 0 .. n : i \in S
    <2> HIDE DEF S
    <2> QED
      BY <1>5, <1>6, InductionUpTo
  <1>8. Good(n) /\ ~(n < only) /\ f[n] \in Seq(A)
    <2>1. n \in S
      BY <1>7
    <2> QED
      BY <1>4, <2>1
  <1> QED
    BY <1>3, <1>8

----------------------------------------------------------------------------
(* The texts in it.                                                        *)

\* Areas, on the screen or not.
AnyArea == [x : Int, y : Int, width : Int, height : Int]

\* What is in two areas is in both.
LEMMA PixelsOfBoth ==
    ASSUME NEW a \in AnyArea, NEW b \in AnyArea, NEW x \in Int, NEW y \in Int
    PROVE  /\ Intersect(a, b) \in AnyArea
           /\ <<x, y>> \in Pixels(Intersect(a, b))
                 <=> <<x, y>> \in Pixels(a) /\ <<x, y>> \in Pixels(b)
  <1>1. /\ a.x \in Int /\ a.y \in Int /\ a.width \in Int /\ a.height \in Int
        /\ b.x \in Int /\ b.y \in Int /\ b.width \in Int /\ b.height \in Int
    BY DEF AnyArea
  <1> DEFINE left   == Max({a.x, b.x})
             top    == Max({a.y, b.y})
             right  == Min({Right(a), Right(b)})
             bottom == Min({Bottom(a), Bottom(b)})
  <1>2. /\ Right(a) = a.x + a.width /\ Right(b) = b.x + b.width
        /\ Bottom(a) = a.y + a.height /\ Bottom(b) = b.y + b.height
        /\ Right(a) \in Int /\ Right(b) \in Int /\ Bottom(a) \in Int /\ Bottom(b) \in Int
    BY <1>1 DEF Right, Bottom
  <1>3. left \in {a.x, b.x} /\ left >= a.x /\ left >= b.x
    BY <1>1, LargerOf
  <1>4. top \in {a.y, b.y} /\ top >= a.y /\ top >= b.y
    BY <1>1, LargerOf
  <1>5. right \in {Right(a), Right(b)} /\ right <= Right(a) /\ right <= Right(b)
    BY <1>1, <1>2, SmallerOf
  <1>6. bottom \in {Bottom(a), Bottom(b)} /\ bottom <= Bottom(a) /\ bottom <= Bottom(b)
    BY <1>1, <1>2, SmallerOf
  <1>7. Intersect(a, b) = IF right <= left \/ bottom <= top THEN Rect(0, 0, 0, 0)
                          ELSE Rect(left, top, right - left, bottom - top)
    BY DEF Intersect
  <1> HIDE DEF left, top, right, bottom
  <1>8. left \in Int /\ top \in Int /\ right \in Int /\ bottom \in Int
    BY <1>1, <1>2, <1>3, <1>4, <1>5, <1>6
  <1>9. <<x, y>> \in Pixels(a) /\ <<x, y>> \in Pixels(b)
            <=> left <= x /\ x < right /\ top <= y /\ y < bottom
    <2>1. <<x, y>> \in Pixels(a) <=> a.x <= x /\ x < Right(a) /\ a.y <= y /\ y < Bottom(a)
      BY <1>1, <1>2, PixelsOf
    <2>2. <<x, y>> \in Pixels(b) <=> b.x <= x /\ x < Right(b) /\ b.y <= y /\ y < Bottom(b)
      BY <1>1, <1>2, PixelsOf
    <2>3. left <= x <=> a.x <= x /\ b.x <= x
      BY <1>1, <1>3
    <2>4. top <= y <=> a.y <= y /\ b.y <= y
      BY <1>1, <1>4
    <2>5. x < right <=> x < Right(a) /\ x < Right(b)
      BY <1>1, <1>2, <1>5
    <2>6. y < bottom <=> y < Bottom(a) /\ y < Bottom(b)
      BY <1>1, <1>2, <1>6
    <2> QED
      BY <2>1, <2>2, <2>3, <2>4, <2>5, <2>6
  <1>10. CASE right <= left \/ bottom <= top
    <2>1. Intersect(a, b) = [x |-> 0, y |-> 0, width |-> 0, height |-> 0]
      BY <1>7, <1>10 DEF Rect
    <2>2. ~(left <= x /\ x < right /\ top <= y /\ y < bottom)
      BY <1>8, <1>10
    <2>3. <<x, y>> \notin Pixels(Intersect(a, b))
      BY <2>1, PixelsOf
    <2> QED
      BY <1>9, <2>1, <2>2, <2>3 DEF AnyArea
  <1>11. CASE ~(right <= left \/ bottom <= top)
    <2> DEFINE c == Intersect(a, b)
    <2>1. c = [x |-> left, y |-> top, width |-> right - left, height |-> bottom - top]
      BY <1>7, <1>11 DEF Rect
    <2> HIDE DEF c
    <2>2. c \in AnyArea /\ c.x + c.width = right /\ c.y + c.height = bottom /\ c.x = left /\ c.y = top
      BY <1>8, <2>1 DEF AnyArea
    <2>3. <<x, y>> \in Pixels(c) <=> left <= x /\ x < right /\ top <= y /\ y < bottom
      BY <1>8, <2>2, PixelsOf
    <2> QED
      BY <1>9, <2>2, <2>3 DEF c
  <1> QED
    BY <1>10, <1>11

\* The strokes of a text, in colours of this sort.
Strokes(paints) == [area : AnyArea, color : paints]

\* A list of strokes in these colours is over a pixel only if so, and then has this colour there.
Shows(strokes, paints, x, y, so, color) ==
    /\ strokes \in Seq(Strokes(paints))
    /\ Covers(strokes, x, y) <=> so
    /\ Covers(strokes, x, y) => Seen(strokes, x, y) = color

\* The same, said in other words.
LEMMA ShowsSame ==
    ASSUME NEW strokes, NEW paints, NEW x, NEW y, NEW so, NEW color, Shows(strokes, paints, x, y, so, color),
           NEW also, also <=> so, NEW same, so => same = color
    PROVE  Shows(strokes, paints, x, y, also, same)
  BY DEF Shows

\* Characters come in these colours.
PaintsTexts(paints, color, C) == \A c \in C : <<"text", color, c>> \in paints

\* A character is seen where it is, unless it is blank or clipped.
TextSeen(line, paints, x, y, characters, color, clip, px, py) ==
    LET k == px - x + 1
    IN Shows(line, paints, px, py, /\ py = y /\ k \in 1 .. Len(characters)
                                   /\ characters[k] # Space /\ <<px, py>> \in Pixels(clip),
             <<"text", color, characters[k]>>)

\* So Canvas::text() draws it.
LEMMA SeenOfText ==
    ASSUME NEW C, NEW characters \in Seq(C), NEW x \in Int, NEW y \in Int, NEW clip \in AnyArea,
           NEW color, NEW px \in Int, NEW py \in Int, NEW paints, PaintsTexts(paints, color, C)
    PROVE  TextSeen(Text(x, y, characters, color, clip), paints, x, y, characters, color, clip, px, py)
  <1>1. PICK k \in Int : k = px - x + 1
    OBVIOUS
  <1> DEFINE line == Text(x, y, characters, color, clip)
  <1>2. PICK n \in Nat : n = Len(characters) /\ DOMAIN characters = 1 .. n
    OBVIOUS
  <1> DEFINE Glyph(i) == IF characters[i] = Space THEN Rect(0, 0, 0, 0) ELSE Rect(x + i - 1, y, 1, 1)
             Area(i)  == Intersect(Glyph(i), clip)
  <1>3. line = [i \in 1 .. n |-> Stroke(Area(i), <<"text", color, characters[i]>>)]
    BY <1>2 DEF Text
  <1> HIDE DEF line
  <1>4. ASSUME NEW i \in 1 .. n
        PROVE  Glyph(i) \in AnyArea /\ (<<px, py>> \in Pixels(Glyph(i)) <=>
                   characters[i] # Space /\ py = y /\ i = k)
    <2>1. CASE characters[i] = Space
      <3>1. Glyph(i) = [x |-> 0, y |-> 0, width |-> 0, height |-> 0]
        BY <2>1 DEF Rect
      <3> HIDE DEF Glyph
      <3>2. Glyph(i) \in AnyArea
        BY <3>1 DEF AnyArea
      <3>3. <<px, py>> \notin Pixels(Glyph(i))
        BY <3>1, PixelsOf
      <3> QED
        BY <2>1, <3>2, <3>3
    <2>2. CASE characters[i] # Space
      <3>1. Glyph(i) = [x |-> x + i - 1, y |-> y, width |-> 1, height |-> 1]
        BY <2>2 DEF Rect
      <3> HIDE DEF Glyph
      <3>2. Glyph(i) \in AnyArea
        BY <3>1 DEF AnyArea
      <3>3. <<px, py>> \in Pixels(Glyph(i)) <=> px = x + i - 1 /\ py = y
        <4>1. <<px, py>> \in Pixels(Glyph(i)) <=>
                  px \in (x + i - 1) .. ((x + i - 1) + 1) - 1 /\ py \in y .. (y + 1) - 1
          BY <3>1, PixelsOf
        <4> QED
          BY <4>1
      <3>4. px = x + i - 1 <=> i = k
        BY <1>1
      <3> QED
        BY <2>2, <3>2, <3>3, <3>4
    <2> QED
      BY <2>1, <2>2
  <1>5. ASSUME NEW i \in 1 .. n
        PROVE  Area(i) \in AnyArea /\ (<<px, py>> \in Pixels(Area(i)) <=>
                   characters[i] # Space /\ py = y /\ i = k /\ <<px, py>> \in Pixels(clip))
    <2> HIDE DEF Glyph
    <2> QED
      BY <1>4, PixelsOfBoth
  <1> HIDE DEF Area
  <1>6. /\ DOMAIN line = 1 .. n
        /\ \A i \in 1 .. n : line[i].area = Area(i) /\ line[i].color = <<"text", color, characters[i]>>
    BY <1>3 DEF Stroke
  <1>7. line \in Seq(Strokes(paints))
    <2>1. ASSUME NEW i \in 1 .. n
          PROVE  Stroke(Area(i), <<"text", color, characters[i]>>) \in Strokes(paints)
      <3>1. characters[i] \in C
        BY <1>2
      <3>2. <<"text", color, characters[i]>> \in paints
        BY <3>1 DEF PaintsTexts
      <3> QED
        BY <1>5, <3>2 DEF Stroke, Strokes
    <2> QED
      BY <1>3, <2>1
  <1>8. Over(line, px, py) = {i \in 1 .. n : characters[i] # Space /\ py = y /\ i = k
                                                /\ <<px, py>> \in Pixels(clip)}
    BY <1>5, <1>6 DEF Over
  <1>9. Covers(line, px, py) <=> py = y /\ k \in 1 .. n /\ characters[k] # Space
                                      /\ <<px, py>> \in Pixels(clip)
    BY <1>8 DEF Covers
  <1>10. ASSUME Covers(line, px, py) PROVE Seen(line, px, py) = <<"text", color, characters[k]>>
    <2>1. k \in Over(line, px, py) /\ k \in 1 .. n /\ \A i \in Over(line, px, py) : i = k
      BY <1>8, <1>9, <1>10
    <2>2. Seen(line, px, py) = line[k].color
      BY <1>7, <2>1, LastSeen
    <2> QED
      BY <1>6, <2>1, <2>2
  <1> QED
    BY <1>1, <1>2, <1>7, <1>9, <1>10 DEF line, TextSeen, Shows

IsShift(shift, moved, length) == shift = moved % length
\* Where a cycle that moved on has come to.
LEMMA MovedOn ==
    ASSUME NEW length \in Nat \ {0}, NEW moved \in Nat, NEW column \in 0 .. length - 1,
           NEW shift, IsShift(shift, moved, length)
    PROVE  /\ shift \in 0 .. length - 1
           /\ (moved + column) % length =
                  IF shift + column < length THEN shift + column ELSE shift + column - length
  <1>1. /\ moved \div length \in Nat /\ moved % length \in 0 .. length - 1
        /\ moved = (moved \div length) * length + (moved % length)
    <2>1. moved \div length \in Nat /\ (moved \div length) * length \in Nat
      BY Z3
    <2>2. moved % length = moved - (moved \div length) * length
      BY Z3
    <2>3. moved % length \in 0 .. length - 1
      OBVIOUS
    <2> QED
      BY <2>1, <2>2, <2>3
  <1>2. PICK times \in Nat : times = moved \div length
    BY <1>1
  <1>3. PICK product \in Nat : product = times * length
    BY <1>2, Z3
  <1>4. shift \in 0 .. length - 1 /\ moved = product + shift
    BY <1>1, <1>2, <1>3 DEF IsShift
  <1>5. CASE shift + column < length
    <2>1. PICK place \in 0 .. length - 1 : place = shift + column
      BY <1>4, <1>5
    <2>2. (times * length + place) % length = place
      BY <1>2, <2>1, CellOf
    <2>3. times * length + place = moved + column
      BY <1>3, <1>4, <2>1
    <2> QED
      BY <1>4, <1>5, <2>1, <2>2, <2>3
  <1>6. CASE shift + column >= length
    <2>1. PICK place \in 0 .. length - 1 : place = shift + column - length
      BY <1>4, <1>6
    <2>2. PICK next \in Nat : next = times + 1
      OBVIOUS
    <2>3. (next * length + place) % length = place
      BY <2>1, <2>2, CellOf
    <2>4. next * length = times * length + length
      BY <2>2, Z3
    <2>5. next * length + place = moved + column
      BY <1>3, <1>4, <2>1, <2>4
    <2> QED
      BY <1>4, <1>6, <2>1, <2>3, <2>5
  <1> QED
    BY <1>4, <1>5, <1>6

\* The character in a column of a line: of a text that fits, or of one that runs through.
FitsAt(name, column) == IF column < Len(name) THEN name[column + 1] ELSE Space
RunsAt(name, moved, column) ==
    LET cycle == name \o Marquee IN cycle[((moved + column) % Len(cycle)) + 1]

LineAt(name, moved, width, column) ==
    IF Len(name) > width THEN RunsAt(name, moved, column) ELSE FitsAt(name, column)

\* A character is seen in its column of a line, and nothing outside the line.
LineSeen(line, paints, x, y, width, color, c, px, py) ==
    Shows(line, paints, px, py, py = y /\ px - x \in 0 .. width - 1 /\ c # Space, <<"text", color, c>>)

\* drawLine() has it there.
LEMMA SeenOfLine ==
    ASSUME NEW C, NEW name \in Seq(C), Marquee \in Seq(C), NEW color, NEW moved \in Nat,
           NEW x \in Int, NEW y \in Int, NEW width \in Nat \ {0},
           NEW px \in Int, NEW py \in Int, NEW paints, PaintsTexts(paints, color, C)
    PROVE  LineSeen(Line(Rect(x, y, width, 1), name, color, moved), paints, x, y, width, color,
                    LineAt(name, moved, width, px - x), px, py)
  <1> DEFINE drawn == Line(Rect(x, y, width, 1), name, color, moved)
             shows == LineAt(name, moved, width, px - x)
  <1>1. PICK line : line = drawn
    OBVIOUS
  <1>2. PICK column \in Int : column = px - x
    OBVIOUS
  <1>3. PICK c : c = LineAt(name, moved, width, column)
    OBVIOUS
  <1> HIDE DEF drawn, shows
  <1> SUFFICES Shows(line, paints, px, py, py = y /\ column \in 0 .. width - 1 /\ c # Space,
                     <<"text", color, c>>)
    BY <1>1, <1>2, <1>3 DEF LineSeen, drawn, shows
  <1>4. Len(name) \in Nat
    OBVIOUS
  <1>5. PICK area : area = Rect(x, y, width, 1)
    OBVIOUS
  <1>6. area \in AnyArea /\ area.x = x /\ area.y = y /\ area.width = width /\ area.height = 1
    BY <1>5 DEF Rect, AnyArea
  <1>7. <<px, py>> \in Pixels(area) <=> py = y /\ column \in 0 .. width - 1
    <2>1. <<px, py>> \in Pixels(area) <=> px \in x .. (x + width) - 1 /\ py \in y .. (y + 1) - 1
      BY <1>6, PixelsOf
    <2> QED
      BY <1>2, <2>1
  <1>8. CASE Len(name) <= width
    <2>1. line = Text(x, y, name, color, area)
      BY <1>1, <1>5, <1>6, <1>8 DEF Line, drawn
    <2>2. PICK k \in Int : k = px - x + 1 /\ k = column + 1
      BY <1>2
    <2> DEFINE so == py = y /\ k \in 1 .. Len(name) /\ name[k] # Space /\ <<px, py>> \in Pixels(area)
    <2>3. Shows(line, paints, px, py, so, <<"text", color, name[k]>>)
      <3>1. TextSeen(line, paints, x, y, name, color, area, px, py)
        BY <1>6, <2>1, SeenOfText
      <3> QED
        BY <2>2, <3>1 DEF TextSeen
    <2>4. c = IF column < Len(name) THEN name[k] ELSE Space
      BY <1>2, <1>3, <1>4, <1>8, <2>2 DEF LineAt, FitsAt
    <2>5. column \in 0 .. width - 1 => (k \in 1 .. Len(name) <=> column < Len(name))
      BY <1>4, <2>2
    <2>6. (so => c = name[k]) /\ (py = y /\ column \in 0 .. width - 1 /\ c # Space <=> so)
      BY <1>7, <2>4, <2>5
    <2> HIDE DEF so
    <2> QED
      BY <2>3, <2>6 DEF Shows
  <1>9. CASE Len(name) > width
    <2>1. PICK cycle \in Seq(C) : cycle = name \o Marquee
      BY ConcatProperties
    <2>2. PICK length \in Nat \ {0} : length = Len(cycle) /\ length > width
      <3>1. Len(cycle) = Len(name) + Len(Marquee)
        BY <2>1, ConcatProperties
      <3> QED
        BY <1>9, <3>1
    <2>3. PICK shift \in 0 .. length - 1 : shift = moved % length
      <3>1. moved % length \in 0 .. length - 1
        OBVIOUS
      <3> QED
        BY <3>1
    <2>4. PICK first : first = Text(x - shift, y, cycle, color, area)
      OBVIOUS
    <2>5. PICK second : second = Text(x - shift + length, y, cycle, color, area)
      OBVIOUS
    <2>6. line = first \o second
      <3>1. line = Text(area.x - (moved % Len(cycle)), area.y, cycle, color, area)
                   \o Text(area.x - (moved % Len(cycle)) + Len(cycle), area.y, cycle, color, area)
        BY <1>1, <1>5, <1>6, <1>9, <2>1 DEF Line, drawn
      <3> QED
        BY <1>6, <2>2, <2>3, <2>4, <2>5, <3>1
    <2>7. PICK k \in Int : k = px - (x - shift) + 1 /\ k = column + shift + 1
      BY <1>2
    <2>8. PICK j \in Int : j = px - (x - shift + length) + 1 /\ j = column + shift - length + 1
      BY <1>2
    <2> DEFINE in1 == py = y /\ k \in 1 .. length /\ cycle[k] # Space /\ <<px, py>> \in Pixels(area)
               in2 == py = y /\ j \in 1 .. length /\ cycle[j] # Space /\ <<px, py>> \in Pixels(area)
    <2>9. Shows(first, paints, px, py, in1, <<"text", color, cycle[k]>>)
      <3>1. PICK left \in Int : left = x - shift
        OBVIOUS
      <3>2. TextSeen(first, paints, left, y, cycle, color, area, px, py)
        BY <1>6, <2>4, <3>1, SeenOfText
      <3>3. k = px - left + 1
        BY <2>7, <3>1
      <3> QED
        BY <2>2, <3>2, <3>3 DEF TextSeen
    <2>10. Shows(second, paints, px, py, in2, <<"text", color, cycle[j]>>)
      <3>1. PICK left \in Int : left = x - shift + length
        OBVIOUS
      <3>2. TextSeen(second, paints, left, y, cycle, color, area, px, py)
        BY <1>6, <2>5, <3>1, SeenOfText
      <3>3. j = px - left + 1
        BY <2>8, <3>1
      <3> QED
        BY <2>2, <3>2, <3>3 DEF TextSeen
    <2>11. ASSUME ~(in1 /\ in2)
           PROVE  Shows(line, paints, px, py, in1 \/ in2,
                        IF in2 THEN <<"text", color, cycle[j]>> ELSE <<"text", color, cycle[k]>>)
      <3> HIDE DEF in1, in2
      <3>1. first \in Seq(Strokes(paints)) /\ second \in Seq(Strokes(paints))
        BY <2>9, <2>10 DEF Shows
      <3>2. /\ line \in Seq(Strokes(paints))
            /\ Covers(line, px, py) <=> Covers(first, px, py) \/ Covers(second, px, py)
            /\ Seen(line, px, py) = IF Covers(second, px, py) THEN Seen(second, px, py)
                                    ELSE Seen(first, px, py)
        <4>1. /\ first \o second \in Seq(Strokes(paints))
              /\ Covers(first \o second, px, py) <=> Covers(first, px, py) \/ Covers(second, px, py)
              /\ Seen(first \o second, px, py) =
                     IF Covers(second, px, py) THEN Seen(second, px, py) ELSE Seen(first, px, py)
          BY <3>1, SeenOfBoth
        <4> QED
          BY <2>6, <4>1
      <3> QED
        BY <2>9, <2>10, <2>11, <3>2 DEF Shows
    <2>12. c = cycle[((moved + column) % length) + 1]
      BY <1>2, <1>3, <1>9, <2>1, <2>2 DEF LineAt, RunsAt
    <2>13. ASSUME column \in 0 .. width - 1
           PROVE  \/ k \in 1 .. length /\ j \notin 1 .. length /\ c = cycle[k]
                  \/ j \in 1 .. length /\ k \notin 1 .. length /\ c = cycle[j]
      <3>1. column \in 0 .. length - 1
        BY <2>2, <2>13
      <3>2. (moved + column) % length =
                IF shift + column < length THEN shift + column ELSE shift + column - length
        BY <2>3, <3>1, MovedOn DEF IsShift
      <3>3. CASE shift + column < length
        <4>1. k \in 1 .. length /\ j \notin 1 .. length
          BY <2>7, <2>8, <3>1, <3>3
        <4>2. ((moved + column) % length) + 1 = k
          BY <2>7, <3>2, <3>3
        <4> QED
          BY <2>12, <4>1, <4>2
      <3>4. CASE shift + column >= length
        <4>1. j \in 1 .. length /\ k \notin 1 .. length
          BY <2>7, <2>8, <3>1, <3>4
        <4>2. ((moved + column) % length) + 1 = j
          BY <2>8, <3>2, <3>4
        <4> QED
          BY <2>12, <4>1, <4>2
      <3> QED
        BY <3>1, <3>3, <3>4
    <2>14. ~(in1 /\ in2)
      BY <1>7, <2>13
    <2>15. /\ py = y /\ column \in 0 .. width - 1 /\ c # Space <=> in1 \/ in2
           /\ in1 => c = cycle[k]
           /\ in2 => c = cycle[j]
      BY <1>7, <2>13
    <2> HIDE DEF in1, in2
    <2>16. in1 \/ in2 => <<"text", color, c>> =
               IF in2 THEN <<"text", color, cycle[j]>> ELSE <<"text", color, cycle[k]>>
      BY <2>15
    <2> QED
      BY <2>11, <2>14, <2>15, <2>16, ShowsSame
  <1> QED
    BY <1>4, <1>8, <1>9

\* So has drawTruncated().
LEMMA SeenOfTruncated ==
    ASSUME NEW C, NEW name \in Seq(C), NEW color,
           NEW x \in Nat, NEW y \in 0 .. Height - 1, NEW width \in Nat \ {0}, x + width <= Width,
           NEW px \in Int, NEW py \in Int, NEW paints, PaintsTexts(paints, color, C)
    PROVE  LineSeen(Truncated(x, y, width, name, color), paints, x, y, width, color,
                    FitsAt(name, px - x), px, py)
  <1> DEFINE drawn == Truncated(x, y, width, name, color)
             shows == FitsAt(name, px - x)
  <1>1. PICK line : line = drawn
    OBVIOUS
  <1>2. PICK column \in Int : column = px - x
    OBVIOUS
  <1>3. PICK c : c = FitsAt(name, column)
    OBVIOUS
  <1> HIDE DEF drawn, shows
  <1> SUFFICES Shows(line, paints, px, py, py = y /\ column \in 0 .. width - 1 /\ c # Space,
                     <<"text", color, c>>)
    BY <1>1, <1>2, <1>3 DEF LineSeen, drawn, shows
  <1>4. Width \in Nat /\ Height \in Nat /\ y \in Int
    BY GlassAssumption
  <1>5. Screen \in AnyArea /\ Screen.x = 0 /\ Screen.y = 0 /\ Screen.width = Width
        /\ Screen.height = Height
    BY <1>4 DEF Screen, Rect, AnyArea
  <1>6. <<px, py>> \in Pixels(Screen) <=> px \in 0 .. Width - 1 /\ py \in 0 .. Height - 1
    <2>1. <<px, py>> \in Pixels(Screen) <=> px \in 0 .. (0 + Width) - 1 /\ py \in 0 .. (0 + Height) - 1
      BY <1>5, PixelsOf
    <2> QED
      BY <1>4, <2>1
  <1>7. PICK length \in Nat : length = Len(name)
    OBVIOUS
  <1>8. PICK n \in Nat : n = Min({Len(name), width}) /\ n <= Len(name) /\ n <= width
                         /\ n \in {Len(name), width}
    <2>1. Min({length, width}) \in {length, width} /\ Min({length, width}) <= length
          /\ Min({length, width}) <= width
      <3>1. length \in Int /\ width \in Int
        OBVIOUS
      <3> QED
        BY <3>1, SmallerOf
    <2> QED
      BY <1>7, <2>1
  <1>9. PICK part \in Seq(C) : part = SubSeq(name, 1, n) /\ Len(part) = n
                                /\ \A i \in 1 .. n : part[i] = name[i]
    <2>1. \A i \in 1 .. n : name[i] \in C
      BY <1>7, <1>8
    <2>2. /\ SubSeq(name, 1, n) \in Seq(C)
          /\ Len(SubSeq(name, 1, n)) = IF 1 <= n THEN n - 1 + 1 ELSE 0
          /\ \A i \in 1 .. n - 1 + 1 : SubSeq(name, 1, n)[i] = name[1 + i - 1]
      BY <2>1, SubSeqProperties
    <2>3. Len(SubSeq(name, 1, n)) = n /\ \A i \in 1 .. n : SubSeq(name, 1, n)[i] = name[i]
      BY <2>2
    <2> QED
      BY <2>2, <2>3
  <1>10. line = Text(x, y, part, color, Screen)
    BY <1>1, <1>8, <1>9 DEF Truncated, drawn
  <1>11. PICK k \in Int : k = px - x + 1 /\ k = column + 1
    BY <1>2
  <1> DEFINE so == py = y /\ k \in 1 .. n /\ part[k] # Space /\ <<px, py>> \in Pixels(Screen)
  <1>12. Shows(line, paints, px, py, so, <<"text", color, part[k]>>)
    <2>1. TextSeen(line, paints, x, y, part, color, Screen, px, py)
      <3>1. x \in Int /\ y \in Int
        BY <1>4
      <3>2. TextSeen(Text(x, y, part, color, Screen), paints, x, y, part, color, Screen, px, py)
        BY <1>5, <1>9, <3>1, SeenOfText
      <3> QED
        BY <1>10, <3>2
    <2> QED
      BY <1>9, <1>11, <2>1 DEF TextSeen
  <1>13. CASE k \in 1 .. n /\ py = y
    <2>1. <<px, py>> \in Pixels(Screen)
      BY <1>4, <1>6, <1>8, <1>11, <1>13
    <2>2. part[k] = c /\ column \in 0 .. width - 1
      <3>1. column < Len(name) /\ column \in 0 .. width - 1
        BY <1>7, <1>8, <1>11, <1>13
      <3>2. c = name[k]
        BY <1>3, <1>11, <3>1 DEF FitsAt
      <3> QED
        BY <1>9, <1>13, <3>1, <3>2
    <2>3. (so => c = part[k]) /\ (py = y /\ column \in 0 .. width - 1 /\ c # Space <=> so)
      BY <1>13, <2>1, <2>2
    <2> HIDE DEF so
    <2> QED
      BY <1>12, <2>3 DEF Shows
  <1>14. CASE ~(k \in 1 .. n /\ py = y)
    <2>1. ~(py = y /\ column \in 0 .. width - 1 /\ c # Space)
      <3> SUFFICES ASSUME py = y, column \in 0 .. width - 1 PROVE c = Space
        OBVIOUS
      <3>1. ~(column < Len(name))
        BY <1>7, <1>8, <1>11, <1>14
      <3> QED
        BY <1>3, <3>1 DEF FitsAt
    <2>2. (so => c = part[k]) /\ (py = y /\ column \in 0 .. width - 1 /\ c # Space <=> so)
      BY <1>14, <2>1
    <2> HIDE DEF so
    <2> QED
      BY <1>12, <2>2 DEF Shows
  <1> QED
    BY <1>13, <1>14

----------------------------------------------------------------------------
(* Its rows.                                                               *)

\* A Station List with Stations, the characters of its names, and all the colours in it
\* but the thumb's.
IsList(p)     == p \in Pictures /\ p.source = "List" /\ p.names # <<>>
Characters(p) == ToSet(Marquee) \cup UNION {ToSet(name) : name \in ToSet(p.names)}
Paints(p) ==
    {<<"selected">>, <<"logo">>, <<"track">>, <<"dim">>, <<"label", <<"STATIONS">>>>,
     <<"label", <<p.selected + 1, Len(p.names)>>>>}
    \cup {<<"text", color, c>> : color \in {"white", "green"}, c \in Characters(p)}

\* A sequence of some things is one of more.
LEMMA SeqOfMore == ASSUME NEW S, NEW T, S \subseteq T, NEW s \in Seq(S) PROVE s \in Seq(T)
  OBVIOUS

\* What is known of such a list.
LEMMA ListFacts ==
    ASSUME NEW p, IsList(p)
    PROVE  /\ Len(p.names) \in Nat \ {0} /\ p.selected \in 0 .. Len(p.names) - 1 /\ p.moved[3] \in Nat
           /\ Marquee \in Seq(Characters(p))
           /\ \A i \in 1 .. Len(p.names) : p.names[i] \in Seq(Characters(p))
           /\ PaintsTexts(Paints(p), "white", Characters(p))
           /\ PaintsTexts(Paints(p), "green", Characters(p))
  <1>1. /\ p.names \in Seq(ToSet(p.names)) /\ \A name \in ToSet(p.names) : name \in Seq(ToSet(name))
        /\ p.selected \in 0 .. Len(p.names) - 1 /\ p.moved[3] \in Nat
        /\ Marquee \in Seq(ToSet(Marquee))
    BY PictureAssumption, ListAssumption DEF IsList, IsText
  <1>2. PICK names \in Seq(ToSet(p.names)) : names = p.names
    BY <1>1
  <1>3. Len(names) \in Nat /\ Len(names) # 0
    BY <1>2, EmptySeq DEF IsList
  <1>4. Marquee \in Seq(Characters(p))
    <2>1. ToSet(Marquee) \subseteq Characters(p)
      BY DEF Characters
    <2> QED
      BY <1>1, <2>1, SeqOfMore
  <1>5. ASSUME NEW i \in 1 .. Len(p.names) PROVE p.names[i] \in Seq(Characters(p))
    <2>1. names[i] \in ToSet(p.names)
      BY <1>2
    <2>2. PICK name : name = names[i]
      OBVIOUS
    <2>3. name \in Seq(ToSet(name)) /\ name \in ToSet(p.names)
      BY <1>1, <2>1, <2>2
    <2>4. ToSet(name) \subseteq Characters(p)
      BY <2>3 DEF Characters
    <2>5. name \in Seq(Characters(p))
      BY <2>3, <2>4, SeqOfMore
    <2> QED
      BY <1>2, <2>2, <2>5
  <1>6. PaintsTexts(Paints(p), "white", Characters(p)) /\ PaintsTexts(Paints(p), "green", Characters(p))
    BY DEF PaintsTexts, Paints
  <1> QED
    BY <1>1, <1>2, <1>3, <1>4, <1>5, <1>6

\* The layout of a list of so many Stations.
LEMMA ListLayout ==
    ASSUME NEW count \in Nat
    PROVE  /\ Width \in Nat \ {0} /\ Height \in Nat \ {0} /\ RowsTop \in Nat /\ HeaderHeight \in Nat
           /\ HeaderHeight < RowsTop /\ ThumbWidth \in Nat /\ RowTextX \in Nat /\ ThumbWidth < RowTextX
           /\ ScrollbarX \in Nat /\ ScrollbarWidth \in Nat \ {0} /\ ScrollbarX + ScrollbarWidth <= Width
           /\ VisibleRows \in Nat \ {0} /\ RowHeight \in Nat \ {0} /\ TrackHeight \in Nat
           /\ RowsTop + TrackHeight <= Height /\ TextWidth(count) \in Nat \ {0} /\ RowRight(count) \in Nat
           /\ RowTextX + TextWidth(count) <= RowRight(count) /\ RowRight(count) <= Width
           /\ count > VisibleRows => RowRight(count) < ScrollbarX
  <1>1. /\ Width \in Nat \ {0} /\ Height \in Nat \ {0} /\ RowsTop \in Nat /\ HeaderHeight \in Nat
        /\ HeaderHeight < RowsTop /\ ThumbWidth \in Nat /\ RowTextX \in Nat /\ ThumbWidth < RowTextX
        /\ ScrollbarX \in Nat /\ ScrollbarWidth \in Nat \ {0} /\ ScrollbarX + ScrollbarWidth <= Width
        /\ VisibleRows \in Nat \ {0} /\ RowHeight \in Nat \ {0} /\ RowMargin \in Nat
        /\ RowTextX + RowMargin < ScrollbarX - 1
    BY GlassAssumption, LayoutAssumption, ListAssumption
  <1>2. TrackHeight \in Nat /\ RowsTop + TrackHeight <= Height
    BY <1>1, ListAssumption DEF TrackHeight
  <1>3. RowRight(count) \in {Width, ScrollbarX - 1}
        /\ (count > VisibleRows => RowRight(count) = ScrollbarX - 1)
    BY DEF RowRight
  <1>4. TextWidth(count) = RowRight(count) - RowMargin - RowTextX
    BY DEF TextWidth
  <1> QED
    BY <1>1, <1>2, <1>3, <1>4

\* A row's band of the screen.
RowLines(row) == RowTop(row) .. RowTop(row) + RowHeight - 1

\* It is below the header, on the screen, and has the name in it.
LEMMA RowBand ==
    ASSUME NEW row \in 0 .. VisibleRows - 1
    PROVE  /\ RowTop(row) \in Nat /\ RowTop(row) >= RowsTop
           /\ RowTop(row) + RowHeight <= RowsTop + TrackHeight
           /\ TextTop(row) \in RowLines(row) /\ RowTop(row) \in RowLines(row)
  <1>1. RowsTop \in Nat /\ VisibleRows \in Nat /\ RowHeight \in Nat \ {0}
    BY LayoutAssumption
  <1>2. row * RowHeight \in Nat /\ row * RowHeight + RowHeight <= VisibleRows * RowHeight
    <2>1. row \in Nat /\ (row + 1) * RowHeight <= VisibleRows * RowHeight
      BY <1>1, Z3
    <2>2. (row + 1) * RowHeight = row * RowHeight + RowHeight /\ row * RowHeight \in Nat
      BY <1>1, <2>1, Z3
    <2> QED
      BY <2>1, <2>2
  <1>3. VisibleRows * RowHeight \in Nat
    BY <1>1, Z3
  <1>4. (RowHeight - 1) \div 2 \in 0 .. RowHeight - 1
    BY <1>1
  <1> QED
    BY <1>1, <1>2, <1>3, <1>4 DEF RowTop, TextTop, TrackHeight, RowLines

\* No two rows have a line in common.
LEMMA RowsApart ==
    ASSUME NEW row \in 0 .. VisibleRows - 1, NEW other \in 0 .. VisibleRows - 1, NEW y \in RowLines(row),
           y \in RowLines(other)
    PROVE  other = row
  <1>1. RowsTop \in Nat /\ VisibleRows \in Nat /\ RowHeight \in Nat \ {0}
    BY LayoutAssumption
  <1>2. ASSUME NEW a \in Nat, NEW b \in Nat, a < b, y \in RowLines(a), y \in RowLines(b) PROVE FALSE
    <2>1. (a + 1) * RowHeight <= b * RowHeight
      BY <1>1, <1>2, Z3
    <2>2. (a + 1) * RowHeight = a * RowHeight + RowHeight /\ a * RowHeight \in Nat /\ b * RowHeight \in Nat
      BY <1>1, Z3
    <2>3. RowTop(a) = RowsTop + a * RowHeight /\ RowTop(b) = RowsTop + b * RowHeight
      BY DEF RowTop
    <2>4. RowTop(a) \in Nat /\ RowTop(b) \in Nat /\ RowTop(a) + RowHeight <= RowTop(b)
      BY <1>1, <2>1, <2>2, <2>3
    <2> QED
      BY <1>1, <1>2, <2>4 DEF RowLines
  <1>3. row \in Nat /\ other \in Nat
    BY <1>1
  <1>4. ~(row < other) /\ ~(other < row)
    BY <1>2, <1>3
  <1> QED
    BY <1>3, <1>4

\* The name in a row: each character that isn't blank, in its column.
LEMMA SeenOfName ==
    ASSUME NEW p, IsList(p), NEW row \in 0 .. VisibleRows - 1, NEW index \in 0 .. Len(p.names) - 1,
           NEW color \in {"white", "green"}, NEW width, width = TextWidth(Len(p.names)),
           NEW line, line = IF index = p.selected
                            THEN Line(Rect(RowTextX, TextTop(row), width, 1), p.names[index + 1],
                                      color, p.moved[3])
                            ELSE Truncated(RowTextX, TextTop(row), width, p.names[index + 1], color),
           NEW x \in Int, NEW y \in Int
    PROVE  LineSeen(line, Paints(p), RowTextX, TextTop(row), width, color,
                    CharacterAt(p, index, x - RowTextX), x, y)
  <1>1. PICK count \in Nat \ {0} : count = Len(p.names)
    BY ListFacts
  <1>2. PICK name \in Seq(Characters(p)) : name = p.names[index + 1]
    <2>1. index + 1 \in 1 .. Len(p.names)
      BY <1>1
    <2> QED
      BY <2>1, ListFacts
  <1>3. PICK moved \in Nat : moved = p.moved[3]
    BY ListFacts
  <1>4. Marquee \in Seq(Characters(p)) /\ PaintsTexts(Paints(p), color, Characters(p))
    BY ListFacts
  <1>5. /\ RowTextX \in Nat /\ width \in Nat \ {0} /\ RowTextX + width <= Width
        /\ Height \in Nat /\ VisibleRows \in Nat /\ RowHeight \in Nat \ {0}
    <2>1. RowTextX \in Nat /\ TextWidth(count) \in Nat \ {0} /\ RowRight(count) \in Nat /\ Width \in Nat
          /\ RowTextX + TextWidth(count) <= RowRight(count) /\ RowRight(count) <= Width
          /\ Height \in Nat /\ VisibleRows \in Nat /\ RowHeight \in Nat \ {0}
      BY ListLayout
    <2>2. width = TextWidth(count)
      BY <1>1
    <2> QED
      BY <2>1, <2>2
  <1>6. TextTop(row) \in 0 .. Height - 1
    <2>1. /\ RowTop(row) \in Nat /\ RowTop(row) + RowHeight <= RowsTop + TrackHeight
          /\ TextTop(row) \in RowTop(row) .. RowTop(row) + RowHeight - 1
      BY RowBand DEF RowLines
    <2>2. RowsTop \in Nat /\ TrackHeight \in Nat /\ RowsTop + TrackHeight <= Height
      BY <1>1, ListLayout
    <2>3. PICK lineTop \in Nat : lineTop = RowTop(row)
      BY <2>1
    <2>4. PICK textTop : textTop = TextTop(row) /\ textTop \in lineTop .. lineTop + RowHeight - 1
      BY <2>1, <2>3
    <2>5. lineTop + RowHeight <= Height
      BY <1>5, <2>1, <2>2, <2>3
    <2>6. textTop \in 0 .. Height - 1
      BY <1>5, <2>4, <2>5
    <2> QED
      BY <2>4, <2>6
  <1>7. PICK top \in 0 .. Height - 1 : top = TextTop(row)
    BY <1>6
  <1>8. top \in Int /\ RowTextX \in Int
    BY <1>5
  <1>9. CASE index = p.selected
    <2>1. line = Line(Rect(RowTextX, top, width, 1), name, color, moved)
      BY <1>2, <1>3, <1>7, <1>9
    <2>2. CharacterAt(p, index, x - RowTextX) = LineAt(name, moved, width, x - RowTextX)
      BY <1>2, <1>3, <1>9 DEF CharacterAt, LineAt, RunsAt, FitsAt
    <2>3. LineSeen(Line(Rect(RowTextX, top, width, 1), name, color, moved), Paints(p), RowTextX, top,
                   width, color, LineAt(name, moved, width, x - RowTextX), x, y)
      BY <1>4, <1>5, <1>8, SeenOfLine
    <2> QED
      BY <1>7, <2>1, <2>2, <2>3
  <1>10. CASE index # p.selected
    <2>1. line = Truncated(RowTextX, top, width, name, color)
      BY <1>2, <1>7, <1>10
    <2>2. CharacterAt(p, index, x - RowTextX) = FitsAt(name, x - RowTextX)
      BY <1>2, <1>10 DEF CharacterAt, FitsAt
    <2>3. LineSeen(Truncated(RowTextX, top, width, name, color), Paints(p), RowTextX, top,
                   width, color, FitsAt(name, x - RowTextX), x, y)
      BY <1>4, <1>5, SeenOfTruncated
    <2> QED
      BY <1>7, <2>1, <2>2, <2>3
  <1> QED
    BY <1>9, <1>10

\* The colour of a Station's name.
NameColor(p, index) == IF index = p.tuned THEN "white" ELSE "green"

\* What a row shows: nothing outside its lines, the highlight beside its logo, and the name.
RowSeen(strokes, p, row, index, x, y) ==
    /\ x = ThumbWidth /\ y = RowTop(row) =>
           Seen(strokes, x, y) = IF index = p.selected THEN <<"selected">> ELSE Black
    /\ x - RowTextX \in 0 .. TextWidth(Len(p.names)) - 1 /\ y = TextTop(row) =>
           Seen(strokes, x, y) =
               LET character == CharacterAt(p, index, x - RowTextX)
               IN IF character # Space THEN <<"text", NameColor(p, index), character>>
                  ELSE IF index = p.selected THEN <<"selected">> ELSE Black

\* So drawStationList() draws each.
LEMMA SeenOfRow ==
    ASSUME NEW p, IsList(p), NEW top \in Nat, NEW row \in 0 .. VisibleRows - 1,
           NEW index \in 0 .. Len(p.names) - 1, index = top + row,
           NEW x \in Int, NEW y \in Int
    PROVE  /\ DrawRow(p, top, row) \in Seq(Strokes(Paints(p)))
           /\ Covers(DrawRow(p, top, row), x, y) => y \in RowLines(row)
           /\ RowSeen(DrawRow(p, top, row), p, row, index, x, y)
  <1>1. PICK count \in Nat \ {0} : count = Len(p.names)
    BY ListFacts
  <1>2. PICK width \in Nat \ {0} : width = TextWidth(count)
    BY <1>1, ListLayout
  <1>3. PICK right \in Nat : right = RowRight(count) /\ RowTextX + width <= right
    BY <1>1, <1>2, ListLayout
  <1>4. PICK color \in {"white", "green"} : color = NameColor(p, index)
    BY DEF NameColor
  <1>5. PICK column \in Int : column = x - RowTextX
    <2>1. RowTextX \in Nat
      BY <1>1, ListLayout
    <2> QED
      BY <2>1
  <1>6. PICK lineTop \in Int : lineTop = RowTop(row)
    BY RowBand
  <1>7. /\ ThumbWidth \in Nat /\ RowTextX \in Nat /\ ThumbWidth < RowTextX /\ RowHeight \in Nat \ {0}
    BY <1>1, ListLayout
  <1>8. RowLines(row) = lineTop .. lineTop + RowHeight - 1
        /\ TextTop(row) \in RowLines(row)
    BY <1>6, RowBand DEF RowLines
  <1>9. PICK lit : lit = <<Stroke(Rect(0, lineTop, right, RowHeight), <<"selected">>)>>
    OBVIOUS
  <1>10. PICK logo : logo = <<Stroke(Rect(0, lineTop, ThumbWidth, RowHeight), <<"logo">>)>>
    OBVIOUS
  <1>11. PICK line : line = IF index = p.selected
                            THEN Line(Rect(RowTextX, TextTop(row), width, 1), p.names[index + 1],
                                      color, p.moved[3])
                            ELSE Truncated(RowTextX, TextTop(row), width, p.names[index + 1], color)
    OBVIOUS
  <1>12. PICK behind : behind = IF index = p.selected THEN lit ELSE <<>>
    OBVIOUS
  <1>13. DrawRow(p, top, row) = (behind \o logo) \o line
    BY <1>1, <1>2, <1>3, <1>4, <1>6, <1>9, <1>10, <1>11, <1>12 DEF DrawRow, If, NameColor
  <1>14. PICK c : c = CharacterAt(p, index, column)
    OBVIOUS
  <1>15. /\ line \in Seq(Strokes(Paints(p)))
         /\ Covers(line, x, y) <=> y = TextTop(row) /\ column \in 0 .. width - 1 /\ c # Space
         /\ Covers(line, x, y) => Seen(line, x, y) = <<"text", color, c>>
    <2>1. LineSeen(line, Paints(p), RowTextX, TextTop(row), width, color,
                   CharacterAt(p, index, x - RowTextX), x, y)
      BY <1>1, <1>2, <1>11, SeenOfName
    <2> QED
      BY <1>5, <1>14, <2>1 DEF LineSeen, Shows
  <1>16. /\ logo \in Seq(Strokes(Paints(p)))
         /\ Covers(logo, x, y) => x < ThumbWidth /\ y \in RowLines(row)
    <2>1. PICK area : area = Rect(0, lineTop, ThumbWidth, RowHeight)
      OBVIOUS
    <2>2. area \in AnyArea /\ area.x = 0 /\ area.y = lineTop /\ area.width = ThumbWidth
          /\ area.height = RowHeight
      BY <1>7, <2>1 DEF Rect, AnyArea
    <2>3. Covers(logo, x, y) <=> <<x, y>> \in Pixels(area)
      BY <1>10, <2>1, SeenOfOne
    <2>4. <<x, y>> \in Pixels(area) => x < ThumbWidth /\ y \in lineTop .. lineTop + RowHeight - 1
      <3>1. <<x, y>> \in Pixels(area) => x \in 0 .. (0 + ThumbWidth) - 1
                                         /\ y \in lineTop .. (lineTop + RowHeight) - 1
        BY <2>2, PixelsOf
      <3> QED
        BY <1>7, <3>1
    <2>5. logo \in Seq(Strokes(Paints(p)))
      BY <1>10, <2>1, <2>2 DEF Stroke, Strokes, Paints
    <2> QED
      BY <1>8, <2>3, <2>4, <2>5
  <1>17. /\ behind \in Seq(Strokes(Paints(p)))
         /\ Covers(behind, x, y) <=> index = p.selected /\ x \in 0 .. right - 1 /\ y \in RowLines(row)
         /\ Covers(behind, x, y) => Seen(behind, x, y) = <<"selected">>
    <2>1. PICK area : area = Rect(0, lineTop, right, RowHeight)
      OBVIOUS
    <2>2. area \in AnyArea /\ area.x = 0 /\ area.y = lineTop /\ area.width = right
          /\ area.height = RowHeight
      BY <1>7, <2>1 DEF Rect, AnyArea
    <2>3. /\ Covers(lit, x, y) <=> <<x, y>> \in Pixels(area)
          /\ Covers(lit, x, y) => Seen(lit, x, y) = <<"selected">>
      BY <1>9, <2>1, SeenOfOne
    <2>4. <<x, y>> \in Pixels(area) <=> x \in 0 .. right - 1 /\ y \in lineTop .. lineTop + RowHeight - 1
      <3>1. <<x, y>> \in Pixels(area) <=> x \in 0 .. (0 + right) - 1
                                         /\ y \in lineTop .. (lineTop + RowHeight) - 1
        BY <2>2, PixelsOf
      <3> QED
        BY <1>7, <3>1
    <2>5. lit \in Seq(Strokes(Paints(p))) /\ <<>> \in Seq(Strokes(Paints(p)))
      BY <1>9, <2>1, <2>2 DEF Stroke, Strokes, Paints
    <2>6. ~Covers(<<>>, x, y)
      BY NoneCovers
    <2> QED
      BY <1>8, <1>12, <2>3, <2>4, <2>5, <2>6
  <1>18. PICK before : before = behind \o logo
    OBVIOUS
  <1>19. /\ before \in Seq(Strokes(Paints(p)))
         /\ Covers(before, x, y) <=> Covers(behind, x, y) \/ Covers(logo, x, y)
         /\ Seen(before, x, y) = IF Covers(logo, x, y) THEN Seen(logo, x, y) ELSE Seen(behind, x, y)
    BY <1>16, <1>17, <1>18, SeenOfBoth
  <1>20. PICK drawn : drawn = DrawRow(p, top, row)
    OBVIOUS
  <1>21. /\ drawn \in Seq(Strokes(Paints(p)))
         /\ Covers(drawn, x, y) <=> Covers(before, x, y) \/ Covers(line, x, y)
         /\ Seen(drawn, x, y) = IF Covers(line, x, y) THEN Seen(line, x, y) ELSE Seen(before, x, y)
    <2>1. /\ before \o line \in Seq(Strokes(Paints(p)))
          /\ Covers(before \o line, x, y) <=> Covers(before, x, y) \/ Covers(line, x, y)
          /\ Seen(before \o line, x, y) =
                 IF Covers(line, x, y) THEN Seen(line, x, y) ELSE Seen(before, x, y)
      BY <1>15, <1>19, SeenOfBoth
    <2>2. drawn = before \o line
      BY <1>13, <1>18, <1>20
    <2> QED
      BY <2>1, <2>2
  <1>22. Covers(drawn, x, y) => y \in RowLines(row)
    BY <1>8, <1>15, <1>16, <1>17, <1>19, <1>21
  <1>23. ASSUME x = ThumbWidth, y = RowTop(row)
         PROVE  Seen(drawn, x, y) = IF index = p.selected THEN <<"selected">> ELSE Black
    <2>1. ~Covers(line, x, y) /\ ~Covers(logo, x, y)
      BY <1>5, <1>7, <1>15, <1>16, <1>23
    <2>2. x \in 0 .. right - 1 /\ y \in RowLines(row)
      BY <1>3, <1>6, <1>7, <1>8, <1>23
    <2>3. Seen(drawn, x, y) = Seen(behind, x, y)
      BY <1>19, <1>21, <2>1
    <2> QED
      BY <1>17, <2>2, <2>3 DEF Seen
  <1>24. ASSUME column \in 0 .. width - 1, y = TextTop(row)
         PROVE  Seen(drawn, x, y) = IF c # Space THEN <<"text", color, c>>
                                    ELSE IF index = p.selected THEN <<"selected">> ELSE Black
    <2>1. Covers(line, x, y) <=> c # Space
      BY <1>15, <1>24
    <2>2. ~Covers(logo, x, y)
      BY <1>5, <1>7, <1>16, <1>24
    <2>3. x \in 0 .. right - 1 /\ y \in RowLines(row)
      BY <1>3, <1>5, <1>7, <1>8, <1>24
    <2>4. CASE c # Space
      BY <1>15, <1>21, <2>1, <2>4
    <2>5. CASE c = Space
      <3>1. Seen(drawn, x, y) = Seen(behind, x, y)
        BY <1>19, <1>21, <2>1, <2>2, <2>5
      <3> QED
        BY <1>17, <2>3, <2>5, <3>1 DEF Seen
    <2> QED
      BY <2>4, <2>5
  <1> QED
    BY <1>1, <1>2, <1>4, <1>5, <1>14, <1>20, <1>21, <1>22, <1>23, <1>24 DEF RowSeen

----------------------------------------------------------------------------
(* All of it.                                                              *)

\* Its rows, and its header in two.
RowsDrawn(p, top, rows) == FlattenSeq([r \in 1 .. rows |-> DrawRow(p, top, r - 1)])
TitleDrawn    == <<Stroke(Rect(0, 0, 1, 1), <<"label", <<"STATIONS">>>>)>>
HeaderDrawn(p) ==
    <<Stroke(Rect(Width - 1, 0, 1, 1), <<"label", <<p.selected + 1, Len(p.names)>>>>)>>
    \o <<Stroke(Rect(0, HeaderHeight, Width, 1), <<"dim">>)>>

\* Each row has its own lines to itself.
RowsSeen(strokes, p, top, rows, x, y) ==
    \A row \in 0 .. VisibleRows - 1 : y \in RowLines(row) =>
        Seen(strokes, x, y) = IF row < rows THEN Seen(DrawRow(p, top, row), x, y) ELSE Black
\* So they are drawn one below the other.
LEMMA SeenOfRows ==
    ASSUME NEW p, IsList(p), NEW top \in Nat, NEW rows \in 1 .. VisibleRows, top + rows <= Len(p.names),
           NEW x \in Int, NEW y \in Int
    PROVE  /\ RowsDrawn(p, top, rows) \in Seq(Strokes(Paints(p)))
           /\ RowsSeen(RowsDrawn(p, top, rows), p, top, rows, x, y)
  <1>1. PICK count \in Nat \ {0} : count = Len(p.names)
    BY ListFacts
  <1>2. VisibleRows \in Nat
    BY <1>1, ListLayout
  <1> DEFINE A == Strokes(Paints(p))
             drawn == [r \in 1 .. rows |-> DrawRow(p, top, r - 1)]
  <1>3. ASSUME NEW r \in 1 .. rows
        PROVE  /\ DrawRow(p, top, r - 1) \in Seq(A)
               /\ Covers(DrawRow(p, top, r - 1), x, y) => y \in RowLines(r - 1)
    <2>1. PICK row \in 0 .. VisibleRows - 1 : row = r - 1
      BY <1>2
    <2>2. PICK index \in 0 .. Len(p.names) - 1 : index = top + row
      BY <1>1, <2>1
    <2>3. /\ DrawRow(p, top, row) \in Seq(A)
          /\ Covers(DrawRow(p, top, row), x, y) => y \in RowLines(row)
      BY <2>2, SeenOfRow
    <2> QED
      BY <2>1, <2>3
  <1>4. /\ drawn \in Seq(Seq(A)) /\ Len(drawn) = rows
        /\ \A r \in 1 .. rows : drawn[r] = DrawRow(p, top, r - 1)
    <2> HIDE DEF A
    <2>1. drawn \in [1 .. rows -> Seq(A)] /\ rows \in Nat
      BY <1>2, <1>3
    <2> QED
      BY <2>1
  <1> HIDE DEF A, drawn
  <1>5. RowsDrawn(p, top, rows) = FlattenSeq(drawn)
    BY DEF RowsDrawn, drawn
  <1>6. RowsDrawn(p, top, rows) \in Seq(A)
    BY <1>4, <1>5, FlattenSeqOf
  <1>7. ASSUME NEW row \in 0 .. VisibleRows - 1, y \in RowLines(row)
        PROVE  Seen(RowsDrawn(p, top, rows), x, y) =
                   IF row < rows THEN Seen(DrawRow(p, top, row), x, y) ELSE Black
    <2>1. ASSUME NEW r \in 1 .. rows, Covers(drawn[r], x, y) PROVE r - 1 = row
      <3>1. y \in RowLines(r - 1)
        BY <1>3, <1>4, <2>1
      <3>2. PICK other \in 0 .. VisibleRows - 1 : other = r - 1
        BY <1>2
      <3>3. y \in RowLines(other)
        BY <3>1, <3>2
      <3>4. other = row
        BY <1>7, <3>3, RowsApart
      <3> QED
        BY <3>2, <3>4
    <2>2. CASE row < rows
      <3>1. PICK only \in 1 .. rows : only = row + 1
        BY <1>2, <2>2
      <3>2. \A r \in 1 .. rows : Covers(drawn[r], x, y) => r = only
        BY <2>1, <3>1
      <3>3. Seen(FlattenSeq(drawn), x, y) = Seen(drawn[only], x, y)
        BY <1>4, <3>2, SeenOfMany
      <3>4. drawn[only] = DrawRow(p, top, row)
        <4>1. only - 1 = row
          BY <3>1
        <4> QED
          BY <1>4, <4>1
      <3> QED
        BY <1>5, <2>2, <3>3, <3>4
    <2>3. CASE ~(row < rows)
      <3>1. \A r \in 1 .. rows : ~Covers(drawn[r], x, y)
        BY <1>2, <2>1, <2>3
      <3>2. 1 \in 1 .. rows
        BY <1>2
      <3>3. Covers(FlattenSeq(drawn), x, y) <=> Covers(drawn[1], x, y)
        BY <1>4, <3>1, <3>2, SeenOfMany
      <3>4. ~Covers(RowsDrawn(p, top, rows), x, y)
        BY <1>5, <3>1, <3>2, <3>3
      <3> QED
        BY <2>3, <3>4 DEF Seen
    <2> QED
      BY <2>2, <2>3
  <1> QED
    BY <1>6, <1>7 DEF A, RowsSeen

\* The header is above them.
LEMMA SeenOfHeader ==
    ASSUME NEW p, IsList(p), NEW x \in Int, NEW y \in Int
    PROVE  /\ TitleDrawn \in Seq(Strokes(Paints(p))) /\ HeaderDrawn(p) \in Seq(Strokes(Paints(p)))
           /\ y >= RowsTop => ~Covers(TitleDrawn, x, y) /\ ~Covers(HeaderDrawn(p), x, y)
  <1>1. Width \in Nat \ {0} /\ RowsTop \in Nat /\ HeaderHeight \in Nat /\ HeaderHeight < RowsTop
    BY ListFacts, ListLayout
  <1>2. ASSUME NEW left \in Int, NEW top \in Int, NEW width \in Int, top < RowsTop, NEW color \in Paints(p)
        PROVE  /\ <<Stroke(Rect(left, top, width, 1), color)>> \in Seq(Strokes(Paints(p)))
               /\ y >= RowsTop => ~Covers(<<Stroke(Rect(left, top, width, 1), color)>>, x, y)
    <2>1. PICK area : area = Rect(left, top, width, 1)
      OBVIOUS
    <2>2. area \in AnyArea /\ area.y = top /\ area.height = 1
      BY <2>1 DEF Rect, AnyArea
    <2>3. Stroke(area, color) \in Strokes(Paints(p))
      BY <2>2 DEF Stroke, Strokes
    <2>4. ASSUME <<x, y>> \in Pixels(area), y >= RowsTop PROVE FALSE
      <3>1. y \in top .. (top + 1) - 1
        BY <2>2, <2>4, PixelsOf
      <3> QED
        BY <1>1, <1>2, <2>4, <3>1
    <2>5. Covers(<<Stroke(area, color)>>, x, y) => <<x, y>> \in Pixels(area)
      BY SeenOfOne
    <2> QED
      BY <2>1, <2>3, <2>4, <2>5
  <1>3. <<"label", <<"STATIONS">>>> \in Paints(p) /\ <<"dim">> \in Paints(p)
        /\ <<"label", <<p.selected + 1, Len(p.names)>>>> \in Paints(p)
    BY DEF Paints
  <1>4. 0 < RowsTop /\ Width - 1 \in Int /\ Width \in Int /\ HeaderHeight \in Int
    BY <1>1
  <1>5. TitleDrawn \in Seq(Strokes(Paints(p))) /\ (y >= RowsTop => ~Covers(TitleDrawn, x, y))
    BY <1>2, <1>3, <1>4 DEF TitleDrawn
  <1>6. PICK count : count = <<Stroke(Rect(Width - 1, 0, 1, 1), <<"label", <<p.selected + 1, Len(p.names)>>>>)>>
    OBVIOUS
  <1>7. count \in Seq(Strokes(Paints(p))) /\ (y >= RowsTop => ~Covers(count, x, y))
    BY <1>2, <1>3, <1>4, <1>6
  <1>8. PICK dim : dim = <<Stroke(Rect(0, HeaderHeight, Width, 1), <<"dim">>)>>
    OBVIOUS
  <1>9. dim \in Seq(Strokes(Paints(p))) /\ (y >= RowsTop => ~Covers(dim, x, y))
    BY <1>1, <1>2, <1>3, <1>4, <1>8
  <1>10. /\ count \o dim \in Seq(Strokes(Paints(p)))
         /\ Covers(count \o dim, x, y) <=> Covers(count, x, y) \/ Covers(dim, x, y)
    BY <1>7, <1>9, SeenOfBoth
  <1>11. HeaderDrawn(p) = count \o dim
    BY <1>6, <1>8 DEF HeaderDrawn
  <1>12. HeaderDrawn(p) \in Seq(Strokes(Paints(p)))
    BY <1>10, <1>11
  <1>13. y >= RowsTop => ~Covers(HeaderDrawn(p), x, y)
    <2>1. y >= RowsTop => ~Covers(count \o dim, x, y)
      BY <1>7, <1>9, <1>10
    <2> QED
      BY <1>11, <2>1
  <1> QED
    BY <1>5, <1>12, <1>13

\* With the scrollbar's thumb, which has a colour of its own.
AllPaints(p) == Paints(p) \cup {<<"thumb">>}

\* The rest of the list doesn't.
LEMMA NoThumb ==
    ASSUME NEW p, NEW strokes \in Seq(Strokes(Paints(p))), NEW x, NEW y
    PROVE  strokes \in Seq(Strokes(AllPaints(p))) /\ Seen(strokes, x, y) # <<"thumb">>
  <1>1. Strokes(Paints(p)) \subseteq Strokes(AllPaints(p))
    BY DEF Strokes, AllPaints
  <1>2. CASE Covers(strokes, x, y)
    <2>1. PICK last \in 1 .. Len(strokes) : Seen(strokes, x, y) = strokes[last].color
      BY <1>2, LastOver
    <2>2. strokes[last].color \in Paints(p)
      <3>1. strokes[last] \in Strokes(Paints(p))
        OBVIOUS
      <3> QED
        BY <3>1 DEF Strokes
    <2>3. <<"thumb">> \notin Paints(p)
      <3>1. \A paint \in Paints(p) : paint[1] # "thumb"
        BY DEF Paints
      <3> QED
        BY <3>1
    <2> QED
      BY <1>1, <2>1, <2>2, <2>3, SeqOfMore
  <1>3. CASE ~Covers(strokes, x, y)
    BY <1>1, <1>3, PictureAssumption, SeqOfMore DEF Seen
  <1> QED
    BY <1>2, <1>3

\* The scrollbar is over everything else, its thumb over its track.
BarSeen(strokes, under, thumbY, height, x, y) ==
    /\ x < ScrollbarX => Seen(strokes, x, y) = Seen(under, x, y)
    /\ x = ScrollbarX => (Seen(strokes, x, y) = <<"thumb">> <=> y \in thumbY .. thumbY + height - 1)
\* So it is drawn last.
LEMMA SeenOfScrollbar ==
    ASSUME NEW p, IsList(p), NEW count \in Nat, NEW top \in Int, NEW x \in Int, NEW y \in Int,
           NEW thumbY \in Nat, thumbY = ThumbY(count, top),
           NEW height \in Nat \ {0}, height = ThumbHeight(count),
           NEW before \in Seq(Strokes(Paints(p)))
    PROVE  /\ before \o Scrollbar(count, top) \in Seq(Strokes(AllPaints(p)))
           /\ BarSeen(before \o Scrollbar(count, top), before, thumbY, height, x, y)
  <1>1. /\ ScrollbarX \in Nat /\ ScrollbarWidth \in Nat \ {0} /\ RowsTop \in Nat /\ TrackHeight \in Nat
    BY ListLayout
  <1>2. PICK track : track = <<Stroke(Rect(ScrollbarX, RowsTop, ScrollbarWidth, TrackHeight), <<"track">>)>>
    OBVIOUS
  <1>3. PICK thumb : thumb = <<Stroke(Rect(ScrollbarX, thumbY, ScrollbarWidth, height), <<"thumb">>)>>
    OBVIOUS
  <1>4. track \in Seq(Strokes(Paints(p))) /\ (Covers(track, x, y) => x >= ScrollbarX)
    <2>1. PICK area : area = Rect(ScrollbarX, RowsTop, ScrollbarWidth, TrackHeight)
      OBVIOUS
    <2>2. area \in AnyArea /\ area.x = ScrollbarX /\ area.width = ScrollbarWidth
      BY <1>1, <2>1 DEF Rect, AnyArea
    <2>3. track \in Seq(Strokes(Paints(p)))
      BY <1>2, <2>1, <2>2 DEF Stroke, Strokes, Paints
    <2>4. Covers(track, x, y) => <<x, y>> \in Pixels(area)
      BY <1>2, <2>1, SeenOfOne
    <2>5. <<x, y>> \in Pixels(area) => x \in ScrollbarX .. (ScrollbarX + ScrollbarWidth) - 1
      BY <2>2, PixelsOf
    <2> QED
      BY <1>1, <2>3, <2>4, <2>5
  <1> DEFINE B == Strokes(AllPaints(p))
  <1>5. /\ thumb \in Seq(B)
        /\ Covers(thumb, x, y) <=> x \in ScrollbarX .. ScrollbarX + ScrollbarWidth - 1
                                   /\ y \in thumbY .. thumbY + height - 1
        /\ Covers(thumb, x, y) => Seen(thumb, x, y) = <<"thumb">>
    <2>1. PICK area : area = Rect(ScrollbarX, thumbY, ScrollbarWidth, height)
      OBVIOUS
    <2>2. area \in AnyArea /\ area.x = ScrollbarX /\ area.width = ScrollbarWidth
          /\ area.y = thumbY /\ area.height = height
      BY <1>1, <2>1 DEF Rect, AnyArea
    <2>3. thumb \in Seq(B)
      BY <1>3, <2>1, <2>2 DEF Stroke, Strokes, AllPaints
    <2>4. /\ Covers(thumb, x, y) <=> <<x, y>> \in Pixels(area)
          /\ Covers(thumb, x, y) => Seen(thumb, x, y) = <<"thumb">>
      BY <1>3, <2>1, SeenOfOne
    <2>5. <<x, y>> \in Pixels(area) <=> x \in ScrollbarX .. (ScrollbarX + ScrollbarWidth) - 1
                                       /\ y \in thumbY .. (thumbY + height) - 1
      BY <2>2, PixelsOf
    <2> HIDE DEF B
    <2> QED
      BY <1>1, <2>3, <2>4, <2>5
  <1>6. before \in Seq(B) /\ track \in Seq(B)
    BY <1>4, NoThumb
  <1> HIDE DEF B
  <1>7. Scrollbar(count, top) = track \o thumb
    BY <1>2, <1>3 DEF Scrollbar
  <1>8. PICK bar \in Seq(B) :
            /\ bar = track \o thumb
            /\ Covers(bar, x, y) <=> Covers(track, x, y) \/ Covers(thumb, x, y)
            /\ Seen(bar, x, y) = IF Covers(thumb, x, y) THEN Seen(thumb, x, y) ELSE Seen(track, x, y)
    <2>1. /\ track \o thumb \in Seq(B)
          /\ Covers(track \o thumb, x, y) <=> Covers(track, x, y) \/ Covers(thumb, x, y)
          /\ Seen(track \o thumb, x, y) =
                 IF Covers(thumb, x, y) THEN Seen(thumb, x, y) ELSE Seen(track, x, y)
      BY <1>5, <1>6, SeenOfBoth
    <2> QED
      BY <2>1
  <1>9. /\ before \o bar \in Seq(B)
        /\ Seen(before \o bar, x, y) = IF Covers(bar, x, y) THEN Seen(bar, x, y) ELSE Seen(before, x, y)
    BY <1>6, SeenOfBoth
  <1>10. Seen(before, x, y) # <<"thumb">> /\ Seen(track, x, y) # <<"thumb">>
    BY <1>4, NoThumb
  <1>11. x < ScrollbarX => ~Covers(thumb, x, y) /\ ~Covers(track, x, y)
    BY <1>1, <1>4, <1>5
  <1>12. x = ScrollbarX => x \in ScrollbarX .. ScrollbarX + ScrollbarWidth - 1
    BY <1>1
  <1> QED
    BY <1>5, <1>7, <1>8, <1>9, <1>10, <1>11, <1>12 DEF B, BarSeen

\* Where the thumb is, if there is a scrollbar.
ThumbAt(count, top, y, height) ==
    count > VisibleRows => y = ThumbY(count, top) /\ height = ThumbHeight(count)

\* The whole list, below its header: its rows, each in its lines, and the scrollbar if there
\* are more Stations than rows.
ListSeen(p, count, top, rows, thumbY, height, x, y) ==
    /\ y >= RowsTop /\ (x < ScrollbarX \/ count <= VisibleRows) =>
           RowsSeen(DrawStationList(p), p, top, rows, x, y)
    /\ count > VisibleRows /\ x = ScrollbarX =>
           (Seen(DrawStationList(p), x, y) = <<"thumb">> <=> y \in thumbY .. thumbY + height - 1)

\* So drawStationList() draws it.
LEMMA SeenOfList ==
    ASSUME NEW p, IsList(p), NEW x \in Int, NEW y \in Int,
           NEW count \in Nat \ {0}, count = Len(p.names),
           NEW top \in Nat, top = TopRow(count, p.selected),
           NEW rows \in 1 .. VisibleRows, rows = Min({VisibleRows, count - top}), top + rows <= count,
           NEW thumbY \in Nat, NEW height \in Nat \ {0}, ThumbAt(count, top, thumbY, height)
    PROVE  ListSeen(p, count, top, rows, thumbY, height, x, y)
  <1>1. VisibleRows \in Nat
    BY ListLayout
  <1>2. PICK title \in Seq(Strokes(Paints(p))) :
            /\ title = TitleDrawn /\ Seen(title, x, y) # <<"thumb">> /\ title \in Seq(Strokes(AllPaints(p)))
            /\ y >= RowsTop => ~Covers(title, x, y)
    BY SeenOfHeader, NoThumb
  <1>3. PICK header \in Seq(Strokes(Paints(p))) :
            header = HeaderDrawn(p) /\ (y >= RowsTop => ~Covers(header, x, y))
    BY SeenOfHeader
  <1>4. PICK drawn \in Seq(Strokes(Paints(p))) :
            /\ drawn = RowsDrawn(p, top, rows)
            /\ RowsSeen(drawn, p, top, rows, x, y)
    <2>1. top + rows <= Len(p.names)
      OBVIOUS
    <2>2. /\ RowsDrawn(p, top, rows) \in Seq(Strokes(Paints(p)))
          /\ RowsSeen(RowsDrawn(p, top, rows), p, top, rows, x, y)
      BY <2>1, SeenOfRows
    <2> QED
      BY <2>2
  <1>5. PICK before \in Seq(Strokes(Paints(p))) :
            /\ before = header \o drawn /\ before \in Seq(Strokes(AllPaints(p)))
            /\ Seen(before, x, y) = IF Covers(drawn, x, y) THEN Seen(drawn, x, y) ELSE Seen(header, x, y)
    <2>1. header \o drawn \in Seq(Strokes(Paints(p)))
          /\ Seen(header \o drawn, x, y) = IF Covers(drawn, x, y) THEN Seen(drawn, x, y) ELSE Seen(header, x, y)
      BY SeenOfBoth
    <2> QED
      BY <2>1, NoThumb
  <1>6. PICK rest \in Seq(Strokes(AllPaints(p))) :
            rest = before \o If(count > VisibleRows, Scrollbar(count, top))
            /\ (x < ScrollbarX \/ count <= VisibleRows => Seen(rest, x, y) = Seen(before, x, y))
            /\ (count > VisibleRows /\ x = ScrollbarX =>
                    (Seen(rest, x, y) = <<"thumb">> <=> y \in thumbY .. thumbY + height - 1))
    <2>1. CASE count > VisibleRows
      <3>1. If(count > VisibleRows, Scrollbar(count, top)) = Scrollbar(count, top)
        BY <2>1 DEF If
      <3>2. count \in Nat /\ top \in Int /\ thumbY = ThumbY(count, top) /\ height = ThumbHeight(count)
        BY <2>1 DEF ThumbAt
      <3>3. /\ before \o Scrollbar(count, top) \in Seq(Strokes(AllPaints(p)))
            /\ BarSeen(before \o Scrollbar(count, top), before, thumbY, height, x, y)
        BY <3>2, SeenOfScrollbar
      <3>4. ~(count <= VisibleRows)
        BY <1>1, <2>1
      <3> QED
        BY <3>1, <3>4, <3>3 DEF BarSeen
    <2>2. CASE ~(count > VisibleRows)
      <3>1. If(count > VisibleRows, Scrollbar(count, top)) = <<>>
        BY <2>2 DEF If
      <3>2. before \o <<>> = before
        BY ConcatEmptySeq
      <3> QED
        BY <1>5, <2>2, <3>1, <3>2
    <2> QED
      BY <2>1, <2>2
  <1>7. DrawStationList(p) = title \o rest
    BY <1>2, <1>3, <1>4, <1>5, <1>6 DEF DrawStationList, TitleDrawn, HeaderDrawn, RowsDrawn
  <1>8. Seen(title \o rest, x, y) = IF Covers(rest, x, y) THEN Seen(rest, x, y) ELSE Seen(title, x, y)
    BY <1>2, SeenOfBoth
  <1>9. y >= RowsTop => Seen(title \o rest, x, y) = Seen(rest, x, y) /\ Seen(before, x, y) = Seen(drawn, x, y)
    BY <1>2, <1>3, <1>5, <1>8 DEF Seen
  <1>10. Seen(title \o rest, x, y) = <<"thumb">> <=> Seen(rest, x, y) = <<"thumb">>
    <2>1. ~Covers(rest, x, y) => Seen(rest, x, y) = Black
      BY DEF Seen
    <2> QED
      BY <1>2, <1>8, <2>1, PictureAssumption
  <1> QED
    BY <1>4, <1>6, <1>7, <1>9, <1>10 DEF RowsSeen, ListSeen

\* What the window is, and how many rows of it have a Station.
LEMMA WindowOf ==
    ASSUME NEW p, IsList(p), NEW count \in Nat \ {0}, count = Len(p.names)
    PROVE  \E top \in Nat, rows \in 1 .. VisibleRows :
               /\ top = TopRow(count, p.selected)
               /\ rows = Min({VisibleRows, count - top}) /\ rows = Min({VisibleRows, count})
               /\ top + rows <= count /\ p.selected \in top .. top + rows - 1
               /\ count > VisibleRows => rows = VisibleRows /\ top \in 0 .. count - VisibleRows
  <1>1. PICK selected \in 0 .. count - 1 : selected = p.selected
    BY ListFacts
  <1>2. VisibleRows \in Nat \ {0}
    BY ListLayout
  <1>3. PICK top \in 0 .. selected :
            /\ top = TopRow(count, selected) /\ selected < top + VisibleRows
            /\ count > VisibleRows => top + VisibleRows <= count
            /\ count <= VisibleRows => top = 0
    BY WindowHoldsHighlight
  <1>4. Min({VisibleRows, count - top}) = IF VisibleRows <= count - top THEN VisibleRows ELSE count - top
    BY <1>2, <1>3, MinOfTwo
  <1>5. Min({VisibleRows, count}) = IF VisibleRows <= count THEN VisibleRows ELSE count
    BY <1>2, MinOfTwo
  <1>6. PICK rows \in 1 .. VisibleRows :
            rows = Min({VisibleRows, count - top}) /\ rows = Min({VisibleRows, count})
            /\ top + rows <= count /\ selected < top + rows
            /\ (count > VisibleRows => rows = VisibleRows)
    BY <1>1, <1>2, <1>3, <1>4, <1>5
  <1>7. top \in Nat /\ selected \in top .. top + rows - 1
    BY <1>2, <1>3, <1>6
  <1>8. count > VisibleRows => top \in 0 .. count - VisibleRows
    BY <1>2, <1>3
  <1> QED
    BY <1>1, <1>3, <1>6, <1>7, <1>8

\* The thumb's place and size are whole lines.
LEMMA ThumbOf ==
    ASSUME NEW count \in Nat \ {0}, NEW top \in Nat,
           count > VisibleRows => top \in 0 .. count - VisibleRows
    PROVE  \E thumbY \in Nat, height \in Nat \ {0} :
               /\ ThumbAt(count, top, thumbY, height)
               /\ count > VisibleRows =>
                      /\ thumbY >= RowsTop /\ thumbY + height <= RowsTop + TrackHeight
                      /\ top = 0 => thumbY = RowsTop
                      /\ top = count - VisibleRows => thumbY + height = RowsTop + TrackHeight
  <1>1. CASE ~(count > VisibleRows)
    BY <1>1 DEF ThumbAt
  <1> SUFFICES ASSUME count > VisibleRows
               PROVE  \E thumbY \in Nat, height \in Nat \ {0} :
                          /\ thumbY = ThumbY(count, top) /\ height = ThumbHeight(count)
                          /\ thumbY >= RowsTop /\ thumbY + height <= RowsTop + TrackHeight
                          /\ top = 0 => thumbY = RowsTop
                          /\ top = count - VisibleRows => thumbY + height = RowsTop + TrackHeight
    BY <1>1 DEF ThumbAt
  <1>2. /\ VisibleRows \in Nat \ {0} /\ RowHeight \in Nat \ {0} /\ MinThumb \in Nat \ {0} /\ RowsTop \in Nat
    BY LayoutAssumption
  <1>3. TrackHeight \in Nat
    BY <1>2 DEF TrackHeight
  <1> DEFINE share == (TrackHeight * VisibleRows) \div count
  <1>4. share \in Int
    <2>1. TrackHeight * VisibleRows \in Nat
      BY <1>2, <1>3, Z3
    <2> QED
      BY <2>1
  <1>5. ThumbHeight(count) = Max({MinThumb, share})
    BY DEF ThumbHeight
  <1> HIDE DEF share
  <1>6. ThumbHeight(count) \in {MinThumb, share} /\ ThumbHeight(count) >= MinThumb
    BY <1>2, <1>4, <1>5, LargerOf
  <1>7. ThumbHeight(count) \in Nat \ {0}
    BY <1>2, <1>4, <1>6
  <1>8. ThumbY(count, top) \in Int
    <2>1. PICK room \in Int : room = TrackHeight - ThumbHeight(count)
      BY <1>3, <1>7
    <2>2. room * top \in Int /\ count - VisibleRows \in Nat \ {0}
      BY <1>2, <2>1
    <2>3. (room * top) \div (count - VisibleRows) \in Int
      BY <2>2
    <2> QED
      BY <1>2, <2>1, <2>3 DEF ThumbY
  <1>9. ThumbY(count, top) >= RowsTop
    BY ThumbStaysInTrack
  <1>10. /\ ThumbY(count, top) + ThumbHeight(count) <= RowsTop + TrackHeight
         /\ top = 0 => ThumbY(count, top) = RowsTop
         /\ top = count - VisibleRows => ThumbY(count, top) + ThumbHeight(count) = RowsTop + TrackHeight
    BY ThumbStaysInTrack
  <1>11. ThumbY(count, top) \in Nat
    BY <1>2, <1>8, <1>9
  <1> QED
    BY <1>7, <1>9, <1>10, <1>11

\* Drawn, a list can be read.
LEMMA ListIsShown == ASSUME NEW p, IsList(p) PROVE ShowsList(Render(p), p)
  <1>1. PICK count \in Nat \ {0} : count = Len(p.names)
    BY ListFacts
  <1>2. PICK top \in Nat, rows \in 1 .. VisibleRows :
            /\ top = TopRow(count, p.selected)
            /\ rows = Min({VisibleRows, count - top}) /\ rows = Min({VisibleRows, count})
            /\ top + rows <= count /\ p.selected \in top .. top + rows - 1
            /\ count > VisibleRows => rows = VisibleRows /\ top \in 0 .. count - VisibleRows
    BY <1>1, WindowOf
  <1>3. PICK thumbY \in Nat, height \in Nat \ {0} :
            /\ ThumbAt(count, top, thumbY, height)
            /\ count > VisibleRows =>
                   /\ thumbY >= RowsTop /\ thumbY + height <= RowsTop + TrackHeight
                   /\ top = 0 => thumbY = RowsTop
                   /\ top = count - VisibleRows => thumbY + height = RowsTop + TrackHeight
    BY <1>2, ThumbOf
  <1>4. /\ Width \in Nat \ {0} /\ Height \in Nat \ {0} /\ RowsTop \in Nat
        /\ ThumbWidth \in Nat /\ RowTextX \in Nat /\ ThumbWidth < RowTextX
        /\ ScrollbarX \in Nat /\ ScrollbarWidth \in Nat \ {0} /\ ScrollbarX + ScrollbarWidth <= Width
        /\ VisibleRows \in Nat \ {0} /\ RowHeight \in Nat \ {0} /\ TrackHeight \in Nat
        /\ RowsTop + TrackHeight <= Height
    BY <1>1, ListLayout
  <1>5. PICK width \in Nat \ {0} :
            /\ width = TextWidth(count) /\ RowTextX + width <= Width
            /\ count > VisibleRows => RowTextX + width < ScrollbarX
    <2>1. PICK right \in Nat : right = RowRight(count) /\ right <= Width
                               /\ (count > VisibleRows => right < ScrollbarX)
      BY <1>1, ListLayout
    <2>2. TextWidth(count) \in Nat \ {0} /\ RowTextX + TextWidth(count) <= RowRight(count)
      BY <1>1, ListLayout
    <2>3. PICK width \in Nat \ {0} : width = TextWidth(count)
      BY <2>2
    <2> QED
      BY <1>4, <2>1, <2>2, <2>3
  <1>6. ASSUME NEW x \in 0 .. Width - 1, NEW y \in 0 .. Height - 1
        PROVE  ColorAt(Render(p), Width, <<x, y>>) = Seen(DrawStationList(p), x, y)
    <2>1. Render(p) = Frame(DrawStationList(p))
      BY DEF Render, IsList
    <2> QED
      BY <2>1, FramePixel
  <1>7. ASSUME NEW x \in Int, NEW y \in Int
       PROVE  ListSeen(p, count, top, rows, thumbY, height, x, y)
    BY <1>1, <1>2, <1>3, SeenOfList
  <1>8. ASSUME NEW row \in 0 .. VisibleRows - 1, NEW x \in 0 .. Width - 1, NEW y \in Int,
               y \in RowLines(row), x < ScrollbarX \/ count <= VisibleRows
        PROVE  ColorAt(Render(p), Width, <<x, y>>) =
                   IF row < rows THEN Seen(DrawRow(p, top, row), x, y) ELSE Black
    <2>1. PICK lineTop \in Nat : lineTop = RowTop(row) /\ lineTop >= RowsTop
                                 /\ lineTop + RowHeight <= RowsTop + TrackHeight
      BY RowBand
    <2>2. y \in lineTop .. lineTop + RowHeight - 1
      BY <1>8, <2>1 DEF RowLines
    <2>3. y \in 0 .. Height - 1 /\ y >= RowsTop /\ x \in Int
      BY <1>4, <2>1, <2>2
    <2>4. Seen(DrawStationList(p), x, y) = IF row < rows THEN Seen(DrawRow(p, top, row), x, y) ELSE Black
      BY <1>8, <1>7, <2>3 DEF ListSeen, RowsSeen
    <2> QED
      BY <1>6, <2>3, <2>4
  <1>9. PICK chosen \in 0 .. rows - 1 : chosen = p.selected - top
    <2>1. PICK selected \in top .. top + rows - 1 : selected = p.selected
      BY <1>2
    <2>2. selected - top \in 0 .. rows - 1
      BY <1>2, <2>1
    <2> QED
      BY <2>1, <2>2
  <1>10. p.selected = top + chosen /\ p.selected - chosen = top
    <2>1. PICK selected \in top .. top + rows - 1 : selected = p.selected
      BY <1>2
    <2> QED
      BY <1>9, <2>1
  <1>11. ASSUME NEW row \in 0 .. VisibleRows - 1 PROVE Lit(Render(p), row) <=> row = chosen
    <2>1. PICK x \in 0 .. Width - 1 : x = ThumbWidth /\ x < ScrollbarX
      BY <1>4, ListAssumption
    <2>2. PICK y \in Int : y = RowTop(row) /\ y \in RowLines(row)
      BY RowBand
    <2>3. ColorAt(Render(p), Width, <<x, y>>) =
              IF row < rows THEN Seen(DrawRow(p, top, row), x, y) ELSE Black
      BY <1>8, <2>1, <2>2
    <2>4. CASE row < rows
      <3>1. PICK index \in 0 .. Len(p.names) - 1 : index = top + row
        <4>1. top + row \in 0 .. count - 1
          BY <1>2, <2>4
        <4> QED
          BY <1>1, <4>1
      <3>2. RowSeen(DrawRow(p, top, row), p, row, index, x, y)
        <4>1. x \in Int /\ y \in Int
          BY <1>4
        <4> QED
          BY <3>1, <4>1, SeenOfRow
      <3>3. index = top + chosen <=> row = chosen
        BY <1>9, <3>1
      <3>4. ColorAt(Render(p), Width, <<ThumbWidth, RowTop(row)>>) =
                IF row = chosen THEN <<"selected">> ELSE Black
        BY <1>10, <2>1, <2>2, <2>3, <2>4, <3>2, <3>3 DEF RowSeen
      <3> QED
        BY <3>4, PictureAssumption DEF Lit
    <2>5. CASE ~(row < rows)
      <3>1. row # chosen
        BY <1>9, <2>5
      <3>2. ColorAt(Render(p), Width, <<ThumbWidth, RowTop(row)>>) = Black
        BY <2>1, <2>2, <2>3, <2>5
      <3> QED
        BY <3>1, <3>2, PictureAssumption DEF Lit
    <2> QED
      BY <2>4, <2>5
  <1>12. ASSUME NEW row \in 0 .. rows - 1
         PROVE  top + row \in 0 .. count - 1 /\ ShowsStation(Render(p), p, row, top + row)
    <2>1. PICK index \in 0 .. Len(p.names) - 1 : index = top + row
      <3>1. top + row \in 0 .. count - 1
        BY <1>2
      <3> QED
        BY <1>1, <3>1
    <2>2. row \in 0 .. VisibleRows - 1 /\ row < rows
      BY <1>4
    <2>3. PICK y \in Int : y = TextTop(row) /\ y \in RowLines(row)
      BY <2>2, <1>4, RowBand DEF RowLines
    <2>4. ASSUME NEW column \in 0 .. width - 1
          PROVE  ColorAt(Render(p), Width, <<RowTextX + column, TextTop(row)>>) =
                     LET character == CharacterAt(p, index, column)
                     IN IF character # Space THEN <<"text", NameColor(p, index), character>>
                        ELSE IF index = p.selected THEN <<"selected">> ELSE Black
      <3>1. PICK x \in 0 .. Width - 1 : x = RowTextX + column /\ x - RowTextX = column
        BY <1>4, <1>5
      <3>2. x < ScrollbarX \/ count <= VisibleRows
        BY <1>4, <1>5, <3>1
      <3>3. ColorAt(Render(p), Width, <<x, y>>) = Seen(DrawRow(p, top, row), x, y)
        BY <1>8, <2>2, <2>3, <3>2
      <3>4. x - RowTextX \in 0 .. TextWidth(Len(p.names)) - 1
        BY <1>1, <1>5, <3>1
      <3>5. RowSeen(DrawRow(p, top, row), p, row, index, x, y)
        <4>1. x \in Int /\ y \in Int
          BY <1>4
        <4> QED
          BY <2>1, <2>2, <4>1, SeenOfRow
      <3> QED
        BY <2>3, <3>1, <3>3, <3>4, <3>5 DEF RowSeen
    <2>5. ShowsStation(Render(p), p, row, index)
      BY <1>1, <1>5, <2>4 DEF ShowsStation, NameColor
    <2> QED
      BY <1>1, <2>1, <2>5
  <1>13. ASSUME count > VisibleRows
         PROVE  ThumbLines(Render(p)) = thumbY .. thumbY + height - 1
    <2>1. PICK x \in 0 .. Width - 1 : x = ScrollbarX
      BY <1>4
    <2>2. ASSUME NEW y \in 0 .. Height - 1
          PROVE  ColorAt(Render(p), Width, <<x, y>>) = <<"thumb">> <=> y \in thumbY .. thumbY + height - 1
      <3>1. ListSeen(p, count, top, rows, thumbY, height, x, y)
        BY <1>7
      <3>2. ColorAt(Render(p), Width, <<x, y>>) = Seen(DrawStationList(p), x, y)
        BY <1>6
      <3> QED
        BY <1>13, <2>1, <3>1, <3>2 DEF ListSeen
    <2>3. thumbY .. thumbY + height - 1 \subseteq 0 .. Height - 1
      BY <1>3, <1>4, <1>13
    <2> QED
      BY <2>1, <2>2, <2>3 DEF ThumbLines
  <1>14. ASSUME count > VisibleRows
         PROVE  /\ ThumbLines(Render(p)) # {}
                /\ ThumbLines(Render(p)) \subseteq RowsTop .. RowsTop + TrackHeight - 1
                /\ top = 0 => RowsTop \in ThumbLines(Render(p))
                /\ top + VisibleRows = count => RowsTop + TrackHeight - 1 \in ThumbLines(Render(p))
    <2>1. /\ thumbY >= RowsTop /\ thumbY + height <= RowsTop + TrackHeight
          /\ top = 0 => thumbY = RowsTop
          /\ top = count - VisibleRows => thumbY + height = RowsTop + TrackHeight
      BY <1>3, <1>14
    <2>2. PICK lines : lines = thumbY .. thumbY + height - 1 /\ ThumbLines(Render(p)) = lines
      BY <1>13, <1>14
    <2>3. thumbY \in lines /\ lines \subseteq RowsTop .. RowsTop + TrackHeight - 1
      BY <1>4, <2>1, <2>2
    <2>4. top + VisibleRows = count => RowsTop + TrackHeight - 1 \in lines
      BY <1>4, <2>1, <2>2
    <2> QED
      BY <2>1, <2>2, <2>3, <2>4
  <1>15. chosen \in 0 .. VisibleRows - 1
    BY <1>4, <1>9
  <1>16. Min({VisibleRows, count}) = rows
    BY <1>2
  <1> QED
    BY <1>1, <1>10, <1>11, <1>12, <1>14, <1>15, <1>16 DEF ShowsList

\* The glass shows every Station List so that it can be read: the highlighted Station's row
\* is the one highlighted, each row has its Station's name, and the scrollbar's thumb is where
\* the list is (drawStationList() and flush(), and what the panel keeps of it).
THEOREM ListsAreReadable == DisplaysSpec => []ListReadable
  <1>1. TftInv => ListReadable
    <2> SUFFICES ASSUME TftInv, running, picture # Nothing, picture.source = "List", picture.names # <<>>
                 PROVE  ShowsList(Glass(tft), picture)
      BY DEF ListReadable
    <2>1. [picture |-> picture, frame |-> Glass(tft)] \in Drawings
      BY DEF TftInv, GlassIsShown
    <2>2. PICK p \in Pictures : p = picture /\ Render(p) = Glass(tft)
      BY <2>1 DEF Drawings
    <2>3. IsList(p)
      BY <2>2 DEF IsList
    <2> QED
      BY <2>2, <2>3, ListIsShown
  <1> QED
    BY <1>1, TftInductive, PTL

----------------------------------------------------------------------------
(* Scaling.                                                                *)

\* Of two products with the same positive factor.
LEMMA DividedBack == ASSUME NEW a \in Nat, NEW b \in Nat, NEW c \in Nat, c > 0, a * c < b * c PROVE a < b
  BY Z3

\* What a division by a positive number loses.
LEMMA DivisionBounds == ASSUME NEW n \in Nat, NEW d \in Nat, d > 0
                  PROVE /\ n \div d \in Nat /\ (n \div d) * d <= n /\ n < (n \div d + 1) * d
  BY Z3

\* Where an output pixel begins and ends, and the first pixel it covers.
LEMMA SpanBounds ==
  ASSUME NEW size \in Nat, NEW outSize \in Nat, size > 0, outSize > 0, NEW o \in 0 .. outSize - 1
  PROVE  /\ SpanBegin(o, size) \in Nat
         /\ SpanEnd(o, size) \in Nat
         /\ SpanEnd(o, size) = SpanBegin(o, size) + size
         /\ SpanEnd(o, size) <= size * outSize
         /\ SpanFirst(o, size, outSize) \in Nat
         /\ SpanFirst(o, size, outSize) * outSize <= SpanBegin(o, size)
         /\ SpanBegin(o, size) < (SpanFirst(o, size, outSize) + 1) * outSize
  <1>1. o * size \in Nat /\ (o + 1) * size <= outSize * size /\ (o + 1) * size = o * size + size
        /\ outSize * size = size * outSize
    BY Z3
  <1>2. /\ SpanBegin(o, size) \div outSize \in Nat
        /\ (SpanBegin(o, size) \div outSize) * outSize <= SpanBegin(o, size)
        /\ SpanBegin(o, size) < (SpanBegin(o, size) \div outSize + 1) * outSize
    BY <1>1, DivisionBounds DEF SpanBegin
  <1> QED
    BY <1>1, <1>2 DEF SpanBegin, SpanEnd, SpanFirst

\* Scaling a picture to any size, up or down, reads no pixel outside it, misses none,
\* and weighs each that it reads (spans() in src/src/ui/image.cpp).
THEOREM ScalingReadsThePicture ==
  ASSUME NEW size \in Nat, NEW outSize \in Nat, size > 0, outSize > 0
  PROVE  ReadsInside(size, outSize) /\ ReadsAll(size, outSize) /\ CountsEach(size, outSize)
  <1>1. ReadsInside(size, outSize)
    <2> SUFFICES ASSUME NEW o \in 0 .. outSize - 1, NEW s \in SpanPixels(o, size, outSize)
                 PROVE  s \in 0 .. size - 1
      BY DEF ReadsInside
    <2>1. /\ s \in Nat
          /\ s * outSize < SpanEnd(o, size)
          /\ SpanEnd(o, size) \in Nat
          /\ SpanEnd(o, size) <= size * outSize
      BY SpanBounds DEF SpanPixels
    <2>2. s * outSize \in Nat /\ size * outSize \in Nat
      BY <2>1, Z3
    <2>3. s * outSize < size * outSize
      BY <2>1, <2>2
    <2> QED
      BY <2>1, <2>3, DividedBack
  <1>2. ReadsAll(size, outSize)
    <2> SUFFICES ASSUME NEW s \in 0 .. size - 1
                 PROVE  \E o \in 0 .. outSize - 1 : s \in SpanPixels(o, size, outSize)
      BY DEF ReadsAll
    <2> DEFINE o == (s * outSize) \div size
    <2>1. s * outSize \in Nat /\ s * outSize < size * outSize /\ size * outSize = outSize * size
      BY Z3
    <2>2. o \in Nat /\ o * size <= s * outSize /\ s * outSize < (o + 1) * size
      BY <2>1, DivisionBounds
    <2>3. o \in 0 .. outSize - 1
      <3>1. o * size < outSize * size
        BY <2>1, <2>2
      <3> QED
        BY <2>2, <3>1, DividedBack
    <2> HIDE DEF o
    <2>4. (o + 1) * size = o * size + size
      BY <2>2, Z3
    <2>5. s * outSize < SpanEnd(o, size)
      BY <2>2, <2>4 DEF SpanEnd, SpanBegin
    <2>6. SpanFirst(o, size, outSize) <= s
      <3>1. SpanFirst(o, size, outSize) * outSize <= s * outSize
        <4>1. SpanFirst(o, size, outSize) * outSize <= o * size
          BY <2>3, SpanBounds DEF SpanBegin
        <4>2. o * size \in Nat /\ SpanFirst(o, size, outSize) \in Nat
          BY <2>3, SpanBounds DEF SpanBegin
        <4>3. SpanFirst(o, size, outSize) * outSize \in Nat
          BY <4>2, Z3
        <4> QED
          BY <2>1, <2>2, <4>1, <4>2, <4>3
      <3>2. s * outSize < (s + 1) * outSize /\ (s + 1) * outSize \in Nat
        BY Z3
      <3>4. SpanFirst(o, size, outSize) \in Nat
        BY <2>3, SpanBounds
      <3>5. SpanFirst(o, size, outSize) * outSize \in Nat
        BY <3>4, Z3
      <3>3. SpanFirst(o, size, outSize) * outSize < (s + 1) * outSize
        BY <2>1, <3>1, <3>2, <3>5
      <3>6. SpanFirst(o, size, outSize) < s + 1
        BY <3>3, <3>4, DividedBack
      <3> QED
        BY <3>4, <3>6
    <2>7. s <= SpanEnd(o, size)
      <3>1. s <= s * outSize
        BY Z3
      <3>2. SpanEnd(o, size) \in Nat
        BY <2>3, SpanBounds
      <3> QED
        BY <2>1, <2>5, <3>1, <3>2
    <2>8. s \in SpanFirst(o, size, outSize) .. SpanEnd(o, size)
      BY <2>3, <2>6, <2>7, SpanBounds
    <2> QED
      BY <2>3, <2>5, <2>8 DEF SpanPixels
  <1>3. CountsEach(size, outSize)
    <2> SUFFICES ASSUME NEW o \in 0 .. outSize - 1, NEW s \in SpanPixels(o, size, outSize)
                 PROVE  Weight(o, s, size, outSize) \in 1 .. outSize
      BY DEF CountsEach
    <2>1. s \in Nat /\ SpanFirst(o, size, outSize) <= s /\ s * outSize < SpanEnd(o, size)
      BY SpanBounds DEF SpanPixels
    <2>2. /\ s * outSize \in Nat
          /\ (s + 1) * outSize = s * outSize + outSize
      BY <2>1, Z3
    <2>3. SpanBegin(o, size) < (s + 1) * outSize
      <3> DEFINE f == SpanFirst(o, size, outSize)
      <3>1. f \in Nat /\ SpanBegin(o, size) < (f + 1) * outSize /\ f <= s
        BY <2>1, SpanBounds
      <3> HIDE DEF f
      <3>2. (f + 1) * outSize <= (s + 1) * outSize
        BY <2>1, <3>1, Z3
      <3>3. (f + 1) * outSize \in Nat
        BY <3>1, Z3
      <3> QED
        BY <2>2, <3>1, <3>2, <3>3, SpanBounds
    <2>9. SpanBegin(o, size) \in Nat /\ SpanEnd(o, size) \in Nat
      BY SpanBounds
    <2>4. Min({SpanEnd(o, size), (s + 1) * outSize}) =
              IF SpanEnd(o, size) <= (s + 1) * outSize THEN SpanEnd(o, size) ELSE (s + 1) * outSize
      BY <2>2, <2>9, MinOfTwo
    <2>5. Max({SpanBegin(o, size), s * outSize}) =
              IF SpanBegin(o, size) >= s * outSize THEN SpanBegin(o, size) ELSE s * outSize
      BY <2>2, <2>9, MaxOfTwo
    <2> DEFINE b == SpanBegin(o, size)
               e == SpanEnd(o, size)
               lo == s * outSize
               hi == (s + 1) * outSize
    <2>6. b \in Nat /\ e = b + size /\ lo \in Nat /\ hi = lo + outSize /\ lo < e /\ b < hi
      BY <2>1, <2>2, <2>3, SpanBounds
    <2>7. Weight(o, s, size, outSize) = (IF e <= hi THEN e ELSE hi) - (IF b >= lo THEN b ELSE lo)
      BY <2>4, <2>5 DEF Weight
    <2> HIDE DEF b, e, lo, hi
    <2> QED
      BY <2>6, <2>7
  <1> QED
    BY <1>1, <1>2, <1>3

\* How much of an interval's ends is within another.
Clamped(low, high, x) == IF x <= low THEN low ELSE IF x >= high THEN high ELSE x

\* Parts of equal length, cut off at two ends: what is left of some, and those with nothing
\* left.
Cuts(n, unit, low, high, T, f) ==
    /\ 0 <= low /\ low <= high /\ high <= n * unit /\ T \subseteq 0 .. n - 1
    /\ \A i \in T : f[i] = Clamped(low, high, (i + 1) * unit) - Clamped(low, high, i * unit)
    /\ \A i \in (0 .. n - 1) \ T : Clamped(low, high, (i + 1) * unit) = Clamped(low, high, i * unit)

\* They have the length between the ends.
LEMMA CutsAddUp ==
    ASSUME NEW n \in Nat, NEW unit \in Nat, NEW low \in Int, NEW high \in Int, NEW T, NEW f,
           Cuts(n, unit, low, high, T, f)
    PROVE  IsFiniteSet(T) /\ SumFunctionOnSet(f, T) = high - low
  <1> DEFINE c == [i \in 0 .. n |-> Clamped(low, high, i * unit)]
             d == [i \in 0 .. n - 1 |-> c[i + 1] - c[i]]
             rest == (0 .. n - 1) \ T
  <1>0. /\ 0 <= low /\ low <= high /\ high <= n * unit /\ T \subseteq 0 .. n - 1
        /\ \A i \in T : f[i] = Clamped(low, high, (i + 1) * unit) - Clamped(low, high, i * unit)
        /\ \A i \in rest : Clamped(low, high, (i + 1) * unit) = Clamped(low, high, i * unit)
    BY DEF Cuts
  <1>1. \A i \in 0 .. n : c[i] \in Int
    <2>1. \A i \in 0 .. n : i * unit \in Int
      BY Distributes
    <2> QED
      BY <1>0, <2>1 DEF Clamped
  <1>2. c[n] = high /\ c[0] = low
    <2>1. 0 * unit = 0 /\ n * unit \in Int /\ 0 \in 0 .. n /\ n \in 0 .. n
      BY Distributes
    <2>2. Clamped(low, high, 0) = low
      BY <1>0 DEF Clamped
    <2>3. Clamped(low, high, n * unit) = high
      BY <1>0, <2>1 DEF Clamped
    <2> QED
      BY <2>1, <2>2, <2>3
  <1>3. \A i \in 0 .. n - 1 : d[i] = c[i + 1] - c[i]
    OBVIOUS
  <1>4. \A i \in 0 .. n - 1 : /\ c[i + 1] = Clamped(low, high, (i + 1) * unit)
                              /\ c[i] = Clamped(low, high, i * unit)
                              /\ c[i + 1] \in Int /\ c[i] \in Int
    <2>1. \A i \in 0 .. n - 1 : i \in 0 .. n /\ i + 1 \in 0 .. n
      OBVIOUS
    <2> QED
      BY <1>1, <2>1
  <1> HIDE DEF c, d
  <1>5. SumFunctionOnSet(d, 0 .. n - 1) = high - low
    <2>1. SumFunctionOnSet(d, 0 .. n - 1) = c[n] - c[0]
      BY <1>1, <1>3, SumOfDifferences
    <2> QED
      BY <1>2, <2>1
  <1>6. IsFiniteSet(T) /\ IsFiniteSet(rest)
    <2>1. n - 1 \in Int
      OBVIOUS
    <2>2. IsFiniteSet(0 .. n - 1)
      BY <2>1, FS_Interval
    <2>3. rest \subseteq 0 .. n - 1
      OBVIOUS
    <2> QED
      BY <1>0, <2>2, <2>3, FS_Subset
  <1>7. \A i \in 0 .. n - 1 : d[i] \in Int
    BY <1>3, <1>4
  <1>8. SumFunctionOnSet(d, T \cup rest) = SumFunctionOnSet(d, T) + SumFunctionOnSet(d, rest)
    BY <1>0, <1>6, <1>7, SumOfBoth
  <1>9. T \cup rest = 0 .. n - 1
    BY <1>0
  <1>10. SumFunctionOnSet(d, rest) = 0
    <2>1. \A i \in rest : d[i] = 0
      BY <1>0, <1>3, <1>4
    <2> HIDE DEF rest
    <2> QED
      BY <1>6, <2>1, SumOfZeros
  <1>11. SumFunctionOnSet(d, T) = SumFunctionOnSet(f, T)
    <2>1. \A i \in T : d[i] \in Int /\ f[i] = d[i]
      BY <1>0, <1>3, <1>4, <1>7
    <2> QED
      BY <1>6, <2>1, SumOfEqual
  <1>12. SumFunctionOnSet(d, T) \in Int
    BY <1>0, <1>6, <1>7, SumOf
  <1> QED
    <2>1. SumFunctionOnSet(d, T) = high - low
      <3>1. SumFunctionOnSet(d, T \cup rest) = high - low
        BY <1>5, <1>9
      <3> HIDE DEF rest
      <3>2. SumFunctionOnSet(d, T) + 0 = high - low
        BY <1>8, <1>10, <3>1
      <3> QED
        BY <1>12, <3>2
    <2> QED
      BY <1>6, <1>11, <2>1

\* What an output pixel covers of a source pixel, or a source pixel of an output pixel.
LEMMA Covered ==
    ASSUME NEW size \in Nat, NEW outSize \in Nat, size > 0, outSize > 0,
           NEW o \in 0 .. outSize - 1, NEW s \in 0 .. size - 1
    PROVE  /\ s \in SpanPixels(o, size, outSize)
                  => /\ Weight(o, s, size, outSize)
                            = Clamped(o * size, o * size + size, (s + 1) * outSize)
                              - Clamped(o * size, o * size + size, s * outSize)
                     /\ Weight(o, s, size, outSize)
                            = Clamped(s * outSize, s * outSize + outSize, (o + 1) * size)
                              - Clamped(s * outSize, s * outSize + outSize, o * size)
           /\ s \notin SpanPixels(o, size, outSize)
                  => /\ Clamped(o * size, o * size + size, (s + 1) * outSize)
                            = Clamped(o * size, o * size + size, s * outSize)
                     /\ Clamped(s * outSize, s * outSize + outSize, (o + 1) * size)
                            = Clamped(s * outSize, s * outSize + outSize, o * size)
  <1>1. PICK b \in Nat, e \in Nat, lo \in Nat, hi \in Nat :
            /\ b = o * size /\ e = b + size /\ lo = s * outSize /\ hi = lo + outSize
            /\ e = (o + 1) * size /\ hi = (s + 1) * outSize
            /\ SpanBegin(o, size) = b /\ SpanEnd(o, size) = e
    <2>1. o * size \in Nat /\ s * outSize \in Nat /\ (o + 1) * size = o * size + size
          /\ (s + 1) * outSize = s * outSize + outSize
      BY Z3
    <2>2. SpanBegin(o, size) = o * size /\ SpanEnd(o, size) = o * size + size
      BY DEF SpanBegin, SpanEnd
    <2> QED
      BY <2>1, <2>2
  <1>2. s \in SpanPixels(o, size, outSize) <=> lo < e /\ b < hi
    <2>1. PICK first \in Nat : first = SpanFirst(o, size, outSize) /\ first * outSize <= b /\ b < (first + 1) * outSize
      <3>1. /\ SpanFirst(o, size, outSize) \in Nat
            /\ SpanFirst(o, size, outSize) * outSize <= SpanBegin(o, size)
            /\ SpanBegin(o, size) < (SpanFirst(o, size, outSize) + 1) * outSize
        BY SpanBounds
      <3> QED
        BY <1>1, <3>1
    <2>2. first <= s <=> b < hi
      <3>1. ASSUME first <= s PROVE b < hi
        <4>1. (first + 1) * outSize <= (s + 1) * outSize /\ (first + 1) * outSize \in Nat
          BY <2>1, <3>1, Z3
        <4> QED
          BY <1>1, <2>1, <4>1
      <3>2. ASSUME b < hi PROVE first <= s
        <4>1. first * outSize < (s + 1) * outSize
          <5>1. first * outSize \in Nat
            BY <2>1, Z3
          <5> QED
            BY <1>1, <2>1, <3>2, <5>1
        <4>2. first < s + 1
          BY <2>1, <4>1, DividedBack
        <4> QED
          BY <2>1, <4>2
      <3> QED
        BY <3>1, <3>2
    <2>3. s <= lo
      <3>1. s <= s * outSize
        BY Z3
      <3> QED
        BY <1>1, <3>1
    <2>4. s \in SpanPixels(o, size, outSize) <=> s \in first .. e /\ lo < e
      BY <1>1, <2>1 DEF SpanPixels
    <2> QED
      BY <1>1, <2>1, <2>2, <2>3, <2>4
  <1>3. Weight(o, s, size, outSize) = (IF e <= hi THEN e ELSE hi) - (IF b >= lo THEN b ELSE lo)
    <2>1. Min({e, hi}) = IF e <= hi THEN e ELSE hi
      BY MinOfTwo
    <2>2. Max({b, lo}) = IF b >= lo THEN b ELSE lo
      BY MaxOfTwo
    <2> QED
      BY <1>1, <2>1, <2>2 DEF Weight
  <1>4. lo < e /\ b < hi => /\ Weight(o, s, size, outSize) = Clamped(b, e, hi) - Clamped(b, e, lo)
                            /\ Weight(o, s, size, outSize) = Clamped(lo, hi, e) - Clamped(lo, hi, b)
    BY <1>1, <1>3 DEF Clamped
  <1>5. ~(lo < e /\ b < hi) => /\ Clamped(b, e, hi) = Clamped(b, e, lo)
                               /\ Clamped(lo, hi, e) = Clamped(lo, hi, b)
    BY <1>1 DEF Clamped
  <1> QED
    BY <1>1, <1>2, <1>4, <1>5

\* Of each output pixel.
LEMMA TakenBy ==
    ASSUME NEW size \in Nat, NEW outSize \in Nat, size > 0, outSize > 0, NEW o \in 0 .. outSize - 1,
           NEW f, \A s \in SpanPixels(o, size, outSize) : f[s] = Weight(o, s, size, outSize)
    PROVE  /\ IsFiniteSet(SpanPixels(o, size, outSize))
           /\ SumFunctionOnSet(f, SpanPixels(o, size, outSize)) = size
  <1>1. PICK T : T = SpanPixels(o, size, outSize)
    OBVIOUS
  <1>2. T \subseteq 0 .. size - 1
    BY <1>1, ScalingReadsThePicture DEF ReadsInside
  <1>3. PICK b \in Int, e \in Int : b = o * size /\ e = o * size + size /\ 0 <= b /\ b <= e /\ e <= size * outSize
                                    /\ e - b = size
    <2>1. o * size \in Nat
      BY Z3
    <2>2. o * size + size <= size * outSize
      BY SpanBounds DEF SpanEnd, SpanBegin
    <2> QED
      BY <2>1, <2>2
  <1>4. \A s \in T : f[s] = Clamped(b, e, (s + 1) * outSize) - Clamped(b, e, s * outSize)
    BY <1>1, <1>2, <1>3, Covered
  <1>5. \A s \in (0 .. size - 1) \ T : Clamped(b, e, (s + 1) * outSize) = Clamped(b, e, s * outSize)
    BY <1>1, <1>3, Covered
  <1>6. IsFiniteSet(T) /\ SumFunctionOnSet(f, T) = e - b
    <2>1. Cuts(size, outSize, b, e, T, f)
      BY <1>2, <1>3, <1>4, <1>5 DEF Cuts
    <2> QED
      BY <2>1, CutsAddUp
  <1> QED
    BY <1>1, <1>3, <1>6

\* Scaling shares the picture evenly: every output pixel takes as much of it, and all of
\* every source pixel is taken.
THEOREM ScalingSharesEvenly ==
  ASSUME NEW size \in Nat, NEW outSize \in Nat, size > 0, outSize > 0
  PROVE  SharesEvenly(size, outSize)
  <1>1. ASSUME NEW o \in 0 .. outSize - 1
        PROVE  SumFunctionOnSet([s \in SpanPixels(o, size, outSize) |-> Weight(o, s, size, outSize)],
                                SpanPixels(o, size, outSize)) = size
    <2>1. PICK f : f = [s \in SpanPixels(o, size, outSize) |-> Weight(o, s, size, outSize)]
      OBVIOUS
    <2>2. \A s \in SpanPixels(o, size, outSize) : f[s] = Weight(o, s, size, outSize)
      BY <2>1
    <2>3. SumFunctionOnSet(f, SpanPixels(o, size, outSize)) = size
      BY <2>2, TakenBy
    <2> QED
      BY <2>1, <2>3
  <1>2. ASSUME NEW s \in 0 .. size - 1
        PROVE  LET takers == {o \in 0 .. outSize - 1 : s \in SpanPixels(o, size, outSize)}
               IN SumFunctionOnSet([o \in takers |-> Weight(o, s, size, outSize)], takers) = outSize
    <2>1. PICK T, f : /\ T = {o \in 0 .. outSize - 1 : s \in SpanPixels(o, size, outSize)}
                      /\ f = [o \in T |-> Weight(o, s, size, outSize)]
      OBVIOUS
    <2>2. T \subseteq 0 .. outSize - 1 /\ \A o \in T : f[o] = Weight(o, s, size, outSize)
      BY <2>1
    <2>3. PICK lo \in Int, hi \in Int : /\ lo = s * outSize /\ hi = s * outSize + outSize
                                        /\ 0 <= lo /\ lo <= hi /\ hi <= outSize * size /\ hi - lo = outSize
      <3>1. s * outSize \in Nat /\ s * outSize + outSize <= outSize * size
        BY Z3
      <3> QED
        BY <3>1
    <2>4. \A o \in T : f[o] = Clamped(lo, hi, (o + 1) * size) - Clamped(lo, hi, o * size)
      BY <2>1, <2>2, <2>3, Covered
    <2>5. \A o \in (0 .. outSize - 1) \ T : Clamped(lo, hi, (o + 1) * size) = Clamped(lo, hi, o * size)
      BY <2>1, <2>3, Covered
    <2>6. SumFunctionOnSet(f, T) = hi - lo
      <3>1. Cuts(outSize, size, lo, hi, T, f)
        BY <2>2, <2>3, <2>4, <2>5 DEF Cuts
      <3> QED
        BY <3>1, CutsAddUp
    <2> QED
      BY <2>1, <2>3, <2>6
  <1> QED
    BY <1>1, <1>2 DEF SharesEvenly

\* Values between two numbers, weighed,
Weighed(parts, weights, values, low, high, S) ==
    \A p \in S : /\ weights[p] \in Nat /\ values[p] \in low .. high
                 /\ parts[p] = weights[p] * values[p]

\* add up to what the numbers do, or something between.
LEMMA WeighedBetween ==
    ASSUME NEW S, IsFiniteSet(S), NEW weights, NEW values, NEW parts, NEW low \in Int, NEW high \in Int,
           Weighed(parts, weights, values, low, high, S)
    PROVE  /\ SumFunctionOnSet(parts, S) \in Int
           /\ low * SumFunctionOnSet(weights, S) <= SumFunctionOnSet(parts, S)
           /\ SumFunctionOnSet(parts, S) <= high * SumFunctionOnSet(weights, S)
  <1> DEFINE least == [p \in S |-> low * weights[p]]
             most  == [p \in S |-> high * weights[p]]
  <1>1. ASSUME NEW w \in Nat, NEW v \in low .. high
        PROVE  low * w \in Int /\ high * w \in Int /\ w * v \in Int /\ low * w <= w * v /\ w * v <= high * w
    BY Z3
  <1>2. \A p \in S : /\ least[p] \in Int /\ most[p] \in Int /\ parts[p] \in Int
                     /\ least[p] <= parts[p] /\ parts[p] <= most[p]
                     /\ least[p] = low * weights[p] /\ most[p] = high * weights[p]
    BY <1>1 DEF Weighed
  <1> HIDE DEF least, most
  <1>3. /\ SumFunctionOnSet(least, S) = low * SumFunctionOnSet(weights, S)
        /\ SumFunctionOnSet(most, S) = high * SumFunctionOnSet(weights, S)
    <2>1. \A p \in S : weights[p] \in Int
      BY DEF Weighed
    <2> QED
      BY <1>2, <2>1, SumOfMultiples
  <1>4. SumFunctionOnSet(least, S) <= SumFunctionOnSet(parts, S)
    BY <1>2, SumOrdered
  <1>5. SumFunctionOnSet(parts, S) <= SumFunctionOnSet(most, S)
    BY <1>2, SumOrdered
  <1>6. SumFunctionOnSet(parts, S) \in Int
    BY <1>2, SumOf
  <1> QED
    BY <1>3, <1>4, <1>5, <1>6

\* The mean, rounded.
LEMMA MeanBetween ==
    ASSUME NEW sum \in Int, NEW total \in Nat, total > 0, NEW low \in Nat, NEW high \in Nat,
           low * total <= sum, sum <= high * total
    PROVE  (sum + total \div 2) \div total \in low .. high
  <1>1. PICK half \in Nat : half = total \div 2 /\ half < total
    <2>1. total \div 2 \in Nat /\ total \div 2 < total
      OBVIOUS
    <2> QED
      BY <2>1
  <1>2. low * total \in Nat /\ high * total \in Nat /\ (high + 1) * total = high * total + total
    BY Z3
  <1>3. PICK n \in Nat : n = sum + half /\ low * total <= n /\ n < (high + 1) * total
    <2>1. sum + half \in Nat /\ low * total <= sum + half /\ sum + half < (high + 1) * total
      BY <1>1, <1>2
    <2> QED
      BY <2>1
  <1>4. PICK q \in Nat : q = n \div total /\ q * total <= n /\ n < (q + 1) * total
    BY DivisionBounds
  <1>5. low < q + 1
    <2>1. q + 1 \in Nat /\ (q + 1) * total \in Nat
      BY Z3
    <2>2. low * total < (q + 1) * total
      BY <1>2, <1>3, <1>4, <2>1
    <2> QED
      BY <2>1, <2>2, DividedBack
  <1>6. q < high + 1
    <2>1. q * total \in Nat
      BY Z3
    <2>2. q * total < (high + 1) * total
      BY <1>2, <1>3, <1>4, <2>1
    <2> QED
      BY <2>2, DividedBack
  <1> QED
    BY <1>1, <1>3, <1>4, <1>5, <1>6

\* No picture gets darker or brighter by being scaled (resampleRgb888() in
\* src/src/ui/image.cpp), and no colour is more than a byte holds.
THEOREM ScalingKeepsColours ==
  ASSUME NEW width \in Nat, NEW height \in Nat, NEW outWidth \in Nat, NEW outHeight \in Nat,
         width > 0, height > 0, outWidth > 0, outHeight > 0,
         NEW low \in 0 .. 255, NEW high \in 0 .. 255,
         NEW source, \A pixel \in 0 .. width * height - 1 : source[pixel] \in low .. high
  PROVE  StaysBetween(source, width, height, outWidth, outHeight, low, high)
  <1> SUFFICES ASSUME NEW ox \in 0 .. outWidth - 1, NEW oy \in 0 .. outHeight - 1
               PROVE  Resampled(source, width, height, outWidth, outHeight, ox, oy) \in low .. high
    BY DEF StaysBetween
  <1>1. PICK X, Y : X = SpanPixels(ox, width, outWidth) /\ Y = SpanPixels(oy, height, outHeight)
    OBVIOUS
  <1> DEFINE across == [s \in X |-> Weight(ox, s, width, outWidth)]
             down   == [s \in Y |-> Weight(oy, s, height, outHeight)]
             weights == [p \in X \X Y |-> across[p[1]] * down[p[2]]]
             values == [p \in X \X Y |-> source[p[2] * width + p[1]]]
             part == [p \in X \X Y |-> Weight(ox, p[1], width, outWidth) * Weight(oy, p[2], height, outHeight)
                                       * source[p[2] * width + p[1]]]
             total == width * height
             sum == SumFunctionOnSet(part, X \X Y)
  <1>2. X \subseteq 0 .. width - 1 /\ Y \subseteq 0 .. height - 1
    BY <1>1, ScalingReadsThePicture DEF ReadsInside
  <1>3. (\A s \in X : across[s] \in Nat) /\ (\A s \in Y : down[s] \in Nat)
    <2>1. (\A s \in X : Weight(ox, s, width, outWidth) \in 1 .. outWidth)
          /\ (\A s \in Y : Weight(oy, s, height, outHeight) \in 1 .. outHeight)
      BY <1>1, ScalingReadsThePicture DEF CountsEach
    <2> QED
      BY <2>1
  <1>4. IsFiniteSet(X) /\ SumFunctionOnSet(across, X) = width
    <2>1. \A s \in X : across[s] = Weight(ox, s, width, outWidth)
      OBVIOUS
    <2> HIDE DEF across
    <2> QED
      BY <1>1, <2>1, TakenBy
  <1>5. IsFiniteSet(Y) /\ SumFunctionOnSet(down, Y) = height
    <2>1. \A s \in Y : down[s] = Weight(oy, s, height, outHeight)
      OBVIOUS
    <2> HIDE DEF down
    <2> QED
      BY <1>1, <2>1, TakenBy
  <1>6. IsFiniteSet(X \X Y) /\ SumFunctionOnSet(weights, X \X Y) = total
    <2>1. \A x \in X, y \in Y : weights[<<x, y>>] = across[x] * down[y]
      OBVIOUS
    <2>4. (\A x \in X : across[x] \in Int) /\ (\A y \in Y : down[y] \in Int)
      BY <1>3
    <2>2. IsFiniteSet(X \X Y)
      BY <1>4, <1>5, FS_Product
    <2> HIDE DEF across, down, weights
    <2>3. SumFunctionOnSet(weights, X \X Y) = SumFunctionOnSet(across, X) * SumFunctionOnSet(down, Y)
      <3>1. Products(weights, across, down, X, Y)
        BY <2>1, <2>4 DEF Products
      <3> QED
        BY <1>4, <1>5, <3>1, SumOfProducts
    <2> QED
      BY <1>4, <1>5, <2>2, <2>3
  <1>7. \A p \in X \X Y : /\ weights[p] \in Nat /\ values[p] \in low .. high
                          /\ part[p] = weights[p] * values[p]
    <2> SUFFICES ASSUME NEW x \in X, NEW y \in Y
                 PROVE  LET p == <<x, y>> IN /\ weights[p] \in Nat /\ values[p] \in low .. high
                                             /\ part[p] = weights[p] * values[p]
      OBVIOUS
    <2>1. across[x] \in Nat /\ down[y] \in Nat /\ across[x] = Weight(ox, x, width, outWidth)
          /\ down[y] = Weight(oy, y, height, outHeight)
      BY <1>3
    <2>2. weights[<<x, y>>] = across[x] * down[y] /\ values[<<x, y>>] = source[y * width + x]
          /\ part[<<x, y>>] = Weight(ox, x, width, outWidth) * Weight(oy, y, height, outHeight)
                              * source[y * width + x]
      OBVIOUS
    <2> HIDE DEF across, down, weights, values, part
    <2>3. weights[<<x, y>>] \in Nat
      <3>1. \A a, b \in Nat : a * b \in Nat
        BY Z3
      <3> QED
        BY <2>1, <2>2, <3>1
    <2>4. y * width + x \in 0 .. width * height - 1
      <3>1. x \in 0 .. width - 1 /\ y \in 0 .. height - 1
        BY <1>2
      <3>2. y * width \in Nat /\ (y + 1) * width = y * width + width
            /\ (y + 1) * width <= height * width /\ height * width = width * height
        BY <3>1, Z3
      <3> QED
        BY <3>1, <3>2
    <2>5. source[y * width + x] \in low .. high
      BY <2>4
    <2> QED
      BY <2>1, <2>2, <2>3, <2>5
  <1>8. sum \in Int /\ low * total <= sum /\ sum <= high * total
    <2> HIDE DEF weights, values, part, total
    <2>1. /\ SumFunctionOnSet(part, X \X Y) \in Int
          /\ low * SumFunctionOnSet(weights, X \X Y) <= SumFunctionOnSet(part, X \X Y)
          /\ SumFunctionOnSet(part, X \X Y) <= high * SumFunctionOnSet(weights, X \X Y)
      <3>1. Weighed(part, weights, values, low, high, X \X Y)
        BY <1>7 DEF Weighed
      <3>2. IsFiniteSet(X \X Y) /\ low \in Int /\ high \in Int
        BY <1>6
      <3> QED
        BY <3>1, <3>2, WeighedBetween
    <2> QED
      BY <1>6, <2>1
  <1>9. Resampled(source, width, height, outWidth, outHeight, ox, oy)
            = ((sum + total \div 2) \div total) % 256
    BY <1>1 DEF Resampled
  <1>10. total \in Nat /\ total > 0
    BY Z3
  <1> HIDE DEF sum, total
  <1>11. (sum + total \div 2) \div total \in low .. high
    BY <1>8, <1>10, MeanBetween
  <1>12. \A q \in low .. high : q % 256 = q
    OBVIOUS
  <1> QED
    BY <1>9, <1>11, <1>12

\* The square cut out of a cover (decodeCover() in src/src/adapters/cover_art.cpp) is inside
\* it, as large as it can be, and in its middle.
THEOREM SquareIsInTheMiddle ==
  ASSUME NEW width \in Nat, NEW height \in Nat, width > 0, height > 0
  PROVE  CutsTheMiddle(width, height)
  <1>1. PICK side \in Nat : side = Side(width, height) /\ side > 0 /\ side <= width /\ side <= height
    BY MinOfTwo DEF Side
  <1>2. ASSUME NEW extent \in Nat, side <= extent
        PROVE  LET kept == Kept(extent, side)
                   first == Min(kept)
                   after == extent - 1 - Max(kept)
               IN Cardinality(kept) = side /\ first >= 0 /\ after - first \in {0, 1}
    <2>1. PICK first \in Nat : first = (extent - side) \div 2 /\ extent - side - 2 * first \in {0, 1}
      <3>1. (extent - side) \div 2 \in Nat /\ extent - side - 2 * ((extent - side) \div 2) \in {0, 1}
        BY <1>2
      <3> QED
        BY <3>1
    <2>2. PICK last \in Nat : last = first + side - 1
      BY <1>1
    <2>3. PICK kept : kept = Kept(extent, side) /\ kept = first .. last
      BY <2>1, <2>2 DEF Kept
    <2>4. kept \subseteq 0 .. last /\ first \in kept /\ last \in kept
      BY <1>1, <2>2, <2>3
    <2>5. Min(kept) = first
      <3>1. Min(kept) \in kept /\ \A n \in kept : Min(kept) <= n
        <4>1. kept \subseteq Nat /\ kept # {}
          BY <2>4
        <4> QED
          BY <4>1, MinOf
      <3> QED
        BY <2>3, <2>4, <3>1
    <2>6. Max(kept) = last
      <3>1. Max(kept) \in kept /\ \A n \in kept : n <= Max(kept)
        BY <2>4, MaxOf
      <3> QED
        BY <2>3, <2>4, <3>1
    <2>7. Cardinality(first .. last) = last - first + 1
      BY <1>1, <2>2, FS_Interval
    <2>8. extent - 1 - last - first \in {0, 1}
      BY <1>1, <2>1, <2>2
    <2> QED
      BY <1>1, <2>2, <2>3, <2>5, <2>6, <2>7, <2>8
  <1>3. ASSUME NEW kept \in {<<Kept(width, side), width>>, <<Kept(height, side), height>>}
        PROVE  LET first == Min(kept[1])
                   after == kept[2] - 1 - Max(kept[1])
               IN Cardinality(kept[1]) = side /\ first >= 0 /\ after - first \in {0, 1}
    BY <1>1, <1>2
  <1> QED
    BY <1>1, <1>3 DEF CutsTheMiddle, Square

----------------------------------------------------------------------------
(* Texts.                                                                  *)

\* No character is longer than four bytes.
LEMMA LengthType == ASSUME NEW lead \in Bytes PROVE Length(lead) \in 0 .. 4
  BY DEF Bytes, Length

\* Decoding any bytes goes on by a byte at least, so it comes to an end, and never looks
\* past it (decodeUtf8() in src/src/ui/font5x7.cpp).
THEOREM DecoderStaysInText == ASSUME NEW bytes \in Seq(Bytes) PROVE StaysInText(bytes)
  <1> SUFFICES ASSUME NEW i \in 1 .. Len(bytes) PROVE Taken(bytes, i) \in 1 .. Len(bytes) - i + 1
    BY DEF StaysInText
  <1>1. Length(bytes[i]) \in 0 .. 4
    BY LengthType
  <1>2. CASE Valid(bytes, i)
    BY <1>1, <1>2 DEF Valid, Taken
  <1>3. CASE ~Valid(bytes, i)
    BY <1>3 DEF Taken
  <1> QED
    BY <1>2, <1>3

\* Bytes that are no character are taken as they would be alone, if what follows begins with
\* a character: decodeUtf8() never takes part of it along with them.
LEMMA DamageEndsAtCharacters ==
  ASSUME NEW damage \in Seq(Bytes), NEW rest \in Seq(Bytes), rest # <<>>, ~Continues(rest[1]),
         NEW i \in 1 .. Len(damage)
  PROVE  /\ Valid(damage \o rest, i) <=> Valid(damage, i)
         /\ Taken(damage \o rest, i) = Taken(damage, i)
  <1> DEFINE bytes == damage \o rest
             n     == Length(damage[i])
  <1>1. /\ bytes \in Seq(Bytes) /\ Len(bytes) = Len(damage) + Len(rest)
        /\ \A k \in 1 .. Len(damage) : bytes[k] = damage[k]
        /\ bytes[Len(damage) + 1] = rest[1]
        /\ Len(rest) > 0
    OBVIOUS
  <1>2. n \in 0 .. 4 /\ bytes[i] = damage[i]
    BY <1>1, LengthType
  <1> HIDE DEF bytes
  <1>3. ASSUME Valid(damage, i) PROVE Valid(bytes, i)
    <2>1. n > 0 /\ i + n - 1 <= Len(damage) /\ \A k \in 1 .. n - 1 : Continues(damage[i + k])
      BY <1>3 DEF Valid
    <2>2. \A k \in 1 .. n - 1 : bytes[i + k] = damage[i + k]
      <3> SUFFICES ASSUME NEW k \in 1 .. n - 1 PROVE i + k \in 1 .. Len(damage)
        BY <1>1
      <3> HIDE DEF n
      <3> QED
        BY <1>2, <2>1
    <2>3. Len(damage) \in Nat /\ Len(rest) \in Nat
      OBVIOUS
    <2> QED
      BY <1>1, <1>2, <2>1, <2>2, <2>3 DEF Valid
  <1>4. ASSUME Valid(bytes, i) PROVE Valid(damage, i)
    <2>1. n > 0 /\ i + n - 1 <= Len(bytes) /\ \A k \in 1 .. n - 1 : Continues(bytes[i + k])
      BY <1>2, <1>4 DEF Valid
    <2>2. i + n - 1 <= Len(damage)
      <3> SUFFICES ASSUME Len(damage) + 1 <= i + n - 1 PROVE FALSE
        BY <1>2
      <3> DEFINE k == Len(damage) + 1 - i
      <3>1. k \in 1 .. n - 1 /\ i + k = Len(damage) + 1
        BY <1>2
      <3>2. Continues(bytes[Len(damage) + 1])
        BY <2>1, <3>1
      <3> QED
        BY <1>1, <3>2
    <2>3. \A k \in 1 .. n - 1 : bytes[i + k] = damage[i + k]
      <3> SUFFICES ASSUME NEW k \in 1 .. n - 1 PROVE i + k \in 1 .. Len(damage)
        BY <1>1
      <3> HIDE DEF n
      <3> QED
        BY <1>2, <2>2
    <2> QED
      BY <2>1, <2>2, <2>3 DEF Valid
  <1>5. Valid(bytes, i) <=> Valid(damage, i)
    BY <1>3, <1>4
  <1> QED
    BY <1>2, <1>5 DEF Taken, bytes

\* The six bits that a byte adds.
Adding(value, byte) == value * 64 + (byte % 64)

\* What up to three bytes add to a payload.
LEMMA JoinedOf ==
    ASSUME NEW payload \in Int, NEW n \in 0 .. 3, NEW following \in Seq(Int), Len(following) = n
    PROVE  /\ n = 0 => Joined(payload, following) = payload
           /\ n = 1 => Joined(payload, following) = Adding(payload, following[1])
           /\ n = 2 => Joined(payload, following) = Adding(Adding(payload, following[1]), following[2])
           /\ n = 3 => Joined(payload, following)
                           = Adding(Adding(Adding(payload, following[1]), following[2]), following[3])
  <1> DEFINE D == DOMAIN following
             iter[s \in SUBSET D] == IF s = {} THEN payload
                                     ELSE iter[s \ {Max(s)}] * 64 + (following[Max(s)] % 64)
             One(s) == IF 1 \in s THEN Adding(payload, following[1]) ELSE payload
             Two(s) == IF 2 \in s THEN Adding(One(s), following[2]) ELSE One(s)
             All(s) == IF 3 \in s THEN Adding(Two(s), following[3]) ELSE Two(s)
             g == [s \in SUBSET D |-> All(s)]
  <1>1. Joined(payload, following) = iter[D]
    BY DEF Joined, FoldLeft, MapThenFoldSet
  <1>2. D = 1 .. n
    OBVIOUS
  <1>3. ASSUME NEW s \in SUBSET D, s # {}
        PROVE  Max(s) \in {1, 2, 3} /\ Max(s) \in s /\ \A i \in s : i <= Max(s)
    <2>1. s \subseteq 0 .. 3
      BY <1>2
    <2>2. Max(s) \in s /\ \A i \in s : i <= Max(s)
      BY <1>3, <2>1, MaxOf
    <2> QED
      BY <1>2, <2>2
  <1>4. ASSUME NEW s \in SUBSET D PROVE All(s) = IF s = {} THEN payload ELSE Adding(All(s \ {Max(s)}), following[Max(s)])
    <2>1. CASE s = {}
      BY <2>1
    <2>2. CASE s # {} /\ Max(s) = 1
      <3>1. 1 \in s /\ 2 \notin s /\ 3 \notin s
        BY <1>3, <2>2
      <3> QED
        BY <2>2, <3>1
    <2>3. CASE s # {} /\ Max(s) = 2
      <3>1. 2 \in s /\ 3 \notin s
        BY <1>3, <2>3
      <3> QED
        BY <2>3, <3>1
    <2>4. CASE s # {} /\ Max(s) = 3
      <3>1. 3 \in s
        BY <1>3, <2>4
      <3> QED
        BY <2>4, <3>1
    <2> QED
      BY <1>3, <2>1, <2>2, <2>3, <2>4
  <1>5. g = [s \in SUBSET D |-> IF s = {} THEN payload ELSE g[s \ {Max(s)}] * 64 + (following[Max(s)] % 64)]
    <2>1. \A s \in SUBSET D : g[s] = All(s) /\ g[s \ {Max(s)}] = All(s \ {Max(s)})
      OBVIOUS
    <2> HIDE DEF All
    <2>2. \A s \in SUBSET D : All(s) = IF s = {} THEN payload ELSE g[s \ {Max(s)}] * 64 + (following[Max(s)] % 64)
      BY <1>4, <2>1 DEF Adding
    <2> HIDE DEF D
    <2> QED
      BY <2>1, <2>2
  <1>6. iter = [s \in SUBSET D |-> IF s = {} THEN payload ELSE iter[s \ {Max(s)}] * 64 + (following[Max(s)] % 64)]
    <2> HIDE DEF g
    <2> QED
      BY <1>5
  <1> HIDE DEF iter
  <1>7. /\ iter[{}] = payload
        /\ \A s \in SUBSET D : s # {} => iter[s] = Adding(iter[s \ {Max(s)}], following[Max(s)])
    BY <1>6 DEF Adding
  <1>8. ASSUME NEW k \in 1 .. n PROVE iter[1 .. k] = Adding(iter[1 .. k - 1], following[k])
    <2>1. PICK s \in SUBSET D : s = 1 .. k
      BY <1>2
    <2>2. k \in s /\ s # {} /\ s \ {k} = 1 .. k - 1
      <3>1. k \in s
        BY <2>1
      <3>2. \A i : i \in 1 .. k /\ i # k <=> i \in 1 .. k - 1
        OBVIOUS
      <3>3. s \ {k} = 1 .. k - 1
        BY <2>1, <3>2
      <3>4. s # {}
        BY <3>1
      <3> QED
        BY <3>1, <3>3, <3>4
    <2>3. Max(s) = k
      <3>1. Max(s) \in {1, 2, 3} /\ Max(s) \in s /\ \A i \in s : i <= Max(s)
        BY <1>3, <2>2
      <3> QED
        BY <2>1, <2>2, <3>1
    <2> QED
      BY <1>7, <2>1, <2>2, <2>3
  <1>9. 1 .. 0 = {}
    OBVIOUS
  <1>10. /\ n >= 1 => iter[1 .. 1] = Adding(payload, following[1])
         /\ n >= 2 => iter[1 .. 2] = Adding(Adding(payload, following[1]), following[2])
         /\ n >= 3 => iter[1 .. 3] = Adding(Adding(Adding(payload, following[1]), following[2]), following[3])
    <2>1. n >= 1 => iter[1 .. 1] = Adding(iter[1 .. 0], following[1])
      <3>1. n >= 1 => 1 \in 1 .. n /\ 1 - 1 = 0
        OBVIOUS
      <3> HIDE DEF D, g
      <3> QED
        BY <1>8, <3>1
    <2>2. n >= 2 => iter[1 .. 2] = Adding(iter[1 .. 1], following[2])
      <3>1. n >= 2 => 2 \in 1 .. n /\ 2 - 1 = 1
        OBVIOUS
      <3> HIDE DEF D, g
      <3> QED
        BY <1>8, <3>1
    <2>3. n >= 3 => iter[1 .. 3] = Adding(iter[1 .. 2], following[3])
      <3>1. n >= 3 => 3 \in 1 .. n /\ 3 - 1 = 2
        OBVIOUS
      <3> HIDE DEF D, g
      <3> QED
        BY <1>8, <3>1
    <2> QED
      BY <1>7, <1>9, <2>1, <2>2, <2>3
  <1>11. n = 0 => iter[D] = payload
    BY <1>2, <1>7, <1>9
  <1>12. n = 0 \/ n = 1 \/ n = 2 \/ n = 3
    OBVIOUS
  <1> HIDE DEF D, g
  <1> QED
    <2>1. n = 0 => Joined(payload, following) = payload
      BY <1>1, <1>11
    <2>2. n = 1 => Joined(payload, following) = iter[1 .. 1]
      BY <1>1, <1>2
    <2>3. n = 2 => Joined(payload, following) = iter[1 .. 2]
      BY <1>1, <1>2
    <2>4. n = 3 => Joined(payload, following) = iter[1 .. 3]
      BY <1>1, <1>2
    <2> HIDE DEF iter
    <2>5. n = 1 => n >= 1
      OBVIOUS
    <2>6. n = 2 => n >= 2
      OBVIOUS
    <2>7. n = 3 => n >= 3
      OBVIOUS
    <2> QED
      BY <1>10, <2>1, <2>2, <2>3, <2>4, <2>5, <2>6, <2>7

\* Induction from the end of a text.
LEMMA InductionDown ==
    ASSUME NEW n \in Nat, NEW S, \A i \in 1 .. n + 1 : (\A j \in i + 1 .. n + 1 : j \in S) => i \in S
    PROVE  \A i \in 1 .. n + 1 : i \in S
  <1> DEFINE K == {k \in 0 .. n : \A j \in n + 1 - k .. n + 1 : j \in S}
  <1>1. 0 \in K
    <2>1. \A j \in n + 1 - 0 .. n + 1 : j = n + 1
      OBVIOUS
    <2>2. n + 1 \in S
      BY \A j \in n + 1 + 1 .. n + 1 : j \in S
    <2> QED
      BY <2>1, <2>2
  <1>2. ASSUME NEW k \in 0 .. n - 1, k \in K PROVE k + 1 \in K
    <2>1. PICK i \in 1 .. n + 1 : i = n + 1 - (k + 1)
      OBVIOUS
    <2>2. \A j \in i + 1 .. n + 1 : j \in S
      BY <1>2, <2>1
    <2>3. i \in S
      BY <2>2
    <2>4. \A j \in n + 1 - (k + 1) .. n + 1 : j = i \/ j \in i + 1 .. n + 1
      BY <2>1
    <2> QED
      BY <2>2, <2>3, <2>4
  <1>3. \A k \in 0 .. n : k \in K
    <2> HIDE DEF K
    <2> QED
      BY <1>1, <1>2, InductionUpTo
  <1> QED
    <2>1. n \in K
      BY <1>3
    <2> QED
      BY <2>1

\* Some bytes of a text.
LEMMA PartOf ==
    ASSUME NEW bytes \in Seq(Bytes), NEW first \in Int, NEW last \in Int,
           1 <= first, first - 1 <= last, last <= Len(bytes)
    PROVE  /\ SubSeq(bytes, first, last) \in Seq(Bytes)
           /\ Len(SubSeq(bytes, first, last)) = last - first + 1
           /\ \A k \in 1 .. last - first + 1 : SubSeq(bytes, first, last)[k] = bytes[first + k - 1]
  <1>1. PICK n \in Nat : n = Len(bytes) /\ \A k \in 1 .. n : bytes[k] \in Bytes
    OBVIOUS
  <1>2. \A k \in first .. last : bytes[k] \in Bytes
    BY <1>1
  <1>3. /\ SubSeq(bytes, first, last) \in Seq(Bytes)
        /\ Len(SubSeq(bytes, first, last)) = IF first <= last THEN last - first + 1 ELSE 0
        /\ \A k \in 1 .. last - first + 1 : SubSeq(bytes, first, last)[k] = bytes[first + k - 1]
    BY <1>2, SubSeqProperties
  <1>4. (IF first <= last THEN last - first + 1 ELSE 0) = last - first + 1
    OBVIOUS
  <1> QED
    BY <1>3, <1>4

\* The character that decodeUtf8() makes of what is at a place.
Symbol(bytes, i) == IF Valid(bytes, i) THEN CodePoint(bytes, i) ELSE Replaced

\* It is a number, whatever the bytes.
LEMMA PayloadType == ASSUME NEW lead \in Bytes PROVE Payload(lead) \in Int
  <1>1. lead \in Int /\ lead % 32 \in Int /\ lead % 16 \in Int /\ lead % 8 \in Int
    BY DEF Bytes
  <1>2. CASE Length(lead) = 2
    <2>1. Payload(lead) = lead % 32
      BY <1>2 DEF Payload
    <2> QED
      BY <1>1, <2>1
  <1>3. CASE Length(lead) = 3
    <2>1. Payload(lead) = lead % 16
      BY <1>3 DEF Payload
    <2> QED
      BY <1>1, <2>1
  <1>4. CASE Length(lead) = 4
    <2>1. Payload(lead) = lead % 8
      BY <1>4 DEF Payload
    <2> QED
      BY <1>1, <2>1
  <1>5. CASE Length(lead) # 2 /\ Length(lead) # 3 /\ Length(lead) # 4
    <2>1. Payload(lead) = lead
      BY <1>5 DEF Payload
    <2> QED
      BY <1>1, <2>1
  <1> QED
    BY <1>2, <1>3, <1>4, <1>5

\* As is the character.
LEMMA SymbolType ==
    ASSUME NEW bytes \in Seq(Bytes), NEW i \in 1 .. Len(bytes)
    PROVE  Symbol(bytes, i) \in Int
  <1>1. CASE Valid(bytes, i)
    <2>1. PICK n \in 1 .. 4 : n = Length(bytes[i]) /\ i + n - 1 <= Len(bytes)
      BY <1>1, LengthType DEF Valid
    <2>2. PICK following : following = SubSeq(bytes, i + 1, i + n - 1)
      OBVIOUS
    <2>3. following \in Seq(Int) /\ Len(following) = n - 1
      <3>1. following \in Seq(Bytes) /\ Len(following) = n - 1
        <4>1. PICK first \in Int, last \in Int : first = i + 1 /\ last = i + n - 1
          OBVIOUS
        <4>2. 1 <= first /\ first - 1 <= last /\ last <= Len(bytes) /\ last - first + 1 = n - 1
          BY <2>1, <4>1
        <4>3. following = SubSeq(bytes, first, last)
          BY <2>2, <4>1
        <4> QED
          BY <4>2, <4>3, PartOf
      <3>2. \A k \in 1 .. Len(following) : following[k] \in Int
        <4>1. \A k \in 1 .. Len(following) : following[k] \in Bytes
          BY <3>1
        <4>2. Bytes \subseteq Int
          BY DEF Bytes
        <4> QED
          BY <4>1, <4>2
      <3> QED
        BY <3>1, <3>2
    <2>4. PICK payload \in Int : payload = Payload(bytes[i])
      <3>1. bytes[i] \in Bytes
        OBVIOUS
      <3> QED
        BY <3>1, PayloadType
    <2>5. PICK m \in 0 .. 3 : m = n - 1
      OBVIOUS
    <2>6. \A value \in Int, k \in 1 .. Len(following) : Adding(value, following[k]) \in Int
      BY <2>3 DEF Adding
    <2>7. Joined(payload, following) \in Int
      <3>1. /\ m = 0 => Joined(payload, following) = payload
            /\ m = 1 => Joined(payload, following) = Adding(payload, following[1])
            /\ m = 2 => Joined(payload, following) = Adding(Adding(payload, following[1]), following[2])
            /\ m = 3 => Joined(payload, following)
                            = Adding(Adding(Adding(payload, following[1]), following[2]), following[3])
        BY <2>3, <2>5, JoinedOf
      <3>2. m >= 1 => Adding(payload, following[1]) \in Int
        BY <2>3, <2>5, <2>6
      <3>3. m >= 2 => Adding(Adding(payload, following[1]), following[2]) \in Int
        BY <2>3, <2>5, <2>6, <3>2
      <3>4. m >= 3 => Adding(Adding(Adding(payload, following[1]), following[2]), following[3]) \in Int
        BY <2>3, <2>5, <2>6, <3>3
      <3>5. m = 0 \/ m = 1 \/ m = 2 \/ m = 3
        OBVIOUS
      <3> QED
        BY <3>1, <3>2, <3>3, <3>4, <3>5
    <2> QED
      BY <1>1, <2>1, <2>2, <2>4, <2>7 DEF Symbol, CodePoint
  <1>2. CASE ~Valid(bytes, i)
    BY <1>2 DEF Symbol, Replaced
  <1> QED
    BY <1>1, <1>2

\* What is decoded from each place on.
Decodes(r, bytes) ==
    /\ r \in [1 .. Len(bytes) + 1 -> Seq(Int)] /\ r[Len(bytes) + 1] = <<>>
    /\ \A i \in 1 .. Len(bytes) : r[i] = <<Symbol(bytes, i)>> \o r[i + Taken(bytes, i)]

\* The same from a place on.
DecodesFrom(r, bytes, first) ==
    /\ r \in [first .. Len(bytes) + 1 -> Seq(Int)] /\ r[Len(bytes) + 1] = <<>>
    /\ \A i \in first .. Len(bytes) : r[i] = <<Symbol(bytes, i)>> \o r[i + Taken(bytes, i)]

\* What decodeUtf8() returns is the first of them: the recursion has them all.
LEMMA DecodedFrom ==
    ASSUME NEW bytes \in Seq(Bytes)
    PROVE  \E r : Decodes(r, bytes) /\ DecodeUtf8(bytes) = r[1]
  <1>1. PICK n \in Nat : n = Len(bytes)
    OBVIOUS
  <1>2. \A i \in 1 .. n : Taken(bytes, i) \in 1 .. n - i + 1
    BY <1>1, DecoderStaysInText DEF StaysInText
  <1>3. \A i \in 1 .. n : Symbol(bytes, i) \in Int
    BY <1>1, SymbolType
  <1> DEFINE K == {k \in 0 .. n : \E r : DecodesFrom(r, bytes, n + 1 - k)}
  <1>4. 0 \in K
    <2> DEFINE r == [i \in n + 1 .. n + 1 |-> <<>>]
    <2>1. DecodesFrom(r, bytes, n + 1)
      BY <1>1 DEF DecodesFrom
    <2>2. n + 1 - 0 = n + 1
      OBVIOUS
    <2> QED
      BY <2>1, <2>2
  <1>5. ASSUME NEW k \in 0 .. n - 1, k \in K PROVE k + 1 \in K
    <2>1. PICK i \in 1 .. n : i = n + 1 - (k + 1) /\ n + 1 - k = i + 1
      OBVIOUS
    <2>2. PICK r : DecodesFrom(r, bytes, i + 1)
      BY <1>5, <2>1
    <2>3. /\ r \in [i + 1 .. n + 1 -> Seq(Int)] /\ r[n + 1] = <<>>
          /\ \A j \in i + 1 .. n : r[j] = <<Symbol(bytes, j)>> \o r[j + Taken(bytes, j)]
      BY <1>1, <2>2 DEF DecodesFrom
    <2>4. PICK value : value = <<Symbol(bytes, i)>> \o r[i + Taken(bytes, i)]
      OBVIOUS
    <2>5. i + Taken(bytes, i) \in i + 1 .. n + 1
      BY <1>2
    <2>6. value \in Seq(Int)
      <3>1. r[i + Taken(bytes, i)] \in Seq(Int)
        BY <2>3, <2>5
      <3>2. <<Symbol(bytes, i)>> \in Seq(Int)
        BY <1>3
      <3> QED
        BY <2>4, <3>1, <3>2
    <2> DEFINE more == [j \in i .. n + 1 |-> IF j = i THEN value ELSE r[j]]
    <2>7. \A j \in i .. n + 1 : j = i \/ j \in i + 1 .. n + 1
      OBVIOUS
    <2>8. more \in [i .. n + 1 -> Seq(Int)]
      BY <2>3, <2>6, <2>7
    <2>9. \A j \in i + 1 .. n + 1 : more[j] = r[j] /\ j \in i .. n + 1
      OBVIOUS
    <2>10. more[i] = value
      OBVIOUS
    <2> HIDE DEF more
    <2>11. more[n + 1] = <<>>
      BY <2>1, <2>3, <2>9
    <2>12. ASSUME NEW j \in i .. n PROVE more[j] = <<Symbol(bytes, j)>> \o more[j + Taken(bytes, j)]
      <3>1. j \in 1 .. n
        BY <2>1
      <3>2. PICK next \in i + 1 .. n + 1 : next = j + Taken(bytes, j)
        <4>1. Taken(bytes, j) \in 1 .. n - j + 1
          BY <1>2, <3>1
        <4>2. j + Taken(bytes, j) \in i + 1 .. n + 1
          BY <3>1, <4>1
        <4> QED
          BY <4>2
      <3>3. more[next] = r[next]
        BY <2>9
      <3>4. CASE j = i
        BY <2>4, <2>10, <3>2, <3>3, <3>4
      <3>5. CASE j # i
        <4>1. j \in i + 1 .. n /\ j \in i + 1 .. n + 1
          BY <3>5
        <4>2. more[j] = r[j] /\ r[j] = <<Symbol(bytes, j)>> \o r[j + Taken(bytes, j)]
          BY <2>3, <2>9, <4>1
        <4> QED
          BY <3>2, <3>3, <4>2
      <3> QED
        BY <3>4, <3>5
    <2>13. DecodesFrom(more, bytes, i)
      BY <1>1, <2>8, <2>11, <2>12 DEF DecodesFrom
    <2>14. k + 1 \in 0 .. n
      OBVIOUS
    <2> QED
      BY <2>1, <2>13, <2>14
  <1>6. \A k \in 0 .. n : k \in K
    <2> HIDE DEF K
    <2> QED
      BY <1>4, <1>5, InductionUpTo
  <1>7. PICK r : DecodesFrom(r, bytes, 1)
    <2>1. n \in K /\ n + 1 - n = 1
      <3>1. n \in 0 .. n /\ n + 1 - n = 1
        OBVIOUS
      <3> HIDE DEF K
      <3> QED
        BY <1>6, <3>1
    <2> QED
      BY <2>1
  <1> HIDE DEF K
  <1>8. Decodes(r, bytes)
    BY <1>7 DEF DecodesFrom, Decodes
  <1>9. DecodeUtf8(bytes) = r[1]
    <2> DEFINE Rest[i \in 1 .. Len(bytes) + 1] ==
                   IF i > Len(bytes) THEN <<>>
                   ELSE <<IF Valid(bytes, i) THEN CodePoint(bytes, i) ELSE Replaced>>
                        \o Rest[i + Taken(bytes, i)]
    <2>1. DecodeUtf8(bytes) = Rest[1]
      BY DEF DecodeUtf8
    <2>2. /\ r \in [1 .. n + 1 -> Seq(Int)] /\ r[n + 1] = <<>>
          /\ \A i \in 1 .. n : r[i] = <<Symbol(bytes, i)>> \o r[i + Taken(bytes, i)]
      BY <1>1, <1>8 DEF Decodes
    <2>3. r = [i \in 1 .. Len(bytes) + 1 |->
                  IF i > Len(bytes) THEN <<>>
                  ELSE <<IF Valid(bytes, i) THEN CodePoint(bytes, i) ELSE Replaced>> \o r[i + Taken(bytes, i)]]
      <3>1. \A i \in 1 .. n + 1 : r[i] = IF i > n THEN <<>> ELSE <<Symbol(bytes, i)>> \o r[i + Taken(bytes, i)]
        <4> SUFFICES ASSUME NEW i \in 1 .. n + 1
                     PROVE  r[i] = IF i > n THEN <<>> ELSE <<Symbol(bytes, i)>> \o r[i + Taken(bytes, i)]
          OBVIOUS
        <4>1. CASE i = n + 1
          BY <2>2, <4>1
        <4>2. CASE i # n + 1
          BY <2>2, <4>2
        <4> QED
          BY <4>1, <4>2
      <3> HIDE DEF Rest
      <3>2. r = [i \in 1 .. n + 1 |-> IF i > n THEN <<>> ELSE <<Symbol(bytes, i)>> \o r[i + Taken(bytes, i)]]
        BY <2>2, <3>1
      <3> QED
        BY <1>1, <3>2 DEF Symbol
    <2>4. Rest = [i \in 1 .. Len(bytes) + 1 |->
                     IF i > Len(bytes) THEN <<>>
                     ELSE <<IF Valid(bytes, i) THEN CodePoint(bytes, i) ELSE Replaced>> \o Rest[i + Taken(bytes, i)]]
      BY <2>3
    <2> HIDE DEF Rest
    <2>5. \A i \in 1 .. n + 1 : Rest[i] = IF i > n THEN <<>> ELSE <<Symbol(bytes, i)>> \o Rest[i + Taken(bytes, i)]
      BY <1>1, <2>4 DEF Symbol
    <2> DEFINE S == {i \in 1 .. n + 1 : Rest[i] = r[i]}
    <2>6. ASSUME NEW i \in 1 .. n + 1, \A j \in i + 1 .. n + 1 : j \in S PROVE i \in S
      <3>1. CASE i = n + 1
        <4>1. i > n
          BY <3>1
        <4>2. Rest[i] = <<>>
          BY <2>5, <4>1
        <4> QED
          BY <2>2, <3>1, <4>2
      <3>2. CASE i # n + 1
        <4>1. i \in 1 .. n /\ i + Taken(bytes, i) \in i + 1 .. n + 1
          BY <1>2, <3>2
        <4>2. PICK next \in i + 1 .. n + 1 : next = i + Taken(bytes, i)
          BY <4>1
        <4>3. Rest[next] = r[next]
          BY <2>6
        <4>4. Rest[i] = <<Symbol(bytes, i)>> \o Rest[next] /\ r[i] = <<Symbol(bytes, i)>> \o r[next]
          <5>1. ~(i > n)
            BY <4>1
          <5>2. Rest[i] = <<Symbol(bytes, i)>> \o Rest[next]
            BY <2>5, <4>2, <5>1
          <5> QED
            BY <2>2, <4>1, <4>2, <5>2
        <4> QED
          BY <4>3, <4>4
      <3> QED
        BY <3>1, <3>2
    <2>7. 1 \in S
      <3> HIDE DEF S
      <3>1. \A i \in 1 .. n + 1 : i \in S
        BY <2>6, InductionDown
      <3> QED
        BY <3>1
    <2> QED
      BY <2>1, <2>7
  <1> QED
    BY <1>8, <1>9

\* Three sequences, one behind the other.
LEMMA Associates ==
    ASSUME NEW r \in Seq(Int), NEW s \in Seq(Int), NEW t \in Seq(Int)
    PROVE  r \o (s \o t) = (r \o s) \o t
  <1>1. PICK rs \in Seq(Int), st \in Seq(Int) : rs = r \o s /\ st = s \o t
    BY ConcatProperties
  <1>2. PICK left \in Seq(Int), right \in Seq(Int) : left = r \o st /\ right = rs \o t
    BY ConcatProperties
  <1>3. PICK l \in Nat, m \in Nat, n \in Nat : l = Len(r) /\ m = Len(s) /\ n = Len(t)
    OBVIOUS
  <1>4. Len(rs) = l + m /\ \A k \in 1 .. l + m : rs[k] = IF k <= l THEN r[k] ELSE s[k - l]
    BY <1>1, <1>3, ConcatProperties
  <1>5. Len(st) = m + n /\ \A k \in 1 .. m + n : st[k] = IF k <= m THEN s[k] ELSE t[k - m]
    BY <1>1, <1>3, ConcatProperties
  <1>6. Len(left) = l + (m + n) /\ \A k \in 1 .. l + (m + n) : left[k] = IF k <= l THEN r[k] ELSE st[k - l]
    BY <1>2, <1>3, <1>5, ConcatProperties
  <1>7. Len(right) = (l + m) + n
        /\ \A k \in 1 .. (l + m) + n : right[k] = IF k <= l + m THEN rs[k] ELSE t[k - (l + m)]
    BY <1>2, <1>3, <1>4, ConcatProperties
  <1>8. ASSUME NEW k \in 1 .. l + m + n PROVE left[k] = right[k]
    <2>0. k \in 1 .. l + (m + n) /\ k \in 1 .. (l + m) + n
      OBVIOUS
    <2>1. CASE k <= l
      <3>1. k \in 1 .. l + m
        BY <2>1
      <3> QED
        <4>1. left[k] = r[k]
          BY <1>6, <2>0, <2>1
        <4>2. k <= l + m
          BY <2>1
        <4>3. right[k] = rs[k]
          BY <1>7, <2>0, <4>2
        <4>4. rs[k] = r[k]
          BY <1>4, <2>1, <3>1
        <4> QED
          BY <4>1, <4>3, <4>4
    <2>2. CASE l < k /\ k <= l + m
      <3>1. k \in 1 .. l + m /\ ~(k <= l) /\ k - l \in 1 .. m + n /\ k - l <= m
        BY <2>2
      <3>2. left[k] = s[k - l]
        BY <1>5, <1>6, <2>0, <3>1
      <3>3. right[k] = s[k - l]
        BY <1>4, <1>7, <2>0, <2>2, <3>1
      <3> QED
        BY <3>2, <3>3
    <2>3. CASE l + m < k
      <3>1. PICK i \in 1 .. m + n : i = k - l /\ ~(i <= m) /\ i - m = k - (l + m)
        BY <2>3
      <3>2. ~(k <= l) /\ ~(k <= l + m)
        BY <2>3
      <3>3. left[k] = t[i - m]
        BY <1>5, <1>6, <2>0, <3>1, <3>2
      <3>4. right[k] = t[k - (l + m)]
        BY <1>7, <2>0, <3>2
      <3> QED
        BY <3>1, <3>3, <3>4
    <2> QED
      BY <2>1, <2>2, <2>3
  <1>9. Len(left) = Len(right) /\ \A k \in 1 .. Len(left) : left[k] = right[k]
    BY <1>6, <1>7, <1>8
  <1>10. left = right
    BY <1>9, SeqEqual
  <1> QED
    BY <1>1, <1>2, <1>10

\* A part of one text that is a part of another, elsewhere.
LEMMA SamePart ==
    ASSUME NEW bytes \in Seq(Bytes), NEW other \in Seq(Bytes), NEW first \in Nat, NEW last \in Int,
           NEW shift \in Nat, 1 <= first, first - 1 <= last, last <= Len(bytes), shift + last <= Len(other),
           \A k \in first .. last : other[shift + k] = bytes[k]
    PROVE  SubSeq(other, shift + first, shift + last) = SubSeq(bytes, first, last)
  <1>1. PICK s : s = SubSeq(bytes, first, last)
    OBVIOUS
  <1>2. PICK t : t = SubSeq(other, shift + first, shift + last)
    OBVIOUS
  <1>3. s \in Seq(Bytes) /\ Len(s) = last - first + 1 /\ \A k \in 1 .. last - first + 1 : s[k] = bytes[first + k - 1]
    BY <1>1, PartOf
  <1>4. /\ t \in Seq(Bytes) /\ Len(t) = last - first + 1
        /\ \A k \in 1 .. last - first + 1 : t[k] = other[shift + first + k - 1]
    <2>1. PICK low \in Int, high \in Int : low = shift + first /\ high = shift + last
      OBVIOUS
    <2>2. 1 <= low /\ low - 1 <= high /\ high <= Len(other) /\ high - low + 1 = last - first + 1
      BY <2>1
    <2>3. /\ t \in Seq(Bytes) /\ Len(t) = high - low + 1
          /\ \A k \in 1 .. high - low + 1 : t[k] = other[low + k - 1]
      BY <1>2, <2>1, <2>2, PartOf
    <2> QED
      BY <2>1, <2>2, <2>3
  <1>5. \A k \in 1 .. last - first + 1 : t[k] = other[shift + first + k - 1]
    BY <1>4
  <1>6. ASSUME NEW k \in 1 .. last - first + 1 PROVE t[k] = s[k]
    <2>1. PICK place \in first .. last : place = first + k - 1
      OBVIOUS
    <2>2. shift + first + k - 1 = shift + place
      BY <2>1
    <2> QED
      BY <1>3, <1>5, <2>1, <2>2
  <1>7. s = t
    BY <1>3, <1>4, <1>6, SeqEqual
  <1> QED
    BY <1>1, <1>2, <1>7

\* Of two texts, one behind the other.
LEMMA BothTexts ==
    ASSUME NEW a \in Seq(Bytes), NEW b \in Seq(Bytes)
    PROVE  /\ a \o b \in Seq(Bytes) /\ Len(a \o b) = Len(a) + Len(b)
           /\ \A k \in 1 .. Len(a) : (a \o b)[k] = a[k]
           /\ \A k \in 1 .. Len(b) : (a \o b)[Len(a) + k] = b[k]
  <1>1. PICK bytes \in Seq(Bytes) : bytes = a \o b
    BY ConcatProperties
  <1>2. Len(bytes) = Len(a) + Len(b) /\ \A k \in 1 .. Len(bytes) : bytes[k] = IF k <= Len(a) THEN a[k] ELSE b[k - Len(a)]
    BY <1>1, ConcatProperties
  <1>3. \A k \in 1 .. Len(a) : bytes[k] = a[k]
    BY <1>2
  <1>4. ASSUME NEW k \in 1 .. Len(b) PROVE bytes[Len(a) + k] = b[k]
    <2>1. PICK place \in 1 .. Len(bytes) : place = Len(a) + k
      BY <1>2
    <2>2. ~(place <= Len(a)) /\ place - Len(a) = k
      BY <2>1
    <2> QED
      BY <1>2, <2>1, <2>2
  <1> QED
    BY <1>1, <1>2, <1>3, <1>4

\* The places that a whole character takes.
LEMMA ValidPlaces ==
    ASSUME NEW bytes \in Seq(Bytes), NEW i \in 1 .. Len(bytes), Valid(bytes, i)
    PROVE  /\ Length(bytes[i]) \in 1 .. 4 /\ i + Length(bytes[i]) - 1 <= Len(bytes)
           /\ \A k \in 1 .. Length(bytes[i]) - 1 : Continues(bytes[i + k])
  BY LengthType DEF Valid

\* The second is decoded as it would be alone.
LEMMA BehindIsAlone ==
    ASSUME NEW a \in Seq(Bytes), NEW b \in Seq(Bytes), NEW i \in 1 .. Len(b)
    PROVE  /\ Taken(a \o b, Len(a) + i) = Taken(b, i)
           /\ Symbol(a \o b, Len(a) + i) = Symbol(b, i)
  <1>1. PICK bytes \in Seq(Bytes) : bytes = a \o b
    BY BothTexts
  <1>2. PICK shift \in Nat : shift = Len(a)
    OBVIOUS
  <1>3. /\ Len(bytes) = shift + Len(b)
        /\ \A k \in 1 .. Len(b) : bytes[shift + k] = b[k]
    BY <1>1, <1>2, BothTexts
  <1>4. PICK n \in 0 .. 4 : n = Length(b[i])
    <2>1. b[i] \in Bytes
      OBVIOUS
    <2> QED
      BY <2>1, LengthType
  <1>5. bytes[shift + i] = b[i]
    BY <1>3
  <1>6. ASSUME i + n - 1 <= Len(b), NEW k \in 1 .. n - 1 PROVE bytes[shift + i + k] = b[i + k]
    <2>1. PICK place \in 1 .. Len(b) : place = i + k
      BY <1>6
    <2>2. shift + i + k = shift + place
      BY <2>1
    <2> QED
      BY <1>3, <2>1, <2>2
  <1>7. Valid(bytes, shift + i) <=> Valid(b, i)
    <2>1. shift + i + n - 1 <= Len(bytes) <=> i + n - 1 <= Len(b)
      BY <1>3
    <2> QED
      BY <1>4, <1>5, <1>6, <2>1 DEF Valid
  <1>8. Taken(bytes, shift + i) = Taken(b, i)
    BY <1>5, <1>7 DEF Taken
  <1>9. ASSUME Valid(b, i) PROVE CodePoint(bytes, shift + i) = CodePoint(b, i)
    <2>1. n \in 1 .. 4 /\ i + n - 1 <= Len(b)
      BY <1>4, <1>9, ValidPlaces
    <2>2. SubSeq(bytes, shift + (i + 1), shift + (i + n - 1)) = SubSeq(b, i + 1, i + n - 1)
      <3>1. i + 1 \in Nat /\ i + n - 1 \in Int /\ i + 1 - 1 <= i + n - 1 /\ shift + (i + n - 1) <= Len(bytes)
            /\ 1 <= i + 1
        BY <1>3, <2>1
      <3>2. ASSUME NEW k \in i + 1 .. i + n - 1 PROVE bytes[shift + k] = b[k]
        <4>1. k \in 1 .. Len(b)
          BY <2>1
        <4> QED
          BY <1>3, <4>1
      <3> QED
        BY <2>1, <3>1, <3>2, SamePart
    <2>3. shift + i + 1 = shift + (i + 1) /\ shift + i + n - 1 = shift + (i + n - 1)
      OBVIOUS
    <2>4. SubSeq(bytes, shift + i + 1, shift + i + n - 1) = SubSeq(b, i + 1, i + n - 1)
      BY <2>2, <2>3
    <2> QED
      BY <1>4, <1>5, <2>4 DEF CodePoint
  <1>10. Symbol(bytes, shift + i) = Symbol(b, i)
    BY <1>7, <1>9 DEF Symbol
  <1> QED
    BY <1>1, <1>2, <1>8, <1>10

\* And from it on.
LEMMA TailIsAlone ==
    ASSUME NEW a \in Seq(Bytes), NEW b \in Seq(Bytes), NEW r, Decodes(r, a \o b), NEW q, Decodes(q, b)
    PROVE  r[Len(a) + 1] = q[1]
  <1>1. PICK bytes \in Seq(Bytes) : bytes = a \o b
    BY BothTexts
  <1>2. PICK m \in Nat, n \in Nat : m = Len(a) /\ n = Len(b) /\ Len(bytes) = m + n
    BY <1>1, BothTexts
  <1>3. /\ r \in [1 .. m + n + 1 -> Seq(Int)] /\ r[m + n + 1] = <<>>
        /\ \A i \in 1 .. m + n : r[i] = <<Symbol(bytes, i)>> \o r[i + Taken(bytes, i)]
    BY <1>1, <1>2 DEF Decodes
  <1>4. /\ q \in [1 .. n + 1 -> Seq(Int)] /\ q[n + 1] = <<>>
        /\ \A i \in 1 .. n : q[i] = <<Symbol(b, i)>> \o q[i + Taken(b, i)]
    BY <1>2 DEF Decodes
  <1> DEFINE S == {i \in 1 .. n + 1 : r[m + i] = q[i]}
  <1>5. ASSUME NEW i \in 1 .. n + 1, \A j \in i + 1 .. n + 1 : j \in S PROVE i \in S
    <2>1. CASE i = n + 1
      <3>1. m + i = m + n + 1
        BY <2>1
      <3> QED
        BY <1>3, <1>4, <2>1, <3>1
    <2>2. CASE i # n + 1
      <3>1. i \in 1 .. n
        BY <2>2
      <3>2. Taken(b, i) \in 1 .. n - i + 1
        <4>1. StaysInText(b)
          BY DecoderStaysInText
        <4> QED
          BY <1>2, <3>1, <4>1 DEF StaysInText
      <3>3. PICK next \in i + 1 .. n + 1 : next = i + Taken(b, i)
        BY <3>2
      <3>4. Taken(bytes, m + i) = Taken(b, i) /\ Symbol(bytes, m + i) = Symbol(b, i)
        BY <1>1, <1>2, <3>1, BehindIsAlone
      <3>5. PICK here \in 1 .. m + n : here = m + i
        BY <3>1
      <3>6. here + Taken(bytes, here) = m + next
        BY <3>2, <3>3, <3>4, <3>5
      <3>7. r[here] = <<Symbol(b, i)>> \o r[m + next]
        BY <1>3, <3>4, <3>5, <3>6
      <3>8. q[i] = <<Symbol(b, i)>> \o q[next]
        BY <1>4, <3>1, <3>3
      <3>9. r[m + next] = q[next]
        BY <1>5
      <3> QED
        BY <3>5, <3>7, <3>8, <3>9
    <2> QED
      BY <2>1, <2>2
  <1>6. 1 \in S
    <2> HIDE DEF S
    <2>1. \A i \in 1 .. n + 1 : i \in S
      BY <1>5, InductionDown
    <2> QED
      BY <2>1
  <1> QED
    BY <1>2, <1>6

\* So is the first, if the second begins with no part of a character.
LEMMA InFrontIsAlone ==
    ASSUME NEW a \in Seq(Bytes), NEW b \in Seq(Bytes), b # <<>> => ~Continues(b[1]), NEW i \in 1 .. Len(a)
    PROVE  /\ Taken(a \o b, i) = Taken(a, i)
           /\ Symbol(a \o b, i) = Symbol(a, i)
  <1>1. CASE b = <<>>
    <2>1. a \o b = a
      BY <1>1
    <2> QED
      BY <2>1
  <1>2. CASE b # <<>>
    <2>1. PICK bytes \in Seq(Bytes) : bytes = a \o b
      BY BothTexts
    <2>2. (Valid(bytes, i) <=> Valid(a, i)) /\ Taken(bytes, i) = Taken(a, i)
      BY <1>2, <2>1, DamageEndsAtCharacters
    <2>3. /\ Len(bytes) = Len(a) + Len(b)
          /\ \A k \in 1 .. Len(a) : bytes[k] = a[k]
      BY <2>1, BothTexts
    <2>4. ASSUME Valid(a, i) PROVE CodePoint(bytes, i) = CodePoint(a, i)
      <3>1. PICK n \in 1 .. 4 : n = Length(a[i]) /\ i + n - 1 <= Len(a)
        BY <2>4, ValidPlaces
      <3>2. SubSeq(bytes, 0 + (i + 1), 0 + (i + n - 1)) = SubSeq(a, i + 1, i + n - 1)
        <4>1. i + 1 \in Nat /\ i + n - 1 \in Int /\ i + 1 - 1 <= i + n - 1 /\ 0 + (i + n - 1) <= Len(bytes)
              /\ 1 <= i + 1 /\ 0 \in Nat
          BY <2>3, <3>1
        <4>2. ASSUME NEW k \in i + 1 .. i + n - 1 PROVE 0 + k = k /\ bytes[k] = a[k]
          <5>1. k \in 1 .. Len(a) /\ 0 + k = k
            BY <3>1
          <5> QED
            BY <2>3, <5>1
        <4>3. \A k \in i + 1 .. i + n - 1 : bytes[0 + k] = a[k]
          BY <4>2
        <4> QED
          BY <3>1, <4>1, <4>3, SamePart
      <3>3. 0 + (i + 1) = i + 1 /\ 0 + (i + n - 1) = i + n - 1
        OBVIOUS
      <3>4. bytes[i] = a[i]
        BY <2>3
      <3> QED
        BY <3>1, <3>2, <3>3, <3>4 DEF CodePoint
    <2> QED
      BY <2>1, <2>2, <2>4 DEF Symbol
  <1> QED
    BY <1>1, <1>2

\* decodeUtf8() works character by character: a text and another that begins with no part of
\* a character are decoded together as they are apart.
THEOREM DecodingIsLocal ==
  ASSUME NEW a \in Seq(Bytes), NEW b \in Seq(Bytes), b # <<>> => ~Continues(b[1])
  PROVE  DecodeUtf8(a \o b) = DecodeUtf8(a) \o DecodeUtf8(b)
  <1>1. PICK bytes \in Seq(Bytes) : bytes = a \o b
    BY BothTexts
  <1>2. PICK r : Decodes(r, bytes) /\ DecodeUtf8(bytes) = r[1]
    BY DecodedFrom
  <1>3. PICK p : Decodes(p, a) /\ DecodeUtf8(a) = p[1]
    BY DecodedFrom
  <1>4. PICK q : Decodes(q, b) /\ DecodeUtf8(b) = q[1]
    BY DecodedFrom
  <1>5. PICK m \in Nat, n \in Nat : m = Len(a) /\ n = Len(b) /\ Len(bytes) = m + n
    <2>1. Len(bytes) = Len(a) + Len(b) /\ Len(a) \in Nat /\ Len(b) \in Nat
      BY <1>1, BothTexts
    <2> QED
      BY <2>1
  <1>6. /\ r \in [1 .. m + n + 1 -> Seq(Int)]
        /\ \A i \in 1 .. m + n : r[i] = <<Symbol(bytes, i)>> \o r[i + Taken(bytes, i)]
    BY <1>2, <1>5 DEF Decodes
  <1>7. /\ p \in [1 .. m + 1 -> Seq(Int)] /\ p[m + 1] = <<>>
        /\ \A i \in 1 .. m : p[i] = <<Symbol(a, i)>> \o p[i + Taken(a, i)]
    BY <1>3, <1>5 DEF Decodes
  <1>8. PICK rest \in Seq(Int) : rest = q[1] /\ r[m + 1] = rest
    <2>1. r[m + 1] = q[1]
      BY <1>1, <1>2, <1>4, <1>5, TailIsAlone
    <2>2. q[1] \in Seq(Int)
      BY <1>4, <1>5 DEF Decodes
    <2> QED
      BY <2>1, <2>2
  <1> DEFINE S == {i \in 1 .. m + 1 : r[i] = p[i] \o rest}
  <1>9. ASSUME NEW i \in 1 .. m + 1, \A j \in i + 1 .. m + 1 : j \in S PROVE i \in S
    <2>1. CASE i = m + 1
      <3>1. <<>> \o rest = rest
        OBVIOUS
      <3> QED
        BY <1>7, <1>8, <2>1, <3>1
    <2>2. CASE i # m + 1
      <3>1. i \in 1 .. m
        BY <2>2
      <3>2. Taken(a, i) \in 1 .. m - i + 1
        <4>1. StaysInText(a)
          BY DecoderStaysInText
        <4> QED
          BY <1>5, <3>1, <4>1 DEF StaysInText
      <3>3. PICK next \in i + 1 .. m + 1 : next = i + Taken(a, i)
        BY <3>2
      <3>4. Taken(bytes, i) = Taken(a, i) /\ Symbol(bytes, i) = Symbol(a, i)
        BY <1>1, <1>5, <3>1, InFrontIsAlone
      <3>5. PICK one : one = <<Symbol(a, i)>>
        OBVIOUS
      <3>6. one \in Seq(Int)
        <4>1. Symbol(a, i) \in Int
          BY <1>5, <3>1, SymbolType
        <4> QED
          BY <3>5, <4>1
      <3>7. r[i] = one \o r[next]
        <4>1. i \in 1 .. m + n
          BY <3>1
        <4>2. r[i] = <<Symbol(bytes, i)>> \o r[i + Taken(bytes, i)]
          BY <1>6, <4>1
        <4> QED
          BY <3>3, <3>4, <3>5, <4>2
      <3>8. p[i] = one \o p[next] /\ p[next] \in Seq(Int)
        <4>1. p[i] = <<Symbol(a, i)>> \o p[i + Taken(a, i)]
          BY <1>7, <3>1
        <4>2. next \in 1 .. m + 1
          OBVIOUS
        <4>3. p[next] \in Seq(Int)
          BY <1>7, <4>2
        <4> QED
          BY <3>3, <3>5, <4>1, <4>3
      <3>9. r[next] = p[next] \o rest
        BY <1>9
      <3>10. one \o (p[next] \o rest) = (one \o p[next]) \o rest
        <4>1. PICK later \in Seq(Int) : later = p[next]
          BY <3>8
        <4>2. one \o (later \o rest) = (one \o later) \o rest
          BY <3>6, Associates
        <4> QED
          BY <4>1, <4>2
      <3> QED
        BY <3>7, <3>8, <3>9, <3>10
    <2> QED
      BY <2>1, <2>2
  <1>10. 1 \in S
    <2> HIDE DEF S
    <2>1. \A i \in 1 .. m + 1 : i \in S
      BY <1>9, InductionDown
    <2> QED
      BY <2>1
  <1> QED
    BY <1>1, <1>2, <1>3, <1>4, <1>8, <1>10

\* Unicode's characters.
Unicode == {c \in Nat : c <= 1114111}

\* The bytes of a character, by how many they are.
LEMMA EncodedIs ==
    ASSUME NEW c \in Unicode
    PROVE  /\ BytesOf(c) = 1 => Encoded(c) = <<c>>
           /\ BytesOf(c) = 2 => Encoded(c) = <<192 + Upper(c), Continuation(c)>>
           /\ BytesOf(c) = 3 => Encoded(c) = <<224 + Upper(Upper(c)), Continuation(Upper(c)), Continuation(c)>>
           /\ BytesOf(c) = 4 => Encoded(c) = <<240 + Upper(Upper(Upper(c))), Continuation(Upper(Upper(c))),
                                               Continuation(Upper(c)), Continuation(c)>>
  <1>1. /\ BytesOf(c) = 1 => BytesOf(c) # 2 /\ BytesOf(c) # 3 /\ BytesOf(c) # 4
        /\ BytesOf(c) = 2 => BytesOf(c) # 1 /\ BytesOf(c) # 3 /\ BytesOf(c) # 4
        /\ BytesOf(c) = 3 => BytesOf(c) # 1 /\ BytesOf(c) # 2 /\ BytesOf(c) # 4
        /\ BytesOf(c) = 4 => BytesOf(c) # 1 /\ BytesOf(c) # 2 /\ BytesOf(c) # 3
    OBVIOUS
  <1> QED
    BY <1>1, Zenon DEF Encoded

\* How many they are.
LEMMA BytesOfIs ==
    ASSUME NEW c \in Unicode
    PROVE  /\ c >= 0 /\ c <= 1114111
           /\ BytesOf(c) \in 1 .. 4
           /\ BytesOf(c) = 1 => c < 128
           /\ BytesOf(c) = 2 => c >= 128 /\ c <= 2047
           /\ BytesOf(c) = 3 => c >= 2048 /\ c <= 65535
  <1>1. c \in Nat /\ c >= 0 /\ c <= 1114111
    BY SMT DEF Unicode
  <1>2. \/ c < 128 /\ BytesOf(c) = 1
        \/ 128 <= c /\ c < 2048 /\ BytesOf(c) = 2
        \/ 2048 <= c /\ c < 65536 /\ BytesOf(c) = 3
        \/ 65536 <= c /\ BytesOf(c) = 4
    BY <1>1, SMT DEF BytesOf
  <1> QED
    BY <1>1, <1>2, SMT

\* What a byte says that a character begins with.
LEMMA LengthIs ==
    ASSUME NEW lead \in Bytes
    PROVE  /\ lead < 128 => Length(lead) = 1 /\ Payload(lead) = lead
           /\ lead \in 192 .. 223 => Length(lead) = 2 /\ Payload(lead) = lead % 32
           /\ lead \in 224 .. 239 => Length(lead) = 3 /\ Payload(lead) = lead % 16
           /\ lead \in 240 .. 247 => Length(lead) = 4 /\ Payload(lead) = lead % 8
  <1>1. /\ lead < 128 => Length(lead) = 1
        /\ lead \in 192 .. 223 => Length(lead) = 2
        /\ lead \in 224 .. 239 => Length(lead) = 3
        /\ lead \in 240 .. 247 => Length(lead) = 4
    BY SMT DEF Length, Bytes
  <1> QED
    BY <1>1, SMT DEF Payload

\* A character's bytes: the first says how many they are and the others follow it; together
\* they say which it is.
IsCode(code, c) ==
    /\ code \in Seq(Bytes) /\ Len(code) \in 1 .. 4
    /\ Length(code[1]) = Len(code) /\ ~Continues(code[1])
    /\ \A k \in 2 .. Len(code) : Continues(code[k])
    /\ Payload(code[1]) \in Int
    /\ Len(code) = 1 => Payload(code[1]) = c
    /\ Len(code) = 2 => Adding(Payload(code[1]), code[2]) = c
    /\ Len(code) = 3 => Adding(Adding(Payload(code[1]), code[2]), code[3]) = c
    /\ Len(code) = 4 => Adding(Adding(Adding(Payload(code[1]), code[2]), code[3]), code[4]) = c

\* The last byte of several has six bits of the character and the ones before it the rest.
LEMMA ContinuationIs ==
    ASSUME NEW c \in Nat
    PROVE  /\ Continuation(c) \in Bytes /\ Continues(Continuation(c))
           /\ Adding(Upper(c), Continuation(c)) = c
           /\ Upper(c) \in Nat
  <1>1. c % 64 \in 0 .. 63 /\ c \div 64 \in Nat /\ c = (c \div 64) * 64 + (c % 64)
    OBVIOUS
  <1>2. PICK low \in 0 .. 63, high \in Nat : low = c % 64 /\ high = c \div 64
    BY <1>1
  <1>3. (128 + low) % 64 = low
    BY <1>2
  <1> QED
    BY <1>1, <1>2, <1>3 DEF Continuation, Continues, Bytes, Upper, Adding

\* Encoded() gives a character such bytes.
LEMMA CodesOf ==
    ASSUME NEW c \in Unicode
    PROVE  IsCode(Encoded(c), c)
  <1>0. c \in Nat /\ BytesOf(c) \in 1 .. 4
    BY BytesOfIs, SMT DEF Unicode
  <1>1. PICK c2 \in Nat : c2 = Upper(c)
    BY <1>0, ContinuationIs
  <1>2. PICK c3 \in Nat : c3 = Upper(c2)
    BY ContinuationIs
  <1>3. PICK c4 \in Nat : c4 = Upper(c3)
    BY ContinuationIs
  <1>4. PICK d \in Bytes : d = Continuation(c) /\ Continues(d) /\ Adding(c2, d) = c
    BY <1>0, <1>1, ContinuationIs
  <1>5. PICK d2 \in Bytes : d2 = Continuation(c2) /\ Continues(d2) /\ Adding(c3, d2) = c2
    BY <1>2, ContinuationIs
  <1>6. PICK d3 \in Bytes : d3 = Continuation(c3) /\ Continues(d3) /\ Adding(c4, d3) = c3
    BY <1>3, ContinuationIs
  <1>7. CASE BytesOf(c) = 1
    <2>1. Encoded(c) = <<c>>
      BY <1>7, EncodedIs
    <2>2. c < 128
      BY <1>7, BytesOfIs, SMT
    <2>3. c \in Bytes /\ ~Continues(c)
      BY <1>0, <2>2 DEF Bytes, Continues
    <2>4. Length(c) = 1 /\ Payload(c) = c
      BY <2>2, <2>3, LengthIs
    <2> QED
      BY <1>0, <2>1, <2>3, <2>4 DEF IsCode
  <1>8. CASE BytesOf(c) = 2
    <2>1. PICK a : a = 192 + c2
      OBVIOUS
    <2>2. Encoded(c) = <<a, d>>
      BY <1>1, <1>4, <1>8, <2>1, EncodedIs
    <2>3. c2 <= 31
      BY <1>0, <1>1, <1>8, BytesOfIs, SMT DEF Upper
    <2>4. a \in Bytes /\ a \in 192 .. 223 /\ ~Continues(a) /\ a % 32 = c2
      BY <2>1, <2>3 DEF Bytes, Continues
    <2>5. Length(a) = 2 /\ Payload(a) = c2
      BY <2>4, LengthIs
    <2> QED
      BY <1>4, <2>2, <2>4, <2>5 DEF IsCode
  <1>9. CASE BytesOf(c) = 3
    <2>1. PICK a : a = 224 + c3
      OBVIOUS
    <2>2. Encoded(c) = <<a, d2, d>>
      BY <1>1, <1>2, <1>4, <1>5, <1>9, <2>1, EncodedIs
    <2>3. c3 <= 15
      BY <1>0, <1>1, <1>2, <1>9, BytesOfIs, SMT DEF Upper
    <2>4. a \in Bytes /\ a \in 224 .. 239 /\ ~Continues(a) /\ a % 16 = c3
      BY <2>1, <2>3 DEF Bytes, Continues
    <2>5. Length(a) = 3 /\ Payload(a) = c3
      BY <2>4, LengthIs
    <2> QED
      BY <1>4, <1>5, <2>2, <2>4, <2>5 DEF IsCode
  <1>10. CASE BytesOf(c) = 4
    <2>1. PICK a : a = 240 + c4
      OBVIOUS
    <2>2. Encoded(c) = <<a, d3, d2, d>>
      BY <1>1, <1>2, <1>3, <1>4, <1>5, <1>6, <1>10, <2>1, EncodedIs
    <2>3. c4 <= 4
      BY <1>0, <1>1, <1>2, <1>3, <1>10, BytesOfIs, SMT DEF Upper
    <2>4. a \in Bytes /\ a \in 240 .. 247 /\ ~Continues(a) /\ a % 8 = c4
      BY <2>1, <2>3 DEF Bytes, Continues
    <2>5. Length(a) = 4 /\ Payload(a) = c4
      BY <2>4, LengthIs
    <2> QED
      BY <1>4, <1>5, <1>6, <2>2, <2>4, <2>5 DEF IsCode
  <1> QED
    BY <1>0, <1>7, <1>8, <1>9, <1>10

\* A whole character in front of any bytes is decoded as itself, and they as they would be
\* alone.
LEMMA WholeInFront ==
    ASSUME NEW c \in Unicode, NEW b \in Seq(Bytes)
    PROVE  DecodeUtf8(Encoded(c) \o b) = <<c>> \o DecodeUtf8(b)
  <1>1. PICK code \in Seq(Bytes) : code = Encoded(c) /\ IsCode(code, c)
    BY CodesOf DEF IsCode
  <1>2. PICK bytes \in Seq(Bytes) : bytes = code \o b
    BY BothTexts
  <1>3. PICK n \in 1 .. 4 : n = Len(code)
    BY <1>1 DEF IsCode
  <1>4. Len(bytes) = n + Len(b) /\ Len(bytes) \in Nat /\ \A k \in 1 .. n : bytes[k] = code[k]
    BY <1>2, <1>3, BothTexts
  <1>5. Length(bytes[1]) = n /\ Payload(bytes[1]) = Payload(code[1]) /\ Payload(code[1]) \in Int
    BY <1>1, <1>3, <1>4 DEF IsCode
  <1>6. \A k \in 2 .. n : Continues(bytes[k])
    BY <1>1, <1>3, <1>4 DEF IsCode
  <1>7. Valid(bytes, 1)
    <2>1. ASSUME NEW k \in 1 .. n - 1 PROVE Continues(bytes[1 + k])
      <3>1. 1 + k \in 2 .. n
        OBVIOUS
      <3> QED
        BY <1>6, <3>1
    <2> QED
      BY <1>4, <1>5, <2>1 DEF Valid
  <1>8. Taken(bytes, 1) = n
    BY <1>5, <1>7 DEF Taken
  <1>9. PICK following : following = SubSeq(bytes, 2, n)
    OBVIOUS
  <1>10. /\ following \in Seq(Bytes) /\ Len(following) = n - 1
         /\ \A k \in 1 .. n - 1 : following[k] = code[k + 1]
    <2>1. 1 <= 2 /\ 2 - 1 <= n /\ n <= Len(bytes) /\ n - 2 + 1 = n - 1 /\ 2 \in Int /\ n \in Int
      BY <1>4
    <2>2. /\ following \in Seq(Bytes) /\ Len(following) = n - 1
          /\ \A k \in 1 .. n - 1 : following[k] = bytes[2 + k - 1]
      BY <1>9, <2>1, PartOf
    <2>3. \A k \in 1 .. n - 1 : 2 + k - 1 = k + 1 /\ k + 1 \in 1 .. n
      OBVIOUS
    <2> QED
      BY <1>4, <2>2, <2>3
  <1>11. CodePoint(bytes, 1) = Joined(Payload(code[1]), following)
    <2>1. 1 + 1 = 2 /\ 1 + n - 1 = n
      OBVIOUS
    <2> QED
      BY <1>5, <1>9, <2>1 DEF CodePoint
  <1>12. Joined(Payload(code[1]), following) = c
    <2>1. PICK first \in Int : first = Payload(code[1])
      BY <1>5
    <2>2. following \in Seq(Int)
      <3>1. Bytes \subseteq Int
        BY DEF Bytes
      <3>2. PICK m \in Nat : m = Len(following)
        BY <1>10
      <3>3. following \in [1 .. m -> Bytes]
        BY <1>10, <3>2
      <3>4. following \in [1 .. m -> Int]
        BY <3>1, <3>3
      <3> QED
        BY <3>4
    <2>3. CASE n = 1
      <3>0. Len(following) = 0 /\ 0 \in 0 .. 3
        BY <1>10, <2>3
      <3>1. Joined(first, following) = first
        BY <2>2, <3>0, JoinedOf
      <3> QED
        BY <1>1, <1>3, <2>1, <2>3, <3>1 DEF IsCode
    <2>4. CASE n = 2
      <3>0. Len(following) = 1 /\ 1 \in 0 .. 3
        BY <1>10, <2>4
      <3>1. Joined(first, following) = Adding(first, following[1])
        BY <2>2, <3>0, JoinedOf
      <3>2. following[1] = code[2]
        BY <1>10, <2>4
      <3> QED
        BY <1>1, <1>3, <2>1, <2>4, <3>1, <3>2 DEF IsCode
    <2>5. CASE n = 3
      <3>0. Len(following) = 2 /\ 2 \in 0 .. 3
        BY <1>10, <2>5
      <3>1. Joined(first, following) = Adding(Adding(first, following[1]), following[2])
        BY <2>2, <3>0, JoinedOf
      <3>2. following[1] = code[2] /\ following[2] = code[3]
        BY <1>10, <2>5
      <3> QED
        BY <1>1, <1>3, <2>1, <2>5, <3>1, <3>2 DEF IsCode
    <2>6. CASE n = 4
      <3>0. Len(following) = 3 /\ 3 \in 0 .. 3
        BY <1>10, <2>6
      <3>1. Joined(first, following) = Adding(Adding(Adding(first, following[1]), following[2]), following[3])
        BY <2>2, <3>0, JoinedOf
      <3>2. following[1] = code[2] /\ following[2] = code[3] /\ following[3] = code[4]
        BY <1>10, <2>6
      <3> QED
        BY <1>1, <1>3, <2>1, <2>6, <3>1, <3>2 DEF IsCode
    <2> QED
      BY <2>1, <2>3, <2>4, <2>5, <2>6
  <1>13. Symbol(bytes, 1) = c
    BY <1>7, <1>11, <1>12 DEF Symbol
  <1>14. PICK r : Decodes(r, bytes) /\ DecodeUtf8(bytes) = r[1]
    BY DecodedFrom
  <1>15. PICK q : Decodes(q, b) /\ DecodeUtf8(b) = q[1]
    BY DecodedFrom
  <1>16. r[n + 1] = q[1]
    BY <1>2, <1>3, <1>14, <1>15, TailIsAlone
  <1>17. r[1] = <<Symbol(bytes, 1)>> \o r[1 + Taken(bytes, 1)]
    BY <1>4, <1>14 DEF Decodes
  <1>18. 1 + n = n + 1
    OBVIOUS
  <1> QED
    BY <1>1, <1>2, <1>8, <1>13, <1>14, <1>15, <1>16, <1>17, <1>18

\* What decodeUtf8() returns is a sequence of characters, none for no text.
LEMMA DecodedType ==
    ASSUME NEW bytes \in Seq(Bytes)
    PROVE  DecodeUtf8(bytes) \in Seq(Int) /\ (bytes = <<>> => DecodeUtf8(bytes) = <<>>)
  <1>1. PICK r : Decodes(r, bytes) /\ DecodeUtf8(bytes) = r[1]
    BY DecodedFrom
  <1>2. r \in [1 .. Len(bytes) + 1 -> Seq(Int)] /\ r[Len(bytes) + 1] = <<>>
    BY <1>1 DEF Decodes
  <1>3. 1 \in 1 .. Len(bytes) + 1 /\ (bytes = <<>> => Len(bytes) + 1 = 1)
    OBVIOUS
  <1> QED
    BY <1>1, <1>2, <1>3

\* A whole character alone.
LEMMA WholeAlone ==
    ASSUME NEW c \in Unicode
    PROVE  /\ DecodeUtf8(Encoded(c)) = <<c>>
           /\ Encoded(c) \in Seq(Bytes) /\ Encoded(c) # <<>> /\ ~Continues(Encoded(c)[1])
  <1>1. PICK code \in Seq(Bytes) : code = Encoded(c) /\ code # <<>> /\ ~Continues(code[1])
    BY CodesOf DEF IsCode
  <1>2. code \o <<>> = code /\ <<>> \in Seq(Bytes)
    OBVIOUS
  <1>3. DecodeUtf8(code) = <<c>> \o DecodeUtf8(<<>>)
    BY <1>1, <1>2, WholeInFront
  <1>4. DecodeUtf8(<<>>) = <<>> /\ <<c>> \o <<>> = <<c>>
    <2>1. PICK none \in Seq(Bytes) : none = <<>>
      BY <1>2
    <2>2. DecodeUtf8(none) = <<>>
      BY <2>1, DecodedType
    <2> QED
      BY <2>1, <2>2
  <1> QED
    BY <1>1, <1>3, <1>4

\* Whatever bytes stand between two characters, decodeUtf8() reads both: a stream title that
\* was cut off, or is in another encoding, spoils no character next to the damage.
THEOREM DamageStaysLocal ==
  ASSUME NEW before \in Unicode, NEW damage \in Seq(Bytes), NEW after \in Unicode
  PROVE  DamageIsLocal(before, damage, after)
  <1>1. PICK first \in Seq(Bytes) : first = Encoded(before)
    BY WholeAlone
  <1>2. PICK last \in Seq(Bytes) : last = Encoded(after) /\ ~Continues(last[1]) /\ DecodeUtf8(last) = <<after>>
    BY WholeAlone
  <1>3. PICK damaged \in Seq(Bytes) : damaged = first \o damage
    BY BothTexts
  <1>4. DecodeUtf8(damaged) = <<before>> \o DecodeUtf8(damage)
    BY <1>1, <1>3, WholeInFront
  <1>5. DecodeUtf8(damaged \o last) = DecodeUtf8(damaged) \o <<after>>
    BY <1>2, DecodingIsLocal
  <1> QED
    BY <1>1, <1>2, <1>3, <1>4, <1>5 DEF DamageIsLocal

\* A text that is UTF-8 comes back from decodeUtf8() as its characters, however many.
THEOREM TextsRoundTrip ==
  ASSUME NEW characters \in Seq(Unicode)
  PROVE  RoundTrip(characters)
  <1>1. PICK n \in Nat : n = Len(characters) /\ DOMAIN characters = 1 .. n
    OBVIOUS
  <1>2. PICK coded \in Seq(Seq(Bytes)) : coded = [i \in 1 .. n |-> Encoded(characters[i])]
    <2>1. \A i \in 1 .. n : characters[i] \in Unicode
      BY <1>1
    <2>2. \A i \in 1 .. n : Encoded(characters[i]) \in Seq(Bytes)
      BY <2>1, WholeAlone
    <2>3. PICK coded : coded = [i \in 1 .. n |-> Encoded(characters[i])]
      OBVIOUS
    <2>4. coded \in [1 .. n -> Seq(Bytes)]
      BY <2>2, <2>3
    <2>5. coded \in Seq(Seq(Bytes))
      BY <2>4
    <2> QED
      BY <2>3, <2>5
  <1>3. Len(coded) = n /\ \A i \in 1 .. n : coded[i] = Encoded(characters[i])
    BY <1>2
  <1>4. PICK f \in [0 .. n -> Seq(Bytes)] : Gathers(f, coded)
    BY <1>3, Gathered
  <1>5. f[0] = <<>> /\ (\A i \in 0 .. n - 1 : f[i + 1] = f[i] \o coded[i + 1]) /\ FlattenSeq(coded) = f[n]
    <2>1. f[0] = <<>> /\ (\A i \in 1 .. n : f[i] = f[i - 1] \o coded[i]) /\ FlattenSeq(coded) = f[n]
      BY <1>3, <1>4 DEF Gathers
    <2>2. ASSUME NEW i \in 0 .. n - 1 PROVE f[i + 1] = f[i] \o coded[i + 1]
      <3>1. PICK j \in 1 .. n : j = i + 1 /\ j - 1 = i
        OBVIOUS
      <3>2. f[j] = f[j - 1] \o coded[j]
        BY <2>1
      <3> QED
        BY <3>1, <3>2
    <2> QED
      BY <2>1, <2>2
  <1> DEFINE S == {i \in 0 .. n : DecodeUtf8(f[i]) = SubSeq(characters, 1, i)}
  <1>6. 0 \in S
    <2>1. 0 \in 0 .. n /\ <<>> \in Seq(Bytes)
      OBVIOUS
    <2>2. DecodeUtf8(f[0]) = <<>>
      BY <1>5, <2>1, DecodedType
    <2>3. SubSeq(characters, 1, 0) = <<>>
      OBVIOUS
    <2> QED
      BY <2>1, <2>2, <2>3
  <1>7. ASSUME NEW i \in 0 .. n - 1, i \in S PROVE i + 1 \in S
    <2>1. PICK j \in 1 .. n : j = i + 1
      OBVIOUS
    <2>2. PICK c \in Unicode : c = characters[j]
      BY <1>1
    <2>3. coded[j] = Encoded(c) /\ f[j] = f[i] \o Encoded(c)
      BY <1>3, <1>5, <2>1, <2>2
    <2>4. f[i] \in Seq(Bytes)
      BY <1>4
    <2>5. DecodeUtf8(f[j]) = DecodeUtf8(f[i]) \o <<c>>
      <3>1. PICK front \in Seq(Bytes) : front = f[i]
        BY <2>4
      <3>2. PICK code \in Seq(Bytes) : code = Encoded(c) /\ ~Continues(code[1]) /\ DecodeUtf8(code) = <<c>>
        BY <2>2, WholeAlone
      <3>3. DecodeUtf8(front \o code) = DecodeUtf8(front) \o DecodeUtf8(code)
        BY <3>2, DecodingIsLocal
      <3> QED
        BY <2>3, <3>1, <3>2, <3>3
    <2>6. DecodeUtf8(f[i]) = SubSeq(characters, 1, i)
      BY <1>7
    <2>7. SubSeq(characters, 1, i) \o <<c>> = SubSeq(characters, 1, j)
      <3>1. PICK front : front = SubSeq(characters, 1, i)
        OBVIOUS
      <3>2. front \in Seq(Unicode) /\ Len(front) = i /\ \A k \in 1 .. i : front[k] = characters[k]
        BY <1>1, <3>1
      <3>3. PICK whole : whole = SubSeq(characters, 1, j)
        OBVIOUS
      <3>4. whole \in Seq(Unicode) /\ Len(whole) = i + 1 /\ \A k \in 1 .. i + 1 : whole[k] = characters[k]
        BY <1>1, <2>1, <3>3
      <3>5. PICK one \in Seq(Unicode) : one = <<c>> /\ Len(one) = 1 /\ one[1] = c
        <4>1. PICK one : one = <<c>>
          OBVIOUS
        <4>2. one \in Seq(Unicode) /\ Len(one) = 1 /\ one[1] = c
          BY <2>2, <4>1
        <4> QED
          BY <4>1, <4>2
      <3>6. PICK longer \in Seq(Unicode) : longer = front \o one
        BY <3>2, <3>5, ConcatProperties
      <3>7. Len(longer) = i + 1 /\ \A k \in 1 .. i + 1 : longer[k] = IF k <= i THEN front[k] ELSE one[k - i]
        BY <3>2, <3>5, <3>6, ConcatProperties
      <3>8. ASSUME NEW k \in 1 .. i + 1 PROVE longer[k] = whole[k]
        <4>1. CASE k <= i
          <5>1. k \in 1 .. i
            BY <4>1
          <5>2. longer[k] = front[k]
            BY <3>7, <4>1
          <5> QED
            BY <3>2, <3>4, <5>1, <5>2
        <4>2. CASE k = i + 1
          <5>1. ~(k <= i) /\ k - i = 1 /\ k = j
            BY <2>1, <4>2
          <5>2. longer[k] = one[1]
            BY <3>7, <5>1
          <5>3. whole[k] = characters[j]
            BY <3>4, <5>1
          <5> QED
            BY <2>2, <3>5, <5>2, <5>3
        <4> QED
          BY <4>1, <4>2
      <3>9. longer = whole
        BY <3>4, <3>7, <3>8, SeqEqual
      <3> QED
        BY <3>1, <3>3, <3>5, <3>6, <3>9
    <2>8. DecodeUtf8(f[j]) = SubSeq(characters, 1, j) /\ j \in 0 .. n
      BY <2>5, <2>6, <2>7
    <2>9. j \in S
      BY <2>8
    <2> QED
      BY <2>1, <2>9
  <1>8. n \in S
    <2> HIDE DEF S
    <2>1. \A i \in 0 .. n : i \in S
      BY <1>6, <1>7, InductionUpTo
    <2> QED
      BY <2>1
  <1>9. DecodeUtf8(FlattenSeq(coded)) = characters
    <2>1. SubSeq(characters, 1, n) = characters
      BY <1>1
    <2> QED
      BY <1>5, <1>8, <2>1
  <1> QED
    <2>1. EncodedText(characters) = FlattenSeq(coded)
      BY <1>1, <1>2 DEF EncodedText
    <2> QED
      BY <1>9, <2>1 DEF RoundTrip
=============================================================================
