------------------------------- MODULE Startup -------------------------------
(***************************************************************************)
(* From power-on to Safe Shutdown (src/src/main.cpp): the program reads    *)
(* config.json and stations.csv, which their owner edits, refuses to run   *)
(* on a mistake in either, tunes the Last Station when Radio first becomes *)
(* the Source, and saves the Station tuned before it powers the Deck off,  *)
(* as StateFile does.                                                      *)
(*                                                                         *)
(* config.json is no file, something unusable, or what it gives a value:   *)
(* the two settings, and any other key.  A value is a number, or NotWhole. *)
(* A line of stations.csv is its trimmed fields.  Positions count from 0.  *)
(***************************************************************************)
EXTENDS StateFile, Integers, SequencesExt

CONSTANTS
    Edits,          \* what its owner may have made of config.json and stations.csv
    NotWhole,       \* a value that is not a whole number
    Marked,         \* what follows the byte order mark, of the first fields that have one
    Unusable,       \* a file that can't be opened, or isn't a JSON object
    Half            \* 2^63: an unsigned number from there on wraps

\* The first Station can be saved like any other.
ASSUME StartupAssumption == Half \in Nat /\ Half > 5000 /\ 0 \in SavedStations

\* A number of 64 bits, and what the two files are.
Numbers == -Half .. 2 * Half - 1
ASSUME EditsAssumption ==
    /\ NotWhole \notin Numbers
    /\ \A files \in Edits :
           /\ files = [config |-> files.config, stations |-> files.stations]
           /\ files.config \notin {None, Unusable} =>
                  \A key \in DOMAIN files.config : files.config[key] \in Numbers \cup {NotWhole}
           /\ files.stations \in {Unusable} \cup Seq(Seq(STRING)) /\ files.stations # None

VARIABLES
    program,        \* "off", "running", "saving", or "failed": it exited with an error
    read,           \* the two files as the program read them
    config,         \* its DeckConfig
    stations,       \* stations_
    tuned           \* station_

programVars == <<program, read, config, stations, tuned>>
startupVars == <<fileVars, programVars>>

----------------------------------------------------------------------------
(* config.json.                                                            *)

Defaults == [tft_brightness |-> 100, lcd_scroll_ms |-> 300]

\* get<std::int64_t>().
Signed(number) == IF number >= Half THEN number - 2 * Half ELSE number

\* integer() returns.
Integer(value, min, max) == value # NotWhole /\ Signed(value) \in min .. max

\* A setting parseDeckConfig() accepts; any other stops it.
Accepted(key, value) ==
    \/ key = "tft_brightness" /\ Integer(value, 0, 100)
    \/ key = "lcd_scroll_ms" /\ Integer(value, 50, 5000)

\* loadDeckConfig(): a missing file gives the defaults.
ConfigLoads(file) ==
    /\ file # Unusable
    /\ file # None => \A key \in DOMAIN file : Accepted(key, file[key])

DeckConfig(file) ==
    [key \in DOMAIN Defaults |->
        IF file # None /\ key \in DOMAIN file THEN Signed(file[key]) ELSE Defaults[key]]

----------------------------------------------------------------------------
(* stations.csv.                                                           *)

Header == <<"name", "url", "logo">>

\* The first line may begin with a byte order mark, whatever follows it.
Unmarked(fields) ==
    IF fields[1] \in DOMAIN Marked THEN [fields EXCEPT ![1] = Marked[fields[1]]] ELSE fields

Skipped(fields) == fields = <<"">> \/ fields[1] = "#"

\* Mutation of ReadsLine: a line is a Station once there is a name.
ReadsLineLeniently(sofar, fields) ==
    CASE Skipped(fields) -> sofar
      [] ~Skipped(fields) /\ ~sofar.headerSeen -> [sofar EXCEPT !.headerSeen = TRUE, !.failed = @ \/ fields # Header]
      [] OTHER -> IF fields[1] # "" THEN [sofar EXCEPT !.stations = Append(@, fields)]
                                    ELSE [sofar EXCEPT !.failed = TRUE]

\* One round of parseStationsCsv()'s loop; fail() ends it.
ReadsLine(sofar, fields) ==
    CASE Skipped(fields) -> sofar
      [] ~Skipped(fields) /\ ~sofar.headerSeen -> [sofar EXCEPT !.headerSeen = TRUE, !.failed = @ \/ fields # Header]
      [] OTHER -> IF Len(fields) = 3 /\ fields[1] # "" /\ fields[2] # ""
                  THEN [sofar EXCEPT !.stations = Append(@, fields)]
                  ELSE [sofar EXCEPT !.failed = TRUE]

\* parseStationsCsv().
Parsed(lines) ==
    LET parsed[n \in 0 .. Len(lines)] ==
            IF n = 0 THEN [headerSeen |-> FALSE, failed |-> FALSE, stations |-> <<>>]
            ELSE ReadsLine(parsed[n - 1], IF n = 1 THEN Unmarked(lines[n]) ELSE lines[n])
    IN parsed[Len(lines)]

\* loadStationsCsv().
StationsLoad(file) == file # Unusable /\ Parsed(file).headerSeen /\ ~Parsed(file).failed

----------------------------------------------------------------------------
(* The program.                                                            *)

StartupInit ==
    /\ FileInit
    /\ program = "off" /\ read = None
    /\ config = Defaults /\ stations = <<>> /\ tuned = None

\* Nothing is left of a run.
IsGone ==
    /\ program' = "off" /\ read' = None
    /\ config' = Defaults /\ stations' = <<>> /\ tuned' = None

\* main(): config.json first, and stations.csv only if that is in order.
Starts(files) ==
    /\ program = "off" /\ ConfigLoads(files.config) /\ StationsLoad(files.stations)
    /\ program' = "running" /\ read' = files
    /\ config' = DeckConfig(files.config) /\ stations' = Parsed(files.stations).stations
    /\ UNCHANGED <<tuned, fileVars>>

\* An exception ends main().
ConfigFails(files) ==
    /\ program = "off" /\ ~ConfigLoads(files.config)
    /\ program' = "failed" /\ read' = [files EXCEPT !.stations = None]
    /\ UNCHANGED <<config, stations, tuned, fileVars>>

StationsFail(files) ==
    /\ program = "off" /\ ConfigLoads(files.config) /\ ~StationsLoad(files.stations)
    /\ program' = "failed" /\ read' = files
    /\ UNCHANGED <<config, stations, tuned, fileVars>>

\* systemd tries again, and when it gave up its owner does.
TriesAgain == program = "failed" /\ IsGone /\ UNCHANGED fileVars

\* Mutation of LastStation: forgets that lines may be gone.
LastStationUnchecked(remembered) == IF remembered # None THEN remembered ELSE 0

\* lastStation().
LastStation(remembered) ==
    IF remembered # None /\ remembered < Len(stations) THEN remembered ELSE 0

\* Radio becomes the Source for the first time in this run.
FirstRadio ==
    /\ program = "running" /\ tuned = None /\ stations # <<>>
    /\ tuned' = LastStation(RememberedStation(seen.path))
    /\ UNCHANGED <<program, read, config, stations, fileVars>>

\* Another Station is tuned.
Tunes(station) ==
    /\ program = "running" /\ tuned # None /\ station < Len(stations)
    /\ tuned' = station
    /\ UNCHANGED <<program, read, config, stations, fileVars>>

\* onEjectHeld(): only a Station tuned this run is saved.
SafeShutdown ==
    /\ program = "running"
    /\ \/ tuned # None /\ Begin(tuned) /\ program' = "saving"
          /\ UNCHANGED <<read, config, stations, tuned>>
       \/ tuned = None /\ IsGone /\ UNCHANGED fileVars

Saves ==
    /\ Opens \/ Writes \/ Flushes \/ Renames \/ FlushesDirectory \/ DirectoryNotFlushed \/ GivesUp
    /\ UNCHANGED programVars

PowersOff == program = "saving" /\ step = "idle" /\ IsGone /\ UNCHANGED fileVars

\* The program is stopped, crashes, or is killed.
Stops ==
    /\ program \in {"running", "saving"} /\ IsGone
    /\ IF step = "idle" THEN UNCHANGED fileVars ELSE ProgramRestarts

StartupNext ==
    \/ \E files \in Edits : Starts(files) \/ ConfigFails(files) \/ StationsFail(files)
    \/ TriesAgain
    \/ \E station \in SavedStations : Tunes(station)
    \/ FirstRadio \/ SafeShutdown \/ Saves \/ PowersOff \/ Stops
    \/ PowerCut /\ IsGone

StartupSpec == StartupInit /\ [][StartupNext]_startupVars

----------------------------------------------------------------------------
(* Properties.                                                             *)

\* What the documentation asks of config.json: only settings it knows, each a whole
\* number in its range.
ConfigInOrder(file) ==
    /\ file # Unusable
    /\ file = None \/ \A key \in DOMAIN file :
          /\ key \in DOMAIN Defaults
          /\ file[key] \in IF key = "tft_brightness" THEN 0 .. 100 ELSE 50 .. 5000

\* And of stations.csv: the lines that count are the header and then, line by line, the Stations.
CountingLines(file) ==
    LET lines == [file EXCEPT ![1] = Unmarked(@)]
        counting[n \in 0 .. Len(lines)] ==
            IF n = 0 THEN <<>>
            ELSE IF Skipped(lines[n]) THEN counting[n - 1] ELSE Append(counting[n - 1], lines[n])
    IN counting[Len(lines)]

StationsInOrder(file) ==
    /\ file \notin {Unusable, <<>>}
    /\ CountingLines(file) # <<>> /\ Head(CountingLines(file)) = Header
    /\ \A fields \in ToSet(Tail(CountingLines(file))) :
          Len(fields) = 3 /\ "" \notin {fields[1], fields[2]}

\* The Deck runs with all of what its owner wrote in the two files, or it doesn't run:
\* no mistake leaves a setting at its default or a Station out of the list.
FilesDecide ==
    /\ program = "failed" =>
          IF read.stations = None THEN ~ConfigInOrder(read.config)
          ELSE ConfigInOrder(read.config) /\ ~StationsInOrder(read.stations)
    /\ program \in {"running", "saving"} =>
          /\ ConfigInOrder(read.config) /\ StationsInOrder(read.stations)
          /\ stations = Tail(CountingLines(read.stations))
          /\ \A key \in DOMAIN config :
                config[key] = IF read.config # None /\ key \in DOMAIN read.config
                              THEN read.config[key] ELSE Defaults[key]

\* Radio comes back on the Station that was tuned at the last Safe Shutdown whose save
\* went through, also if the power was cut after it, unless the list is too short for it
\* by now; then on the first.  So docs/architecture.md:85; its line 57 would have the
\* first switch to Radio tune the first Station whatever was saved.
RadioComesBack ==
    [][tuned = None /\ tuned' # None =>
         tuned' = IF saved \in SavedStations /\ saved < Len(stations) THEN saved ELSE 0]_startupVars
=============================================================================
