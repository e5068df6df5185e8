---------------------------- MODULE StartupProofs ----------------------------
(***************************************************************************)
(* Proofs about StateFile and Startup, for any Stations and any two files  *)
(* their owner may write: the Station memory keeps its promise whatever    *)
(* fails and whenever the power goes, and Radio comes back on what was     *)
(* saved.  What carries both is that only a whole, flushed file is ever    *)
(* renamed, so no file path_ may name on the card is torn.  And the Deck   *)
(* runs with all that the two files say, or not at all: line by line, what *)
(* parseStationsCsv() has so far is what the lines that count amount to.   *)
(***************************************************************************)
EXTENDS Startup, Recursion

Whole == [content : SavedStations \cup {None}, flushed : {TRUE}]

Outcomes == {"none", "saved", "failed"}

Steps == {"idle", "open", "write", "flush", "rename", "directory"}

\* Where the save is, and what the temporary file holds by then.
SaveInOrder ==
    /\ step \in Steps
    /\ IF step = "idle" THEN saving = None ELSE saving \in SavedStations
    /\ step = "flush" => seen.temporary.content = saving
    /\ step = "rename" => seen.temporary.content = saving /\ seen.temporary.flushed = TRUE
    /\ step = "directory" => seen.path.content = saving

\* Once all calls of a save have gone through, path_ names one file only.
SavedForGood ==
    /\ outcome \in Outcomes
    /\ step # "idle" => outcome = "none"
    /\ outcome = "saved" => onCard = {seen.path} /\ saved \in SavedStations

\* The file on the card, and the Station saved.
FileInv ==
    /\ seen \in [path : Whole, temporary : [content : SavedStations \cup {None, Torn},
                                            flushed : BOOLEAN]]
    /\ onCard \subseteq Whole
    /\ SaveInOrder
    /\ step # "directory" => saved = RememberedStation(seen.path)
    /\ SavedForGood

\* The program writes only while it saves, and only what was tuned.
StartupInv ==
    /\ FileInv
    /\ program # "saving" => step = "idle"
    /\ tuned \in SavedStations \cup {None}

----------------------------------------------------------------------------
(* The file.                                                               *)

\* A power cut leaves whole, flushed files as they are.
LEMMA NothingTorn ==
    ASSUME NEW files, files \subseteq Whole
    PROVE  UNION {Left(file) : file \in files} = files
  <1>1. \A file \in files : Left(file) = {file}
    BY DEF Left, Whole
  <1> QED
    BY <1>1

\* The steps of a save, a power cut and a restart keep the file in order.
LEMMA FileStarts == FileInit => FileInv
  BY DEF FileInit, FileInv, SaveInOrder, SavedForGood, Whole, Steps, Outcomes, File, NoFile,
         RememberedStation

\* Every step of a save, every failure and power cut keeps it.
LEMMA FileStays ==
    ASSUME FileInv,
           \/ \E station \in SavedStations : Begin(station)
           \/ Opens \/ Writes \/ Flushes \/ Renames
           \/ FlushesDirectory \/ DirectoryNotFlushed \/ GivesUp
           \/ PowerCut \/ ProgramRestarts
    PROVE  FileInv'
  <1>1. CASE \E station \in SavedStations : Begin(station)
    BY <1>1 DEF Begin, FileInv, SaveInOrder, SavedForGood, Outcomes, Steps, RememberedStation
  <1>2. CASE Opens
    BY <1>2 DEF Opens, FileInv, SaveInOrder, SavedForGood, Outcomes, Steps, RememberedStation, File
  <1>3. CASE Writes
    BY <1>3 DEF Writes, FileInv, SaveInOrder, SavedForGood, Outcomes, Steps, RememberedStation, File
  <1>4. CASE Flushes
    <2>1. seen.temporary.content = saving /\ saving \in SavedStations
      BY <1>4 DEF Flushes, FileInv, SaveInOrder
    <2>2. /\ seen'.path = seen.path
          /\ seen'.temporary.content = saving /\ seen'.temporary.flushed = TRUE
          /\ seen' \in [path : Whole, temporary : [content : SavedStations \cup {None, Torn},
                                                  flushed : BOOLEAN]]
      BY <1>4, <2>1 DEF Flushes, FileInv
    <2>3. step' = "rename" /\ UNCHANGED <<onCard, saving, saved, outcome>>
      BY <1>4 DEF Flushes
    <2>5. SavedForGood'
      BY <1>4, <2>3 DEF Flushes, FileInv, SavedForGood
    <2>4. saved = RememberedStation(seen.path)
      BY <1>4 DEF Flushes, FileInv
    <2> QED
      BY <2>1, <2>2, <2>3, <2>4, <2>5 DEF FileInv, SaveInOrder, Steps, RememberedStation
  <1>5. CASE Renames
    <2>1. seen.temporary \in Whole /\ seen.temporary.content = saving
      BY <1>5 DEF Renames, FileInv, SaveInOrder, Whole
    <2>2. NoFile \in [content : SavedStations \cup {None, Torn}, flushed : BOOLEAN]
      BY DEF NoFile, File
    <2>3. /\ seen' = [path |-> seen.temporary, temporary |-> NoFile]
          /\ onCard' = onCard \cup {seen.temporary}
          /\ step' = "directory" /\ saving' = saving
      BY <1>5 DEF Renames
    <2>4. saving \in SavedStations
      BY <1>5 DEF Renames, FileInv, SaveInOrder
    <2>5. SaveInOrder'
      BY <2>1, <2>3, <2>4 DEF SaveInOrder, Steps
    <2>6. SavedForGood'
      BY <1>5 DEF Renames, FileInv, SavedForGood
    <2> QED
      BY <2>1, <2>2, <2>3, <2>5, <2>6 DEF FileInv
  <1>6. CASE FlushesDirectory \/ DirectoryNotFlushed
    <2>1. seen.path.content = saving /\ saving \in SavedStations /\ seen.path \in Whole
      BY <1>6 DEF FlushesDirectory, DirectoryNotFlushed, FileInv, SaveInOrder
    <2>2. RememberedStation(seen.path) = saving
      BY <2>1 DEF RememberedStation, File
    <2>3. /\ seen' = seen /\ step' = "idle" /\ saving' = None /\ saved' = saving
          /\ \/ onCard' = {seen.path} /\ outcome' = "saved"
             \/ onCard' = onCard /\ outcome' = "failed"
      BY <1>6 DEF FlushesDirectory, DirectoryNotFlushed
    <2>4. onCard' \subseteq Whole
      BY <2>1, <2>3 DEF FileInv
    <2>5. saved' = RememberedStation(seen'.path)
      BY <2>2, <2>3
    <2>6. SavedForGood'
      BY <2>1, <2>3 DEF SavedForGood, Outcomes
    <2> QED
      BY <2>3, <2>4, <2>5, <2>6 DEF FileInv, SaveInOrder, Steps, RememberedStation
  <1>7. CASE GivesUp
    BY <1>7 DEF GivesUp, FileInv, SaveInOrder, SavedForGood, Outcomes, Steps, RememberedStation, File, NoFile
  <1>8. CASE PowerCut
    <2>1. PICK path \in LeftAtPath, temporary \in Left(seen.temporary) \cup {NoFile} :
              /\ seen' = [path |-> File(path.content, TRUE),
                          temporary |-> File(temporary.content, TRUE)]
              /\ onCard' = {File(path.content, TRUE)}
              /\ saved' = IF outcome = "saved" THEN saved ELSE RememberedStation(path)
      BY <1>8 DEF PowerCut
    <2>2. path \in onCard /\ path \in Whole
      BY NothingTorn DEF LeftAtPath, FileInv
    <2>5. saved' = RememberedStation(path)
      <3>1. CASE outcome = "saved"
        <4>1. path = seen.path /\ saved = RememberedStation(seen.path)
          BY <2>2, <3>1 DEF FileInv, SavedForGood
        <4> QED
          BY <2>1, <3>1, <4>1
      <3> QED
        BY <2>1, <3>1
    <2>3. temporary.content \in SavedStations \cup {None, Torn}
      BY DEF Left, FileInv, File, NoFile
    <2>4. step' = "idle" /\ saving' = None /\ outcome' = "none"
      BY <1>8 DEF PowerCut
    <2>6. SavedForGood'
      BY <2>4 DEF SavedForGood, Outcomes
    <2> QED
      BY <2>1, <2>2, <2>3, <2>4, <2>5, <2>6
         DEF FileInv, SaveInOrder, Steps, Whole, File, RememberedStation
  <1>9. CASE ProgramRestarts
    BY <1>9 DEF ProgramRestarts, FileInv, SaveInOrder, SavedForGood, Outcomes, Steps, RememberedStation
  <1> QED
    BY <1>1, <1>2, <1>3, <1>4, <1>5, <1>6, <1>7, <1>8, <1>9

----------------------------------------------------------------------------
(* The refinement: what may come back after a power cut.                   *)

Survivors == {RememberedStation(file) : file \in LeftAtPath}

\* The memory begins as it should.
LEMMA MemoryStarts == FileInit => Memory!MemoryInit
  <1> SUFFICES ASSUME FileInit PROVE Memory!MemoryInit
    OBVIOUS
  <1>1. PICK content \in SavedStations \cup {None} : onCard = {File(content, TRUE)}
    BY DEF FileInit
  <1>2. LeftAtPath = {File(content, TRUE)}
    BY <1>1, FileStarts, NothingTorn DEF LeftAtPath, FileInv
  <1>3. RememberedStation(File(content, TRUE)) = content
    BY DEF RememberedStation, File
  <1>4. Survivors = {content}
    BY <1>2, <1>3 DEF Survivors
  <1> QED
    BY <1>4 DEF Memory!MemoryInit, Survivors, FileInit

\* Every step of a save is a step of the memory, or none.
LEMMA StepsAreMemorys ==
    ASSUME FileInv,
           \/ \E station \in SavedStations : Begin(station)
           \/ Opens \/ Writes \/ Flushes \/ Renames
           \/ FlushesDirectory \/ DirectoryNotFlushed \/ GivesUp
           \/ PowerCut \/ ProgramRestarts
    PROVE  [Memory!MemoryNext]_Memory!memoryVars
  <1>1. Survivors = {RememberedStation(file) : file \in onCard}
    BY NothingTorn DEF Survivors, LeftAtPath, FileInv
  <1>2. Survivors' = {RememberedStation(file) : file \in onCard'}
    <2>1. onCard' \subseteq Whole
      BY FileStays DEF FileInv
    <2>2. UNION {Left(file) : file \in onCard'} = onCard'
      BY <2>1, NothingTorn
    <2> QED
      BY <2>2 DEF Survivors, LeftAtPath, RememberedStation, Left
  <1>3. CASE \E station \in SavedStations : Begin(station)
    <2>1. /\ Survivors' = Survivors /\ saving = None /\ saving' \in SavedStations
          /\ outcome' = "none"
      BY <1>1, <1>2, <1>3 DEF Begin, FileInv, SaveInOrder
    <2> QED
      BY <2>1 DEF Survivors, Memory!MemoryNext, Memory!SaveBegins
  <1>4. CASE Opens \/ Writes \/ Flushes
    <2>1. Survivors' = Survivors /\ saving' = saving /\ outcome' = outcome
      BY <1>1, <1>2, <1>4 DEF Opens, Writes, Flushes
    <2> QED
      BY <2>1 DEF Survivors, Memory!memoryVars
  <1>5. CASE Renames
    <2>1. /\ saving # None /\ saving' = saving /\ outcome' = outcome
          /\ RememberedStation(seen.temporary) = saving
          /\ onCard' = onCard \cup {seen.temporary}
      BY <1>5, StateFileAssumption
         DEF Renames, FileInv, SaveInOrder, RememberedStation, File
    <2>2. Survivors' = Survivors \cup {saving}
      BY <1>1, <1>2, <2>1
    <2> QED
      BY <2>1, <2>2 DEF Survivors, Memory!MemoryNext, Memory!SaveAdvances
  <1>6. CASE FlushesDirectory
    <2>1. /\ saving # None /\ saving' = None /\ outcome' = "saved"
          /\ RememberedStation(seen.path) = saving
          /\ onCard' = {seen.path}
      BY <1>6, StateFileAssumption
         DEF FlushesDirectory, FileInv, SaveInOrder, RememberedStation, File
    <2>2. Survivors' = {saving}
      BY <1>1, <1>2, <2>1
    <2> QED
      BY <2>1, <2>2 DEF Survivors, Memory!MemoryNext, Memory!SaveSucceeds
  <1>7. CASE GivesUp \/ DirectoryNotFlushed
    <2>1. Survivors' = Survivors /\ saving # None /\ saving' = None /\ outcome' = "failed"
      BY <1>1, <1>2, <1>7, StateFileAssumption
         DEF GivesUp, DirectoryNotFlushed, FileInv, SaveInOrder
    <2> QED
      BY <2>1 DEF Survivors, Memory!MemoryNext, Memory!SaveFails
  <1>9. CASE ProgramRestarts
    <2>1. Survivors' = Survivors /\ saving # None /\ saving' = None /\ outcome' = "none"
      BY <1>1, <1>2, <1>9, StateFileAssumption DEF ProgramRestarts, FileInv, SaveInOrder
    <2> QED
      BY <2>1 DEF Survivors, Memory!MemoryNext, Memory!SaveBreaksOff
  <1>8. CASE PowerCut
    <2>1. PICK path \in LeftAtPath : onCard' = {File(path.content, TRUE)}
      BY <1>8 DEF PowerCut
    <2>2. Survivors' = {RememberedStation(path)} /\ saving' = None /\ outcome' = "none"
      BY <1>2, <1>8, <2>1 DEF RememberedStation, File, PowerCut
    <2>3. RememberedStation(path) \in Survivors
      BY DEF Survivors
    <2> QED
      BY <2>2, <2>3 DEF Survivors, Memory!MemoryNext, Memory!DeckRestarts
  <1> QED
    BY <1>3, <1>4, <1>5, <1>6, <1>7, <1>8, <1>9

\* StateFile keeps what core/station_memory.hpp lets PlayerController expect, whichever
\* step of a save fails and whenever the power goes.
THEOREM FileKeepsPromise == FileSpec => MemoryPromise
  <1>1. FileInv /\ [FileNext]_fileVars => FileInv' /\ [Memory!MemoryNext]_Memory!memoryVars
    <2> SUFFICES ASSUME FileInv, [FileNext]_fileVars
                 PROVE  FileInv' /\ [Memory!MemoryNext]_Memory!memoryVars
      OBVIOUS
    <2>1. CASE FileNext
      BY <2>1, FileStays, StepsAreMemorys DEF FileNext
    <2>2. CASE UNCHANGED fileVars
      BY <2>2 DEF fileVars, FileInv, SaveInOrder, SavedForGood, RememberedStation, Memory!memoryVars,
                  LeftAtPath, Left
    <2> QED
      BY <2>1, <2>2
  <1> QED
    BY <1>1, FileStarts, MemoryStarts, PTL DEF FileSpec, MemoryPromise, Memory!MemorySpec

----------------------------------------------------------------------------
(* The program that saves.                                                 *)

\* A step of Startup is a step of the file, or leaves it alone.
LEMMA StartupSteps ==
    ASSUME StartupInv, [StartupNext]_startupVars
    PROVE  /\ StartupInv'
           /\ [FileNext]_fileVars
           /\ tuned = None /\ tuned' # None => FirstRadio
  <1>1. CASE \/ \E files \in Edits : Starts(files) \/ ConfigFails(files) \/ StationsFail(files)
             \/ TriesAgain \/ PowersOff \/ UNCHANGED startupVars
    <2>1. UNCHANGED fileVars /\ tuned' \in {tuned, None} /\ (program' = "saving" => program = "saving")
      BY <1>1 DEF Starts, ConfigFails, StationsFail, TriesAgain, PowersOff, IsGone, startupVars,
                  programVars
    <2>2. program' # "saving" => step' = "idle"
      BY <1>1, <2>1 DEF PowersOff, StartupInv, fileVars, Starts, ConfigFails, StationsFail,
                        TriesAgain, startupVars, programVars
    <2> QED
      BY <2>1, <2>2 DEF StartupInv, FileInv, SaveInOrder, SavedForGood, RememberedStation, fileVars
  <1>2. CASE FirstRadio
    <2>1. UNCHANGED fileVars /\ program' = program
      BY <1>2 DEF FirstRadio
    <2>2. tuned' \in SavedStations
      BY <1>2, StartupAssumption DEF FirstRadio, LastStation, RememberedStation
    <2> QED
      BY <1>2, <2>1, <2>2 DEF StartupInv, FileInv, SaveInOrder, SavedForGood, RememberedStation, fileVars
  <1>3. CASE \E station \in SavedStations : Tunes(station)
    BY <1>3 DEF Tunes, StartupInv, FileInv, SaveInOrder, SavedForGood, RememberedStation, fileVars
  <1>4. CASE SafeShutdown
    <2>1. CASE tuned # None /\ Begin(tuned) /\ program' = "saving" /\ tuned' = tuned
      <3>1. tuned \in SavedStations
        BY <2>1 DEF StartupInv
      <3>2. FileInv'
        BY <2>1, <3>1, FileStays DEF StartupInv
      <3> QED
        BY <2>1, <3>1, <3>2 DEF StartupInv, FileNext
    <2>2. CASE tuned = None /\ IsGone /\ UNCHANGED fileVars
      BY <1>4, <2>2 DEF SafeShutdown, IsGone, StartupInv, FileInv, SaveInOrder,
                        SavedForGood, RememberedStation, fileVars
    <2> QED
      BY <1>4, <2>1, <2>2 DEF SafeShutdown
  <1>5. CASE Saves
    <2>1. FileInv' /\ FileNext
      BY <1>5, FileStays DEF Saves, StartupInv, FileNext
    <2>2. step # "idle"
      BY <1>5 DEF Saves, Opens, Writes, Flushes, Renames, FlushesDirectory, DirectoryNotFlushed,
                      GivesUp
    <2> QED
      BY <1>5, <2>1, <2>2 DEF Saves, StartupInv, programVars
  <1>6. CASE Stops
    <2>1. CASE step = "idle" /\ UNCHANGED fileVars
      BY <1>6, <2>1 DEF Stops, IsGone, StartupInv, FileInv, SaveInOrder, SavedForGood, RememberedStation, fileVars
    <2>2. CASE ProgramRestarts
      <3>1. FileInv' /\ FileNext /\ step' = "idle"
        BY <2>2, FileStays DEF StartupInv, FileNext, ProgramRestarts
      <3> QED
        BY <1>6, <3>1 DEF Stops, IsGone, StartupInv
    <2> QED
      BY <1>6, <2>1, <2>2 DEF Stops
  <1>7. CASE PowerCut /\ IsGone
    <2>1. FileInv' /\ FileNext /\ step' = "idle"
      BY <1>7, FileStays DEF StartupInv, FileNext, PowerCut
    <2> QED
      BY <1>7, <2>1 DEF IsGone, StartupInv
  <1> QED
    BY <1>1, <1>2, <1>3, <1>4, <1>5, <1>6, <1>7 DEF StartupNext

\* It holds before the first run.
LEMMA StartupStarts == StartupInit => StartupInv
  BY FileStarts DEF StartupInit, StartupInv, FileInit

\* The promise is kept as main() uses StateFile, too.
THEOREM MemoryKept == StartupSpec => MemoryPromise
  <1>1. StartupInv /\ [StartupNext]_startupVars
          => StartupInv' /\ [Memory!MemoryNext]_Memory!memoryVars
    <2> SUFFICES ASSUME StartupInv, [StartupNext]_startupVars
                 PROVE  StartupInv' /\ [Memory!MemoryNext]_Memory!memoryVars
      OBVIOUS
    <2>1. CASE FileNext
      BY <2>1, StartupSteps, StepsAreMemorys DEF FileNext, StartupInv
    <2>2. CASE UNCHANGED fileVars
      BY <2>2, StartupSteps DEF fileVars, RememberedStation, Memory!memoryVars, LeftAtPath, Left
    <2> QED
      BY <2>1, <2>2, StartupSteps
  <1>2. StartupInit => Memory!MemoryInit
    BY MemoryStarts DEF StartupInit
  <1> QED
    BY <1>1, <1>2, StartupStarts, PTL DEF StartupSpec, MemoryPromise, Memory!MemorySpec

\* Radio comes back on the Station of the last Safe Shutdown whose save went through,
\* or on the first when lastStation() finds the list too short.
THEOREM LastStationComesBack == StartupSpec => RadioComesBack
  <1>1. ASSUME StartupInv, FirstRadio
        PROVE  tuned' = IF saved \in SavedStations /\ saved < Len(stations) THEN saved ELSE 0
    <2>1. saved = RememberedStation(seen.path)
      BY <1>1 DEF StartupInv, FileInv, FirstRadio
    <2> QED
      BY <1>1, <2>1, StateFileAssumption DEF FirstRadio, LastStation, RememberedStation
  <1>2. StartupInv /\ [StartupNext]_startupVars => StartupInv'
    BY StartupSteps
  <1>3. StartupInv /\ [StartupNext]_startupVars =>
           [tuned = None /\ tuned' # None =>
              tuned' = IF saved \in SavedStations /\ saved < Len(stations)
                       THEN saved ELSE 0]_startupVars
    BY <1>1, StartupSteps
  <1> QED
    BY <1>2, <1>3, StartupStarts, PTL DEF StartupSpec, RadioComesBack

----------------------------------------------------------------------------
(* What main() makes of the two files.                                     *)

\* config.json is loaded if and only if it is in order, and then for what it says.
LEMMA ConfigRead ==
    ASSUME NEW files \in Edits
    PROVE  /\ ConfigLoads(files.config) <=> ConfigInOrder(files.config)
           /\ ConfigLoads(files.config) => \A key \in DOMAIN Defaults :
                  DeckConfig(files.config)[key] =
                      IF files.config # None /\ key \in DOMAIN files.config
                      THEN files.config[key] ELSE Defaults[key]
  <1> DEFINE file == files.config
  <1>1. Half \in Nat /\ Half > 5000 /\ NotWhole \notin Numbers
    BY StartupAssumption, EditsAssumption
  <1>2. DOMAIN Defaults = {"tft_brightness", "lcd_scroll_ms"}
    BY DEF Defaults
  <1>3. file \notin {None, Unusable} => \A key \in DOMAIN file : file[key] \in Numbers \cup {NotWhole}
    BY EditsAssumption
  <1>4. PICK limit \in Nat : limit = 5000
    OBVIOUS
  <1>5. Half > limit
    BY <1>1, <1>4
  <1>6. ASSUME NEW value \in Numbers \cup {NotWhole}, NEW least \in Nat, NEW most \in Nat, most <= limit
        PROVE  /\ Integer(value, least, most) <=> value \in least .. most
               /\ Integer(value, least, most) => Signed(value) = value
    <2>1. \A number \in least .. most : number \in Nat /\ number <= limit
      BY <1>6
    <2>2. \A number \in Nat : number <= limit => number \in Numbers
      BY <1>1, <1>5 DEF Numbers
    <2>3. CASE value = NotWhole
      <3>1. NotWhole \notin least .. most
        BY <1>1, <2>1, <2>2
      <3> QED
        BY <2>3, <3>1 DEF Integer
    <2>4. CASE value \in Numbers /\ value # NotWhole
      <3> DEFINE wraps == value >= Half
      <3>1. value \in Int /\ value < 2 * Half
        BY <1>1, <2>4 DEF Numbers
      <3>2. wraps => Signed(value) < 0 /\ Signed(value) \in Int /\ value > limit
        BY <1>1, <1>5, <3>1 DEF Signed
      <3>3. ~wraps => Signed(value) = value
        BY DEF Signed
      <3>4. Integer(value, least, most) <=> Signed(value) \in least .. most
        BY <2>4 DEF Integer
      <3> HIDE DEF wraps
      <3>5. wraps => Signed(value) \notin least .. most /\ value \notin least .. most
        BY <2>1, <3>1, <3>2
      <3> QED
        BY <3>3, <3>4, <3>5
    <2> QED
      BY <2>3, <2>4
  <1>7. ASSUME NEW key, NEW value \in Numbers \cup {NotWhole}
        PROVE  /\ Accepted(key, value) <=>
                      /\ key \in DOMAIN Defaults
                      /\ value \in IF key = "tft_brightness" THEN 0 .. 100 ELSE 50 .. 5000
               /\ Accepted(key, value) => Signed(value) = value
    <2>1. /\ Integer(value, 0, 100) <=> value \in 0 .. 100
          /\ Integer(value, 0, 100) => Signed(value) = value
      <3>1. 0 \in Nat /\ 100 \in Nat /\ 100 <= limit
        BY <1>4
      <3> QED
        BY <1>6, <3>1
    <2>2. /\ Integer(value, 50, 5000) <=> value \in 50 .. 5000
          /\ Integer(value, 50, 5000) => Signed(value) = value
      <3>1. 50 \in Nat /\ limit <= limit
        OBVIOUS
      <3>2. /\ Integer(value, 50, limit) <=> value \in 50 .. limit
            /\ Integer(value, 50, limit) => Signed(value) = value
        BY <1>6, <3>1
      <3> QED
        BY <1>4, <3>2
    <2> QED
      BY <1>2, <2>1, <2>2 DEF Accepted
  <1> HIDE DEF file
  <1>8. ConfigLoads(file) <=> ConfigInOrder(file)
    BY <1>3, <1>7 DEF ConfigLoads, ConfigInOrder
  <1>9. ASSUME ConfigLoads(file), NEW key \in DOMAIN Defaults
        PROVE  DeckConfig(file)[key] =
                   IF file # None /\ key \in DOMAIN file THEN file[key] ELSE Defaults[key]
    <2>1. DeckConfig(file)[key] =
              IF file # None /\ key \in DOMAIN file THEN Signed(file[key]) ELSE Defaults[key]
      BY DEF DeckConfig
    <2>2. file # None /\ key \in DOMAIN file => Signed(file[key]) = file[key]
      BY <1>3, <1>7, <1>9 DEF ConfigLoads
    <2> QED
      BY <2>1, <2>2
  <1> QED
    BY <1>8, <1>9 DEF file

\* How far parseStationsCsv() is.
\* Switches, which the provers had better take for any two values.
Yes == TRUE
No  == FALSE
Switches == {Yes, No}
Sofar(headerSeen, failed, list) == [headerSeen |-> headerSeen, failed |-> failed, stations |-> list]

\* A Station's line.
Complete(fields) == Len(fields) = 3 /\ fields[1] # "" /\ fields[2] # ""

\* A round of its loop.
LEMMA ReadsLineOf ==
    ASSUME NEW headerSeen \in Switches, NEW failed \in Switches, NEW list, NEW fields, NEW sofar,
           sofar = Sofar(headerSeen, failed, list)
    PROVE  /\ Skipped(fields) => ReadsLine(sofar, fields) = sofar
           /\ ~Skipped(fields) /\ headerSeen = No =>
                  ReadsLine(sofar, fields) =
                      Sofar(Yes, IF failed = Yes \/ fields # Header THEN Yes ELSE No, list)
           /\ ~Skipped(fields) /\ headerSeen = Yes /\ Complete(fields) =>
                  ReadsLine(sofar, fields) = Sofar(Yes, failed, Append(list, fields))
           /\ ~Skipped(fields) /\ headerSeen = Yes /\ ~Complete(fields) =>
                  ReadsLine(sofar, fields) = Sofar(Yes, Yes, list)
  <1>1. sofar.headerSeen = headerSeen /\ sofar.failed = failed /\ sofar.stations = list
    BY DEF Sofar
  <1> DEFINE failing == sofar.failed \/ fields # Header
             skip == Skipped(fields)
             complete == Complete(fields)
  <1>2. failing = IF failed = Yes \/ fields # Header THEN Yes ELSE No
    BY <1>1 DEF Switches, Yes, No
  <1>3. skip \in BOOLEAN /\ complete \in BOOLEAN
    BY DEF Skipped, Complete
  <1>4. ReadsLine(sofar, fields) =
            CASE skip -> sofar
              [] ~skip /\ ~sofar.headerSeen -> [sofar EXCEPT !.headerSeen = Yes, !.failed = failing]
              [] OTHER -> IF complete THEN [sofar EXCEPT !.stations = Append(list, fields)]
                                      ELSE [sofar EXCEPT !.failed = Yes]
    BY <1>1 DEF ReadsLine, Complete, Yes
  <1> HIDE DEF failing, skip, complete
  <1>5. /\ [sofar EXCEPT !.headerSeen = Yes, !.failed = failing] = Sofar(Yes, failing, list)
        /\ [sofar EXCEPT !.stations = Append(list, fields)] = Sofar(headerSeen, failed, Append(list, fields))
        /\ [sofar EXCEPT !.failed = Yes] = Sofar(headerSeen, Yes, list)
    <2>0. sofar = [headerSeen |-> headerSeen, failed |-> failed, stations |-> list]
      BY DEF Sofar
    <2>1. [sofar EXCEPT !.headerSeen = Yes, !.failed = failing] = Sofar(Yes, failing, list)
      <3>1. [sofar EXCEPT !.headerSeen = Yes, !.failed = failing]
               = [[sofar EXCEPT !.headerSeen = Yes] EXCEPT !.failed = failing]
        OBVIOUS
      <3>2. PICK first : first = [sofar EXCEPT !.headerSeen = Yes]
        OBVIOUS
      <3> HIDE DEF Yes
      <3>3. first = [headerSeen |-> Yes, failed |-> failed, stations |-> list]
        BY <2>0, <3>2
      <3>4. [first EXCEPT !.failed = failing] = [headerSeen |-> Yes, failed |-> failing, stations |-> list]
        BY <3>3
      <3> QED
        BY <3>1, <3>2, <3>4 DEF Sofar
    <2>2. [sofar EXCEPT !.stations = Append(list, fields)] = Sofar(headerSeen, failed, Append(list, fields))
      BY <2>0 DEF Sofar
    <2>3. [sofar EXCEPT !.failed = Yes] = Sofar(headerSeen, Yes, list)
      BY <2>0 DEF Sofar
    <2> QED
      BY <2>1, <2>2, <2>3
  <1>6. sofar.headerSeen <=> headerSeen = Yes
    BY <1>1 DEF Switches, Yes, No
  <1>7. PICK a, b, c : /\ a = [sofar EXCEPT !.headerSeen = Yes, !.failed = failing]
                       /\ b = [sofar EXCEPT !.stations = Append(list, fields)]
                       /\ c = [sofar EXCEPT !.failed = Yes]
    OBVIOUS
  <1>8. PICK seen1 \in BOOLEAN : seen1 = (headerSeen = Yes)
    OBVIOUS
  <1>9. ReadsLine(sofar, fields) =
            CASE skip -> sofar
              [] ~skip /\ ~seen1 -> a
              [] OTHER -> IF complete THEN b ELSE c
    BY <1>4, <1>6, <1>7, <1>8
  <1>10. headerSeen = No => ~seen1
    BY <1>8 DEF Yes, No
  <1>11. /\ skip => ReadsLine(sofar, fields) = sofar
         /\ ~skip /\ headerSeen = No => ReadsLine(sofar, fields) = a
         /\ ~skip /\ headerSeen = Yes /\ complete => ReadsLine(sofar, fields) = b
         /\ ~skip /\ headerSeen = Yes /\ ~complete => ReadsLine(sofar, fields) = c
    BY <1>3, <1>8, <1>9, <1>10
  <1> QED
    BY <1>2, <1>5, <1>7, <1>11 DEF skip, complete

\* The lines that count are in order: the header, and Stations.
Ordered(lines) == lines[1] = Header /\ \A i \in 2 .. Len(lines) : Complete(lines[i])

\* What parseStationsCsv() knows of the lines that count so far.
Agrees(sofar, lines) ==
    \E headerSeen, failed, list :
        /\ headerSeen \in Switches /\ failed \in Switches
        /\ sofar = Sofar(headerSeen, failed, list)
        /\ headerSeen = Yes <=> lines # <<>>
        /\ failed = No <=> (lines = <<>> \/ Ordered(lines))
        /\ list = IF lines = <<>> THEN <<>> ELSE IF failed = No THEN Tail(lines) ELSE list

\* One line more.
LEMMA OneLineMore ==
    ASSUME NEW A, NEW lines \in Seq(A), NEW fields \in A, NEW sofar, Agrees(sofar, lines)
    PROVE  Agrees(ReadsLine(sofar, fields), IF Skipped(fields) THEN lines ELSE Append(lines, fields))
  <1>1. PICK headerSeen, failed, list :
            /\ headerSeen \in Switches /\ failed \in Switches
            /\ sofar = Sofar(headerSeen, failed, list)
            /\ headerSeen = Yes <=> lines # <<>>
            /\ failed = No <=> (lines = <<>> \/ Ordered(lines))
            /\ list = IF lines = <<>> THEN <<>> ELSE IF failed = No THEN Tail(lines) ELSE list
    BY DEF Agrees
  <1>2. PICK more \in Seq(A), n \in Nat : more = Append(lines, fields) /\ n = Len(lines)
    BY AppendProperties, LenProperties
  <1>3. /\ Len(more) = n + 1 /\ more # <<>> /\ more[n + 1] = fields
        /\ \A i \in 1 .. n : more[i] = lines[i]
    BY <1>2
  <1>4. lines = <<>> <=> n = 0
    BY <1>2, EmptySeq
  <1>5. Yes # No
    BY DEF Yes, No
  <1>6. CASE Skipped(fields)
    <2>1. ReadsLine(sofar, fields) = sofar
      BY <1>1, <1>6, ReadsLineOf
    <2> QED
      BY <1>6, <2>1
  <1>7. CASE ~Skipped(fields) /\ lines = <<>>
    <2>1. headerSeen = No /\ failed = No /\ list = <<>>
      BY <1>1, <1>7 DEF Switches
    <2>2. PICK failing \in Switches : failing = IF failed = Yes \/ fields # Header THEN Yes ELSE No
      BY DEF Switches
    <2>3. ReadsLine(sofar, fields) = Sofar(Yes, failing, <<>>)
      BY <1>1, <1>7, <2>1, <2>2, ReadsLineOf
    <2>4. failing = No <=> fields = Header
      BY <1>5, <2>1, <2>2
    <2>5. n = 0 /\ Ordered(more) <=> fields = Header
      BY <1>3, <1>4, <1>7 DEF Ordered
    <2>6. Tail(more) = <<>>
      BY <1>2, <1>7
    <2>7. Yes \in Switches
      BY DEF Switches
    <2> QED
      BY <1>2, <1>3, <1>4, <1>7, <2>2, <2>3, <2>4, <2>5, <2>6, <2>7 DEF Agrees
  <1>8. CASE ~Skipped(fields) /\ lines # <<>>
    <2>1. headerSeen = Yes /\ n \in Nat \ {0}
      BY <1>1, <1>4, <1>8
    <2>2. Ordered(more) <=> Ordered(lines) /\ Complete(fields)
      <3>1. 1 \in 1 .. n /\ more[1] = lines[1]
        BY <1>3, <2>1
      <3>2. \A i \in 2 .. n : more[i] = lines[i]
        BY <1>3
      <3>3. 2 .. Len(more) = (2 .. n) \cup {n + 1}
        BY <1>3, <2>1
      <3> QED
        BY <1>2, <1>3, <3>1, <3>2, <3>3 DEF Ordered
    <2>3. CASE Complete(fields)
      <3>1. ReadsLine(sofar, fields) = Sofar(Yes, failed, Append(list, fields))
        BY <1>1, <1>8, <2>1, <2>3, ReadsLineOf
      <3>2. failed = No => Append(list, fields) = Tail(more)
        <4>1. Append(Tail(lines), fields) = Tail(Append(lines, fields))
          BY <1>8
        <4> QED
          BY <1>1, <1>2, <1>8, <4>1
      <3>3. PICK longer : longer = Append(list, fields)
        OBVIOUS
      <3>4. Yes \in Switches
        BY DEF Switches
      <3> QED
        BY <1>1, <1>2, <1>3, <1>8, <2>2, <2>3, <3>1, <3>2, <3>3, <3>4 DEF Agrees
    <2>4. CASE ~Complete(fields)
      <3>1. ReadsLine(sofar, fields) = Sofar(Yes, Yes, list)
        BY <1>1, <1>8, <2>1, <2>4, ReadsLineOf
      <3>2. Yes \in Switches
        BY DEF Switches
      <3> QED
        BY <1>2, <1>3, <1>5, <1>8, <2>2, <2>4, <3>1, <3>2 DEF Agrees
    <2> QED
      BY <2>3, <2>4
  <1> QED
    BY <1>6, <1>7, <1>8

\* The lines, as they are read.
Lines(file) == [file EXCEPT ![1] = Unmarked(@)]

\* They are the file's, with the mark gone.
LEMMA LinesOf ==
    ASSUME NEW A, NEW file \in Seq(A)
    PROVE  \E B : /\ Lines(file) \in Seq(B) /\ Len(Lines(file)) = Len(file)
                  /\ \A i \in 1 .. Len(file) :
                         Lines(file)[i] = IF i = 1 THEN Unmarked(file[i]) ELSE file[i]
  <1> DEFINE B == A \cup {Unmarked(file[1])}
  <1>1. PICK n \in Nat : n = Len(file) /\ DOMAIN file = 1 .. n
    OBVIOUS
  <1>2. PICK lines : lines = Lines(file)
    OBVIOUS
  <1>3. lines = [i \in 1 .. n |-> IF i = 1 THEN Unmarked(file[1]) ELSE file[i]]
    BY <1>1, <1>2 DEF Lines
  <1>4. \A i \in 1 .. n : (IF i = 1 THEN Unmarked(file[1]) ELSE file[i]) \in B
    BY <1>1
  <1> HIDE DEF B
  <1>5. lines \in Seq(B) /\ Len(lines) = n
    BY <1>3, <1>4
  <1>6. \A i \in 1 .. n : lines[i] = IF i = 1 THEN Unmarked(file[i]) ELSE file[i]
    BY <1>3
  <1> QED
    BY <1>1, <1>2, <1>5, <1>6

\* The lines that count, one by one.
Counts(f, lines) ==
    /\ f[0] = <<>>
    /\ \A i \in 1 .. Len(lines) :
           f[i] = IF Skipped(lines[i]) THEN f[i - 1] ELSE Append(f[i - 1], lines[i])

\* There are such counts, and CountingLines() is the last.
LEMMA CountedBy ==
    ASSUME NEW A, NEW file, Lines(file) \in Seq(A)
    PROVE  \E f \in [0 .. Len(Lines(file)) -> Seq(A)] :
               Counts(f, Lines(file)) /\ CountingLines(file) = f[Len(Lines(file))]
  <1> DEFINE lines == Lines(file)
             Count(i, counted) == IF Skipped(lines[i]) THEN counted ELSE Append(counted, lines[i])
  <1>1. PICK n \in Nat : n = Len(lines)
    OBVIOUS
  <1>2. \A i \in 1 .. n : lines[i] \in A
    BY <1>1
  <1>3. \A i \in 1 .. n, counted \in Seq(A) : Count(i, counted) \in Seq(A)
    <2> HIDE DEF lines
    <2> QED
      BY <1>2
  <1> DEFINE next == [p \in (1 .. n) \X Seq(A) |-> Count(p[1], p[2])]
  <1>4. next \in [(1 .. n) \X Seq(A) -> Seq(A)]
    <2> HIDE DEF Count
    <2> QED
      BY <1>3
  <1>5. \A i \in 1 .. n, counted \in Seq(A) : next[<<i, counted>>] = Count(i, counted)
    <2> HIDE DEF Count
    <2> QED
      OBVIOUS
  <1> HIDE DEF next, Count
  <1>6. PICK f \in [0 .. n -> Seq(A)] : Follows(f, n, <<>>, next)
    <2>1. <<>> \in Seq(A)
      BY EmptySeq
    <2> QED
      BY <1>4, <2>1, Iterated
  <1>7. f[0] = <<>> /\ \A i \in 1 .. n : f[i] = next[<<i, f[i - 1]>>]
    BY <1>6 DEF Follows
  <1>8. ASSUME NEW i \in 1 .. n PROVE f[i] = Count(i, f[i - 1])
    <2>1. i - 1 \in 0 .. n
      OBVIOUS
    <2>2. f[i - 1] \in Seq(A)
      BY <2>1
    <2> QED
      BY <1>5, <1>7, <2>2
  <1>9. CountingLines(file) = f[n]
    <2> DEFINE counting[i \in 0 .. Len(lines)] ==
                   IF i = 0 THEN <<>>
                   ELSE IF Skipped(lines[i]) THEN counting[i - 1] ELSE Append(counting[i - 1], lines[i])
    <2>1. CountingLines(file) = counting[n]
      BY <1>1 DEF CountingLines, Lines
    <2> HIDE DEF lines
    <2>2. f = [i \in 0 .. Len(lines) |->
                  IF i = 0 THEN <<>>
                  ELSE IF Skipped(lines[i]) THEN f[i - 1] ELSE Append(f[i - 1], lines[i])]
      <3> HIDE DEF counting
      <3>1. \A i \in 1 .. n : f[i] = Count(i, f[i - 1])
        BY <1>8
      <3>2. \A i \in 0 .. n : f[i] = IF i = 0 THEN <<>> ELSE Count(i, f[i - 1])
        BY <1>7, <3>1
      <3> QED
        BY <1>1, <3>2 DEF Count
    <2>3. counting = [i \in 0 .. Len(lines) |->
                  IF i = 0 THEN <<>>
                  ELSE IF Skipped(lines[i]) THEN counting[i - 1] ELSE Append(counting[i - 1], lines[i])]
      BY <2>2 DEF counting
    <2> HIDE DEF counting
    <2>4. \A i \in 0 .. n : counting[i] = IF i = 0 THEN <<>> ELSE Count(i, counting[i - 1])
      BY <1>1, <2>3 DEF Count
    <2> DEFINE S == {i \in 0 .. n : counting[i] = f[i]}
    <2>5. 0 \in S
      BY <1>7, <2>4
    <2>6. ASSUME NEW i \in 0 .. n - 1, i \in S PROVE i + 1 \in S
      <3>1. PICK j \in 1 .. n : j = i + 1
        OBVIOUS
      <3>2. f[j] = Count(j, f[j - 1])
        BY <1>8
      <3>3. counting[j] = Count(j, counting[j - 1])
        <4>1. j # 0 /\ j \in 0 .. n
          OBVIOUS
        <4> QED
          BY <2>4, <4>1
      <3>4. j - 1 = i /\ counting[i] = f[i]
        BY <2>6, <3>1
      <3>5. counting[j] = f[j]
        BY <3>2, <3>3, <3>4
      <3> QED
        BY <3>1, <3>5
    <2>7. \A i \in 0 .. n : i \in S
      <3> HIDE DEF S
      <3> QED
        BY <2>5, <2>6, InductionUpTo
    <2>8. counting[n] = f[n]
      BY <2>7
    <2> QED
      BY <2>1, <2>8
  <1>10. Counts(f, lines)
    <2>1. \A i \in 1 .. n : f[i] = IF Skipped(lines[i]) THEN f[i - 1] ELSE Append(f[i - 1], lines[i])
      BY <1>8 DEF Count
    <2> HIDE DEF lines
    <2> QED
      BY <1>1, <1>7, <2>1 DEF Counts
  <1> HIDE DEF lines
  <1>11. f \in [0 .. Len(lines) -> Seq(A)] /\ CountingLines(file) = f[Len(lines)]
    BY <1>1, <1>9
  <1> QED
    BY <1>10, <1>11 DEF lines

\* parseStationsCsv()'s loop, line by line.
Reads(f, lines) ==
    /\ f[0] = Sofar(No, No, <<>>)
    /\ \A i \in 1 .. Len(lines) : f[i] = ReadsLine(f[i - 1], lines[i])

\* There are such rounds, and parseStationsCsv() returns after the last.
LEMMA ParsedBy ==
    ASSUME NEW A, NEW file \in Seq(A)
    PROVE  \E f : Reads(f, Lines(file)) /\ Parsed(file) = f[Len(Lines(file))]
  <1>1. PICK B : /\ Lines(file) \in Seq(B) /\ Len(Lines(file)) = Len(file)
                 /\ \A i \in 1 .. Len(file) :
                        Lines(file)[i] = IF i = 1 THEN Unmarked(file[i]) ELSE file[i]
    BY LinesOf
  <1>2. PICK lines \in Seq(B), n \in Nat : lines = Lines(file) /\ n = Len(file) /\ n = Len(lines)
    BY <1>1
  <1> DEFINE D == {sofar \in [headerSeen : Switches, failed : Switches, stations : Seq(B)] : TRUE}
             Read(i, sofar) == ReadsLine(sofar, lines[i])
             next == [p \in (1 .. n) \X D |-> Read(p[1], p[2])]
  <1>3. \A i \in 1 .. n, sofar \in D : Read(i, sofar) \in D
    <2> SUFFICES ASSUME NEW i \in 1 .. n, NEW sofar \in D PROVE ReadsLine(sofar, lines[i]) \in D
      OBVIOUS
    <2>1. PICK headerSeen \in Switches, failed \in Switches, list \in Seq(B) :
              sofar = Sofar(headerSeen, failed, list)
      BY DEF Sofar
    <2>2. lines[i] \in B /\ Append(list, lines[i]) \in Seq(B)
      BY <1>2
    <2>3. \A h \in Switches, b \in Switches, s \in Seq(B) : Sofar(h, b, s) \in D
      BY DEF Sofar
    <2> HIDE DEF D
    <2>4. \/ ReadsLine(sofar, lines[i]) = sofar
          \/ ReadsLine(sofar, lines[i]) = Sofar(Yes, Yes, list)
          \/ ReadsLine(sofar, lines[i]) = Sofar(Yes, No, list)
          \/ ReadsLine(sofar, lines[i]) = Sofar(Yes, failed, Append(list, lines[i]))
      <3>1. headerSeen = Yes \/ headerSeen = No
        BY DEF Switches
      <3> QED
        BY <2>1, <3>1, ReadsLineOf
    <2>5. Yes \in Switches /\ No \in Switches
      BY DEF Switches
    <2> QED
      BY <2>2, <2>3, <2>4, <2>5
  <1>4. Sofar(No, No, <<>>) \in D
    <2>1. No \in Switches /\ <<>> \in Seq(B)
      BY EmptySeq DEF Switches
    <2> QED
      BY <2>1 DEF Sofar
  <1> HIDE DEF D, Read
  <1>5. next \in [(1 .. n) \X D -> D]
    BY <1>3
  <1>6. \A i \in 1 .. n, sofar \in D : next[<<i, sofar>>] = Read(i, sofar)
    OBVIOUS
  <1> HIDE DEF next
  <1>7. PICK f \in [0 .. n -> D] : Follows(f, n, Sofar(No, No, <<>>), next)
    BY <1>4, <1>5, Iterated
  <1>8. f[0] = Sofar(No, No, <<>>) /\ \A i \in 1 .. n : f[i] = next[<<i, f[i - 1]>>]
    BY <1>7 DEF Follows
  <1>9. ASSUME NEW i \in 1 .. n PROVE f[i] = Read(i, f[i - 1])
    <2>1. i - 1 \in 0 .. n
      OBVIOUS
    <2>2. f[i - 1] \in D
      BY <2>1
    <2> QED
      BY <1>6, <1>8, <2>2
  <1>10. Parsed(file) = f[n]
    <2> DEFINE parsed[i \in 0 .. Len(file)] ==
                   IF i = 0 THEN [headerSeen |-> FALSE, failed |-> FALSE, stations |-> <<>>]
                   ELSE ReadsLine(parsed[i - 1], IF i = 1 THEN Unmarked(file[i]) ELSE file[i])
    <2>1. Parsed(file) = parsed[n]
      BY <1>2 DEF Parsed
    <2>2. f = [i \in 0 .. Len(file) |->
                  IF i = 0 THEN [headerSeen |-> FALSE, failed |-> FALSE, stations |-> <<>>]
                  ELSE ReadsLine(f[i - 1], IF i = 1 THEN Unmarked(file[i]) ELSE file[i])]
      <3> HIDE DEF parsed
      <3>1. \A i \in 1 .. n : f[i] = ReadsLine(f[i - 1], IF i = 1 THEN Unmarked(file[i]) ELSE file[i])
        <4> SUFFICES ASSUME NEW i \in 1 .. n
                     PROVE  f[i] = ReadsLine(f[i - 1], IF i = 1 THEN Unmarked(file[i]) ELSE file[i])
          OBVIOUS
        <4>1. lines[i] = IF i = 1 THEN Unmarked(file[i]) ELSE file[i]
          BY <1>1, <1>2
        <4> QED
          BY <1>9, <4>1 DEF Read
      <3>2. f[0] = [headerSeen |-> FALSE, failed |-> FALSE, stations |-> <<>>]
        BY <1>8 DEF Sofar, No
      <3>3. \A i \in 0 .. n : f[i] =
                IF i = 0 THEN [headerSeen |-> FALSE, failed |-> FALSE, stations |-> <<>>]
                ELSE ReadsLine(f[i - 1], IF i = 1 THEN Unmarked(file[i]) ELSE file[i])
        BY <3>1, <3>2
      <3> QED
        BY <1>2, <3>3
    <2>3. parsed = [i \in 0 .. Len(file) |->
                  IF i = 0 THEN [headerSeen |-> FALSE, failed |-> FALSE, stations |-> <<>>]
                  ELSE ReadsLine(parsed[i - 1], IF i = 1 THEN Unmarked(file[i]) ELSE file[i])]
      BY <2>2 DEF parsed
    <2> HIDE DEF parsed
    <2>4. parsed[0] = Sofar(No, No, <<>>)
      BY <1>2, <2>3 DEF Sofar, No
    <2>5. ASSUME NEW i \in 1 .. n PROVE parsed[i] = Read(i, parsed[i - 1])
      <3>1. parsed[i] = ReadsLine(parsed[i - 1], IF i = 1 THEN Unmarked(file[i]) ELSE file[i])
        <4>1. i \in 0 .. Len(file) /\ i # 0
          BY <1>2
        <4> QED
          BY <2>3, <4>1
      <3>2. lines[i] = IF i = 1 THEN Unmarked(file[i]) ELSE file[i]
        BY <1>1, <1>2
      <3> QED
        BY <3>1, <3>2 DEF Read
    <2> DEFINE S == {i \in 0 .. n : parsed[i] = f[i]}
    <2>6. 0 \in S
      BY <1>8, <2>4
    <2>7. ASSUME NEW i \in 0 .. n - 1, i \in S PROVE i + 1 \in S
      <3>1. PICK j \in 1 .. n : j = i + 1
        OBVIOUS
      <3>2. f[j] = Read(j, f[j - 1]) /\ parsed[j] = Read(j, parsed[j - 1])
        BY <1>9, <2>5
      <3>3. j - 1 = i /\ parsed[i] = f[i]
        BY <2>7, <3>1
      <3>4. parsed[j] = f[j]
        BY <3>2, <3>3
      <3> QED
        BY <3>1, <3>4
    <2>8. \A i \in 0 .. n : i \in S
      <3> HIDE DEF S
      <3> QED
        BY <2>6, <2>7, InductionUpTo
    <2>9. parsed[n] = f[n]
      BY <2>8
    <2> QED
      BY <2>1, <2>9
  <1>11. Reads(f, lines)
    BY <1>2, <1>8, <1>9 DEF Reads, Read
  <1> QED
    BY <1>2, <1>10, <1>11

\* What follows the first of a sequence.
LEMMA TailsElements ==
    ASSUME NEW A, NEW s \in Seq(A), s # <<>>
    PROVE  ToSet(Tail(s)) = {s[i] : i \in 2 .. Len(s)}
  <1>1. PICK m \in Nat : m = Len(s) /\ m # 0
    BY EmptySeq
  <1>2. PICK rest : rest = Tail(s)
    OBVIOUS
  <1>3. rest \in Seq(A) /\ Len(rest) = m - 1 /\ \A i \in 1 .. m - 1 : rest[i] = s[i + 1]
    BY <1>1, <1>2, HeadTailProperties
  <1>4. DOMAIN rest = 1 .. m - 1
    BY <1>3
  <1>5. \A x : x \in ToSet(rest) <=> \E i \in 1 .. m - 1 : x = rest[i]
    BY <1>4 DEF ToSet
  <1>6. ASSUME NEW x \in ToSet(rest) PROVE \E i \in 2 .. m : x = s[i]
    <2>1. PICK i \in 1 .. m - 1 : x = s[i + 1]
      BY <1>3, <1>5
    <2>2. i + 1 \in 2 .. m
      OBVIOUS
    <2> QED
      BY <2>1, <2>2
  <1>7. ASSUME NEW i \in 2 .. m PROVE s[i] \in ToSet(rest)
    <2>1. PICK j \in 1 .. m - 1 : i = j + 1
      BY <1>1
    <2> QED
      BY <1>3, <1>5, <2>1
  <1> QED
    BY <1>1, <1>2, <1>6, <1>7

\* stations.csv is loaded if and only if it is in order, and then for all of its Stations.
LEMMA StationsRead ==
    ASSUME NEW files \in Edits
    PROVE  /\ StationsLoad(files.stations) <=> StationsInOrder(files.stations)
           /\ StationsLoad(files.stations) =>
                  Parsed(files.stations).stations = Tail(CountingLines(files.stations))
  <1>1. PICK file : file = files.stations
    OBVIOUS
  <1>2. file = Unusable \/ file \in Seq(Seq(STRING))
    BY <1>1, EditsAssumption
  <1>3. CASE file = Unusable
    BY <1>1, <1>3 DEF StationsLoad, StationsInOrder
  <1>4. CASE file # Unusable /\ file \in Seq(Seq(STRING))
    <2>1. PICK B : Lines(file) \in Seq(B) /\ Len(Lines(file)) = Len(file)
      BY <1>4, LinesOf
    <2>2. PICK lines \in Seq(B), n \in Nat : lines = Lines(file) /\ n = Len(file) /\ n = Len(lines)
      BY <1>4, <2>1
    <2>3. PICK c \in [0 .. n -> Seq(B)] : Counts(c, lines) /\ CountingLines(file) = c[n]
      BY <2>2, CountedBy
    <2>4. PICK f : Reads(f, lines) /\ Parsed(file) = f[n]
      BY <1>4, <2>2, ParsedBy
    <2> DEFINE S == {i \in 0 .. n : Agrees(f[i], c[i])}
    <2>5. 0 \in S
      <3>1. c[0] = <<>> /\ f[0] = Sofar(No, No, <<>>) /\ No \in Switches /\ Yes # No /\ 0 \in 0 .. n
        BY <2>3, <2>4 DEF Counts, Reads, Switches, Yes, No
      <3>2. Agrees(f[0], c[0])
        BY <3>1 DEF Agrees
      <3> QED
        BY <3>1, <3>2
    <2>6. ASSUME NEW i \in 0 .. n - 1, i \in S PROVE i + 1 \in S
      <3>1. PICK j \in 1 .. n : j = i + 1
        OBVIOUS
      <3>2. /\ c[j] = IF Skipped(lines[j]) THEN c[j - 1] ELSE Append(c[j - 1], lines[j])
            /\ f[j] = ReadsLine(f[j - 1], lines[j])
        BY <2>2, <2>3, <2>4 DEF Counts, Reads
      <3>3. j - 1 = i /\ Agrees(f[i], c[i]) /\ c[i] \in Seq(B) /\ lines[j] \in B
        BY <2>2, <2>6, <3>1
      <3>4. Agrees(f[j], c[j])
        BY <3>2, <3>3, OneLineMore
      <3> QED
        BY <3>1, <3>4
    <2>7. \A i \in 0 .. n : i \in S
      <3> HIDE DEF S
      <3> QED
        BY <2>5, <2>6, InductionUpTo
    <2>8. Agrees(Parsed(file), CountingLines(file))
      BY <2>3, <2>4, <2>7
    <2>9. PICK counting \in Seq(B) : counting = CountingLines(file)
      BY <2>3
    <2>10. PICK headerSeen, failed, list :
               /\ headerSeen \in Switches /\ failed \in Switches
               /\ Parsed(file) = Sofar(headerSeen, failed, list)
               /\ headerSeen = Yes <=> counting # <<>>
               /\ failed = No <=> (counting = <<>> \/ Ordered(counting))
               /\ list = IF counting = <<>> THEN <<>> ELSE IF failed = No THEN Tail(counting) ELSE list
      BY <2>8, <2>9 DEF Agrees
    <2>11. /\ Parsed(file).headerSeen = headerSeen /\ Parsed(file).failed = failed
           /\ Parsed(file).stations = list
      BY <2>10 DEF Sofar
    <2>12. StationsLoad(file) <=> headerSeen = Yes /\ failed = No
      BY <1>4, <2>11 DEF StationsLoad, Switches, Yes, No
    <2>13. counting # <<>> => (Ordered(counting) <=>
               /\ Head(counting) = Header
               /\ \A fields \in ToSet(Tail(counting)) : Complete(fields))
      <3> SUFFICES ASSUME counting # <<>>
                   PROVE  Ordered(counting) <=>
                              /\ Head(counting) = Header
                              /\ \A fields \in ToSet(Tail(counting)) : Complete(fields)
        OBVIOUS
      <3>5. ToSet(Tail(counting)) = {counting[i] : i \in 2 .. Len(counting)}
        BY TailsElements
      <3>6. Head(counting) = counting[1]
        OBVIOUS
      <3> QED
        BY <3>5, <3>6 DEF Ordered
    <2>14. file = <<>> => counting = <<>>
      <3>1. file = <<>> => n = 0
        BY <2>2
      <3>2. c[0] = <<>>
        BY <2>3 DEF Counts
      <3> QED
        BY <2>3, <2>9, <3>1, <3>2
    <2>15. \A fields : Complete(fields) <=> Len(fields) = 3 /\ "" \notin {fields[1], fields[2]}
      BY DEF Complete
    <2>16. StationsInOrder(file) <=> counting # <<>> /\ Ordered(counting)
      BY <1>4, <2>9, <2>13, <2>14, <2>15 DEF StationsInOrder
    <2>17. StationsLoad(file) <=> StationsInOrder(file)
      BY <2>10, <2>12, <2>16
    <2>18. StationsLoad(file) => Parsed(file).stations = Tail(CountingLines(file))
      BY <2>9, <2>10, <2>11, <2>12, <2>16, <2>17
    <2> QED
      BY <1>1, <2>17, <2>18
  <1> QED
    BY <1>2, <1>3, <1>4

\* The Deck runs with all of what its owner wrote in config.json and stations.csv, or
\* main() ends: neither parseDeckConfig() nor parseStationsCsv() passes over a mistake,
\* for files of any length.
THEOREM NoMistakePassedOver == StartupSpec => []FilesDecide
  <1>1. StartupInit => FilesDecide
    BY DEF StartupInit, FilesDecide
  <1>2. FilesDecide /\ [StartupNext]_startupVars => FilesDecide'
    <2> SUFFICES ASSUME FilesDecide, [StartupNext]_startupVars PROVE FilesDecide'
      OBVIOUS
    <2>1. ASSUME NEW files \in Edits, Starts(files) PROVE FilesDecide'
      <3>1. /\ program' = "running" /\ read' = files /\ config' = DeckConfig(files.config)
            /\ stations' = Parsed(files.stations).stations
            /\ ConfigLoads(files.config) /\ StationsLoad(files.stations)
        BY <2>1 DEF Starts
      <3>2. ConfigInOrder(files.config) /\ StationsInOrder(files.stations)
        BY <3>1, ConfigRead, StationsRead
      <3>3. stations' = Tail(CountingLines(files.stations))
        BY <3>1, StationsRead
      <3>4. DOMAIN config' = DOMAIN Defaults
        BY <3>1 DEF DeckConfig
      <3>5. \A key \in DOMAIN config' :
                config'[key] = IF files.config # None /\ key \in DOMAIN files.config
                               THEN files.config[key] ELSE Defaults[key]
        BY <3>1, <3>4, ConfigRead
      <3> QED
        BY <3>1, <3>2, <3>3, <3>5, EditsAssumption DEF FilesDecide
    <2>2. ASSUME NEW files \in Edits, ConfigFails(files) PROVE FilesDecide'
      <3>1. /\ program' = "failed" /\ read' = [files EXCEPT !.stations = None]
            /\ ~ConfigInOrder(files.config)
        BY <2>2, ConfigRead DEF ConfigFails
      <3>2. files = [config |-> files.config, stations |-> files.stations]
        BY EditsAssumption
      <3>3. read'.stations = None /\ read'.config = files.config
        BY <3>1, <3>2
      <3> QED
        BY <3>1, <3>3 DEF FilesDecide, ConfigInOrder
    <2>3. ASSUME NEW files \in Edits, StationsFail(files) PROVE FilesDecide'
      <3>1. /\ program' = "failed" /\ read' = files
            /\ ConfigInOrder(files.config) /\ ~StationsInOrder(files.stations)
        BY <2>3, ConfigRead, StationsRead DEF StationsFail
      <3>2. files.stations # None
        BY EditsAssumption
      <3> QED
        BY <3>1, <3>2 DEF FilesDecide
    <2>4. CASE TriesAgain \/ PowersOff \/ Stops \/ (PowerCut /\ IsGone)
      <3>1. program' = "off"
        BY <2>4 DEF TriesAgain, PowersOff, Stops, IsGone
      <3> QED
        BY <3>1 DEF FilesDecide
    <2>5. CASE \/ (\E station \in SavedStations : Tunes(station)) \/ FirstRadio \/ SafeShutdown \/ Saves
               \/ UNCHANGED startupVars
      <3>1. \/ program' = "off"
            \/ /\ UNCHANGED <<read, config, stations>>
               /\ program' = program \/ (program = "running" /\ program' = "saving")
        BY <2>5 DEF Tunes, FirstRadio, SafeShutdown, Saves, IsGone, startupVars, programVars
      <3>2. CASE program' = "off"
        BY <3>2 DEF FilesDecide
      <3>3. CASE /\ UNCHANGED <<read, config, stations>>
                 /\ program' = program \/ (program = "running" /\ program' = "saving")
        BY <3>3 DEF FilesDecide
      <3> QED
        BY <3>1, <3>2, <3>3
    <2> QED
      BY <2>1, <2>2, <2>3, <2>4, <2>5 DEF StartupNext
  <1> QED
    BY <1>1, <1>2, PTL DEF StartupSpec
=============================================================================
