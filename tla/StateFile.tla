------------------------------ MODULE StateFile ------------------------------
(***************************************************************************)
(* The Station memory on the card: StateFile (src/src/adapters).  A save   *)
(* writes a temporary file, flushes it, and renames it over the old one;   *)
(* it may fail, and the power may be cut, between any two of those.        *)
(*                                                                         *)
(* The file system is external.  A file is its content and whether that is *)
(* flushed.  Until the directory is flushed too, a power cut may undo any  *)
(* of the renames since it last was; of a file that isn't flushed it may   *)
(* leave anything.                                                         *)
(***************************************************************************)
EXTENDS Naturals

CONSTANTS
    SavedStations,  \* positions saved
    None,           \* no file, nothing remembered
    Torn,           \* a file that isn't a whole state file
    MaxCuts         \* bound on power cuts

ASSUME StateFileAssumption ==
    /\ None \notin SavedStations /\ Torn \notin SavedStations \cup {None}
    /\ MaxCuts \in Nat

VARIABLES
    seen,           \* the directory: path_ and temporary, as open() finds them
    onCard,         \* the files path_ may name on the card
    step,           \* where rememberStation() is
    saving,         \* the Station it saves
    saved,          \* the Station of the last save that renamed its file
    outcome,        \* of the last save since the start: "saved" if no call failed
    cuts

fileVars == <<seen, onCard, step, saving, saved, outcome, cuts>>

File(content, flushed) == [content |-> content, flushed |-> flushed]
NoFile == File(None, TRUE)

FileInit ==
    /\ \E content \in SavedStations \cup {None} :
         /\ seen = [path |-> File(content, TRUE), temporary |-> NoFile]
         /\ onCard = {File(content, TRUE)}
         /\ saved = content
    /\ step = "idle" /\ saving = None /\ outcome = "none" /\ cuts = 0

\* rememberedStation(): a file that is missing or damaged is nothing remembered.
RememberedStation(file) ==
    IF file.content \in SavedStations THEN file.content ELSE None

----------------------------------------------------------------------------
(* rememberStation(): each step may fail, and then gives up.               *)

\* The call.
Begin(station) ==
    /\ step = "idle"
    /\ step' = "open" /\ saving' = station /\ outcome' = "none"
    /\ UNCHANGED <<seen, onCard, saved, cuts>>

\* open() with O_TRUNC: whatever an earlier save left there is gone.
Opens ==
    /\ step = "open"
    /\ step' = "write"
    /\ seen' = [seen EXCEPT !.temporary = File(Torn, FALSE)]
    /\ UNCHANGED <<onCard, saving, saved, outcome, cuts>>

\* write(), until all is written.
Writes ==
    /\ step = "write"
    /\ step' = "flush"
    /\ seen' = [seen EXCEPT !.temporary = File(saving, FALSE)]
    /\ UNCHANGED <<onCard, saving, saved, outcome, cuts>>

\* fsync() of the file.
Flushes ==
    /\ step = "flush"
    /\ step' = "rename"
    /\ seen' = [seen EXCEPT !.temporary.flushed = TRUE]
    /\ UNCHANGED <<onCard, saving, saved, outcome, cuts>>

\* rename(): atomic, and on the card at once or later.
Renames ==
    /\ step = "rename"
    /\ step' = "directory"
    /\ seen' = [path |-> seen.temporary, temporary |-> NoFile]
    /\ onCard' = onCard \cup {seen.temporary}
    /\ UNCHANGED <<saving, saved, outcome, cuts>>

\* Mutation of FlushesDirectory: leaves it to the file system when to write.
LeavesDirectory ==
    /\ step = "directory"
    /\ step' = "idle" /\ saving' = None
    /\ saved' = saving /\ outcome' = "saved"
    /\ UNCHANGED <<seen, onCard, cuts>>

\* fsync() of the directory: the rename can't be undone any more.
FlushesDirectory ==
    /\ step = "directory"
    /\ step' = "idle" /\ saving' = None
    /\ onCard' = {seen.path}
    /\ saved' = saving /\ outcome' = "saved"
    /\ UNCHANGED <<seen, cuts>>

\* The directory can't be opened or flushed, which nobody notices.
DirectoryNotFlushed ==
    /\ step = "directory"
    /\ step' = "idle" /\ saving' = None
    /\ saved' = saving /\ outcome' = "failed"
    /\ UNCHANGED <<seen, onCard, cuts>>

\* A step fails: the temporary file, once there, is removed.
GivesUp ==
    /\ step \in {"open", "write", "flush", "rename"}
    /\ step' = "idle" /\ saving' = None /\ outcome' = "failed"
    /\ seen' = IF step = "open" THEN seen ELSE [seen EXCEPT !.temporary = NoFile]
    /\ UNCHANGED <<onCard, saved, cuts>>

----------------------------------------------------------------------------
(* Power cuts and restarts.                                                *)

\* What may be left of a file.
Left(file) == IF file.flushed THEN {file} ELSE {file, File(Torn, TRUE)}

\* What path_ may name after a cut.
LeftAtPath == UNION {Left(file) : file \in onCard}

\* The power is cut, and the Deck starts again; a temporary file may be left.  A save
\* in which nothing failed is still to be remembered then.
PowerCut ==
    /\ cuts < MaxCuts /\ cuts' = cuts + 1
    /\ \E path \in LeftAtPath, temporary \in Left(seen.temporary) \cup {NoFile} :
         /\ seen' = [path |-> File(path.content, TRUE),
                     temporary |-> File(temporary.content, TRUE)]
         /\ onCard' = {File(path.content, TRUE)}
         /\ saved' = IF outcome = "saved" THEN saved ELSE RememberedStation(path)
    /\ step' = "idle" /\ saving' = None /\ outcome' = "none"

\* The program is stopped and started again; the file system stays up.
ProgramRestarts ==
    /\ step # "idle" /\ step' = "idle" /\ saving' = None /\ outcome' = "none"
    /\ saved' = RememberedStation(seen.path)
    /\ UNCHANGED <<seen, onCard, cuts>>

FileNext ==
    \/ \E station \in SavedStations : Begin(station)
    \/ Opens \/ Writes \/ Flushes \/ Renames
    \/ FlushesDirectory \/ DirectoryNotFlushed \/ GivesUp
    \/ PowerCut \/ ProgramRestarts

FileSpec == FileInit /\ [][FileNext]_fileVars

----------------------------------------------------------------------------
(* Properties.                                                             *)

\* The memory survives: what may come back after a power cut is what a
\* StationMemory promises, whatever was being done when the power went: the Station
\* saved, once all the calls of rememberStation() have gone through.
Memory == INSTANCE StationMemory WITH
    survivors <- {RememberedStation(file) : file \in LeftAtPath}

MemoryPromise == Memory!MemorySpec
=============================================================================
