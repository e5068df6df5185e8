---------------------------- MODULE StationMemory ----------------------------
(***************************************************************************)
(* What PlayerController may expect of a StationMemory (src/src/core): a   *)
(* save may fail, and the power may go at any moment, but what comes back  *)
(* is the Station saved last, or the one a save was under way for: never   *)
(* nothing, and never anything else.  After a save in which nothing failed *)
(* it is that Station for certain.                                         *)
(***************************************************************************)
CONSTANTS
    SavedStations,  \* positions saved
    None            \* nothing remembered

VARIABLES
    survivors,      \* what may be read after a power cut now
    saving,         \* the Station being saved, or None
    outcome         \* of the last save since the start: "saved", "failed" or "none"

memoryVars == <<survivors, saving, outcome>>

MemoryInit ==
    /\ survivors \in {{s} : s \in SavedStations \cup {None}}
    /\ saving = None /\ outcome = "none"

\* rememberStation() begins.
SaveBegins ==
    /\ saving = None
    /\ saving' \in SavedStations /\ outcome' = "none"
    /\ UNCHANGED survivors

\* From some moment on the new Station may come back, in the end it must.
SaveAdvances ==
    /\ saving # None
    /\ survivors' \in {survivors \cup {saving}, {saving}}
    /\ UNCHANGED <<saving, outcome>>

\* rememberStation() returns, and nothing failed: the new Station it is.
SaveSucceeds ==
    /\ saving # None
    /\ saving' = None /\ outcome' = "saved"
    /\ survivors' = {saving}

\* It returns, but something failed: what was before may come back.
SaveFails ==
    /\ saving # None
    /\ saving' = None /\ outcome' = "failed"
    /\ survivors' \in {survivors, survivors \cup {saving}, {saving}}

\* The program ends before it returns.
SaveBreaksOff ==
    /\ saving # None
    /\ saving' = None /\ outcome' = "none"
    /\ UNCHANGED survivors

\* The Deck starts again after a power cut.
DeckRestarts ==
    /\ saving' = None /\ outcome' = "none"
    /\ \E s \in survivors : survivors' = {s}

MemoryNext ==
    \/ SaveBegins \/ SaveAdvances \/ SaveSucceeds \/ SaveFails
    \/ SaveBreaksOff \/ DeckRestarts

MemorySpec == MemoryInit /\ [][MemoryNext]_memoryVars

=============================================================================
