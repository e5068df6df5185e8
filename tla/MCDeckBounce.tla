---------------------------- MODULE MCDeckBounce ----------------------------
(* MCDeck with a history variable: how many of the events still under way   *)
(* were already in flight when an Eject press last paused Spotify.          *)
EXTENDS MCDeck

VARIABLE lateEvents

BounceInit == DeckInit /\ lateEvents = 0

BounceNext ==
    \/ /\ UserActs
       /\ lateEvents' = IF source = "Spotify" /\ source' = "Radio" /\ engineCall' = "pause"
                        THEN Len(events)
                        ELSE lateEvents
    \/ EventArrives /\ lateEvents' = IF lateEvents > 0 THEN lateEvents - 1 ELSE 0
    \/ (ShutdownGoesOn \/ RequestServed \/ RequestFails \/ PhoneActs) /\ UNCHANGED lateEvents

bounceVars == <<deckVars, lateEvents>>

BounceSpec == BounceInit /\ [][BounceNext]_bounceVars

\* What the comment in updateSpotifyAudibleHere and docs/architecture.md say: an
\* event that was in flight when Eject paused Spotify doesn't switch the Source back.
NoBounceBack ==
    [][EventArrives /\ lateEvents > 0 /\ source = "Radio" => source' = "Radio"]_bounceVars
=============================================================================
