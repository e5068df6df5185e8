-------------------------------- MODULE Deck --------------------------------
(***************************************************************************)
(* The Source and Spotify: PlayerController composed with the Engine it    *)
(* drives and is driven by.  Commands go out through LibrespotRest's queue *)
(* (one worker sends them in order, and a request that fails is logged and *)
(* dropped); events come back in order over the WebSocket, each later than *)
(* the change it reports.  A phone uses go-librespot at the same time.     *)
(*                                                                         *)
(* go-librespot is external: it is modelled by what GoLibrespotClient and  *)
(* its tests rely on.  The Radio needs no queue here: `radio' is what      *)
(* MpvClient was told.                                                     *)
(***************************************************************************)
EXTENDS PlayerController, Sequences

CONSTANTS
    DeckButtons,    \* the buttons pressed beside Eject
    MaxRequests,    \* bound on requests waiting for the worker
    MaxEvents,      \* bound on events under way
    MaxPhoneActs,   \* bound on what the phone does
    MaxFailures     \* bound on REST requests that fail

ASSUME DeckButtonsAssumption == DeckButtons \subseteq Buttons
ASSUME BoundsAssumption ==
    /\ MaxRequests \in Nat /\ MaxEvents \in Nat
    /\ MaxPhoneActs \in Nat /\ MaxFailures \in Nat

VARIABLES
    engine,         \* this Deck's Spotify session, and whether it plays
    requests,       \* LibrespotRest::requests_, and the one being sent
    events,         \* on the WebSocket, not handled yet
    phoneActs,      \* how often the phone acted
    failures,       \* how many requests failed
    pauseFailed     \* one of them was a pause

linkVars == <<engine, requests, events, phoneActs, failures, pauseFailed>>
deckVars == <<vars, linkVars>>

Events == {"active", "inactive", "playing", "paused"}

DeckInit ==
    /\ Init
    /\ engine = [active |-> FALSE, playing |-> FALSE]
    /\ requests = <<>> /\ events = <<>>
    /\ phoneActs = 0 /\ failures = 0 /\ pauseFailed = FALSE

----------------------------------------------------------------------------
(* The Deck.                                                               *)

\* LibrespotRest::post: the handler's call joins the queue; up to the bound.
Posted ==
    /\ requests' = IF engineCall' = NoCall THEN requests ELSE Append(requests, engineCall')
    /\ Len(requests') <= MaxRequests

\* The Deck's user presses, holds or lets go of a button.
UserActs ==
    /\ LoopFree
    /\ \/ \E button \in DeckButtons : ButtonPressed(button)
       \/ EjectPressed
       \/ EjectReleased
       \/ EjectHeld
    /\ Posted
    /\ UNCHANGED <<engine, events, phoneActs, failures, pauseFailed>>

\* dispatchLibrespotEvent: the oldest event reaches the controller.
EventArrives ==
    /\ LoopFree
    /\ events # <<>>
    /\ events' = Tail(events)
    /\ \/ Head(events) \in {"active", "inactive"}
          /\ SpotifyActiveChanged(Head(events) = "active")
       \/ Head(events) \in {"playing", "paused"}
          /\ SpotifyPlayingChanged(Head(events) = "playing")
    /\ Posted
    /\ UNCHANGED <<engine, phoneActs, failures, pauseFailed>>

\* onEjectHeld goes on to its next call.
ShutdownGoesOn == EjectHeldGoesOn /\ UNCHANGED linkVars

----------------------------------------------------------------------------
(* go-librespot and the phone.                                             *)

\* go-librespot plays or pauses, if it has a session to do it with, and says so.
SetPlaying(playing) ==
    IF engine.active /\ engine.playing # playing
    THEN /\ engine' = [engine EXCEPT !.playing = playing]
         /\ events' = Append(events, IF playing THEN "playing" ELSE "paused")
    ELSE UNCHANGED <<engine, events>>

\* The worker sends the oldest request, and go-librespot does what it says.
\* Next, Previous, Shuffle and Repeat leave what is modelled of it alone.
RequestServed ==
    /\ requests # <<>>
    /\ requests' = Tail(requests)
    /\ IF Head(requests) \in {"play", "pause"} THEN SetPlaying(Head(requests) = "play")
                                               ELSE UNCHANGED <<engine, events>>
    /\ Len(events') <= MaxEvents
    /\ UNCHANGED <<vars, phoneActs, failures, pauseFailed>>

\* The request fails; LibrespotRest logs it and goes on to the next.
RequestFails ==
    /\ requests # <<>> /\ failures < MaxFailures
    /\ requests' = Tail(requests)
    /\ failures' = failures + 1
    /\ pauseFailed' = (pauseFailed \/ Head(requests) = "pause")
    /\ UNCHANGED <<vars, engine, events, phoneActs>>

\* A phone plays on this Deck, taking the session over if it has to.
PhonePlays ==
    /\ ~engine.playing
    /\ engine' = [active |-> TRUE, playing |-> TRUE]
    /\ events' = events \o (IF engine.active THEN <<"playing">>
                                             ELSE <<"active", "playing">>)

\* A phone pauses the Deck.
PhonePauses ==
    /\ engine.playing
    /\ SetPlaying(FALSE)

\* A phone moves playback to another device.
PhoneLeaves ==
    /\ engine.active
    /\ engine' = [active |-> FALSE, playing |-> FALSE]
    /\ events' = Append(events, "inactive")

PhoneActs ==
    /\ phoneActs < MaxPhoneActs
    /\ phoneActs' = phoneActs + 1
    /\ PhonePlays \/ PhonePauses \/ PhoneLeaves
    /\ Len(events') <= MaxEvents
    /\ UNCHANGED <<vars, requests, failures, pauseFailed>>

DeckNext == \/ UserActs \/ EventArrives \/ ShutdownGoesOn
            \/ RequestServed \/ RequestFails \/ PhoneActs

\* The worker thread and the event loop keep going; nobody has to press anything.
DeckSpec ==
    DeckInit /\ [][DeckNext]_deckVars
             /\ WF_deckVars(EventArrives) /\ WF_deckVars(ShutdownGoesOn)
             /\ WF_deckVars(RequestServed)

----------------------------------------------------------------------------
(* Properties.                                                             *)

\* What is heard on this Deck.  A muted Radio is silent; so is one without a Station.
SpotifyAudible == engine.playing
RadioAudible   == ~radio.muted /\ ~radio.paused /\ radio.station # None

Quiet == requests = <<>> /\ events = <<>>

\* With every event handled, the controller's picture of the session is the
\* Engine's: no order of presses, switches and phone actions leaves it behind.
PictureCatchesUp ==
    events = <<>> => /\ spotify.active = engine.active
                     /\ spotify.playing = engine.playing

\* With nothing under way, Spotify is heard only while it is the Source, so at
\* most one Source is heard, unless the pause of an Eject press failed or the
\* Deck is shutting down.
OneSourceHeard ==
    Quiet /\ ~pauseFailed /\ ~shuttingDown => (SpotifyAudible => source = "Spotify")

\* A short press resumes Spotify only where there is a session to resume, once
\* all that was reported of it has arrived.
ResumesLiveSession ==
    [][Quiet /\ EjectReleased /\ engineCall' = "play" => engine.active]_deckVars

Overlap == SpotifyAudible /\ RadioAudible /\ ~pauseFailed /\ ~shuttingDown

\* Whatever overlap the delay between Deck and Engine causes, it ends.
OverlapEnds == Overlap ~> ~Overlap

=============================================================================
