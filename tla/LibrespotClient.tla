--------------------------- MODULE LibrespotClient ---------------------------
(***************************************************************************)
(* Spotify's client: GoLibrespotClient with its event stream (WebSocket),  *)
(* LibrespotRest's worker thread, and the dispatching of events and        *)
(* replies to the listener (src/src/adapters).  An event is handled when   *)
(* the event loop reads it; a request waits for the worker, and its reply, *)
(* a picture of go-librespot when it answered, waits for the event loop.   *)
(* Nothing orders the two.                                                 *)
(*                                                                         *)
(* go-librespot is external.  Modes are shuffle and repeat.  A position is *)
(* where its track was last put, from where it goes on by itself.          *)
(***************************************************************************)
EXTENDS Naturals, Sequences

CONSTANTS
    ModeNames,      \* "shuffle" and "repeat"
    Tracks, NoTrack,
    Positions,      \* where tracks start, and are sought to
    MaxActs,        \* bound on what go-librespot does on its own and the buttons pressed
    MaxFaults       \* bound on lost connections, go-librespot's exits included, and
                    \* on requests that time out

ASSUME TracksAssumption == NoTrack \notin Tracks /\ 0 \in Positions
ASSUME LibrespotBoundsAssumption ==
    MaxActs \in Nat /\ MaxFaults \in Nat

VARIABLES
    connected,      \* connected_
    link,           \* the WebSocket: "down", "up", or "gone": lost, unnoticed
    requests,       \* LibrespotRest::requests_
    replies,        \* posted to the event loop, not handled yet
    events,         \* on the WebSocket, not read yet
    picture,        \* what the listener makes of all it was told
    librespot,      \* go-librespot
    stale,          \* what a reply overtaken or lost left wrong: "session", "track", "modes"
    acts, faults      \* counted for the bounds

counts == <<acts, faults>>
libVars == <<connected, link, requests, replies, events, picture, librespot, stale, counts>>

NewPicture == [active |-> FALSE, playing |-> FALSE, modes |-> {},
               track |-> NoTrack, position |-> 0]
Stopped    == [running |-> TRUE, session |-> "none", modes |-> {},
               track |-> NoTrack, position |-> 0]
Playing(modes, track) ==
    [running |-> TRUE, session |-> "playing", modes |-> modes, track |-> track, position |-> 0]
\* A session that has no track yet.
Joined(modes) ==
    [running |-> TRUE, session |-> "paused", modes |-> modes, track |-> NoTrack, position |-> 0]
Exited     == [Stopped EXCEPT !.running = FALSE]

Event(type)   == [type |-> type]
ModeEvent(mode, on) == [type |-> "mode", mode |-> mode, on |-> on]
Metadata(track, position) == [type |-> "metadata", track |-> track, position |-> position]
Seek(position) == [type |-> "seek", position |-> position]
With(modes, mode, on) == IF on THEN modes \cup {mode} ELSE modes \ {mode}

LibInit ==
    /\ connected = FALSE /\ link = "down"
    /\ requests = <<>> /\ replies = <<>> /\ events = <<>>
    /\ picture = NewPicture
    /\ librespot \in {Stopped, Exited}
                     \cup {Joined(modes) : modes \in SUBSET ModeNames}
                     \cup {Playing(modes, track) : modes \in SUBSET ModeNames, track \in Tracks}
    /\ stale = {}
    /\ acts = 0 /\ faults = 0

----------------------------------------------------------------------------
(* What the listener makes of the calls: PlayerController's fields.        *)

\* onSpotifyActiveChanged(false) takes the session to be over.
NowActive(p, active) ==
    IF active THEN [p EXCEPT !.active = TRUE] ELSE [NewPicture EXCEPT !.modes = p.modes]

\* onSpotifyTrackChanged, and onSpotifyPositionChanged right after it.
NewTrack(p, track, position) == [p EXCEPT !.track = track, !.position = position]

\* dispatchLibrespotEvent.
AfterEvent(p, event) ==
    CASE event.type \in {"active", "inactive"} -> NowActive(p, event.type = "active")
      [] event.type \in {"playing", "paused"}  -> [p EXCEPT !.playing = event.type = "playing"]
      [] event.type = "mode" -> [p EXCEPT !.modes = With(@, event.mode, event.on)]
      [] event.type = "metadata" -> NewTrack(p, event.track, event.position)
      [] event.type = "seek" -> [p EXCEPT !.position = event.position]

\* dispatchLibrespotNoSession.
NoSession(p) == NowActive(p, FALSE)

\* dispatchLibrespotStatus: a stopped session is no session; a track is told only if
\* there is one.
AfterStatus(p, answer) ==
    LET told == NowActive(p, answer.session # "none")
    IN [(IF answer.track # NoTrack THEN NewTrack(told, answer.track, answer.position) ELSE told)
            EXCEPT !.modes = answer.modes, !.playing = answer.session = "playing"]

\* dispatchLibrespotModes.
AfterModes(p, answer) == [p EXCEPT !.modes = answer.modes]

\* Mutation of MayChangeModes: only a new session does.
MayChangeModesOnSession(event) == event.type = "active"

\* librespotEventMayChangeModes.
MayChangeModes(event) == event.type \in {"active", "metadata"}

----------------------------------------------------------------------------
(* GoLibrespotClient.                                                      *)

\* enqueue(): the worker's queue with one more request.
Queued(request) == Append(requests, request)

\* Replies waiting when a connection begins or ends: what happened while there was
\* none, no event tells.
Overtaken == [i \in DOMAIN replies |-> [replies[i] EXCEPT !.overtaken = TRUE]]

\* Mutation of OnOpen: goes by the events that follow.
OnOpenWithoutStatus ==
    /\ link = "down" /\ librespot.running
    /\ link' = "up" /\ connected' = TRUE
    /\ replies' = Overtaken
    /\ UNCHANGED <<requests, events, picture, librespot, stale, counts>>

\* onOpen(): the reconnect timer fired with go-librespot there.  A connect that
\* fails only restarts the timer.
OnOpen ==
    /\ link = "down" /\ librespot.running
    /\ link' = "up" /\ connected' = TRUE
    /\ requests' = Queued([ask |-> "status"])
    /\ replies' = Overtaken
    /\ UNCHANGED <<events, picture, librespot, stale, counts>>

\* Replies waiting now have one event less before them; one answered before
\* the event happened is overtaken by it.
Passed(reply) == [reply EXCEPT !.before = IF @ = 0 THEN 0 ELSE @ - 1,
                               !.overtaken = @ \/ reply.before = 0]

\* onMessage(): the oldest event, and the question it raises.
OnMessage ==
    /\ link # "down" /\ events # <<>>
    /\ events' = Tail(events)
    /\ picture' = AfterEvent(picture, Head(events))
    /\ requests' = IF MayChangeModes(Head(events))
                   THEN Queued([ask |-> "modes"]) ELSE requests
    /\ replies' = [i \in DOMAIN replies |-> Passed(replies[i])]
    /\ UNCHANGED <<connected, link, librespot, stale, counts>>

\* onClosed(): events not read by now are lost.
OnClosed ==
    /\ link = "gone"
    /\ link' = "down" /\ connected' = FALSE
    /\ events' = <<>>
    /\ picture' = NoSession(picture)
    /\ replies' = Overtaken
    /\ UNCHANGED <<requests, librespot, stale, counts>>

\* setShuffle() or setRepeat(), toggling what was last reported.
PressMode(mode) ==
    /\ acts < MaxActs /\ acts' = acts + 1
    /\ requests' = Queued([ask |-> "set", mode |-> mode,
                            on |-> mode \notin picture.modes])
    /\ UNCHANGED <<connected, link, replies, events, picture, librespot, stale, faults>>

\* next() or previous().
PressSkip ==
    /\ acts < MaxActs /\ acts' = acts + 1
    /\ requests' = Queued([ask |-> "skip"])
    /\ UNCHANGED <<connected, link, replies, events, picture, librespot, stale, faults>>

\* What a reply was asked for, and what it says nothing of: a session without a track
\* leaves the track that was told last.
AskedFor(reply) == IF reply.ask = "status" THEN {"session", "track", "modes"} ELSE {"modes"}
Untold(reply)   == IF reply.answer.session # "none" /\ reply.answer.track = NoTrack
                   THEN {"track"} ELSE {}

\* The reply to a GET comes to its turn on the event loop, connected or not: onStatus()
\* and the reply to onMessage's question.  `status' 0 is no reply.
ReplyHandled ==
    /\ replies # <<>>
    /\ LET reply == Head(replies) IN
       /\ picture' =
            CASE reply.ask = "status" /\ reply.status = 204 -> NoSession(picture)
              [] reply.ask = "status" /\ reply.status = 200 -> AfterStatus(picture, reply.answer)
              [] reply.ask = "modes"  /\ reply.status = 200 -> AfterModes(picture, reply.answer)
              [] OTHER -> picture
       /\ stale' = IF reply.overtaken \/ reply.status = 0 \/ ~connected
                   THEN stale \cup AskedFor(reply)
                   ELSE stale \ (AskedFor(reply) \ Untold(reply))
    /\ replies' = Tail(replies)
    /\ UNCHANGED <<connected, link, requests, events, librespot, counts>>

----------------------------------------------------------------------------
(* LibrespotRest's worker, and go-librespot.                               *)

\* go-librespot tells whoever listens.
Emit(happened) == events' = IF link = "up" THEN events \o happened ELSE events

\* A track starts, within a session.
TrackStarts(track, position) ==
    /\ librespot' = [librespot EXCEPT !.track = track, !.position = position]
    /\ Emit(<<Metadata(track, position)>>)

Reply(ask, status) ==
    [ask |-> ask, status |-> status, answer |-> librespot,
     before |-> Len(events), overtaken |-> FALSE]

\* The worker sends the oldest request and go-librespot answers it; with no
\* session the answer to GET /status is a 204, or a 200 that says `stopped'.
RequestServed ==
    /\ requests # <<>> /\ librespot.running
    /\ requests' = Tail(requests)
    /\ LET request == Head(requests) IN
       \/ /\ request.ask = "set"
          /\ IF librespot.session # "none"
                /\ librespot.modes # With(librespot.modes, request.mode, request.on)
             THEN /\ librespot' = [librespot EXCEPT
                                    !.modes = With(@, request.mode, request.on)]
                  /\ Emit(<<ModeEvent(request.mode, request.on)>>)
             ELSE UNCHANGED <<librespot, events>>
          /\ UNCHANGED replies
       \/ /\ request.ask = "skip"
          /\ IF librespot.session # "none"
             THEN \E track \in Tracks : TrackStarts(track, 0)
             ELSE UNCHANGED <<librespot, events>>
          /\ UNCHANGED replies
       \/ /\ request.ask \in {"status", "modes"}
          /\ \E status \in IF librespot.session = "none" THEN {200, 204} ELSE {200} :
                replies' = Append(replies, Reply(request.ask, status))
          /\ UNCHANGED <<librespot, events>>
    /\ UNCHANGED <<connected, link, picture, stale, counts>>

\* Nobody answers, in time or at all.
RequestFails ==
    /\ requests # <<>>
    /\ \/ ~librespot.running /\ UNCHANGED faults
       \/ faults < MaxFaults /\ faults' = faults + 1
    /\ requests' = Tail(requests)
    /\ replies' = IF Head(requests).ask \in {"set", "skip"} THEN replies
                  ELSE Append(replies, Reply(Head(requests).ask, 0))
    /\ UNCHANGED <<connected, link, events, picture, librespot, stale, acts>>

\* A phone brings a session with modes of its own, and something to play or not yet,
\* or moves it away.
SessionChanges ==
    \/ /\ librespot.session = "none"
       /\ \E modes \in SUBSET ModeNames : librespot' = Joined(modes)
       /\ Emit(<<Event("active")>>)
    \/ /\ librespot.session = "none"
       /\ \E modes \in SUBSET ModeNames, track \in Tracks :
            /\ librespot' = Playing(modes, track)
            /\ Emit(<<Event("active"), Metadata(track, 0), Event("playing")>>)
    \/ /\ librespot.session # "none"
       /\ librespot' = Stopped
       /\ Emit(<<Event("inactive")>>)

\* Within a session: play or pause, a mode, a seek, or the first track of another
\* playlist, whose modes come without an event.
PlaybackChanges ==
    /\ librespot.session # "none"
    /\ \/ LET now == IF librespot.session = "playing" THEN "paused" ELSE "playing" IN
          /\ librespot.track # NoTrack
          /\ librespot' = [librespot EXCEPT !.session = now]
          /\ Emit(<<Event(now)>>)
       \/ \E mode \in ModeNames :
            LET on == mode \notin librespot.modes IN
            /\ librespot' = [librespot EXCEPT !.modes = With(@, mode, on)]
            /\ Emit(<<ModeEvent(mode, on)>>)
       \/ \E position \in Positions \ {librespot.position} :
            /\ librespot.track # NoTrack
            /\ librespot' = [librespot EXCEPT !.position = position]
            /\ Emit(<<Seek(position)>>)
       \/ \E modes \in SUBSET ModeNames, track \in Tracks :
            /\ librespot' = [librespot EXCEPT !.modes = modes, !.track = track, !.position = 0]
            /\ Emit(<<Metadata(track, 0)>>)

LibrespotChanges ==
    /\ librespot.running /\ acts < MaxActs /\ acts' = acts + 1
    /\ SessionChanges \/ PlaybackChanges
    /\ UNCHANGED <<connected, link, requests, replies, picture, stale, faults>>

\* The connection breaks, with or without go-librespot.
LinkLost ==
    /\ faults < MaxFaults /\ faults' = faults + 1
    /\ link = "up" /\ link' = "gone"
    /\ librespot' \in {librespot, Exited}
    /\ UNCHANGED <<connected, requests, replies, events, picture, stale, acts>>

\* systemd starts it (Restart=always).
LibrespotStarts ==
    /\ ~librespot.running
    /\ librespot' = Stopped
    /\ UNCHANGED <<connected, link, requests, replies, events, picture, stale, counts>>

----------------------------------------------------------------------------
LibNext ==
    \/ OnOpen \/ OnMessage \/ OnClosed \/ ReplyHandled
    \/ (\E mode \in ModeNames : PressMode(mode)) \/ PressSkip
    \/ RequestServed \/ RequestFails
    \/ LibrespotChanges \/ LinkLost \/ LibrespotStarts

\* The event loop, the worker and systemd keep going.
LibSpec ==
    /\ LibInit /\ [][LibNext]_libVars
    /\ WF_libVars(OnOpen) /\ WF_libVars(OnMessage) /\ WF_libVars(OnClosed)
    /\ WF_libVars(ReplyHandled) /\ WF_libVars(RequestServed \/ RequestFails)
    /\ WF_libVars(LibrespotStarts)

----------------------------------------------------------------------------
(* Properties.                                                             *)

Quiet == requests = <<>> /\ replies = <<>> /\ events = <<>>

\* The picture is go-librespot's session; without one the modes mean nothing.
InStep ==
    /\ "session" \notin stale =>
          /\ picture.active = (librespot.session # "none")
          /\ picture.playing = (librespot.session = "playing")
    /\ "track" \notin stale =>
          picture.track = librespot.track /\ picture.position = librespot.position
    /\ "modes" \notin stale /\ librespot.session # "none" => picture.modes = librespot.modes

\* With all that was under way handled, the Deck's picture of Spotify is right:
\* whatever changed while it was disconnected, and whatever modes a session or
\* a playlist brought without an event.  Only a reply that was lost, or overtaken by an
\* event or by a connection that began or ended, can leave wrong what it was asked for.
CatchesUp == Quiet /\ link = "up" => InStep

\* After the last change and the last loss the Deck comes to be connected and
\* in step again, and stays so, unless a reply was overtaken or lost.
ComesIntoStep == <>[](connected /\ InStep)

=============================================================================
