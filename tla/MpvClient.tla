------------------------------ MODULE MpvClient ------------------------------
(***************************************************************************)
(* The Radio's client, MpvClient (src/src/adapters): it drives mpv over a  *)
(* Unix socket, remembers what mpv should be doing, and replays it on      *)
(* every connect.  Everything runs on the event loop; writes, reads and    *)
(* the reconnect timer complete later, in steps of their own.              *)
(*                                                                         *)
(* mpv is external: it is modelled by what the client and ADR 0004 rely    *)
(* on.  It may exit at any time, forgetting everything, and systemd starts *)
(* it again.  Stations stand for their URLs and for their stream titles.   *)
(***************************************************************************)
EXTENDS Naturals, Sequences

CONSTANTS
    RadioStations,  \* the Stations tuned
    None,           \* no Station, no file, the empty title
    MaxCalls,       \* bound on the calls of the client
    MaxExits        \* bound on how often mpv exits

ASSUME NoneAssumption == None \notin RadioStations
ASSUME MpvBoundsAssumption == MaxCalls \in Nat /\ MaxExits \in Nat

VARIABLES
    connected,      \* connected_
    station,        \* station_
    paused, muted,  \* paused_, muted_
    output,         \* output_
    writing,        \* an async_write is under way
    title,          \* PlayerController's streamTitle_, the listener's
    link,           \* the socket: "closed", "up", or "gone": closed by mpv, unnoticed
    wire,           \* lines written that mpv hasn't read
    titles,         \* title changes mpv sent that the client hasn't read
    mpv,            \* mpv itself
    calls, exits    \* counted for the bounds

clientVars == <<connected, station, paused, muted, output, writing, title>>
mpvVars    == <<link, wire, titles, mpv>>
mpvClientVars == <<clientVars, mpvVars, calls, exits>>

Line(cmd, file) == [cmd |-> cmd, file |-> file]
Observe    == Line("observe", None)
SetPause(p) == Line(IF p THEN "pause" ELSE "unpause", None)
SetAid(to) == Line(to, None)                    \* "aid_no" or "aid_auto"
LoadFile(file) == Line("loadfile", file)
Lines == [cmd : {"observe", "pause", "unpause", "aid_no", "aid_auto"}, file : {None}]
         \cup [cmd : {"loadfile"}, file : RadioStations]

FreshMpv   == [running |-> TRUE, pause |-> FALSE, aid |-> TRUE, file |-> None,
               title |-> None, observed |-> FALSE]
StoppedMpv == [FreshMpv EXCEPT !.running = FALSE]

\* mute() was called by PlayerController::start; mpv may not be up yet.
MpvInit ==
    /\ connected = FALSE /\ station = None /\ paused = FALSE /\ muted = TRUE
    /\ output = <<>> /\ writing = FALSE /\ title = None
    /\ link = "closed" /\ wire = <<>> /\ titles = <<>>
    /\ mpv \in {FreshMpv, StoppedMpv}
    /\ calls = 0 /\ exits = 0

----------------------------------------------------------------------------
(* The client's lines.                                                     *)

\* load(): `aid no' would silence the loadfile, so the track comes first.
Load(file, p) == <<SetPause(p), SetAid("aid_auto"), LoadFile(file)>>

\* Mutation of Replay: a connection starts like the first one ever.
ReplayFirst == <<Observe, SetPause(paused), SetAid("aid_no")>>

\* What onConnected sends.
Replay ==
    <<Observe, SetPause(paused)>> \o
        (IF muted THEN <<SetAid("aid_no")>>
         ELSE IF station # None THEN Load(station, paused) ELSE <<>>)

\* command(), for each line: the first one in an empty queue starts the writer.
Queue(lines) ==
    /\ output' = output \o lines
    /\ writing' = (writing \/ (output = <<>> /\ lines # <<>>))

\* Lines for an mpv that isn't there are dropped.
Send(lines) == IF connected THEN Queue(lines) ELSE UNCHANGED <<output, writing>>

Call(lines) ==
    /\ calls < MaxCalls /\ calls' = calls + 1
    /\ Send(lines)
    /\ UNCHANGED <<connected, mpvVars, exits>>

\* tune(), after which PlayerController::tune clears the stream title.
TuneTo(s) ==
    /\ Call(IF muted THEN <<>> ELSE Load(s, FALSE))
    /\ station' = s /\ paused' = FALSE /\ title' = None
    /\ UNCHANGED muted

\* pause() and resume().
PauseOrResume(p) ==
    /\ Call(<<SetPause(p)>>)
    /\ paused' = p
    /\ UNCHANGED <<station, muted, title>>

\* mute().
Mute ==
    /\ Call(<<SetAid("aid_no")>>)
    /\ muted' = TRUE
    /\ UNCHANGED <<station, paused, title>>

\* Mutation of UnmuteLines: the stream is taken to have survived the mute.
UnmuteLinesOnlyTrack == <<SetAid("aid_auto")>>

\* A muted stream may be dead by now, so it is loaded again.
UnmuteLines == IF station # None THEN Load(station, paused) ELSE <<SetAid("aid_auto")>>

\* unmute().
Unmute ==
    /\ Call(UnmuteLines)
    /\ muted' = FALSE
    /\ UNCHANGED <<station, paused, title>>

----------------------------------------------------------------------------
(* The connection.                                                         *)

\* The reconnect timer fires (or the first connect completes) with mpv there:
\* onConnected().  A connect that fails changes nothing but the timer.  The
\* handler of a write that the closed socket aborted is queued long before.
Connects ==
    /\ link = "closed" /\ ~writing /\ mpv.running
    /\ link' = "up" /\ connected' = TRUE
    /\ Queue(Replay)
    /\ UNCHANGED <<station, paused, muted, title, wire, titles, mpv, calls, exits>>

\* writeNext(): the front line is written, the next one follows.
Writes ==
    /\ writing /\ link = "up"
    /\ wire' = Append(wire, Head(output))
    /\ output' = Tail(output)
    /\ writing' = (output' # <<>>)
    /\ UNCHANGED <<connected, station, paused, muted, title, link, titles, mpv, calls, exits>>

\* Mutation of WriteFails: what couldn't be written is kept for later.
WriteFailsKeepingOutput ==
    /\ writing /\ link # "up"
    /\ writing' = FALSE
    /\ UNCHANGED <<output, connected, station, paused, muted, title, mpvVars, calls, exits>>

\* writeNext(), on a socket that is closed on either side: the lines are dropped.
WriteFails ==
    /\ writing /\ link # "up"
    /\ output' = <<>> /\ writing' = FALSE
    /\ UNCHANGED <<connected, station, paused, muted, title, mpvVars, calls, exits>>

\* Mutation of ReadLine: a title without data is no news.
ReadLineWithData ==
    /\ link # "closed" /\ titles # <<>>
    /\ title' = IF Head(titles) # None THEN Head(titles) ELSE title
    /\ titles' = Tail(titles)
    /\ UNCHANGED <<connected, station, paused, muted, output, writing, link, wire, mpv,
                   calls, exits>>

\* readLine() and onLine(): the oldest title change, which may be to no title.
ReadLine ==
    /\ link # "closed" /\ titles # <<>>
    /\ title' = Head(titles)
    /\ titles' = Tail(titles)
    /\ UNCHANGED <<connected, station, paused, muted, output, writing, link, wire, mpv,
                   calls, exits>>

\* onLost(): the read fails once everything sent before has been read.
Loses ==
    /\ link = "gone" /\ titles = <<>>
    /\ link' = "closed" /\ connected' = FALSE
    /\ title' = None
    /\ UNCHANGED <<station, paused, muted, output, writing, wire, titles, mpv, calls, exits>>

----------------------------------------------------------------------------
(* mpv.                                                                    *)

\* mpv's new state, and a title change if it is observed and there is one.
Becomes(new) ==
    /\ mpv' = new
    /\ titles' = IF mpv.observed /\ new.title # mpv.title
                 THEN Append(titles, new.title) ELSE titles

\* mpv reads a line.  With no track selected a file ends at once.
Serves ==
    /\ mpv.running /\ wire # <<>>
    /\ wire' = Tail(wire)
    /\ LET line == Head(wire) IN
       \/ /\ line.cmd = "observe"
          /\ mpv' = [mpv EXCEPT !.observed = TRUE]
          /\ titles' = Append(titles, mpv.title)
       \/ line.cmd \in {"pause", "unpause"}
          /\ Becomes([mpv EXCEPT !.pause = (line.cmd = "pause")])
       \/ line.cmd \in {"aid_no", "aid_auto"}
          /\ Becomes([mpv EXCEPT !.aid = (line.cmd = "aid_auto")])
       \/ line.cmd = "loadfile"
          /\ Becomes([mpv EXCEPT !.file = IF mpv.aid THEN line.file ELSE None,
                                 !.title = None])
    /\ UNCHANGED <<clientVars, link, calls, exits>>

\* The stream brings its title.
TitleComes ==
    /\ mpv.running /\ mpv.aid /\ mpv.file # None /\ mpv.title = None
    /\ Becomes([mpv EXCEPT !.title = mpv.file])
    /\ UNCHANGED <<clientVars, link, wire, calls, exits>>

\* The server drops a stream that is muted, and so isn't read.
StreamDropped ==
    /\ mpv.running /\ ~mpv.aid /\ mpv.file # None
    /\ Becomes([mpv EXCEPT !.file = None])
    /\ UNCHANGED <<clientVars, link, wire, calls, exits>>

\* mpv exits; what it sent can still be read.
MpvExits ==
    /\ mpv.running /\ exits < MaxExits
    /\ exits' = exits + 1
    /\ mpv' = StoppedMpv /\ wire' = <<>>
    /\ link' = IF link = "up" THEN "gone" ELSE link
    /\ UNCHANGED <<clientVars, titles, calls>>

\* systemd starts it (Restart=always).
MpvStarts ==
    /\ ~mpv.running
    /\ mpv' = FreshMpv
    /\ UNCHANGED <<clientVars, link, wire, titles, calls, exits>>

----------------------------------------------------------------------------
RadioCall ==
    \/ \E s \in RadioStations : TuneTo(s)
    \/ \E p \in BOOLEAN : PauseOrResume(p)
    \/ Mute
    \/ Unmute

MpvNext ==
    \/ RadioCall
    \/ Connects \/ Writes \/ WriteFails \/ ReadLine \/ Loses
    \/ Serves \/ TitleComes \/ StreamDropped \/ MpvExits \/ MpvStarts

\* The event loop, mpv and systemd keep going; streams and callers need not.
MpvSpec ==
    /\ MpvInit /\ [][MpvNext]_mpvClientVars
    /\ WF_mpvClientVars(Connects) /\ WF_mpvClientVars(Writes)
    /\ WF_mpvClientVars(WriteFails) /\ WF_mpvClientVars(ReadLine)
    /\ WF_mpvClientVars(Loses) /\ WF_mpvClientVars(Serves)
    /\ WF_mpvClientVars(MpvStarts)

----------------------------------------------------------------------------
(* Properties.                                                             *)

MpvState == [running : BOOLEAN, pause : BOOLEAN, aid : BOOLEAN,
             file : RadioStations \cup {None}, title : RadioStations \cup {None},
             observed : BOOLEAN]

\* Every variable has its type, and the client is connected exactly while it
\* takes its socket to be open.
MpvTypeOK ==
    /\ connected \in BOOLEAN /\ paused \in BOOLEAN /\ muted \in BOOLEAN
    /\ station \in RadioStations \cup {None}
    /\ output \in Seq(Lines) /\ writing \in BOOLEAN
    /\ title \in RadioStations \cup {None}
    /\ link \in {"closed", "up", "gone"} /\ (connected <=> link # "closed")
    /\ wire \in Seq(Lines) /\ titles \in Seq(RadioStations \cup {None})
    /\ mpv \in MpvState
    /\ calls \in 0 .. MaxCalls /\ exits \in 0 .. MaxExits

\* Lines wait for the writer exactly while it is running: across losses and
\* reconnects none is left in the queue with nobody to write it, which would
\* stop all that follow.
WriterRunsWhileNeeded == writing <=> output # <<>>

\* What is heard of mpv, and what the client was asked for; while it is unmuted
\* with no Station tuned nothing in particular is.
Heard      == IF mpv.running /\ mpv.aid /\ ~mpv.pause THEN mpv.file ELSE None
Wanted     == IF muted \/ paused THEN None ELSE station
Determined == muted \/ station # None

Settled == link = "up" /\ output = <<>> /\ wire = <<>>

\* With every line read, mpv plays what was asked for, however the calls fell
\* among losses and reconnects, and whatever the mutes did to the stream.
PlaysWhatWasAsked == Settled /\ Determined => Heard = Wanted

\* With every title read, the panel's title is that of the stream: a late title
\* of the previous Station doesn't stay.
TitleCatchesUp ==
    Settled /\ titles = <<>> /\ Determined /\ ~muted => title = mpv.title

\* Once the calls stop and mpv stays up, what was asked for comes to be heard.
ComesToBeHeard == <>[](Determined => Heard = Wanted)

=============================================================================
