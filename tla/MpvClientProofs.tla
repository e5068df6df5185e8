--------------------------- MODULE MpvClientProofs ---------------------------
(***************************************************************************)
(* Proofs about MpvClient, for any Stations, and however often it is       *)
(* called and mpv exits.  What mpv comes to do is decided by the lines     *)
(* under way to it: those in the socket, then those in the queue.  So the  *)
(* inductive invariant says what the last lines of each kind are, or, if   *)
(* there is none, what mpv does already.                                   *)
(***************************************************************************)
EXTENDS MpvClient, SequenceTheorems, TLAPS

\* The lines under way.
Pipe == wire \o output

\* The last line of `s' that is of one of the kinds comes no later than this one, of
\* another kind or the same; or there is none.
LastSays(s, kinds, line) ==
    \E k \in 1 .. Len(s) : s[k] = line /\ \A i \in k + 1 .. Len(s) : s[i].cmd \notin kinds
NoneSays(s, kinds) == \A i \in 1 .. Len(s) : s[i].cmd \notin kinds

PauseKinds == {"pause", "unpause"}
TrackKinds == {"aid_no", "loadfile"}

PauseComes(s, m, p) ==
    LastSays(s, PauseKinds, SetPause(p)) \/ (NoneSays(s, PauseKinds) /\ m.pause = p)

SilenceComes(s, m) ==
    LastSays(s, {"aid_auto"}, SetAid("aid_no")) \/ (NoneSays(s, {"aid_auto"}) /\ ~m.aid)

\* The file is loaded with a track selected, and stays.
StationComes(s, m, f) ==
    \/ \E k \in 1 .. Len(s) :
          /\ s[k] = LoadFile(f)
          /\ IF k = 1 THEN m.aid ELSE s[k - 1] = SetAid("aid_auto")
          /\ \A i \in k + 1 .. Len(s) : s[i].cmd \notin TrackKinds
    \/ NoneSays(s, TrackKinds) /\ m.aid /\ m.file = f

\* The title the panel shows once all that mpv sent is read.
TitleRead(sent, now) == IF sent = <<>> THEN now ELSE sent[Len(sent)]

LoadUnderWay(s)    == \E i \in 1 .. Len(s) : s[i].cmd = "loadfile"
ObserveUnderWay(s) == \E i \in 1 .. Len(s) : s[i].cmd = "observe"

----------------------------------------------------------------------------
(* The invariant.                                                          *)

\* Without a connection mpv is as it started, and nothing is under way to it.
OnlyConnectionsMatter ==
    /\ link # "up" => wire = <<>> /\ mpv \in {FreshMpv, StoppedMpv}
    /\ link = "up" => mpv.running
    /\ link = "closed" => titles = <<>> /\ title = None

\* What is asked for comes to be.
WantedComes ==
    link = "up" =>
        /\ muted => SilenceComes(Pipe, mpv)
        /\ ~muted /\ station # None => PauseComes(Pipe, mpv, paused) /\ StationComes(Pipe, mpv, station)

\* And so does the title.
TitleComesToBeRead ==
    link = "up" =>
        /\ ~mpv.observed => ObserveUnderWay(Pipe) /\ titles = <<>> /\ title = None
        /\ mpv.observed => TitleRead(titles, title) \in {None, mpv.title}
        /\ mpv.observed /\ ~muted /\ station # None =>
              TitleRead(titles, title) = mpv.title \/ LoadUnderWay(Pipe)

IInv ==
    /\ MpvTypeOK /\ WriterRunsWhileNeeded
    /\ OnlyConnectionsMatter /\ WantedComes /\ TitleComesToBeRead

----------------------------------------------------------------------------
(* Lines and pipes.                                                        *)

\* Types of what is sent.
LEMMA LineTypes ==
    /\ Observe \in Lines /\ Observe.cmd = "observe"
    /\ \A p \in BOOLEAN : SetPause(p) \in Lines /\ SetPause(p).cmd = IF p THEN "pause" ELSE "unpause"
    /\ \A aid \in {"aid_no", "aid_auto"} : SetAid(aid) \in Lines /\ SetAid(aid).cmd = aid
    /\ \A s \in RadioStations :
          LoadFile(s) \in Lines /\ LoadFile(s).cmd = "loadfile" /\ LoadFile(s).file = s
  BY DEF Observe, SetPause, SetAid, LoadFile, Line, Lines

\* What load() sends is lines.
LEMMA LoadTypes ==
    ASSUME NEW f \in RadioStations, NEW p \in BOOLEAN
    PROVE  /\ Load(f, p) \in Seq(Lines) /\ Len(Load(f, p)) = 3
           /\ Load(f, p)[1] = SetPause(p) /\ Load(f, p)[2] = SetAid("aid_auto")
           /\ Load(f, p)[3] = LoadFile(f)
  <1> DEFINE a == SetPause(p)
             b == SetAid("aid_auto")
             c == LoadFile(f)
  <1>1. a \in Lines /\ b \in Lines /\ c \in Lines
    BY LineTypes
  <1>2. Load(f, p) = <<a, b, c>>
    BY DEF Load
  <1> HIDE DEF a, b, c
  <1>3. <<a, b, c>> \in Seq(Lines) /\ Len(<<a, b, c>>) = 3
    BY <1>1
  <1>4. <<a, b, c>>[1] = a /\ <<a, b, c>>[2] = b /\ <<a, b, c>>[3] = c
    OBVIOUS
  <1> QED
    BY <1>2, <1>3, <1>4 DEF a, b, c

\* Lines put behind others.
LEMMA LastOfConcat ==
    ASSUME NEW s \in Seq(Lines), NEW t \in Seq(Lines), NEW kinds, NEW line
    PROVE  /\ LastSays(t, kinds, line) => LastSays(s \o t, kinds, line)
           /\ LastSays(s, kinds, line) /\ NoneSays(t, kinds) => LastSays(s \o t, kinds, line)
           /\ NoneSays(s, kinds) /\ NoneSays(t, kinds) => NoneSays(s \o t, kinds)
  <1>1. /\ Len(s \o t) = Len(s) + Len(t)
        /\ \A i \in 1 .. Len(s) : (s \o t)[i] = s[i]
        /\ \A i \in 1 .. Len(t) : (s \o t)[Len(s) + i] = t[i]
        /\ \A i \in Len(s) + 1 .. Len(s) + Len(t) : (s \o t)[i] = t[i - Len(s)]
        /\ Len(s) \in Nat /\ Len(t) \in Nat
    OBVIOUS
  <1>2. ASSUME LastSays(t, kinds, line) PROVE LastSays(s \o t, kinds, line)
    <2>1. PICK k \in 1 .. Len(t) : t[k] = line /\ \A i \in k + 1 .. Len(t) : t[i].cmd \notin kinds
      BY <1>2 DEF LastSays
    <2>2. ASSUME NEW i \in Len(s) + k + 1 .. Len(s) + Len(t) PROVE (s \o t)[i].cmd \notin kinds
      BY <1>1, <2>1
    <2>3. Len(s) + k \in 1 .. Len(s \o t) /\ (s \o t)[Len(s) + k] = line
      BY <1>1, <2>1
    <2> QED
      BY <1>1, <2>2, <2>3 DEF LastSays
  <1>3. ASSUME LastSays(s, kinds, line), NoneSays(t, kinds) PROVE LastSays(s \o t, kinds, line)
    <2>1. PICK k \in 1 .. Len(s) : s[k] = line /\ \A i \in k + 1 .. Len(s) : s[i].cmd \notin kinds
      BY <1>3 DEF LastSays
    <2>2. ASSUME NEW i \in k + 1 .. Len(s) + Len(t) PROVE (s \o t)[i].cmd \notin kinds
      BY <1>1, <1>3, <2>1 DEF NoneSays
    <2> QED
      BY <1>1, <2>1, <2>2 DEF LastSays
  <1>4. ASSUME NoneSays(s, kinds), NoneSays(t, kinds) PROVE NoneSays(s \o t, kinds)
    BY <1>1, <1>4 DEF NoneSays
  <1> QED
    BY <1>2, <1>3, <1>4

\* The first line is served.
LEMMA LastOfTail ==
    ASSUME NEW s \in Seq(Lines), s # <<>>, NEW kinds, NEW line
    PROVE  /\ LastSays(s, kinds, line) =>
                  LastSays(Tail(s), kinds, line) \/ (Head(s) = line /\ NoneSays(Tail(s), kinds))
           /\ NoneSays(s, kinds) => Head(s).cmd \notin kinds /\ NoneSays(Tail(s), kinds)
  <1>1. /\ Len(s) \in Nat /\ Len(s) > 0 /\ Len(Tail(s)) = Len(s) - 1 /\ Head(s) = s[1]
        /\ \A i \in 1 .. Len(Tail(s)) : Tail(s)[i] = s[i + 1]
    OBVIOUS
  <1>2. ASSUME LastSays(s, kinds, line)
        PROVE  LastSays(Tail(s), kinds, line) \/ (Head(s) = line /\ NoneSays(Tail(s), kinds))
    <2>1. PICK k \in 1 .. Len(s) : s[k] = line /\ \A i \in k + 1 .. Len(s) : s[i].cmd \notin kinds
      BY <1>2 DEF LastSays
    <2>2. CASE k = 1
      BY <1>1, <2>1, <2>2 DEF NoneSays
    <2>3. CASE k # 1
      <3>1. k - 1 \in 1 .. Len(Tail(s)) /\ Tail(s)[k - 1] = line
        BY <1>1, <2>1, <2>3
      <3>2. \A i \in (k - 1) + 1 .. Len(Tail(s)) : Tail(s)[i].cmd \notin kinds
        BY <1>1, <2>1, <2>3
      <3> QED
        BY <3>1, <3>2 DEF LastSays
    <2> QED
      BY <2>2, <2>3
  <1>3. ASSUME NoneSays(s, kinds) PROVE Head(s).cmd \notin kinds /\ NoneSays(Tail(s), kinds)
    BY <1>1, <1>3 DEF NoneSays
  <1> QED
    BY <1>2, <1>3

----------------------------------------------------------------------------
(* What comes, with lines queued behind or the first one served.           *)

\* Indices of a concatenation.
LEMMA ConcatLines ==
    ASSUME NEW s \in Seq(Lines), NEW t \in Seq(Lines)
    PROVE  /\ s \o t \in Seq(Lines) /\ Len(s \o t) = Len(s) + Len(t)
           /\ \A i \in 1 .. Len(s) : (s \o t)[i] = s[i]
           /\ \A i \in 1 .. Len(t) : (s \o t)[Len(s) + i] = t[i]
           /\ \A i \in Len(s) + 1 .. Len(s) + Len(t) : (s \o t)[i] = t[i - Len(s)]
  OBVIOUS

\* Lines of other kinds queued behind change nothing.
LEMMA OthersBehind ==
    ASSUME NEW s \in Seq(Lines), NEW t \in Seq(Lines), NEW m, NEW p, NEW f
    PROVE  /\ PauseComes(s, m, p) /\ NoneSays(t, PauseKinds) => PauseComes(s \o t, m, p)
           /\ SilenceComes(s, m) /\ NoneSays(t, {"aid_auto"}) => SilenceComes(s \o t, m)
           /\ StationComes(s, m, f) /\ NoneSays(t, TrackKinds) => StationComes(s \o t, m, f)
           /\ LoadUnderWay(s) => LoadUnderWay(s \o t)
           /\ ObserveUnderWay(s) => ObserveUnderWay(s \o t)
  <1>1. PauseComes(s, m, p) /\ NoneSays(t, PauseKinds) => PauseComes(s \o t, m, p)
    BY LastOfConcat DEF PauseComes
  <1>2. SilenceComes(s, m) /\ NoneSays(t, {"aid_auto"}) => SilenceComes(s \o t, m)
    BY LastOfConcat DEF SilenceComes
  <1>3. ASSUME StationComes(s, m, f), NoneSays(t, TrackKinds) PROVE StationComes(s \o t, m, f)
    <2>1. CASE NoneSays(s, TrackKinds) /\ m.aid /\ m.file = f
      BY <1>3, <2>1, LastOfConcat DEF StationComes
    <2>2. ASSUME NEW k \in 1 .. Len(s), s[k] = LoadFile(f),
                 IF k = 1 THEN m.aid ELSE s[k - 1] = SetAid("aid_auto"),
                 \A i \in k + 1 .. Len(s) : s[i].cmd \notin TrackKinds
          PROVE  StationComes(s \o t, m, f)
      <3>1. ASSUME NEW i \in k + 1 .. Len(s \o t) PROVE (s \o t)[i].cmd \notin TrackKinds
        BY ConcatLines, <1>3, <2>2 DEF NoneSays
      <3>2. k \in 1 .. Len(s \o t) /\ (s \o t)[k] = LoadFile(f)
        BY ConcatLines, <2>2
      <3>3. k # 1 => (s \o t)[k - 1] = SetAid("aid_auto")
        <4>1. SUFFICES ASSUME k # 1 PROVE (s \o t)[k - 1] = SetAid("aid_auto")
          OBVIOUS
        <4>2. k - 1 \in 1 .. Len(s)
          BY <4>1
        <4> QED
          BY ConcatLines, <2>2, <4>1, <4>2
      <3> QED
        BY <2>2, <3>1, <3>2, <3>3 DEF StationComes
    <2> QED
      BY <1>3, <2>1, <2>2 DEF StationComes
  <1>4. LoadUnderWay(s) => LoadUnderWay(s \o t)
    BY ConcatLines DEF LoadUnderWay
  <1>5. ObserveUnderWay(s) => ObserveUnderWay(s \o t)
    BY ConcatLines DEF ObserveUnderWay
  <1> QED
    BY <1>1, <1>2, <1>3, <1>4, <1>5

\* A Station's lines queued last bring the Station.
LEMMA LoadBehind ==
    ASSUME NEW s \in Seq(Lines), NEW f \in RadioStations, NEW p \in BOOLEAN, NEW m
    PROVE  /\ PauseComes(s \o Load(f, p), m, p)
           /\ StationComes(s \o Load(f, p), m, f)
           /\ LoadUnderWay(s \o Load(f, p))
  <1> DEFINE t == Load(f, p)
             all == s \o t
  <1>1. /\ t \in Seq(Lines) /\ Len(t) = 3
        /\ t[1] = SetPause(p) /\ t[2] = SetAid("aid_auto") /\ t[3] = LoadFile(f)
    BY LoadTypes
  <1>2. /\ SetAid("aid_auto").cmd = "aid_auto" /\ LoadFile(f).cmd = "loadfile"
        /\ SetPause(p).cmd \in PauseKinds
    BY LineTypes DEF PauseKinds
  <1> HIDE DEF t
  <1>3. LastSays(t, PauseKinds, SetPause(p))
    <2>1. \A i \in 2 .. Len(t) : t[i].cmd \notin PauseKinds
      <3>1. ASSUME NEW i \in 2 .. Len(t) PROVE t[i].cmd \notin PauseKinds
        <4>1. i = 2 \/ i = 3
          BY <1>1
        <4> QED
          BY <1>1, <1>2, <4>1 DEF PauseKinds
      <3> QED
        BY <3>1
    <2> QED
      BY <1>1, <2>1 DEF LastSays
  <1>4. Len(all) = Len(s) + 3 /\ Len(s) \in Nat
    <2>1. Len(s) \in Nat
      OBVIOUS
    <2>2. Len(all) = Len(s) + Len(t)
      BY <1>1, ConcatLines
    <2> QED
      BY <1>1, <2>1, <2>2
  <1>5. all[Len(s) + 2] = SetAid("aid_auto") /\ all[Len(s) + 3] = LoadFile(f)
    BY <1>1, ConcatLines
  <1> HIDE DEF all
  <1>6. StationComes(all, m, f)
    <2>1. \E k \in 1 .. Len(all) :
             /\ all[k] = LoadFile(f)
             /\ IF k = 1 THEN m.aid ELSE all[k - 1] = SetAid("aid_auto")
             /\ \A i \in k + 1 .. Len(all) : all[i].cmd \notin TrackKinds
      <3>1. Len(s) + 3 \in 1 .. Len(all) /\ Len(s) + 3 # 1 /\ (Len(s) + 3) - 1 = Len(s) + 2
        BY <1>4
      <3>2. \A i \in (Len(s) + 3) + 1 .. Len(all) : all[i].cmd \notin TrackKinds
        BY <1>4
      <3> QED
        BY <1>5, <3>1, <3>2
    <2> QED
      BY <2>1 DEF StationComes
  <1>7. LoadUnderWay(all)
    BY <1>2, <1>4, <1>5 DEF LoadUnderWay
  <1>8. PauseComes(all, m, p)
    BY <1>1, <1>3, LastOfConcat DEF PauseComes, all
  <1> QED
    BY <1>6, <1>7, <1>8 DEF all, t

\* What serving a line does to what mpv plays.
ServedMpv(m, line) ==
    [running  |-> m.running,
     observed |-> m.observed \/ line.cmd = "observe",
     pause |-> IF line.cmd \in PauseKinds THEN line.cmd = "pause" ELSE m.pause,
     aid   |-> IF line.cmd \in {"aid_no", "aid_auto"} THEN line.cmd = "aid_auto" ELSE m.aid,
     file  |-> IF line.cmd = "loadfile" THEN (IF m.aid THEN line.file ELSE None) ELSE m.file,
     title |-> IF line.cmd = "loadfile" THEN None ELSE m.title]

\* What comes still comes once the first line is served.
LEMMA FirstServed ==
    ASSUME NEW s \in Seq(Lines), s # <<>>, NEW m \in MpvState,
           NEW p \in BOOLEAN, NEW f
    PROVE  LET n == ServedMpv(m, Head(s)) IN
           /\ PauseComes(s, m, p) => PauseComes(Tail(s), n, p)
           /\ SilenceComes(s, m) => SilenceComes(Tail(s), n)
           /\ StationComes(s, m, f) => StationComes(Tail(s), n, f)
  <1> DEFINE n == ServedMpv(m, Head(s))
  <1>1. Head(s) \in Lines
    OBVIOUS
  <1>2. /\ n.pause = IF Head(s).cmd \in PauseKinds THEN Head(s).cmd = "pause" ELSE m.pause
        /\ n.aid = IF Head(s).cmd \in {"aid_no", "aid_auto"} THEN Head(s).cmd = "aid_auto" ELSE m.aid
        /\ n.file = IF Head(s).cmd = "loadfile" THEN (IF m.aid THEN Head(s).file ELSE None)
                    ELSE m.file
    BY DEF ServedMpv, MpvState
  <1> HIDE DEF n
  <1>3. PauseComes(s, m, p) => PauseComes(Tail(s), n, p)
    <2>1. CASE LastSays(s, PauseKinds, SetPause(p))
      <3>1. CASE LastSays(Tail(s), PauseKinds, SetPause(p))
        BY <3>1 DEF PauseComes
      <3>2. CASE Head(s) = SetPause(p) /\ NoneSays(Tail(s), PauseKinds)
        <4>1. n.pause = p
          BY <1>2, <3>2, LineTypes DEF PauseKinds
        <4> QED
          BY <3>2, <4>1 DEF PauseComes
      <3> QED
        BY <2>1, <3>1, <3>2, LastOfTail
    <2>2. CASE NoneSays(s, PauseKinds) /\ m.pause = p
      BY <1>2, <2>2, LastOfTail DEF PauseComes
    <2> QED
      BY <2>1, <2>2 DEF PauseComes
  <1>4. SilenceComes(s, m) => SilenceComes(Tail(s), n)
    <2>1. CASE LastSays(s, {"aid_auto"}, SetAid("aid_no"))
      <3>1. CASE LastSays(Tail(s), {"aid_auto"}, SetAid("aid_no"))
        BY <3>1 DEF SilenceComes
      <3>2. CASE Head(s) = SetAid("aid_no") /\ NoneSays(Tail(s), {"aid_auto"})
        <4>1. ~n.aid
          BY <1>2, <3>2, LineTypes
        <4> QED
          BY <3>2, <4>1 DEF SilenceComes
      <3> QED
        BY <2>1, <3>1, <3>2, LastOfTail
    <2>2. CASE NoneSays(s, {"aid_auto"}) /\ ~m.aid
      <3>1. Head(s).cmd # "aid_auto" /\ NoneSays(Tail(s), {"aid_auto"})
        BY <2>2, LastOfTail
      <3> QED
        BY <1>2, <2>2, <3>1 DEF SilenceComes
    <2> QED
      BY <2>1, <2>2 DEF SilenceComes
  <1>5. StationComes(s, m, f) => StationComes(Tail(s), n, f)
    <2>1. CASE NoneSays(s, TrackKinds) /\ m.aid /\ m.file = f
      <3>1. Head(s).cmd \notin TrackKinds /\ NoneSays(Tail(s), TrackKinds)
        BY <2>1, LastOfTail
      <3> QED
        BY <1>2, <2>1, <3>1 DEF StationComes, TrackKinds
    <2>2. ASSUME NEW k \in 1 .. Len(s), s[k] = LoadFile(f),
                 IF k = 1 THEN m.aid ELSE s[k - 1] = SetAid("aid_auto"),
                 \A i \in k + 1 .. Len(s) : s[i].cmd \notin TrackKinds
          PROVE  StationComes(Tail(s), n, f)
      <3>1. /\ Len(s) \in Nat /\ Len(s) > 0 /\ Len(Tail(s)) = Len(s) - 1 /\ Head(s) = s[1]
            /\ \A i \in 1 .. Len(Tail(s)) : Tail(s)[i] = s[i + 1]
        OBVIOUS
      <3>2. \A i \in (k - 1) + 1 .. Len(Tail(s)) : Tail(s)[i].cmd \notin TrackKinds
        BY <2>2, <3>1
      <3>3. CASE k = 1
        <4>1. n.aid /\ n.file = f
          BY <1>2, <2>2, <3>1, <3>3 DEF LoadFile, Line
        <4>2. NoneSays(Tail(s), TrackKinds)
          BY <3>2, <3>3 DEF NoneSays
        <4> QED
          BY <4>1, <4>2 DEF StationComes
      <3>4. CASE k = 2
        <4>1. n.aid
          <5>1. Head(s) = SetAid("aid_auto")
            BY <2>2, <3>1, <3>4
          <5>2. Head(s).cmd = "aid_auto"
            BY <5>1, LineTypes
          <5> QED
            BY <1>2, <5>2
        <4>2. 1 \in 1 .. Len(Tail(s)) /\ Tail(s)[1] = LoadFile(f)
          BY <2>2, <3>1, <3>4
        <4>3. \A i \in 1 + 1 .. Len(Tail(s)) : Tail(s)[i].cmd \notin TrackKinds
          BY <3>2, <3>4
        <4> QED
          BY <4>1, <4>2, <4>3 DEF StationComes
      <3>5. CASE k > 2
        <4>1. k - 1 \in 1 .. Len(Tail(s)) /\ Tail(s)[k - 1] = LoadFile(f)
          BY <2>2, <3>1, <3>5
        <4>2. k - 1 # 1 /\ Tail(s)[(k - 1) - 1] = SetAid("aid_auto")
          BY <2>2, <3>1, <3>5
        <4> QED
          BY <3>2, <4>1, <4>2 DEF StationComes
      <3> QED
        BY <3>3, <3>4, <3>5
    <2> QED
      BY <2>1, <2>2 DEF StationComes
  <1> QED
    BY <1>3, <1>4, <1>5 DEF n

----------------------------------------------------------------------------
(* The client's steps.                                                     *)

\* It holds at the start.
LEMMA InitHolds == MpvInit => IInv
  <1> SUFFICES ASSUME MpvInit PROVE IInv
    OBVIOUS
  <1>1. FreshMpv \in MpvState /\ StoppedMpv \in MpvState
    BY DEF FreshMpv, StoppedMpv, MpvState
  <1>2. MpvTypeOK
    <2>1. mpv \in MpvState
      BY <1>1 DEF MpvInit
    <2>2. /\ output \in Seq(Lines) /\ wire \in Seq(Lines)
          /\ titles \in Seq(RadioStations \cup {None})
      BY DEF MpvInit
    <2>3. calls \in 0 .. MaxCalls /\ exits \in 0 .. MaxExits
      BY MpvBoundsAssumption DEF MpvInit
    <2> QED
      BY <2>1, <2>2, <2>3 DEF MpvInit, MpvTypeOK
  <1> QED
    BY <1>2 DEF MpvInit, IInv, WriterRunsWhileNeeded, OnlyConnectionsMatter, WantedComes,
                TitleComesToBeRead

\* The queue after lines were put into it.
LEMMA Queued ==
    ASSUME MpvTypeOK, WriterRunsWhileNeeded, NEW lines \in Seq(Lines), Queue(lines)
    PROVE  /\ output' \in Seq(Lines) /\ writing' \in BOOLEAN /\ (writing' <=> output' # <<>>)
           /\ wire \o output' = Pipe \o lines
  <1>1. output \in Seq(Lines) /\ wire \in Seq(Lines) /\ output' = output \o lines
    BY DEF MpvTypeOK, Queue
  <1>2. output' \in Seq(Lines)
    BY <1>1, ConcatLines
  <1>3. wire \o (output \o lines) = (wire \o output) \o lines
    BY <1>1, ConcatAssociative
  <1>4. output' = <<>> <=> output = <<>> /\ lines = <<>>
    BY <1>1, ConcatEqualIffEmpty
  <1> QED
    BY <1>1, <1>2, <1>3, <1>4 DEF Queue, WriterRunsWhileNeeded, MpvTypeOK, Pipe

\* A call, by what the lines it sends have to bring.
LEMMA CallKeeps ==
    ASSUME IInv, NEW lines \in Seq(Lines), Call(lines),
           station' \in RadioStations \cup {None}, paused' \in BOOLEAN, muted' \in BOOLEAN,
           title' \in {title, None},
           link = "up" =>
              /\ muted' => SilenceComes(Pipe \o lines, mpv)
              /\ ~muted' /\ station' # None =>
                    /\ PauseComes(Pipe \o lines, mpv, paused')
                    /\ StationComes(Pipe \o lines, mpv, station')
                    /\ (title' = title /\ ~muted /\ station # None) \/ LoadUnderWay(Pipe \o lines)
    PROVE  IInv'
  <1>1. /\ connected' = connected /\ link' = link /\ wire' = wire /\ titles' = titles
        /\ mpv' = mpv /\ exits' = exits /\ calls' \in 0 .. MaxCalls
    BY MpvBoundsAssumption DEF Call, mpvVars, IInv, MpvTypeOK
  <1>2. /\ output' \in Seq(Lines) /\ writing' \in BOOLEAN /\ (writing' <=> output' # <<>>)
        /\ link = "up" => wire \o output' = Pipe \o lines
    <2>1. CASE connected
      BY <2>1, Queued DEF Call, Send, IInv
    <2>2. CASE ~connected
      BY <2>2 DEF Call, Send, IInv, MpvTypeOK, WriterRunsWhileNeeded
    <2> QED
      BY <2>1, <2>2
  <1>3. MpvTypeOK'
    BY <1>1, <1>2 DEF IInv, MpvTypeOK
  <1>4. OnlyConnectionsMatter'
    BY <1>1 DEF IInv, OnlyConnectionsMatter, FreshMpv, StoppedMpv
  <1>5. link = "up" => Pipe' = Pipe \o lines
    BY <1>1, <1>2 DEF Pipe
  <1>6. WantedComes'
    BY <1>1, <1>5 DEF WantedComes
  <1>7. TitleComesToBeRead'
    <2> SUFFICES ASSUME link = "up" PROVE TitleComesToBeRead'
      BY <1>1 DEF TitleComesToBeRead
    <2>1. Pipe \in Seq(Lines)
      BY ConcatLines DEF Pipe, IInv, MpvTypeOK
    <2>2. ~mpv.observed => ObserveUnderWay(Pipe') /\ titles = <<>> /\ title' = None
      BY <1>5, <2>1, OthersBehind DEF IInv, TitleComesToBeRead
    <2>3. mpv.observed => TitleRead(titles, title') \in {None, mpv.title}
      BY DEF IInv, TitleComesToBeRead, TitleRead
    <2>4. mpv.observed /\ ~muted' /\ station' # None =>
              TitleRead(titles, title') = mpv.title \/ LoadUnderWay(Pipe')
      <3> SUFFICES ASSUME mpv.observed, ~muted', station' # None
                   PROVE  TitleRead(titles, title') = mpv.title \/ LoadUnderWay(Pipe')
        OBVIOUS
      <3>1. CASE LoadUnderWay(Pipe \o lines)
        BY <1>5, <3>1
      <3>2. CASE title' = title /\ ~muted /\ station # None
        BY <1>5, <2>1, <3>2, OthersBehind DEF IInv, TitleComesToBeRead
      <3> QED
        BY <3>1, <3>2
    <2> QED
      BY <1>1, <2>2, <2>3, <2>4 DEF TitleComesToBeRead
  <1> QED
    BY <1>2, <1>3, <1>4, <1>6, <1>7 DEF IInv, WriterRunsWhileNeeded

\* Single lines, and none.
LEMMA SingleLines ==
    /\ <<>> \in Seq(Lines) /\ (\A kinds : NoneSays(<<>>, kinds))
    /\ \A line \in Lines : /\ <<line>> \in Seq(Lines)
                           /\ \A kinds : LastSays(<<line>>, kinds, line)
                           /\ \A kinds : line.cmd \notin kinds => NoneSays(<<line>>, kinds)
  <1>1. <<>> \in Seq(Lines) /\ (\A kinds : NoneSays(<<>>, kinds))
    BY DEF NoneSays
  <1>2. ASSUME NEW line \in Lines
        PROVE  /\ <<line>> \in Seq(Lines)
               /\ \A kinds : LastSays(<<line>>, kinds, line)
               /\ \A kinds : line.cmd \notin kinds => NoneSays(<<line>>, kinds)
    <2>1. <<line>> \in Seq(Lines) /\ Len(<<line>>) = 1 /\ <<line>>[1] = line
      OBVIOUS
    <2>2. \A i \in 1 .. Len(<<line>>) : i = 1
      BY <2>1
    <2>3. \A i \in 1 + 1 .. Len(<<line>>) : FALSE
      BY <2>1
    <2>4. \A kinds : LastSays(<<line>>, kinds, line)
      BY <2>1, <2>3 DEF LastSays
    <2> QED
      BY <2>1, <2>2, <2>4 DEF NoneSays
  <1> QED
    BY <1>1, <1>2

\* The calls.
LEMMA CallsKeep == ASSUME IInv, RadioCall PROVE IInv'
  <1>1. Pipe \in Seq(Lines)
    BY ConcatLines DEF Pipe, IInv, MpvTypeOK
  <1>2. /\ paused \in BOOLEAN /\ muted \in BOOLEAN /\ station \in RadioStations \cup {None}
    BY DEF IInv, MpvTypeOK
  <1>3. /\ link = "up" /\ muted => SilenceComes(Pipe, mpv)
        /\ link = "up" /\ ~muted /\ station # None =>
              PauseComes(Pipe, mpv, paused) /\ StationComes(Pipe, mpv, station)
    BY DEF IInv, WantedComes
  <1>4. ASSUME NEW s \in RadioStations, TuneTo(s) PROVE IInv'
    <2>1. s # None /\ station' = s /\ paused' = FALSE /\ muted' = muted /\ title' = None
      BY <1>4, NoneAssumption DEF TuneTo
    <2>2. CASE muted
      <3>1. Call(<<>>)
        BY <1>4, <2>2 DEF TuneTo
      <3>2. link = "up" => SilenceComes(Pipe \o <<>>, mpv)
        BY <1>1, <1>3, <2>2, OthersBehind, SingleLines
      <3> QED
        BY <1>2, <2>1, <2>2, <3>1, <3>2, CallKeeps, SingleLines
    <2>3. CASE ~muted
      <3>1. Call(Load(s, FALSE)) /\ Load(s, FALSE) \in Seq(Lines)
        BY <1>4, <2>3, LoadTypes DEF TuneTo
      <3>2. /\ PauseComes(Pipe \o Load(s, FALSE), mpv, FALSE)
            /\ StationComes(Pipe \o Load(s, FALSE), mpv, s)
            /\ LoadUnderWay(Pipe \o Load(s, FALSE))
        BY <1>1, LoadBehind
      <3> QED
        BY <1>2, <2>1, <2>3, <3>1, <3>2, CallKeeps
    <2> QED
      BY <2>2, <2>3
  <1>5. ASSUME NEW p \in BOOLEAN, PauseOrResume(p) PROVE IInv'
    <2> DEFINE line == SetPause(p)
    <2>1. /\ Call(<<line>>) /\ paused' = p
          /\ station' = station /\ muted' = muted /\ title' = title
      BY <1>5 DEF PauseOrResume
    <2>2. line \in Lines /\ line.cmd \in PauseKinds
      BY LineTypes DEF PauseKinds
    <2>3. /\ <<line>> \in Seq(Lines) /\ LastSays(<<line>>, PauseKinds, line)
          /\ NoneSays(<<line>>, {"aid_auto"}) /\ NoneSays(<<line>>, TrackKinds)
      BY <2>2, SingleLines DEF PauseKinds, TrackKinds
    <2>4. PauseComes(Pipe \o <<line>>, mpv, p)
      BY <1>1, <2>3, LastOfConcat DEF PauseComes
    <2> HIDE DEF line
    <2>5. link = "up" /\ muted => SilenceComes(Pipe \o <<line>>, mpv)
      BY <1>1, <1>3, <2>3, OthersBehind
    <2>6. link = "up" /\ ~muted /\ station # None => StationComes(Pipe \o <<line>>, mpv, station)
      BY <1>1, <1>3, <2>3, OthersBehind
    <2> QED
      BY <1>2, <2>1, <2>3, <2>4, <2>5, <2>6, CallKeeps
  <1>6. ASSUME Mute PROVE IInv'
    <2> DEFINE line == SetAid("aid_no")
    <2>1. /\ Call(<<line>>) /\ muted' = TRUE
          /\ station' = station /\ paused' = paused /\ title' = title
      BY <1>6 DEF Mute
    <2>2. line \in Lines
      BY LineTypes
    <2>3. <<line>> \in Seq(Lines) /\ LastSays(<<line>>, {"aid_auto"}, line)
      BY <2>2, SingleLines
    <2>4. SilenceComes(Pipe \o <<line>>, mpv)
      BY <1>1, <2>3, LastOfConcat DEF SilenceComes
    <2> HIDE DEF line
    <2> QED
      BY <1>2, <2>1, <2>3, <2>4, CallKeeps
  <1>7. ASSUME Unmute PROVE IInv'
    <2>1. /\ Call(UnmuteLines) /\ muted' = FALSE
          /\ station' = station /\ paused' = paused /\ title' = title
      BY <1>7 DEF Unmute
    <2>2. CASE station = None
      <3>1. UnmuteLines \in Seq(Lines)
        BY <2>2, LineTypes, SingleLines DEF UnmuteLines
      <3> QED
        BY <1>2, <2>1, <2>2, <3>1, CallKeeps
    <2>3. CASE station # None
      <3>1. UnmuteLines = Load(station, paused) /\ UnmuteLines \in Seq(Lines)
        BY <1>2, <2>3, LoadTypes DEF UnmuteLines
      <3>2. /\ PauseComes(Pipe \o UnmuteLines, mpv, paused)
            /\ StationComes(Pipe \o UnmuteLines, mpv, station)
            /\ LoadUnderWay(Pipe \o UnmuteLines)
        BY <1>1, <1>2, <2>3, <3>1, LoadBehind
      <3> QED
        BY <1>2, <2>1, <2>3, <3>1, <3>2, CallKeeps
    <2> QED
      BY <2>2, <2>3
  <1> QED
    BY <1>4, <1>5, <1>6, <1>7 DEF RadioCall

\* What onConnected sends brings everything.
LEMMA ConnectingKeeps == ASSUME IInv, Connects PROVE IInv'
  <1>1. /\ link' = "up" /\ connected' = TRUE /\ mpv' = mpv /\ titles' = titles /\ title' = title
        /\ muted' = muted /\ paused' = paused /\ station' = station /\ wire' = wire
        /\ calls' = calls /\ exits' = exits /\ Queue(Replay) /\ mpv.running
    BY DEF Connects
  <1>2. /\ wire = <<>> /\ output = <<>> /\ titles = <<>> /\ title = None
        /\ mpv = FreshMpv
    BY DEF Connects, IInv, OnlyConnectionsMatter, WriterRunsWhileNeeded, StoppedMpv, FreshMpv
  <1>3. /\ paused \in BOOLEAN /\ muted \in BOOLEAN /\ station \in RadioStations \cup {None}
    BY DEF IInv, MpvTypeOK
  <1> DEFINE first == <<Observe, SetPause(paused)>>
             rest == IF muted THEN <<SetAid("aid_no")>>
                     ELSE IF station # None THEN Load(station, paused) ELSE <<>>
  <1>4. /\ first \in Seq(Lines) /\ Len(first) = 2 /\ first[1] = Observe
    <2>1. Observe \in Lines /\ SetPause(paused) \in Lines
      BY <1>3, LineTypes
    <2> HIDE DEF Observe
    <2> DEFINE x == Observe
               y == SetPause(paused)
    <2> HIDE DEF x, y
    <2>2. x \in Lines /\ y \in Lines /\ first = <<x, y>>
      BY <2>1 DEF x, y
    <2>3. <<x, y>> \in Seq(Lines) /\ Len(<<x, y>>) = 2 /\ <<x, y>>[1] = x
      BY <2>2
    <2> QED
      BY <2>2, <2>3 DEF x
  <1>5. rest \in Seq(Lines)
    <2>1. <<SetAid("aid_no")>> \in Seq(Lines) /\ <<>> \in Seq(Lines)
      BY LineTypes, SingleLines
    <2> QED
      BY <1>3, <2>1, LoadTypes
  <1>6. Replay = first \o rest
    BY DEF Replay
  <1> HIDE DEF first, rest
  <1>7. Replay \in Seq(Lines)
    BY <1>4, <1>5, <1>6, ConcatLines
  <1>8. Pipe = <<>> /\ Pipe' = Replay
    <2>1. Pipe = <<>>
      BY <1>2, ConcatEmptySeq, SingleLines DEF Pipe
    <2>2. wire \o output' = Pipe \o Replay
      BY <1>1, <1>7, Queued DEF IInv
    <2> QED
      BY <1>1, <1>7, <2>1, <2>2, ConcatEmptySeq DEF Pipe
  <1>9. /\ output' \in Seq(Lines) /\ writing' \in BOOLEAN /\ (writing' <=> output' # <<>>)
    BY <1>1, <1>7, Queued DEF IInv
  <1>10. MpvTypeOK'
    BY <1>1, <1>9 DEF IInv, MpvTypeOK
  <1>11. OnlyConnectionsMatter'
    BY <1>1 DEF OnlyConnectionsMatter
  <1>12. WantedComes'
    <2>1. muted => SilenceComes(Replay, mpv)
      <3>1. SUFFICES ASSUME muted PROVE SilenceComes(Replay, mpv)
        OBVIOUS
      <3>2. LastSays(rest, {"aid_auto"}, SetAid("aid_no"))
        BY <3>1, LineTypes, SingleLines DEF rest
      <3> QED
        BY <1>4, <1>5, <1>6, <3>2, LastOfConcat DEF SilenceComes
    <2>2. ~muted /\ station # None =>
             PauseComes(Replay, mpv, paused) /\ StationComes(Replay, mpv, station)
      <3>1. SUFFICES ASSUME ~muted, station # None
                     PROVE PauseComes(Replay, mpv, paused) /\ StationComes(Replay, mpv, station)
        OBVIOUS
      <3>2. rest = Load(station, paused)
        BY <3>1 DEF rest
      <3> QED
        BY <1>3, <1>4, <1>6, <3>1, <3>2, LoadBehind
    <2> QED
      BY <1>1, <1>8, <2>1, <2>2 DEF WantedComes
  <1>13. TitleComesToBeRead'
    <2>1. ObserveUnderWay(Replay)
      <3>1. 1 \in 1 .. Len(first) /\ first[1].cmd = "observe"
        BY <1>4, LineTypes
      <3>2. ObserveUnderWay(first)
        BY <3>1 DEF ObserveUnderWay
      <3> QED
        BY <1>4, <1>5, <1>6, <3>2, OthersBehind
    <2> QED
      BY <1>1, <1>2, <1>8, <2>1 DEF TitleComesToBeRead, FreshMpv
  <1> QED
    BY <1>9, <1>10, <1>11, <1>12, <1>13 DEF IInv, WriterRunsWhileNeeded

\* Nothing but the socket's end changes: the lines of the pipe move, or are dropped.
LEMMA OtherClientStepsKeep ==
    ASSUME IInv, Writes \/ WriteFails \/ ReadLine \/ Loses PROVE IInv'
  <1>1. CASE Writes
    <2>1. output # <<>> /\ output \in Seq(Lines) /\ wire \in Seq(Lines)
      BY <1>1 DEF Writes, IInv, MpvTypeOK, WriterRunsWhileNeeded
    <2>2. Head(output) \in Lines /\ Tail(output) \in Seq(Lines)
      BY <2>1
    <2>3. wire' \in Seq(Lines) /\ output' \in Seq(Lines)
      BY <1>1, <2>1, <2>2 DEF Writes
    <2>4. Pipe' = Pipe
      <3>1. wire' = wire \o <<Head(output)>>
        BY <1>1, <2>1, <2>2, AppendIsConcat DEF Writes
      <3>2. (wire \o <<Head(output)>>) \o Tail(output) = wire \o (<<Head(output)>> \o Tail(output))
        BY <2>1, <2>2, SingleLines, ConcatAssociative
      <3>3. <<Head(output)>> \o Tail(output) = output
        BY <2>1, <2>2
      <3> QED
        BY <1>1, <3>1, <3>2, <3>3 DEF Writes, Pipe
    <2>5. /\ link' = link /\ mpv' = mpv /\ titles' = titles /\ title' = title /\ link = "up"
          /\ muted' = muted /\ paused' = paused /\ station' = station /\ connected' = connected
          /\ calls' = calls /\ exits' = exits /\ writing' = (output' # <<>>)
      BY <1>1 DEF Writes
    <2>6. MpvTypeOK' /\ WriterRunsWhileNeeded'
      BY <2>3, <2>5 DEF IInv, MpvTypeOK, WriterRunsWhileNeeded
    <2>7. OnlyConnectionsMatter'
      BY <2>5 DEF IInv, OnlyConnectionsMatter
    <2>8. WantedComes'
      BY <2>4, <2>5 DEF IInv, WantedComes
    <2>9. TitleComesToBeRead'
      BY <2>4, <2>5 DEF IInv, TitleComesToBeRead
    <2> QED
      BY <2>6, <2>7, <2>8, <2>9 DEF IInv
  <1>2. CASE WriteFails
    <2>1. /\ link # "up" /\ link' = link /\ mpv' = mpv /\ titles' = titles /\ title' = title
          /\ wire' = wire /\ output' = <<>> /\ writing' = FALSE
      BY <1>2 DEF WriteFails, mpvVars
    <2>2. MpvTypeOK' /\ WriterRunsWhileNeeded'
      BY <1>2, <2>1, SingleLines DEF WriteFails, mpvVars, IInv, MpvTypeOK, WriterRunsWhileNeeded
    <2>3. OnlyConnectionsMatter'
      BY <2>1 DEF IInv, OnlyConnectionsMatter, FreshMpv, StoppedMpv
    <2> QED
      BY <2>1, <2>2, <2>3 DEF IInv, WantedComes, TitleComesToBeRead
  <1>3. CASE ReadLine
    <2>1. /\ link' = link /\ mpv' = mpv /\ wire' = wire /\ output' = output /\ link # "closed"
          /\ muted' = muted /\ paused' = paused /\ station' = station /\ connected' = connected
          /\ calls' = calls /\ exits' = exits /\ writing' = writing
          /\ titles # <<>> /\ title' = Head(titles) /\ titles' = Tail(titles)
      BY <1>3 DEF ReadLine
    <2>2. titles \in Seq(RadioStations \cup {None})
      BY DEF IInv, MpvTypeOK
    <2>3. title' \in RadioStations \cup {None} /\ titles' \in Seq(RadioStations \cup {None})
      BY <2>1, <2>2
    <2>4. TitleRead(titles', title') = TitleRead(titles, title)
      <3>1. /\ Len(titles) \in Nat /\ Len(titles) > 0 /\ Len(titles') = Len(titles) - 1
            /\ Head(titles) = titles[1]
            /\ \A i \in 1 .. Len(titles') : titles'[i] = titles[i + 1]
        BY <2>1, <2>2
      <3>2. titles' = <<>> <=> Len(titles') = 0
        BY <2>3
      <3>3. CASE titles' = <<>>
        BY <2>1, <3>1, <3>2, <3>3 DEF TitleRead
      <3>4. CASE titles' # <<>>
        BY <2>1, <2>3, <3>1, <3>2, <3>4 DEF TitleRead
      <3> QED
        BY <3>3, <3>4
    <2>5. Pipe' = Pipe
      BY <2>1 DEF Pipe
    <2>6. MpvTypeOK' /\ WriterRunsWhileNeeded'
      BY <2>1, <2>3 DEF IInv, MpvTypeOK, WriterRunsWhileNeeded
    <2>7. OnlyConnectionsMatter'
      BY <2>1 DEF IInv, OnlyConnectionsMatter, FreshMpv, StoppedMpv
    <2>8. WantedComes'
      BY <2>1, <2>5 DEF IInv, WantedComes
    <2>9. TitleComesToBeRead'
      BY <2>1, <2>4, <2>5 DEF IInv, TitleComesToBeRead
    <2> QED
      BY <2>6, <2>7, <2>8, <2>9 DEF IInv
  <1>4. CASE Loses
    <2>1. /\ link' = "closed" /\ link = "gone" /\ connected' = FALSE /\ mpv' = mpv
          /\ titles' = titles /\ titles = <<>> /\ title' = None /\ wire' = wire
          /\ output' = output /\ writing' = writing
      BY <1>4 DEF Loses
    <2>2. MpvTypeOK' /\ WriterRunsWhileNeeded'
      BY <1>4 DEF Loses, IInv, MpvTypeOK, WriterRunsWhileNeeded
    <2>3. OnlyConnectionsMatter'
      BY <2>1 DEF IInv, OnlyConnectionsMatter, FreshMpv, StoppedMpv
    <2> QED
      BY <2>1, <2>2, <2>3 DEF IInv, WantedComes, TitleComesToBeRead
  <1> QED
    BY <1>1, <1>2, <1>3, <1>4

----------------------------------------------------------------------------
(* mpv's steps.                                                            *)

\* A title that was sent is the last one read.
LEMMA SentIsRead ==
    ASSUME NEW sent \in Seq(RadioStations \cup {None}), NEW t \in RadioStations \cup {None}, NEW now
    PROVE  /\ Append(sent, t) \in Seq(RadioStations \cup {None})
           /\ TitleRead(Append(sent, t), now) = t
  BY DEF TitleRead

\* mpv's new state, apart from what it sends.
LEMMA ServedType ==
    ASSUME NEW m \in MpvState, NEW line \in Lines
    PROVE  ServedMpv(m, line) \in MpvState
  <1>1. line.cmd = "loadfile" => line.file \in RadioStations
    BY DEF Lines
  <1>2. (m.observed \/ line.cmd = "observe") \in BOOLEAN
    BY DEF MpvState
  <1> QED
    BY <1>1, <1>2 DEF ServedMpv, MpvState

\* mpv serves the first line of the pipe.
LEMMA ServingKeeps == ASSUME IInv, Serves PROVE IInv'
  <1> DEFINE line == Head(wire)
             n == ServedMpv(mpv, line)
  <1>1. /\ link' = link /\ output' = output /\ writing' = writing /\ title' = title
        /\ muted' = muted /\ paused' = paused /\ station' = station /\ connected' = connected
        /\ calls' = calls /\ exits' = exits
        /\ mpv.running /\ wire # <<>> /\ wire' = Tail(wire)
    BY DEF Serves, clientVars
  <1>2. link = "up"
    BY <1>1 DEF IInv, OnlyConnectionsMatter
  <1>3. /\ wire \in Seq(Lines) /\ output \in Seq(Lines) /\ mpv \in MpvState
        /\ titles \in Seq(RadioStations \cup {None}) /\ title \in RadioStations \cup {None}
        /\ paused \in BOOLEAN /\ station \in RadioStations \cup {None}
    BY DEF IInv, MpvTypeOK
  <1>4. line \in Lines /\ Tail(wire) \in Seq(Lines)
    BY <1>1, <1>3
  <1>5. /\ Pipe \in Seq(Lines) /\ Pipe # <<>> /\ Head(Pipe) = line /\ Pipe' = Tail(Pipe)
    <2>1. Pipe \in Seq(Lines) /\ Pipe # <<>>
      BY <1>1, <1>3, ConcatLines, ConcatEqualIffEmpty DEF Pipe
    <2>2. Head(Pipe) = line
      BY <1>1, <1>3 DEF Pipe
    <2>3. Tail(wire) \o output = Tail(wire \o output)
      BY <1>1, <1>3
    <2> QED
      BY <1>1, <2>1, <2>2, <2>3 DEF Pipe
  <1>6. line.cmd \in {"observe", "pause", "unpause", "aid_no", "aid_auto", "loadfile"}
    BY <1>4 DEF Lines
  <1>7. mpv' = n
    <2>1. CASE line.cmd = "observe"
      BY <1>3, <2>1 DEF Serves, ServedMpv, Becomes, MpvState, PauseKinds
    <2>2. CASE line.cmd \in {"pause", "unpause"}
      BY <1>3, <2>2 DEF Serves, ServedMpv, Becomes, MpvState, PauseKinds
    <2>3. CASE line.cmd \in {"aid_no", "aid_auto"}
      BY <1>3, <2>3 DEF Serves, ServedMpv, Becomes, MpvState, PauseKinds
    <2>4. CASE line.cmd = "loadfile"
      BY <1>3, <2>4 DEF Serves, ServedMpv, Becomes, MpvState, PauseKinds
    <2> HIDE DEF line, n
    <2> QED
      BY <1>6, <2>1, <2>2, <2>3, <2>4
  <1>8. titles' = IF line.cmd = "observe" THEN Append(titles, mpv.title)
                  ELSE IF mpv.observed /\ n.title # mpv.title THEN Append(titles, n.title)
                  ELSE titles
    <2>1. CASE line.cmd = "observe"
      BY <2>1 DEF Serves
    <2>2. CASE line.cmd # "observe"
      BY <1>7, <2>2 DEF Serves, Becomes
    <2> QED
      BY <2>1, <2>2
  <1>9. n \in MpvState
    BY <1>3, <1>4, ServedType
  <1>10. /\ n.running = mpv.running
         /\ n.observed = (mpv.observed \/ line.cmd = "observe")
         /\ n.title = IF line.cmd = "loadfile" THEN None ELSE mpv.title
    BY <1>3 DEF ServedMpv, MpvState
  <1>11. mpv.title \in RadioStations \cup {None} /\ n.title \in RadioStations \cup {None}
    BY <1>3, <1>9 DEF MpvState
  <1> HIDE DEF n
  <1>12. titles' \in Seq(RadioStations \cup {None})
    BY <1>3, <1>8, <1>11, SentIsRead
  <1>13. MpvTypeOK' /\ WriterRunsWhileNeeded'
    <2>1. MpvTypeOK'
      BY <1>1, <1>4, <1>7, <1>9, <1>12 DEF IInv, MpvTypeOK
    <2> QED
      BY <1>1, <2>1 DEF IInv, WriterRunsWhileNeeded
  <1>14. OnlyConnectionsMatter'
    BY <1>1, <1>2, <1>7, <1>10 DEF OnlyConnectionsMatter
  <1>15. WantedComes'
    <2>1. /\ SilenceComes(Pipe, mpv) => SilenceComes(Tail(Pipe), n)
          /\ PauseComes(Pipe, mpv, paused) => PauseComes(Tail(Pipe), n, paused)
          /\ StationComes(Pipe, mpv, station) => StationComes(Tail(Pipe), n, station)
      BY <1>3, <1>5, FirstServed DEF n
    <2> QED
      BY <1>1, <1>2, <1>5, <1>7, <2>1 DEF IInv, WantedComes
  <1>16. TitleComesToBeRead'
    <2>1. /\ LoadUnderWay(Pipe) => line.cmd = "loadfile" \/ LoadUnderWay(Tail(Pipe))
          /\ ObserveUnderWay(Pipe) => line.cmd = "observe" \/ ObserveUnderWay(Tail(Pipe))
      <3>1. /\ Len(Pipe) \in Nat /\ Len(Tail(Pipe)) = Len(Pipe) - 1 /\ line = Pipe[1]
            /\ \A i \in 1 .. Len(Tail(Pipe)) : Tail(Pipe)[i] = Pipe[i + 1]
        BY <1>5
      <3>2. ASSUME NEW i \in 1 .. Len(Pipe), i # 1
            PROVE  i - 1 \in 1 .. Len(Tail(Pipe)) /\ Tail(Pipe)[i - 1] = Pipe[i]
        BY <3>1, <3>2
      <3> QED
        BY <3>1, <3>2 DEF LoadUnderWay, ObserveUnderWay
    <2>2. /\ ~mpv.observed => ObserveUnderWay(Pipe) /\ titles = <<>> /\ title = None
          /\ mpv.observed => TitleRead(titles, title) \in {None, mpv.title}
          /\ mpv.observed /\ ~muted /\ station # None =>
              TitleRead(titles, title) = mpv.title \/ LoadUnderWay(Pipe)
      BY <1>2 DEF IInv, TitleComesToBeRead
    <2>3. CASE line.cmd = "observe"
      <3>1. TitleRead(titles', title') = n.title /\ n.observed
        BY <1>1, <1>3, <1>8, <1>10, <1>11, <2>3, SentIsRead
      <3> QED
        BY <1>7, <3>1 DEF TitleComesToBeRead
    <2>4. CASE line.cmd # "observe" /\ mpv.observed /\ n.title # mpv.title
      <3>1. TitleRead(titles', title') = n.title /\ n.observed
        BY <1>1, <1>3, <1>8, <1>10, <1>11, <2>4, SentIsRead
      <3> QED
        BY <1>7, <3>1 DEF TitleComesToBeRead
    <2>5. CASE line.cmd # "observe" /\ mpv.observed /\ n.title = mpv.title
      <3>1. titles' = titles /\ n.observed
        BY <1>8, <1>10, <2>5
      <3>2. TitleRead(titles', title') \in {None, n.title}
        BY <1>1, <2>2, <2>5, <3>1
      <3>3. ~muted /\ station # None =>
               TitleRead(titles', title') = n.title \/ LoadUnderWay(Tail(Pipe))
        BY <1>1, <1>10, <2>1, <2>2, <2>5, <3>1, <3>2
      <3> QED
        BY <1>1, <1>5, <1>7, <3>1, <3>2, <3>3 DEF TitleComesToBeRead
    <2>6. CASE line.cmd # "observe" /\ ~mpv.observed
      <3>1. titles' = titles /\ ~n.observed
        BY <1>8, <1>10, <2>6
      <3> QED
        BY <1>1, <1>5, <1>7, <2>1, <2>2, <2>6, <3>1 DEF TitleComesToBeRead
    <2> QED
      BY <2>3, <2>4, <2>5, <2>6
  <1> QED
    BY <1>13, <1>14, <1>15, <1>16 DEF IInv

\* What mpv and systemd do on their own.
LEMMA OtherMpvStepsKeep ==
    ASSUME IInv, TitleComes \/ StreamDropped \/ MpvExits \/ MpvStarts PROVE IInv'
  <1>1. /\ mpv \in MpvState /\ titles \in Seq(RadioStations \cup {None})
        /\ wire \in Seq(Lines)
    BY DEF IInv, MpvTypeOK
  <1>2. CASE TitleComes
    <2>1. /\ link' = link /\ output' = output /\ writing' = writing /\ title' = title
          /\ muted' = muted /\ paused' = paused /\ station' = station /\ connected' = connected
          /\ calls' = calls /\ exits' = exits /\ wire' = wire
          /\ mpv.file # None /\ mpv.title = None
          /\ mpv' = [mpv EXCEPT !.title = mpv.file]
          /\ titles' = IF mpv.observed THEN Append(titles, mpv.file) ELSE titles
      BY <1>1, <1>2 DEF TitleComes, Becomes, clientVars, MpvState
    <2>2. /\ mpv'.title = mpv.file /\ mpv'.aid = mpv.aid /\ mpv'.file = mpv.file
          /\ mpv'.pause = mpv.pause /\ mpv'.observed = mpv.observed /\ mpv'.running = mpv.running
          /\ mpv' \in MpvState /\ mpv.file \in RadioStations \cup {None}
      BY <1>1, <2>1 DEF MpvState
    <2>3. link = "up"
      BY <2>1 DEF IInv, OnlyConnectionsMatter, FreshMpv, StoppedMpv
    <2>4. Pipe' = Pipe
      BY <2>1 DEF Pipe
    <2>5. titles' \in Seq(RadioStations \cup {None})
      BY <1>1, <2>1, <2>2, SentIsRead
    <2>6. MpvTypeOK' /\ WriterRunsWhileNeeded'
      BY <2>1, <2>2, <2>5 DEF IInv, MpvTypeOK, WriterRunsWhileNeeded
    <2>7. OnlyConnectionsMatter'
      BY <2>1, <2>2, <2>3 DEF IInv, OnlyConnectionsMatter
    <2>8. WantedComes'
      BY <2>1, <2>2, <2>4 DEF IInv, WantedComes, SilenceComes, PauseComes, StationComes
    <2>9. TitleComesToBeRead'
      <3>1. CASE mpv.observed
        <4>1. TitleRead(titles', title') = mpv'.title
          <5>1. titles' = Append(titles, mpv.file)
            BY <2>1, <3>1
          <5>2. TitleRead(Append(titles, mpv.file), title') = mpv.file
            BY <1>1, <2>2, SentIsRead
          <5> QED
            BY <2>2, <5>1, <5>2
        <4> QED
          BY <2>2, <3>1, <4>1 DEF TitleComesToBeRead
      <3>2. CASE ~mpv.observed
        BY <2>1, <2>2, <2>4, <3>2 DEF IInv, TitleComesToBeRead
      <3> QED
        BY <3>1, <3>2
    <2> QED
      BY <2>6, <2>7, <2>8, <2>9 DEF IInv
  <1>3. CASE StreamDropped
    <2>1. /\ link' = link /\ output' = output /\ writing' = writing /\ title' = title
          /\ muted' = muted /\ paused' = paused /\ station' = station /\ connected' = connected
          /\ calls' = calls /\ exits' = exits /\ wire' = wire /\ titles' = titles
          /\ mpv.file # None /\ ~mpv.aid
          /\ mpv' = [mpv EXCEPT !.file = None]
      BY <1>1, <1>3 DEF StreamDropped, Becomes, clientVars, MpvState
    <2>2. /\ mpv'.title = mpv.title /\ ~mpv'.aid
          /\ mpv'.pause = mpv.pause /\ mpv'.observed = mpv.observed /\ mpv'.running = mpv.running
          /\ mpv' \in MpvState
      BY <1>1, <2>1 DEF MpvState
    <2>3. link = "up"
      BY <2>1 DEF IInv, OnlyConnectionsMatter, FreshMpv, StoppedMpv
    <2>4. Pipe' = Pipe
      BY <2>1 DEF Pipe
    <2>5. MpvTypeOK' /\ WriterRunsWhileNeeded'
      BY <2>1, <2>2 DEF IInv, MpvTypeOK, WriterRunsWhileNeeded
    <2>6. OnlyConnectionsMatter'
      BY <2>1, <2>2, <2>3 DEF IInv, OnlyConnectionsMatter
    <2>7. WantedComes'
      BY <2>1, <2>2, <2>4 DEF IInv, WantedComes, SilenceComes, PauseComes, StationComes
    <2>8. TitleComesToBeRead'
      BY <2>1, <2>2, <2>4 DEF IInv, TitleComesToBeRead
    <2> QED
      BY <2>5, <2>6, <2>7, <2>8 DEF IInv
  <1>4. CASE MpvExits
    <2>1. /\ link' # "up" /\ link' \in {"closed", "gone"} /\ (link' = "closed" <=> link = "closed")
          /\ mpv' = StoppedMpv /\ wire' = <<>> /\ titles' = titles /\ title' = title
          /\ output' = output /\ writing' = writing
      BY <1>4 DEF MpvExits, clientVars, IInv, MpvTypeOK
    <2>2. MpvTypeOK' /\ WriterRunsWhileNeeded'
      <3>1. StoppedMpv \in MpvState
        BY DEF StoppedMpv, FreshMpv, MpvState
      <3>2. exits' \in 0 .. MaxExits
        BY <1>4, MpvBoundsAssumption DEF MpvExits, IInv, MpvTypeOK
      <3> QED
        BY <1>4, <2>1, <3>1, <3>2, SingleLines
           DEF MpvExits, clientVars, IInv, MpvTypeOK, WriterRunsWhileNeeded
    <2>3. OnlyConnectionsMatter'
      BY <2>1 DEF IInv, OnlyConnectionsMatter, FreshMpv, StoppedMpv
    <2> QED
      BY <2>1, <2>2, <2>3 DEF IInv, WantedComes, TitleComesToBeRead
  <1>5. CASE MpvStarts
    <2>1. /\ link' = link /\ link # "up" /\ mpv' = FreshMpv /\ wire' = wire
          /\ titles' = titles /\ title' = title /\ output' = output /\ writing' = writing
      BY <1>5 DEF MpvStarts, clientVars, IInv, OnlyConnectionsMatter
    <2>2. MpvTypeOK' /\ WriterRunsWhileNeeded'
      <3>1. FreshMpv \in MpvState
        BY DEF FreshMpv, MpvState
      <3> QED
        BY <1>5, <2>1, <3>1 DEF MpvStarts, clientVars, IInv, MpvTypeOK, WriterRunsWhileNeeded
    <2>3. OnlyConnectionsMatter'
      BY <2>1 DEF IInv, OnlyConnectionsMatter, FreshMpv, StoppedMpv
    <2> QED
      BY <2>1, <2>2, <2>3 DEF IInv, WantedComes, TitleComesToBeRead
  <1> QED
    BY <1>2, <1>3, <1>4, <1>5

----------------------------------------------------------------------------
(* The theorems.                                                           *)

\* The invariant holds throughout, whatever is called when, and however often mpv
\* exits: MpvClient's members have their types, and what is asked of it is what the
\* lines under way bring, or what mpv does.
THEOREM MpvInductive == MpvSpec => []IInv
  <1>1. IInv /\ [MpvNext]_mpvClientVars => IInv'
    <2> SUFFICES ASSUME IInv, [MpvNext]_mpvClientVars PROVE IInv'
      OBVIOUS
    <2>1. CASE RadioCall
      BY <2>1, CallsKeep
    <2>2. CASE Connects
      BY <2>2, ConnectingKeeps
    <2>3. CASE Writes \/ WriteFails \/ ReadLine \/ Loses
      BY <2>3, OtherClientStepsKeep
    <2>4. CASE Serves
      BY <2>4, ServingKeeps
    <2>5. CASE TitleComes \/ StreamDropped \/ MpvExits \/ MpvStarts
      BY <2>5, OtherMpvStepsKeep
    <2>6. CASE UNCHANGED mpvClientVars
      BY <2>6 DEF mpvClientVars, clientVars, mpvVars, IInv, MpvTypeOK, WriterRunsWhileNeeded,
                  OnlyConnectionsMatter, WantedComes, TitleComesToBeRead, Pipe, PauseComes,
                  SilenceComes, StationComes, FreshMpv, StoppedMpv
    <2> QED
      BY <2>1, <2>2, <2>3, <2>4, <2>5, <2>6 DEF MpvNext
  <1> QED
    BY <1>1, InitHolds, PTL DEF MpvSpec

\* No line stays in writeNext()'s queue with nobody to write it.
THEOREM NoLineIsStuck == MpvSpec => []WriterRunsWhileNeeded
  BY MpvInductive, PTL DEF IInv

\* With every line read, mpv plays what MpvClient was asked for.
THEOREM AskedIsPlayed == MpvSpec => []PlaysWhatWasAsked
  <1>1. IInv => PlaysWhatWasAsked
    <2> SUFFICES ASSUME IInv, Settled, Determined PROVE Heard = Wanted
      BY DEF PlaysWhatWasAsked
    <2>1. link = "up" /\ Pipe = <<>> /\ mpv.running
      <3>1. <<>> \o <<>> = <<>>
        BY SingleLines, ConcatEmptySeq
      <3> QED
        BY <3>1 DEF Settled, Pipe, IInv, OnlyConnectionsMatter
    <2>2. CASE muted
      <3>1. ~mpv.aid
        BY <2>1, <2>2 DEF IInv, WantedComes, SilenceComes, LastSays
      <3> QED
        BY <2>2, <3>1 DEF Heard, Wanted
    <2>3. CASE ~muted
      <3>1. mpv.pause = paused /\ mpv.aid /\ mpv.file = station
        BY <2>1, <2>3 DEF Determined, IInv, WantedComes, PauseComes, StationComes, LastSays
      <3> QED
        BY <2>1, <2>3, <3>1 DEF Heard, Wanted
    <2> QED
      BY <2>2, <2>3
  <1> QED
    BY <1>1, MpvInductive, PTL

\* With every title read as well, the one PlayerController has is the stream's.
THEOREM TitleIsTheStreams == MpvSpec => []TitleCatchesUp
  <1>1. IInv => TitleCatchesUp
    <2> SUFFICES ASSUME IInv, Settled, titles = <<>>, Determined, ~muted PROVE title = mpv.title
      BY DEF TitleCatchesUp
    <2>1. link = "up" /\ Pipe = <<>>
      <3>1. <<>> \o <<>> = <<>>
        BY SingleLines, ConcatEmptySeq
      <3> QED
        BY <3>1 DEF Settled, Pipe
    <2>2. ~ObserveUnderWay(Pipe) /\ ~LoadUnderWay(Pipe)
      BY <2>1 DEF ObserveUnderWay, LoadUnderWay
    <2> QED
      BY <2>1, <2>2 DEF Determined, IInv, TitleComesToBeRead, TitleRead
  <1> QED
    BY <1>1, MpvInductive, PTL
=============================================================================
