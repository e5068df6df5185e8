# WinampDeck in TLA+

Specifications of the WinampDeck controller (`src/src`), the program that turns a
Raspberry Pi behind a Winamp skin into a player for Spotify and Internet Radio. They
model the program's control: its handlers, threads, queues, timers and connections, and
the processes and devices it depends on, as far as the code depends on them. TLC checks
them on small instances; TLAPS proves all of the invariants, and two refinements, for every
instance.

    tlc -workers 2 -config MCPlayerController.cfg MCPlayerController
    tlapm PlayerControllerProofs.tla

`PROJECT.json` lists, by name, every run with its properties, every definition with the
lines it models, a mutation of the code that each property catches, the hazards, and the
findings. A definition named in a comment "Mutation of X" is such a mutation; no
specification uses it.

## The system

One thread runs an Asio event loop. Everything that decides happens there, one handler
at a time; worker threads and other processes only ever post to it.

| Part | State | Operations | Talks to |
|---|---|---|---|
| `PlayerController` (core) | the Source, the session Spotify reported, the Station tuned, the Station List, the Eject timer, what the panel shows | 13 handlers: buttons pressed and released, the Eject timer, what the Engines report | calls all the interfaces below; listens to three |
| `AsioScheduler` | timers by id | `callAfter`, `cancel` | the event loop |
| `GoLibrespotClient`, `LibrespotRest`, `LibrespotEventStream` | connected or not, a request queue with a worker thread, a WebSocket | play, pause, modes; events, replies | go-librespot over HTTP and WebSocket; the controller as listener |
| `MpvClient` | what mpv should be doing, lines to be written | tune, pause, resume, mute, unmute; connect, write, read, lose | mpv over a Unix socket; the controller as listener |
| `StateFile` | one file, and a temporary one | read, save | the file system |
| `PigpioHardwareIO` | the buttons reported so far, the debounce timer, the LEDs | configure, interrupt, settle, read, set an LED | MCP23017, pigpio's thread, LCD and TFT |
| `TftView` | the screen, the clock, the bars, the frame timer | show a screen, draw a frame | Scheduler, Artwork, display |
| `DeckArtwork`, `CoverArtFetcher` | covers in the order they came, the one asked for, a slot for the next download, a thread | ask for a cover, receive one | the image server |
| `LcdView`, `Hd44780` | the text, where it scrolled to, the step timer; what is on the glass | show a text, step; initialise, write a row, clear | Scheduler, the display over I2C |
| `LoopbackSpectrum`, `SpectrumBands` | recorded samples, the levels and when they are due | record, hand out levels, stop | ALSA, a thread |
| `main`, `deck_config`, `stations_csv` | the settings and the Stations, read once | start, stop | the files their owner edits |
| `St7735`, drawing (`canvas`, `image`, `display`, `font5x7`) | the frame shown last; what is on the glass | initialise, write an area; draw, compare, scale, decode | the TFT over SPI |
| tools | none | | |

What is hard, and what makes each part correct:

- **Controller.** Any event may come in any state. The fields must fit each other and what
  the Radio was told (`ListNeedsStation`, `RadioAgrees`, `ResumeOnlyWhileAway`), the panel
  must follow every one of them (`PanelCurrent`), the Source must move only when somebody
  asked for it (`SourceChangesOnCue`), and a Safe Shutdown happens once, is announced
  and stays (`OneAnnouncedPoweroff`, `ShutsDownWhileHeld`, `ShutdownIsFinal`).
- **Commands and events cross.** A pause is under way while the phone presses Play; events
  already sent arrive after the Source moved. Two Sources may be heard meanwhile but not for
  good, and the picture the controller has of the session must catch up.
- **Timers.** A timer cancelled between its deadline and its handler.
- **Connections come and go.** What was asked for while mpv was away must be played when it
  is back, exactly; what changed at go-librespot while nobody listened must be asked for.
- **Replies race events.** A `GET /status` answered before an event may be handled after it.
- **Power cuts.** The Deck may lose power in any step of a save.
- **Interrupts.** The line from the expander can go low again before anybody looks, and then
  no edge ever comes.
- **Frames.** They draw themselves as long as something moves; a path that forgets to ask
  for the next one freezes the screen.
- **One slot, one cache.** A cover replaced in the fetcher's slot must not be believed to be
  on its way.
- **Displays outlive the program.** It may stop with half a byte sent to the LCD; the next start has to
  bring both ends back into step from there (`GlassShowsText`). Only what changed is sent to the TFT, so an area a
  row short leaves old pixels for ever (`GlassShowsPicture`); and what its memory holds at power-on must not be
  seen (`NoiseStaysDark`).
- **The expander outlives it too**, with the interrupts on and the LEDs lit, and a button may move while
  the constructor is between two of its steps (`MovesAreNoticed`, `LedsAsSet`).
- **Sound is late.** The bars must move with what is heard, though it is recorded in lumps, read late,
  and asked for only sometimes; and the thread must stop when told to.
- **Hand-edited files.** The Deck runs with all that was written in them, or says why it doesn't run;
  and a position saved with one list must not go astray in another.

## The modules

| Module | Models | Role |
|---|---|---|
| `PlayerController` | `core/player_controller` | the core; each handler an action, in an open environment |
| `Deck` | the controller, `LibrespotRest::post`, the event stream, go-librespot, a phone | composition: extends `PlayerController` and reuses its handlers |
| `PlayerControllerProofs` | | theorems about the two |
| `Scheduler` | `core/scheduler.hpp` | abstract specification: what a Scheduler promises |
| `AsioScheduler` | `adapters/asio_scheduler.hpp` | implements `Scheduler`; the safety part proved |
| `EjectTimer` | the controller's Eject button on `AsioScheduler` | composition of the two |
| `MpvClient`, `MpvClientProofs` | `adapters/mpv_client`, mpv | the client and the process it keeps in step |
| `LibrespotClient` | `adapters/go_librespot_client`, `librespot_events`, `librespot_rest`, `librespot_event_stream` | events, replies and losses; tracks, positions and modes |
| `StationMemory` | `core/station_memory.hpp` | abstract specification: what survives |
| `StateFile` | `adapters/state_file` | implements `StationMemory` on a file system that loses power |
| `Startup`, `StartupProofs` | `main`, `core/deck_config`, `core/stations_csv`, `system_poweroff`, the controller's first switch to Radio and its Safe Shutdown | a run of the program from its files to its save; extends `StateFile` |
| `PanelInput` | `hw/pigpio_hardware_io` | interrupt, debounce, edges, LEDs; start, end and kill |
| `EventLoopProofs` | | theorems about `AsioScheduler`, `LibrespotClient` and `PanelInput` |
| `Hd44780` | `hw/hd44780` and the display | operators: what is sent, and what may become of it |
| `LcdView` | `ui/lcd_view`, `ui/lcd_text` | the scrolling row, on `Hd44780` |
| `St7735` | `hw/st7735` and the display | operators: the controller's memory, windows and what is seen of it |
| `TftFrames` | `ui/canvas`, `ui/display`, the drawing half of `ui/tft_view` | operators: a screen's frame, what changed in it, and what is written |
| `Displays`, `DisplaysProofs` | `main` and both displays | composition of `LcdView` and `TftFrames` across starts, failures and kills |
| `Resample` | `ui/image`'s scaling, the square `adapters/cover_art` cuts out | pure operators, with what is asked of them |
| `Utf8` | `ui/font5x7`'s decoder | pure operators, with UTF-8's own definition to compare with |
| `LoopbackSpectrum`, `LoopbackSpectrumProofs` | `adapters/loopback_spectrum` | the recording thread, its queue, and the event loop that reads it |
| `SpectrumBands` | `core/spectrum_bands` around its Fourier transform | pure operators, with what is asked of them |
| `Artwork` | `adapters/deck_artwork`, `adapters/cover_art` | covers; operators and actions `TftView` uses |
| `TftView`, `TftViewProofs` | the timed half of `ui/tft_view` | clock, frames, bars, and through `Artwork` covers |
| `Recursion` | | lemmas for the proofs about loops: induction over a set of numbers, functions defined step by step, sequences that are joined, sums over finite sets |

The `MC` modules hold the constants of the runs, and the properties of those that refute a
comment.

How the models correspond to the code:

- **A handler is one action**, because the event loop runs it to its end. A handler that
  ends in `refreshPanel` has `RefreshPanel` as its last conjunct, never as a step of
  its own. The one exception is `onEjectHeld`, whose comment insists on the order of its calls, as the power may
  go after any: `OnEjectHeld`, `SavesStation` and `RequestsPoweroff` are its three, `shutdownStep` says which is next, and no other
  handler runs between them. A press that the code ignores is a stuttering step. What happens between handlers
  (a write completing, a thread waking, a file operation returning, the clock) is an action too.
- **Variables are the fields of the same name**, a struct of them being a record. `None`, or a
  constant such as `NoTrack`, is an empty `std::optional`. `engineCall`, `radio`, `toSave`, `remembered` and `poweroffs` in `PlayerController`
  are what its collaborators were told; `truth` and `repeated` in `TftView`, `stale` in `LibrespotClient`, `saved` and `outcome` in `StateFile`,
  `steady` in `LoopbackSpectrum`, `read` in `Startup` and `pauseFailed` in `Deck` are history the properties refer to, and no guard reads them.
- **Stations are positions** in the list; tracks, titles and covers are model values. A
  track is its own cover on the TFT. The LCD's text is a record of what is joined into it.
- **External parts** (mpv, go-librespot, the file system, the MCP23017, Asio's reactor, the
  steady clock) are modelled by what the code relies on, and are open otherwise: they exit,
  fail and change by themselves. They are marked `external` in the map.

Points worth knowing of single modules:

- `PlayerController`: no handler makes two calls to the EngineClient, so `engineCall` holds
  one. `LastStation` gives the first Station if the remembered position is past the end.
  A failed save leaves `remembered` as it was. `EjectHeld` has the timer armed as its guard; `EjectTimer` replaces this promise by the
  scheduler's two steps and uses `OnEjectHeld` without it.
- `Scheduler` has the times: when a timer is due, and `late` for those cancelled after that. The interface doesn't say whether such a
  cancel is in time, so its `Cancel` leaves both open; before the deadline a cancel is final.
- `AsioScheduler`: `ready` is the loop's queue of handlers whose wait succeeded. `Cancel` takes an
  id out of `timers` but not out of `ready`, as the code does; what is in `ready` alone is cancelled too late.
- `MpvClient`: `link` is `gone` from the moment mpv exits to that in which a read notices;
  lines sent meanwhile fail. mpv with no audio track selected ends a file it is given, which is why
  the order of the lines in `Load` matters (ADR 0004).
- `LibrespotClient`: a position is where its track was last put; from there it goes on by itself, here as on the
  screen. The track's title and artist are the track. `reply.before` counts the events that were already on the WebSocket
  when go-librespot answered, so `overtaken` marks the replies handled after a later event; `Overtaken` marks those that waited
  while a connection began or ended, as no event tells what happened meanwhile. A status says nothing of a track that a session doesn't have yet
  (`dispatchLibrespotStatus`). `stale` is what the replies that were overtaken or lost were asked for: the session, its track, the modes.
- `StateFile`: `onCard` is the set of files a power cut may leave under the name, because a
  rename is on the card only once the directory was flushed; a file that wasn't flushed may be torn.
  The temporary file's name is the same in every save. `outcome` tells a save in which nothing failed from the others: `FlushesDirectory` and
  `DirectoryNotFlushed` return alike, but only after the first must the new Station come back.
- `Startup`: `FilesDecide` compares what the code's loops accept with what the documentation asks of the
  two files: there is no state but the lines that count. A line is its fields; how a line is split at commas is left out. `Marked` is what a first field is
  without its byte order mark. `2^63` is where
  `get<std::int64_t>` wraps an unsigned number.
- `Hd44780`: a transfer is a sequence of nibbles and may stop after any. `Sent` and `Interrupted` are sets of displays,
  as half an instruction and half a character make something nobody documents.
- `LcdView`: a timer is `waiting` or `queued`. `strays` are steps that run though they were cancelled, because
  their handler was queued (see `AsioScheduler`); one of them takes the name of the timer in `timer_` away
  from the step it named, which is then a stray too. A character stands for all that are encoded the same way.
- `LoopbackSpectrum`: times are relative to now (a result is due *in* so long, a frame *is* so old), so that no clock
  needs a bound. The test and the wait of `wait_for` are two steps, `Tests` and `FallsAsleep`: the destructor's
  notification between the two is lost. `Tick` waits for the worker, except for `MaxLate`.
- `St7735`: `Write` keeps the guards of `write()` that drop an area silently; the window's bounds are inclusive, as in the code.
- `TftFrames`: a frame is a list of strokes, later ones over earlier ones; a character is one pixel, an icon, a clock or a cover an
  area in a colour that names it. So two frames differ where the real ones may, and the layout's numbers are constants.
- `Displays`: `TftView` draws any picture next (`TftView.tla` says when it draws). `shown_` is `tftShown`, `Nothing` while
  `shownValid_` is false.
- `Resample`, `Utf8`, `SpectrumBands`: `MCDisplays` and `MCLoopbackSpectrum` compare them, as named assumptions that TLC evaluates, with what is asked
  of them: `ScalesFaithfully`, `DecodesFaithfully`, `BandsAreWhole`. `DisplaysProofs` and `LoopbackSpectrumProofs` prove the same of all inputs.
- `PanelInput`: `alerts` are posted by pigpio's thread when two samples differ; the line going
  high and low again between two samples is not seen. `settles` counts handlers of
  the debounce timer already queued, which `expires_after` can no longer take back. The chip keeps `interrupts`, `line` and `latch`
  when the program is gone.
- `TftView`: one bar stands for the fifteen, since each moves by itself and only "all are at
  rest" is asked. Levels are 0 to `Height`. `ReportsAgain` is the report of a position that was reported before: `truth` follows it and no variable of
  the code does.

## The runs

Sizes are distinct states; every `pass` run is exhausted.

| Run | Module | States | Shows |
|---|---|---|---|
| `controller` | `MCPlayerController` | 311,040 | every order of presses, reports and titles keeps the controller, Radio and panel consistent; the Source moves on cue; a Safe Shutdown is announced, saves and powers off in this order, once and for good |
| `deck` | `MCDeck` | 153,958 | with commands queued, lost and overtaken and a phone on the same session, one Source is heard in the end, and the controller's picture catches up |
| `deck_bounce` | `MCDeckBounce` | violated | a late event can bounce the Source back |
| `scheduler` | `MCAsioScheduler` | 23,156 | `AsioScheduler` implements `Scheduler` for clients that cancel at any moment, times and liveness included |
| `eject_timer` | `MCEjectTimer` | violated | a release in the moment the handler is queued comes too late, and the Deck shuts down |
| `mpv` | `MCMpvClient` | 275,903 | mpv plays exactly what was asked for last, whatever was lost; titles don't linger; nothing stays unwritten |
| `librespot` | `MCLibrespotClient` | 563,009 | the reported session, its track and position catch up with go-librespot's after losses, and modes that change without an event are asked for |
| `startup` | `MCStartup` | 343,620 | the Deck runs on all of what its files say or not at all; the Station tuned is the one saved, whichever step of the save fails or is cut, if the list still has it |
| `displays` | `MCDisplays` | 4,215 | both displays show what their view wrote last, from any state an earlier run left them in, though only changes are sent; a long text scrolls round, once at a time; noise is never seen; a list of any length is readable |
| `spectrum` | `MCLoopbackSpectrum` | 2,546,699 | the bars show the sound a fixed delay after it, from late reads and full queues too, and go flat after it; the thread stops |
| `panel` | `MCPanelInput` | 28,220 | no move of a button is missed for good, wherever the program starts or dies; the LEDs lit are those asked for |
| `tft` | `MCTftView` | 156,303 | the clock loses no time until a position is reported again, frames come as long as needed and end, the cover on the screen comes |

### Bounds, and why they are enough

- `controller`: three Stations are the fewest for which one on, one back and the Shuffle
  pick differ, and the remembered position may be none, in the list, and past its end.
  One track and one title (and none) suffice, as the controller only compares them with
  what it showed; two positions. Nothing else is bounded: this run covers every
  sequence of events of any length.
- `deck`: one Station, no tracks (only who is heard matters); three requests and four events under way, three actions of the
  phone and one failed request. An Eject press makes one request and a phone's
  action at most two events, so a switch there and back can overlap a takeover,
  a pause and a departure. `MaxRequests` and `MaxEvents` stop the user and the phone, never the worker alone.
- `scheduler`: three timers, delays 0, 1, 2 and a clock to 4: ties, a later timer due earlier, one
  made in a handler after others expired, and a cancel before the deadline, between it and the reactor, and after.
- `eject_timer`: a long press is two ticks, two timers.
- `mpv`: two Stations (the title of one, tuned over by the other), four calls
  and two exits: a call before, in and after a gap, and a second gap while the first is being
  replayed.
- `librespot`: one mode for two (each has its own event and button), two tracks (or none yet) and two positions, two changes at
  go-librespot or buttons pressed, one loss or failure: a change before and one after a question was answered, with the loss
  anywhere.
- `startup`: two Stations and two power cuts: a save, one cut, a save over what was left,
  one cut. Saves, failures, and edits between two runs are unbounded. `stations.csv` is every file of up to three lines of eight kinds, the first of them also with a byte order mark (before the header, a comment, nothing): as
  the loop keeps only whether the header was seen, three lines make every line meet both cases and a line after it.
  `config.json` has each kind of mistake, and the least number that wraps into a range; 2^63 is scaled to 2^13, beyond all ranges.
- `displays`: on the LCD two columns and a separator of one; texts that fit and that don't, with characters of no, one and two codes; two
  timers cancelled late in one run of the program. On the TFT six by six pixels in two bands of which the last is short, as a
  changed area may then begin and end in each of its rows and columns, span a band's end, or be empty in one band; its memory is offset by one
  column and two rows, so that swapping them shows. Three visible rows over lists of none, two and five Stations: the window at the top,
  in the middle, at the end, and none. Starts, kills and failing transfers are unbounded. Scaling is
  evaluated for all sizes up to six on each axis, both ways, and its colours for all pictures of black and white up to three by three; decoding for texts of two characters from both ends of each length, and
  for up to three bytes of every kind between two characters.
- `spectrum`: the unit of time is half a step. A period is two steps in the place of four (or one and a half, which leaves part of a step
  over), the delay a period as in the code, and the queue, of 64 in the code, the shortest that does (four; with three a
  result still due is dropped). The worker is late by up to a unit. Nothing else is bounded: ages are dropped once stale. `SpectrumBands` is evaluated for
  sound of up to three frames over a transform of two, three bars of every width, and the Deck's fifteen.
- `panel`: two buttons, an LED and five moves: a press and its bounce on one, during each of the loop's
  steps, and the other button meanwhile. Starts and kills are unbounded.
- `tft`: three covers in a cache for two, so the cover on the screen can be evicted by a late result; one
  result waiting at the event loop; a clock up to 2 over a track of length 1, so that it reaches the end; a bar one step high that falls
  in one step, with a peak that hangs for one.

Deadlock is checked except where the bounds themselves stop the system (`mpv`, `librespot`,
`panel`, `eject_timer`: no calls, changes, moves or time are left, and the rest is done).

### Fairness

Every fairness condition is weak and is on what a running program, a running process
or systemd does: the event loop handles what is queued (`EventArrives`, `ShutdownGoesOn`, `OnMessage`, `OnClosed`,
`ReplyHandled`, `ReadLine`, `Writes`, `AlertHandled`, `OnFrame`, `CoverArrives`, `StepRuns`, `StrayRuns`, ...), a worker thread takes
the next request (`RequestServed`, `FetcherRuns`; its client has timeouts, so a request
ends), reconnect timers fire (`OnOpen`, `Connects`), pigpio samples, the clock goes on (`Tick`, `StepDue`), and
systemd restarts mpv and go-librespot (`Restart=always` in `systemd/`). Nothing is assumed
of users, phones, streams or failures. In `librespot` it is the worker that is fair, not success: `RequestServed \/ RequestFails`.
In `deck`, `RequestServed` is fair by itself; as it empties the queue, and failures are bounded, this says only that not everything fails for ever.

The properties under `<>[]` (`ComesToBeHeard`, `ComesIntoStep`, `ComesToRest`) use that calls, exits, changes and moves
are bounded in their runs: they state what the code promises, that after the last disturbance everything comes right.
`FramesStop`, `CoverComes` and `ScrollComesRound` say it openly: the screen stays, or its cover or the text does.
`startup` and `spectrum` assume no fairness: their properties are safety properties, the time a stop may take included.

## What is proved

By TLAPS, for every value of the constants that satisfies the assumptions.

`PlayerControllerProofs`, from `NumStationsAssumption` (a natural number, 0 included: the Deck runs
without Stations), `RememberedAssumption` (the file holds a position or nothing: what `StateFile::rememberedStation` returns)
and `PositionsAssumption`. The theorems cover all nine properties of run `controller`: `TypeCorrect`, `ListIsSafe`,
`RadioAgreement`, `ResumeIsForReturn`, `PanelIsCurrent`, `PoweroffIsAnnounced`, and the action
properties `SourceMovesOnCue`, `ShutdownOnlyWhileHeld`, `ShutdownStaysFinal`. They follow from one inductive invariant,

    IInv == TypeOK /\ ListNeedsStation /\ RadioAgrees /\ ResumeOnlyWhileAway /\ PanelCurrent /\ EjectInv

The first three parts and `OneAnnouncedPoweroff` are not inductive alone. `TypeOK` needs `ListNeedsStation`: stepping through an open list divides by the number
of Stations, which is positive only because an open list has a tuned Station. `ListNeedsStation` and `RadioAgrees` need the types: it
is a Station of the list that a handler tunes. `OneAnnouncedPoweroff` needs
`EjectInv`, which says for each `shutdownStep` what was saved and requested by then, and that the timer is armed only while Eject is held and never once
shutting down, so that `onEjectHeld` begins once; and `PanelCurrent`, which carries "Shutting down" to the
panel. Lemmas: the Stations that stepping, shuffling and starting choose are in the list (`StepStationType`,
`ShufflePickType`, `LastStationType`); what a switch of the Source does (`SwitchToSpotifyEffect`, ...); then one lemma per handler.

The same module proves `Deck`'s properties, for any bounds on requests, events and failures: `PictureIsTheEngines`, `OneSourceIsHeard`,
`LiveSessionIsResumed`. `DeckInv` extends `IInv` by two things no single state shows. `EventsLead`: a path of sessions leads, an event at a
time, from the one the controller sees to the Engine's, and along it playback is reported only where it is news; so with no
event left the two are equal. `SilenceIsComing`: a Spotify heard beside the Radio has a `playing` under way, which will make it the Source,
or a pause queued with no play after it. The pause that was lost is the exception the property names.

`MpvClientProofs`, for any Stations and however often mpv exits: `NoLineIsStuck`, `AskedIsPlayed`, `TitleIsTheStreams`. What mpv comes to
do is decided by the lines under way, in the socket and then in the queue. `WantedComes` says, kind by kind, that the last line is the one
wanted, or that there is none and mpv does so already; a `loadfile` also needs the `aid` right before it. Lemmas say
what appending to and taking from such a sequence keeps.

`StartupProofs`, for any list, and any files: `FileKeepsPromise` (the refinement: every step of a save, a failure, or a power cut is one of
`StationMemory`'s or a stutter), `MemoryKept` (the same within `Startup`) and `LastStationComesBack`. What carries them is that only a
whole, flushed file is ever renamed, so nothing the name may stand for on the card is torn (`onCard \subseteq Whole`), and that once the directory was
flushed the name stands for one file: so a save in which nothing failed leaves no other Station.
And `NoMistakePassedOver`, for `stations.csv` of any length and any `config.json`: `Agrees` says what the loop of `parseStationsCsv` has so far in terms of the lines
that count so far, and each line keeps it. Its assumptions say what the files are: `EditsAssumption` (a number has 64 bits; a
line is a sequence of fields) and `StartupAssumption` (2^63 lies beyond the ranges of the settings).

`EventLoopProofs`. For the buttons, from `MovesAssumption`, for any set of buttons and any number of moves: `LowLineNoticed`,
`MovesNoticed`, `LedsFollow`. The invariant adds `LowSampleAttended` (a line sampled low is being attended to) and `HighIsSampled` (a line that is high and was sampled since the last read was
sampled high). Without the second, the loop could find the line
high at the end of `onInputsSettled` while pigpio's last sample of it is still a low one, which
would hide the next edge: this is what the time the read takes, against the time between two samples, rules out. `Configured` says that
the constructor enabled the interrupts before anything depends on them.

For the scheduler `NoneFiresTwice`, for any number of timers, any delays and every client: each step is one that `Scheduler` promises. A handler is queued once, and only for a
timer still kept whose deadline has passed; the queue is in the order of the deadlines, and no wait that is not queued is due earlier than one that is. What
is cancelled in the queue was due: it is `late`, and `Scheduler` lets it fire. The liveness of `Promise` stays with TLC.

For go-librespot's client, from `TracksAssumption` and `LibrespotBoundsAssumption`, for any tracks and positions and any number of changes, losses and failures:
`PictureCatchesUp`, and `LibrespotTyped`. `CatchesUp` speaks only of the moments with nothing under way. The inductive `OnTheWay` speaks of all: of each part of the picture (the
session, the track, its position, the modes) it says that the picture has it right, or an event under way will set it, or a reply under
way that counts, or the answer to a question not yet put to go-librespot. Of a track
there is not no reply says anything: `NoTrackShown` is that only an event can be on its way to take one away. The lemmas go by what a step does to such a chain: read its first
event (`SettlesRead`), add one at its end (`SettlesAdded`), and that whatever go-librespot changes it tells (`LibrespotChangesTell`), or is
asked for (`RequestServedTells`).

`TftViewProofs`, for any tracks, positions, sizes of the cache and lengths of time: `FramesGoOn`, `ClockIsTrue`, `CoversAreUnderWay`.
The clock rests on what `trackTime` keeps of the screen pushed last (`ClockFollowsScreen`); it is right from each new position to the next that is reported again.

`LoopbackSpectrumProofs`: `StopsInTime`, for every period, step, delay and retry: the time the destructor has waited is at most what
the worker's own wait or sleep has lasted, and a sleep tested before the notification starts from nothing. `BarsOnTime`, for the same in the code's
proportions, which `ProportionsAssumption` states: a period is not longer than `kDisplayDelay`, nor a step than a period; the worker is less than a period late, and the pause after a
recovery keeps it no longer than that (50 ms, of a period of 125); and before the queue is full its first result is due. Without them it fails: with a pause longer than a period the worker
reads later than `MaxLate`. The property is about the results at the front; the invariant, `BarsInv`, is about all of them. A result not due yet is older than all that
was heard since (`InOrder`), so what is cut off in front was due. And each was heard at most a step after the one before it, unless that one was due or the sound had
only begun (`Chain`), so when one is due the next is not far: taking, cutting, going stale and time itself keep that chain. Lemmas say so one by one (`TakenKeeps`, `CutKeeps`,
`ReadsAdd`, `QueueAges`). And, for any sound and any edges of the bands: what `analyse` drops of its history changes nothing that is analysed later (`ForgettingIsHarmless`), and silence
before it changes nothing at all (`SilenceIsPadding`); each bar has a bin of its own, no higher than it has to be (`BarsHaveBins`), and the bars add up
to the bins (`BinsCountOnce`): none is lost between two bars, and none counts twice.

`DisplaysProofs`, from `LcdAssumption` and `CodesAssumption` (texts are made of codes, and `Nothing` is none), `NoiseAssumption` (noise is in no
picture), `ColumnsAssumption`, `GlassAssumption` and `LayoutAssumption`; `ListsAreReadable` also from `ListAssumption` (the layout has room for the header above the rows, for the
logos beside the names, and for the scrollbar beside both, as the constants of `tft_view.cpp:46` have: 11 < 13, 13 + 5 * 23 = 128, 23 < 27, 157 + 2 < 160) and `PictureAssumption` (a
list highlights one of its Stations; black is neither the highlight's colour nor the thumb's):

- `TextOnGlass`, for any width, separator, texts, failures and kills. `LcdInductive` is its invariant: while the driver is there, the display is at 4 bits with no half left over, moves to
  the right, is on, and its row is `shown_`. Before, nothing is assumed of it but its type: whatever nibble the last program stopped after, the constructor's
  nibbles lead every display there may be into step. A row is an induction over the codes written.
- `PictureOnGlass` and `NoiseNeverSeen`, for any size of the glass, offsets, height of the bands and pictures. `TftInductive`: the display is set up whenever its driver
  writes to it; `shown_`, while valid, is what is on the glass; no noise is on a glass that can be seen, nor on any once the driver has cleared it. A write changes the pixels of its area and no other (`WriteRedraws`), the areas
  of `changedAreas` hold every pixel that differs, and writing them one after the other, each to its own part of the frame, leaves the frame (`FlushShows`).
- `ListsAreReadable`, for any lists, names and layouts of that kind. What a frame shows of a pixel is the last stroke over it (`FramePixel`, `Seen`), and the lemmas go up from there: of two lists
  of strokes the later is seen where it covers (`SeenOfBoth`), of many of which one covers, that one (`SeenOfMany`); a text shows its character in each column that is not
  clipped (`SeenOfText`); a text too long shows the column of its cycle that it has moved to, though it is drawn as two copies of which either may be cut off (`SeenOfLine`, from `MovedOn`); a row shows its highlight, and over it its name
  (`SeenOfRow`); no two rows have a line in common (`RowsApart`), so the rows don't cover each other, nor does the header or the scrollbar cover them (`SeenOfList`). `TftInductive` takes the frame to the glass.
- `ScrollsOnce`, for any texts; `WindowHoldsHighlight` and `ThumbStaysInTrack`, for any list and number of
  rows; `SquareIsInTheMiddle`, for a cover of any size: what is cut out of it is a square, as large as can be.
- `ScalingReadsThePicture`, for all sizes: no pixel outside the picture is read, though the loop of `spans` has no test of its own, none is left
  out, and each counts. `ScalingSharesEvenly`: what an output pixel takes of the source adds up to the same for each, and what is taken of a source pixel to all of
  it; along an axis the weights are differences of clamped ends, so their sum telescopes (`CutsAddUp`). So the weights of a pixel's rectangle add up to
  `total`, and its colour is a mean, rounded: `ScalingKeepsColours`, for any picture and any sizes, none is darker than the darkest source pixel
  nor brighter than the brightest, and the cast to a byte cuts nothing off.
- `DecoderStaysInText`, for any bytes: the decoder goes on by at least one and never past the end. `DecodingIsLocal`, for any bytes: two texts are decoded
  together as they are apart, if the second doesn't begin with part of a character. Behind it are that the decoder looks at no byte behind what it takes (`InFrontIsAlone`), nor at any before its
  place (`BehindIsAlone`), and an induction from the end of the text. With what the bytes of a character are (`CodesOf`), it follows that any text of any
  of Unicode's characters comes back as it was (`TextsRoundTrip`), and that a character on either side of any damage is read (`DamageStaysLocal`).

`Recursion` holds what these and `NoMistakePassedOver` need of loops. The library states induction for an operator, which the provers can't
instantiate; `InductionUpTo` and its kin state it for a set of numbers, and follow from the least member of what is left out. So the loops a
proof is about are recursive functions in the models (or the library's folds). Of the library's `SumFunctionOnSet`, defined over a choice at each step, it shows
that the order of the choices doesn't matter (`FirstIsAny`), and from that what sums are known for: of parts, of multiples, of differences, of products.

Only model-checked is liveness (`OverlapEnds`, `ComesToBeHeard`, `ComesIntoStep`, `ComesToRest`, `FramesStop`, `CoverComes`, `ScrollComesRound`, and the fairness in
`Promise`), as liveness under fairness is out of the prover's reach.

## What disagrees with the code's own words

- **`deck_bounce`**: `docs/architecture.md:55` says a late event in flight when Eject paused Spotify can't bounce the
  Source back. It can, if two are in flight: Pause, Play, Eject, then the late `paused` and
  `playing`; the second looks like a new start.
- **`eject_timer`**: `asio_scheduler.hpp:44` says destroying a timer cancels its wait. Not once the
  reactor has queued its handler: letting go of Eject in that moment switches the Source and
  shuts the Deck down. `PlayerController` alone satisfies `ShutsDownWhileHeld`, for every instance: it
  expects more of a cancel than `Scheduler` promises and `AsioScheduler` gives (`Promise`).
- **`startup`** (the property holds): `docs/architecture.md:57` says "The first switch to Radio tunes the first Station in the list", and
  `docs/delivery-plan.md:26` the same. `docs/architecture.md:85` and ADR 0007 have it tune the Station saved at the last Safe Shutdown, and so do the code and `RadioComesBack`.
- **`tft`** (the property holds with an exception): `tft_view.cpp:122` calls the Engine's position the truth whenever it reports one. But `refreshPanel` pushes only what changed, and
  `trackTime` looks for a change, so after a second seek to the start of a track the clock runs on. `ClockRunsTrue` excepts what follows such a report
  (`repeated`) until a screen brings a new position; without this premise TLC refutes it in four states. In the same way a return to Spotify with no report meanwhile begins
  the clock at the position reported last.
- **`spectrum`** (the property holds): `loopback_spectrum.hpp:41` promises a stop in a fraction of a second. It may take all of `kRetry`, two seconds, when the destructor notifies
  a worker that is about to sleep. `StopsWithinRetry` is as strong as the code, and TLC refutes any smaller bound; it doesn't look for the lost notification, which the code permits.

Met while modelling, without a run of their own:

- A `GET /status` answered just before the connection is lost is handled after, and reports a session at a go-librespot
  that is gone, where `go_librespot_client.hpp:23` says Spotify is reported inactive meanwhile. `ComesIntoStep` says that the next connection puts it right.
- A step of the LCD that is cancelled late runs all the same and asks for another: a long text then has two chains of steps, of which
  `timer_` names one, and scrolls at twice the speed. `OneScroll` holds while no cancel came too late.
- `font5x7.hpp` says invalid bytes become U+FFFD. `decodeUtf8` looks at the form only: overlong characters, halves of
  surrogate pairs and numbers past U+10FFFF are taken for characters (and drawn as `?`, unless a glyph has the number). `RoundTrip` asks for valid texts only.
- `St7735` doesn't look at `spiWrite`'s result: a chunk that fails leaves its pixels as they were, while `shown_` says they were written.

Bounds on the properties that hold: `OneSourceHeard` and `OverlapEnds` except a `pause` that failed (`LibrespotRest` drops failed requests, so nothing retries it) and
a Deck that is shutting down; `CatchesUp` and `ComesIntoStep` except what a reply was asked for that was lost, or that an event, or a connection beginning or ending, overtook:
this stays wrong until the next answer to the same question. `ClockRunsTrue` except after a position reported again (above). `OneScroll` except after a late cancel.

## What is not modelled

- The table of glyphs in `font5x7` and the glyphs that stand in for missing ones: data. `pigpio_session` and `version`: a call each, a constant.
- The reading of picture files and of JPEG, the download of a cover: a cover comes or doesn't.
- SPI transfers that fail: the driver doesn't notice (see above), so the model takes every transfer to arrive.
- The window, the Fourier transform and the decibels of `SpectrumBands`: floating-point arithmetic.
- The options and signals of `main`, the tools and the demo.
- The destructors of `LibrespotRest`, `MpvClient`, `CoverArtFetcher` and the event stream: they end with the program, whose end
  is modelled where something outlives it (the displays, the expander, the state file) or waits for it (`LoopbackSpectrum`).
- Events lost on the way in `Deck`, and status replies there: `LibrespotClient` has both, with an open controller in the place of `PlayerController`.
- A stream that ends while it is heard: `mpv_client` has nothing that reacts to it; the next `loadfile`, for whatever reason, brings it back.
  `StreamDropped` is the loss the code is prepared for, of a stream that isn't read while it is muted (ADR 0004, line 55).
- JSON, URLs: each message or file is what it means; a message that can't be
  parsed is dropped by the code and stutters here.
- `LcdView` and `PlayerController` on `AsioScheduler` together: `EjectTimer` is the one client composed with it.
- What is outside `src/src`: `audio/`, `systemd/` and the scripts are configuration.

## Plan

What is left, in the order of what it would add:

1. The path from an event to the clock in one composition: `LibrespotClient`'s tracks and positions, the controller, and `TftView`,
   with the seek that is lost as its first question.
2. `LcdView` on `AsioScheduler` itself, with `EjectTimer` as the loop's second client.
3. Proofs: `EjectTimer` and `AsioScheduler` in one refinement.
