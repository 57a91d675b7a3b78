# A verification development for kode-linn-remote

TLA+ models of the parts of the remote that are concurrent, optimistic or
otherwise hard to test, TLC configurations that check them on small instances,
and TLAPS proofs of what should hold for every instance. Paths below are
relative to the repository; line numbers are those of the commit modelled.

## 1. The system

The remote shows what a Linn streamer plays and sends it commands. Two
applications share three libraries:

| Part | State it keeps | What it does |
|---|---|---|
| Playlist state, `app-runtime/src/playlist.rs` | queue, position, repeat, shuffle, metadata cache, outstanding prediction | answers "what is next or previous", guesses a skip, weighs the device's report against the guess |
| LPEC protocol, `linn-lpec/src/lib.rs` and the line reader of `lpec.rs`, `host_tcp.rs`, `net.rs` | a line half read | puts actions into lines and reads events, answers and errors from them |
| LPEC session, `app-runtime/src/lpec.rs` | connection, `subscribed`, the status composed from events, the playlist, its clock | subscribes, reads event lines within a time budget, prefetches neighbours with `ReadList`, resets on errors |
| HiFi driver and worker, `app-runtime/src/hifi.rs` | what to poll, which covers are wanted, loaded or prefetched, pins; two threads and their channels | turns polls into events for the app; the command thread sends commands, the background thread does the rest |
| Now-playing screen, `app-core/src/ui/screens/hifi.rs`, `optimistic.rs` | the status shown, the cover and its deadline, held values, a running pin's intro, the local clock | applies reports unless something is held against them, shows presses at once |
| App shell, `app-core/src/lib.rs`, `launcher.rs`, `stopwatch.rs`, `focus.rs` | the screen that is up, navigation, focus ring, network state, time, the watch | hands events to the screen, returns its commands, says whether a frame is needed |
| Rendering, `app-core/src/ui/render.rs`, `session.rs`, the screens' `render`, `aa.rs`, `components.rs` | one cache per panel of what it shows | draws what differs from the cache, over what others drew; shapes with soft edges |
| Simulator, `apps/sim/src/main.rs` | app and worker | updates, ticks and drains in one thread |
| Firmware, `apps/firmware/src/main.rs`, `net.rs`, `artwork_pool.rs` | two bounded channels, a pool of three picture buffers, the station, the one LPEC socket | four cooperative tasks around the same app and driver. The README of the repository calls it legacy (a retired board); its code is here and is modelled as it stands |
| Configuration, CI gateway, boards | | see section 8 |

How they interact, in the simulator: a button makes the screen show the effect
and return a command; the worker's command thread passes a `TrackChanged` to
the background thread *before* it sends the command, so that the skip is shown
from the prefetched metadata while the command travels; the background thread
polls the session and sends statuses, pins and covers back through a channel
the app drains. In the firmware the app's commands go through a channel of
four, the events come back through a channel of one that the BOOT key shares.

What is hard about it:

- *Optimism.* A press is shown before the device has heard of it; reports made
  before the press landed must not undo it, reports made after must win.
- *Two orders.* The words of a track, its picture, the prediction of a skip and
  the skip itself travel separately and may arrive in any order.
- *An untagged protocol.* Events and answers share one connection, answers
  carry no tag, waits end by time.
- *Sticky state.* `subscribed`, `last_artwork_uri`, a held value, a deadline:
  each is set by one handler and cleared by another, and one that is never
  cleared shows for good.
- *Three buffers for ever.* The firmware hands out `&'static` views of a buffer
  it will write again.
- *Drawing by difference.* A frame draws what its cache says has changed, on top
  of what earlier frames left; some frames fail half way.
- *A connection that is replaced underneath.* The socket is closed and opened
  by whoever uses it next, the session above believes what it believed.

The hazards this comes down to, each at its line, are in `PROJECT.json`.

## 2. The modules

In layers; each layer uses the ones above it.

| Module | Models | Correspondence |
|---|---|---|
| `Hold` | nothing by itself: what an optimistic value promises | abstract specification; the playlist's position and the screen's volume are shown to implement it |
| `Optional` | `Option` of Rust | a value or `None`, one for all modules |
| `Playlist` | `playlist.rs` as functions of a record | one operator per method: `set_ids`, `neighbour_id`, `ids_needing_metadata`, `cache_track`, `predict`, `reconcile` |
| `PlaylistMachine` | a `PlaylistState` under every order of the session's calls | one action per `Ds/Playlist` variable, the prediction, the prefetch and its reads one by one, since events are handled while a read waits |
| `SkipSession` | a skip end to end: worker threads, session, connection, device | `Press`, `TakeKey`, `SkipDone/SkipFails` (command thread), `ShowSkip` (`mark_track_changed`), `BeginPoll`, `ReadEvent`, `PollPassesAnswer`, `PollMeetsEof`, `PollEnds` (a poll, line by line), `PrefetchReads*`, `PrefetchFails` (the reads) and the device's announcements, answers and failures |
| `Wire` | one message of the protocol, symbol by symbol: `format_action`, `parse_message` and what they call, `read_lpec_line`, the escaping of values in XML | the device's way of writing is external; a text is a short sequence of the symbols that matter to quoting |
| `Link` | what the session stands on: `connect_wifi`, `wifi_reconnect_task`, `ensure_lpec_socket`, `reset_lpec`; and the command lane's play or pause from memory (`TogglePlayback`) | one action per task's step; a network call (poll, command, pins, cover) begins, is answered, and fails or returns, and blocks the executor meanwhile, while the stack may learn at any moment that the device has closed (`StackHears`); the firmware and the simulator are two `Sides` of one specification |
| `HifiStatus` | the types app and runtime share | `HifiStatus`, `HifiPin`, `has_live_content` |
| `HifiDriver` | `HifiDriver` as functions of a record | one operator per method |
| `HifiScreen` | the screen's `State` as functions of a record | one operator per handler |
| `HifiScreenMachine` | the screen under every report, press and tick | one action per event of `App::update`; refines `Hold` |
| `CoverFlow` | simulator: app, both worker threads, channels, device | composes `HifiScreen` and `HifiDriver`; the session is reduced to the place it believes the device at, whether that is a guess, and the status it has put together. It learns only from lines: the device announces a place (`AnnounceId`) and a track with the transport (`AnnounceInfo`), each when it has changed, and a poll reads them one by one |
| `FirmwareFlow` | firmware: main loop, runtime task, BOOT key task, channels, pool | composes `HifiScreen` and `HifiDriver`; tasks interleave only where the executor can switch, at a full channel, a timer or the end of a frame |
| `Focus` | `focus.rs`: the ring's steps, the control under a point | one operator per function |
| `Layouts` | where the controls lie (`layout` of the three screens, `geometry.rs`) and what a tap on each is | the numbers are the code's; that the regions of the Now Playing page nest is an assumption TLC evaluates |
| `Panel` | what each part of a page draws and what it notes in its cache (`render.rs`, `session.rs`, `widget.rs`, the screens' `render`) | a panel is a record of what shows where; one operator per part, each a function of panel and cache |
| `AppShell` | `App::update` and `App::render` with launcher, stopwatch and HiFi screen, the loops that draw when asked, frames that fail half way | one action per event, one for a frame, one for a frame that stops after any of its parts |
| `Raster` | coverage of a pixel by a shape (`aa.rs`), in units of the sub-samples | the code's shapes and its shortcut over a pixel's corners, without floating point |
| `Drawing` | every shape the widgets draw, pixel by pixel, and `compute_marquee_offset`, millisecond by millisecond | one pixel or one millisecond per step |
| `MCPlaylist`, `MCSkip`, `MCScreen`, `MCFlow`, `MCFirmware`, `MCApp`, `MCDrawing`, `MCWire`, `MCLink` | small instances | |
| `Methods_proofs` | lemmas about `Playlist` and `HifiScreen`: one per operator or handler | |
| `PlaylistMachine_proofs`, `SkipSession_proofs`, `HifiScreenMachine_proofs`, `CoverFlow_proofs`, `FirmwareFlow_proofs`, `AppShell_proofs`, `Connection_proofs` | theorems of the specifications; `HifiScreenMachine_proofs` is about the words of `Drawing` too, `Connection_proofs` about `Link` and `Wire` | |

Two layers meet twice. `SkipSession` keeps the session's lines and waits and
forgets covers; `CoverFlow` keeps covers and the screen and has of the session
its place, its guess and its status, of the connection that it ends and is
subscribed anew. `HifiScreen` is used unchanged by the screen's own
machine, by both flows and by `AppShell`, and so are its lemmas by their proofs.

*Worlds.* What the environment of a module may do is a record, chosen in `Init`
among `Worlds` and kept for the behaviour. One run then asks one question of
several environments, none of which has to be all of them at once.

Abstractions. A track's words are its title; the metadata `ReadList` returns is
one value per id; a cover is the uri it was loaded from; the position is in
seconds and the clock in ticks (`TicksPerSecond`). An event of several
variables is a line per variable, except in `Wire`. The connection's lines, in
flight and arrived, are one sequence, so that a read may time out at any moment.
In `SkipSession` shuffle is off (the playlist machine has it). On a panel the
picture is cut into the regions its layers have in common (`Picture`), a text is
the value it was made from, and the clock's unit is the spinner's phase. A
stroke of `Raster` is a set of sub-samples, as it is in the code.

Definitions marked `\* Mutated` are wrong on purpose: each changes one mapped
definition the way a slip in that code would, and the run named in
`PROJECT.json` finds the property it breaks.

## 3. The runs

Passing runs. All set `CHECK_DEADLOCK FALSE`: the bounds on presses, moves,
losses and time let every instance come to rest.

| Run | States | Properties | Question |
|---|---|---|---|
| `MCPlaylist` | 46,508 | `TypeOK`, `PositionIsTheGuess`, `NoReadIsWasted`, `ThereAndBack`, `PositionIsHeld` (refines `Hold`), `NeighboursSettle` (liveness) | Do queue, position, guess and cache fit together under every order of calls? |
| `MCSkip` | 1,360,200 | `TypeOK`, `NeverDeaf`, `CacheIsTrue`, `AgreesWhenQuiet`, `HeldGuessIsWhole` | What may a skip do to session and screen, whatever the device and the network do? |
| `MCSkipFollow` | 71,652 | `ComesToAgree` (liveness) | Does the session find the device again after a loss? |
| `MCScreen` | 135,402 | `TypeOK`, `NoOrphanCover`, `PinStandsIn`, `GuardedPositionIsOurs`, `VolumeIsHeld` (refines `Hold`) | Can a cover or the words of another track get stuck? Are presses defended, and no longer than they should be? |
| `MCFlow` | 833,341 | `TypeOK`, `WordsCome`, `PictureComes`, `ScreenFollows` (liveness) | Do the right words and the right picture come? Where the session is wrong, does the screen at least follow it? |
| `MCFirmware` | 130,309 | `TypeOK`, `WritesUnseen`, `WordsCome` (liveness) | Is a picture buffer ever written while something shows it? Do the words come? |
| `MCApp` | 526,440 | `TypeOK`, `PanelIsTrue`, `CoverIsWhole`, `NoCarriedRing`, `LeftRightReachAll`, `StopwatchCounts` | Does a panel show what a fresh drawing would? Where can the ring be and go? Does the watch keep time? |
| `MCDrawing` | 58,795 | `DrawnExactly`, `WordsGlide` | Are the shortcuts of the drawing exact? Do words ever jump? |
| `MCWire` | 1,671,384 | `HeardIsSaid`, `InStep`, `AskedIsMeant` | Does what one side says arrive at the other, through quotes, escapes and pauses? |
| `MCLink` | 557,190 | `TypeOK`, `SubscribedIsHeard`, `HeardDropsAreMended`, `ComesToHear` (liveness), `SelectToggles` | Can the session believe in a connection it does not have? Does it come to hear? |

Bounds, and why they are enough for the questions:

- `MCPlaylist`: three ids; queues that are in order, reordered and longer than
  the ceiling, with a duplicate, of two, one and no tracks; a cache of two, the
  smallest that can hold both neighbours, so that every store evicts; a guess
  of two ticks in a time of three, so that it is confirmed, contradicted early,
  and contradicted late; six moves.
- `MCSkip`: a repeating queue of three (both neighbours distinct, each end
  reached), a cache of two. Its worlds: `Settled` (two skips either way, each
  after the last has settled, on a device that may pass over tracks without
  announcing them, and one loss), `Hurried` (three skips forward, faster than
  the device), `Hostile` (one skip that may fail, with late answers, a loss and
  a device that may announce the skip before the session predicts it). A loss
  is a hang-up that cuts the lines in flight at any place, a BYEBYE, an answer
  without a track, or an answer after its wait. The properties name the worlds
  they need: `CacheIsTrue` and `HeldGuessIsWhole` exclude late answers,
  `AgreesWhenQuiet` asks for skips that a session can follow (`Followable`),
  which those of `Settled` and `Hurried` are. `NeverDeaf` holds in all of them.
  `MCSkipFollow` has the world `Followed`: no skips, a device that moves and
  one loss.
- `MCScreen`: in `Changing`, two tracks with covers, one without, two pins, a
  grace and a hold of two seconds in a time of five, so that deadlines lapse and
  are armed again. In `Pressing`, positions 0, 3 and 6 around the restart
  threshold and the tolerance of 3, half-second ticks and jumps, levels 0 to 3
  in steps of two (so that a turn is cut off at either end).
- `MCFlow`: in `Skipping`, three tracks with two covers between them (the one
  that shares its cover with another is what remembering by uri gets wrong), one
  skip and one move of the device before or after it, nothing lost. In
  `Pressing`, two tracks, one without a cover, one pin, two presses (Right, Back,
  a tile) one after the other, and one failure of a pin's command, a load or the
  connection; in `Pausing` the same of Select. In `Failing`, a skip of tracks
  without covers with one failure, be it that of the skip itself, and commands
  that may reach the device before they are shown. A time of one lets a held
  value and a stale cover come to their end.
- `MCFirmware`: two touches, a
  key, two moves, a failure, the pool of three and the channel of four as in the
  code.
- `MCApp`: one panel (two share nothing but the app). `Wandering` starts on the
  launcher or the Now Playing page, with the pad's Down, Right, Select and Back,
  the middle of every control and a point beside them all, four touches, the
  network coming up and a pin and its covers arriving; that is enough to set a
  ring on every page, to leave it and to come back. `Watching` stays on the Now
  Playing page: two tracks at play, paused and buffering, with and without a
  cover, one turn of the volume, so that the readout comes up and goes, and one
  frame that fails after any of its parts. Two phases of the spinner, ticks of
  one and, in `Wandering`, two units.
- `MCDrawing`: each kind of shape the widgets draw, at its size on the screen
  (the circle outlines of the network's icons each at theirs, the arcs of the
  network's sign one by one, the ring about one control), every pixel of its
  rectangle and of a frame of one pixel about it; words too long by 0, 1, 7 and
  100 pixels, every millisecond of one cycle and the beginning of the next. The
  overflows and the places are all that is chosen.
- `MCWire`: seven messages, at least one of each kind, with texts that are hard
  to tell the end of: quotes, blanks, line feeds, backslashes, entities, the
  letters of an entity. Three said one after another, so that a wrong line
  spoils the next; one gap, at any symbol. The remote takes up to two texts and a
  line of 24 symbols, so that one response has a text too many and two lines
  taken for one are too long. Five texts are asked and read back.
- `MCLink`: two channels, three attempts, two moves of the access point and a
  drop (one while another is being mended), two closed connections (the second
  while the session believes in the one opened after the first), a forgotten
  one, a call that fails without need, three presses of Select and one act of
  somebody else.

Runs that find a disagreement (one property each, section 6): `MCFirmwareSlots`,
`MCWireGap`.

## 4. Fairness

No liveness property assumes that the user does anything or that something
fails. `HifiScreenMachine`, `AppShell`, `Wire` and `Drawing` state none: their
properties are of safety.

- *Threads and tasks run* (weak fairness of their steps): operating system
  threads in the simulator (`Drain`, `AppTick`, `TakeCommand`, `Background`), an
  executor that polls every task in the firmware (`PlainFrame`, `RuntimeTask`,
  and `Joining` of `Link`). The tick that advances the clock is
  the same action with another argument and has strong fairness.
- *The device announces what it has not announced, answers what it was asked
  and takes a command* (weak fairness of `Announce*`, `Answer`, `SkipDone`,
  `CommandDone`): the protocol's promise to a subscriber.
- *A full channel is not full for ever* (strong fairness of `SendKey` and
  `SendEvent` in the firmware): two senders share a channel of one, whose waiters
  are woken in turn.
- *A poll comes due, and reads what has arrived, now and then* (strong fairness
  of `ReadEvent` and its kin in `SkipSession`, of `BeginPoll` and `ReadLine` in
  `CoverFlow`): a poll ends by a time budget and may end early any number of
  times, but is begun again every interval (`hifi.rs` 245-269, `lpec.rs`
  759-812), and a line that has arrived is the first thing it reads. That is all
  a poll is assumed to do: the session is never given the device's state, only
  lines, and what the device does not announce it does not learn.
  `FirmwareFlow`, which is about slots and channels, leaves the session out; its
  poll brings the device's status, now and then: the firmware's driver predicts
  no skip, and a call that fails resets the session, which then hears everything
  anew (`main.rs` 688-743).
- *Network calls end* (weak fairness of `Answer`, `CallFails` and `Returns`
  together): each has a timeout. Between them the executor runs the other task
  (strong fairness of `Rejoining`, which a call under way disables) and the
  runtime polls (strong fairness of `Begin("poll")`). A connection that the
  device has closed, used again and again, is found closed some time (strong
  fairness of `StackHears`): its end has been sent, and every call drives the
  stack that receives it.
- *A skip is shown some time although polls come between* (strong fairness of
  `ShowSkip`): requests and polls are taken by one loop in turn
  (`hifi.rs` 452-492).
- *A wait for an answer ends at the end of file* (strong fairness of
  `PrefetchFails`; in the world of `MCSkipFollow` no answer is late, so this is
  its only occasion): the read returns at once.
- *A read of metadata succeeds if it is tried for ever* (`SF` of `Fetch`); a
  failure that lasts would of course leave neighbours unread. In `Link` and the
  flows, failures that need not happen are bounded instead.

## 5. What is proved

`tlapm` proves, for every value of the constants that satisfies the named
assumptions:

| Module | Theorem | Says |
|---|---|---|
| `PlaylistMachine_proofs` | `TypeCorrect` | `Spec => []TypeOK`: shape, both ceilings, rounds of at most two reads |
| | `PositionIsAlwaysTheGuess` | `Spec => []PositionIsTheGuess` |
| | `NoReadIsEverWasted` | `Spec => []NoReadIsWasted` |
| | `ThereAndAlwaysBack` | `Spec => []ThereAndBack` |
| | `PositionImplementsHold` | `Spec => PositionIsHeld`, the refinement of `Hold` |
| `SkipSession_proofs` | `TypeCorrect` | `Spec => []TypeOK` |
| | `NeverEverDeaf` | `Spec => []NeverDeaf` |
| | `HeldGuessIsAlwaysWhole` | `Spec => []HeldGuessIsWhole`, over lost connections, new queues and skips in a row |
| | `CacheIsAlwaysTrue` | `Spec => []CacheIsTrue` |
| | `AgreesAlwaysWhenQuiet` | `Spec => []AgreesWhenQuiet`, for a queue, skips and losses of any number |
| `HifiScreenMachine_proofs` | `TypeCorrect` | `Spec => []TypeOK` |
| | `NoCoverIsOrphan` | `Spec => []NoOrphanCover` |
| | `PinsStandIn` | `Spec => []PinStandsIn` |
| | `GuardedPositionIsAlwaysOurs` | `Spec => []GuardedPositionIsOurs` |
| | `VolumeImplementsHold` | `Spec => VolumeIsHeld`, the refinement of `Hold` |
| | `WordsAlwaysGlide` | `DrawingSpec => WordsGlide`, for words too long by any width |
| `CoverFlow_proofs` | `TypeCorrect` | `Spec => []TypeOK`: app, threads, channels and driver |
| | `ScreenStaysSound` | `Spec => []Sound(screen, now)`, in the whole flow |
| `FirmwareFlow_proofs` | `TypeCorrect` | `Spec => []TypeOK` |
| | `SlotsAreWrittenUnseen` | `Spec => WritesUnseen`, for a pool of any size |
| `AppShell_proofs` | `ShellIsTyped` | `Spec => []TypeOK`: app, caches and panels |
| | `RingsStayHome` | `Spec => []NoCarriedRing` |
| | `WatchKeepsTime` | `Spec => []StopwatchCounts` |
| | `PanelsAreTrue` | `Spec => []PanelIsTrue`, whatever frames failed before |
| | `CoversAreWhole` | `Spec => []CoverIsWhole` |
| | `LeftRightSuffice` | `Spec => []LeftRightReachAll`, for pages of any pins |
| `Connection_proofs` | `TypeCorrect` | `Spec => []TypeOK`, of `Link` |
| | `SubscribedIsAlwaysHeard` | `Spec => []SubscribedIsHeard`, whenever a connection ends and whatever call is under way |
| | `SelectAlwaysToggles` | `Spec => SelectToggles` |
| | `WireTyped` | `WireSpec => []WireType` |
| | `AlwaysInStep` | `WireSpec => []InStep`, for messages and texts of any length |
| | `HeardIsAlwaysSaid` | `WireSpec => []HeardIsSaid`, wherever lines are cut |
| | `AskedIsAlwaysMeant` | `WireSpec => []AskedIsMeant` |

Assumptions: `PlaylistAssumption`, `MachineAssumption`, `SkipAssumption`,
`StatusAssumption`, `ScreenAssumption`, `FlowAssumption`, `FirmwareAssumption`,
`PanelAssumption`, `ShellAssumption`, `LayoutAssumption`, `DrawingAssumption`,
`LinkAssumption`, `WireAssumption` and `NoLineWithin`, each in the module that
declares the constants. They say of what type the constants are, that `None` is
none of the values it stands beside, that lengths, lifetimes and bounds are
naturals and that caches, pools and channels hold something. `WireAssumption`
says besides that a message has the atoms and texts of its kind and that its
texts can be told from how they are written (`Tellable`; the observations of
section 6 say what cannot). `NoLineWithin` says that no message holds the
beginning of another as a symbol of its own; `HeardIsAlwaysSaid` alone needs it.
TLC evaluates each of them in the runs of its module.
`Methods_proofs` extends the playlist and the screen at once, and
`HifiScreenMachine_proofs` the drawing too, so that theorems about one stand
beside the assumptions of the others; no proof uses those of a part it is not
about.

The arguments, by inductive invariant.

- *Playlist.* `IInv == TypeOK /\ PositionIsTheGuess /\ NoReadIsWasted`.
  `NoReadIsWasted` is about the round of the prefetch *under way*: a read is
  stored under its id without looking whether the id has an entry by then, so
  that no id has two entries follows only if no id still to be read is cached;
  that this survives the store needs the round to have no id twice. Begin the
  round and `ids_needing_metadata` gives all of it (`IdsNeedingMetadataProperty`);
  take a read off it and `RestOfTheRound` and `CacheTrackProperty` keep it.
  `ThereAndBack` needs the shape alone: in a queue without repetitions the
  current place is where the current id is (`CurrentIndexOf`), and one step and
  one back end there (`ThereAndBackAgain`), with the ends joined or not. The
  refinement maps the position to `Hold`'s shown value and the prediction to its
  guess; each of the calls is a press, a report that is followed, time, or a
  stutter.
- *Session.* `Shape` is the type invariant. `Connected` strengthens `NeverDeaf`:
  an end of file is the last line there is, and once the device has closed it
  neither tells nor asks anything more; a session that believes it is subscribed
  and is not listened to therefore has the end of file still before it.
  `OneAnswer` strengthens `CacheIsTrue`: as long as no answer is late, one
  answer at most is under way, and it is for the id the round waits for; a wait
  that ends leaves none behind. `Whole` strengthens `HeldGuessIsWhole` and needs
  that the cache is true, for a guess takes its words from there: what comes in
  besides while it is held moves neither the words nor the place, except
  together, by the report that ends it. `AgreesWhenQuiet` is about a moment at
  which nothing is under way, so its invariant has to say what everything under
  way will come to. In every world `Linked` (the device is at a track of its
  queue, tells only a listener, and where nothing is lost has one as soon as
  anything has been said), `Queued` (the session's queue is the device's as far
  as it holds it, and a guess is where the session is) and `Heard` (the `Id`
  announced last is the last there is to read; once it is read, the session is
  there). Where nobody skips, `Untouched` adds that no guess is ever held and
  the words are those of the track announced last. Where somebody does, the
  session is one skip ahead of the device at most if the user waits (`Patient`),
  and any number of them otherwise (`Hurried`): the announcements still to be
  read trail the guess by whole steps in the one direction the user takes, in
  the order in which the device took them (`Trailing`), and the last description
  is not one the held guess passes over (`Showing`). `InTurn` says of both that
  what the command thread has sent is what the session has to show. Most steps
  neither announce nor read nor skip, and keep all of this at once
  (`KindsOfStep`).
- *Screen.* `Sound` is the shape and five facts: a cover that is not the
  status's has a deadline (`Attended`), the clock of a playing track was set no
  later than now (`InTime`), nothing plays before the first report (`Untold`),
  the level held is the level shown (`VolumeKept`), a guarded position is at most
  the seconds since the press (`Guarded`). `Methods_proofs` proves of every
  handler that it keeps `Sound`, whatever the report; the machine, both flows
  and the whole app cite these lemmas. `PinStandsIn` needs `PinDefended`: while
  the first pin stands in, the intro that the screen holds is that pin's, with
  its expiry and the words it replaced, so that a report of those is passed
  over until the moment the property no longer speaks of it.
- *Words.* A cycle is four stretches: still, along, still, back. Each is shown
  to stay between the ends and to move by a pixel at most in a millisecond, for a
  quotient grows by one at most when its numerator grows by less than its
  denominator; the next millisecond is in the same stretch, or at the beginning
  of the next, where both give the same place.
- *Flow.* What is sent over the channels is what the other side can take
  (`Passed`: messages, commands and requests each of their kind, with covers and
  pins that the world has). What the device says is of its queue: every line on
  the connection is of a place in it (`ConnectionOK`), so that the session's
  place is one too and its status is one that can be shown (`SessionOK`). With
  that, each handler of the driver and of the screen gets arguments for which
  its lemma holds, and the screen stays `Sound` from the first report, in
  whatever order the threads take turns.
- *Firmware.* A written slot must be older than everything that can see it. At
  most one cover is on its way from the runtime to the app, and it is the
  youngest slot (`OneCover`); the slot the screen holds is as many acquisitions
  old as loads the app has not taken (`HeldOld`, the counter `refused`). So while
  fewer than the pool's size less one are refused, the slot that comes round is
  neither.
- *App.* The screen is `Sound`; a ring that was carried over a change of page is
  on the Now Playing page, whose targets are none, so it does not show; and while
  the watch runs, how far it is off and how much of a second has gone since its
  last one add up to less than a second for each start, whatever the ticks
  (`WatchExact`): a late tick moves time from one to the other.
  `PanelsAreTrue` compares each panel with a drawing on a black one. Its
  invariant is `PanelInv`, and most of it holds whether or not a panel is up to
  date: the cache is `Honest` (what it says of a part is what that part of the
  panel shows, and what it says nothing of is not there; a frame that was
  abandoned leaves a cache that says nothing at all), and a screen that waits
  for its first report has drawn no words (`Young`). From such a cache each part
  of a frame ends at what a fresh drawing would give, one lemma per part, the
  picture's layers one by one, and so does the frame (`RenderShows`). A handler
  that asks for no frame has changed nothing that a drawing tells apart (`Quiet`
  and `Answers`, one lemma per handler), so a settled panel stays true until the
  next. `LeftRightReachAll`: Left and Right lead from each control of a page to
  the one before and the one after, so that a set of controls they do not lead
  out of is all of them (`Walks`, `WalkReaches`).
- *Link.* Four invariants over disjoint variables (radio, session, lane,
  bounds). The lane's says that memory and player agree unless overtaken, which
  is what `SelectToggles` needs. The session's strengthens `SubscribedIsHeard` by
  the moment in between: a subscribed session's socket is established, unless a
  call that has learned otherwise is still under way, or one has returned
  without telling the session (`SocketIsSubscribed`). So a call that finds a
  socket to connect under a session that believes itself subscribed does so only
  after such a return.
- *Wire.* What recursive functions compute is shown by induction on a number,
  with a set of numbers in the place of a predicate (`Induction`, from `Least`).
  First the operators. What the device wrote, reading undoes: a text is a row of
  pieces, each of which `Leading` takes as one symbol (`UndoneIs`), in all four
  styles. What it wrote has its quotes marked: over a quoted text the reader is
  in quotes from the first to the last, and the parser finds the same last one
  (`Scans`, `Sound`, `QuotedIs`); so the values and variables of a line are the
  ones written (`ValuesAre`, `VariablesAre`), and a line parses back to its
  message, or to nothing when it has a text too many (`ParsesBack`). Then the
  behaviours. `InStep` is about a moment between two messages; `StepInv` adds
  what holds within one: the reader stands at some symbol of the message said
  last, with the marks of that place (`Following`), or at its end (`AtRest`),
  and before it everything said since the last silence has been understood.
  `HeardIsSaid` needs a third state, `Astray`, for a reader that has lost the
  beginning of a line: what it has collected begins with a symbol that is no kind
  (`Torn`) or is blanks only, and then no kind comes any more before the line
  ends; what is torn stays torn, a whole message behind it included, and
  `TakeLine` cannot understand it. `AskedIsMeant` is `ValuesAre` for the line
  of `FormatAction` (`AskedReads`).

Only model-checked: every liveness property (fairness and `ENABLED` are out of
the prover's reach), `HeardDropsAreMended` of `Link` among them; and
`DrawnExactly` of `Drawing`. That is not true of every stroke one could draw,
only of the shapes the widgets draw at their sizes and sweeps; these are fixed,
so that the run has them all.

## 6. Disagreements with what the repository says

Each is the counterexample of a run:

- `MCFirmwareSlots`. `artwork_pool.rs` 79-83 says the slot about to be written is
  in no live view. Slots are taken before the load is tried, and the app keeps
  its cover when a load fails or brings the cover it has: two of those, and the
  third load writes the slot on display. `WritesUnseen` is what does hold.
- `MCWireGap`. `lpec.rs` 796-797 says a time-out between lines means "the buffer
  is drained". `read_lpec_line` collects a line in a buffer of its own and
  returns at a time-out; what it had read of the line is lost, and its rest is
  taken for a line. The host's event time-out is 5 ms (`host_tcp.rs` 22-33).
  `InStep` is what does hold: after a silence everything is understood until a
  line is cut again.

Observations met while modelling that are not runs of their own; the passing
properties state their hypotheses accordingly.

Skips and the session:

- `hifi.rs` 434-435 says of a skip whose command fails "the prediction's own
  expiry walks it back" (`playlist.rs` 38-39 calls it "a blip"). The expiry is
  looked at only when an `Id` line comes (`playlist.rs` 263), and a device that
  has not moved sends none: the wrong track stays, words and picture.
  `LpecSession::reset` (`lpec.rs` 641) clears `subscribed` only, and nothing calls
  `forget_prediction`, whose doc (`playlist.rs` 273-274) is about just that. Hence
  `skipsFail` in `Orderly` and in `CoverFlow`'s `Followable`; `ScreenFollows` is
  what holds then.
- An answer to `ReadList` that comes after its wait stays on the connection and
  is filed under the next id asked (`lpec.rs` 731); hence the hypothesis of
  `CacheIsTrue` and `HeldGuessIsWhole`.
- A skip whose `Id` event is read before its prediction is taken is predicted
  from the place it went to, one track too far (`lpec.rs` 669); hence `prompt` in
  `Followable`, of `SkipSession` and of `CoverFlow`.
- The session cannot know more of the queue than it holds. A skip from the last
  of `MAX_QUEUE_TRACKS` ids is guessed as if the queue ended or began again
  there; a skip off the end of a queue that does not repeat clears the words,
  and a device that does not move has nothing to announce that would bring them
  back. Somebody else who moves the device while a guess is held is passed over
  with the device's own announcements (`playlist.rs` 254-267), and the track
  shown stays wrong until the next `Id`. Hence the rest of `Followable`.
- A skip that cannot be predicted clears the words (`hifi.rs` 162), and if the
  command fails there is nothing for the device to announce.
- `status` passes over an error of the transport in its poll if it has something
  to show, and resets nothing (`lpec.rs` 325-328); the stream is kept, and the
  next poll meets its end and resets both.
- The command lane chooses between play and pause by its own memory
  (`lpec.rs` 858). After somebody else has paused or played, the first press asks
  for what is already so; hence `overtaken` in `SelectToggles`.

Screen and covers:

- Each report arms a stale cover's deadline anew, identical ones included
  (`screens/hifi.rs` 720-724): reports closer together than the grace keep the
  cover for good.
- `load_pending_artwork` notes a uri as loaded before the screen has judged it
  (`hifi.rs` 288). Skip on and back while it loads: the screen refuses it, and
  back on that track it is not loaded again.
- A second pin tapped while the first one starts notes the first pin's title as
  what it replaced (`screens/hifi.rs` 919), so a report of the old track shows it
  again; `PinStandsIn` is about the first pin.
- A report of the third second, within the tolerance of a restarted position,
  lets the second press of Left restart again (`screens/hifi.rs` 668). The end of
  the track sets the playback to stopped while a press towards playing is held
  (651).
- `pins_fetched` is set before the fetch, so a failed one is not repeated
  (`hifi.rs` 276).

Drawing:

- A frame that fails is not tried again until something else asks for one; hence
  `Settled` in `PanelIsTrue`.
- A new cover under a paused track's badge is drawn over the badge, and the
  readout is not always the top layer while it is up (`screens/hifi.rs`
  1397-1440); `CoverIsWhole` is about the picture when both are gone.
- A press of the pad that moves no ring counts as an interaction and asks for no
  frame, so the stopwatch's count of them may be one behind (`SteadyPart`).
- The soft edges of a level bar's fill are blended against the track's colour
  where the fill ends (`screens/hifi.rs` 1805-1845).

Connection:

- `copy_xml_text` undoes entities and backslashes twice for every value
  (`lpec.rs` 2465-2470), while `linn-lpec`'s own `push_xml_unescaped` does so
  once. A value written once therefore loses what a second reading undoes: an
  ampersand before the letters of an entity, a backslash before a quote or at
  the end; hence the last line of `Tellable`.
- A text that holds the beginning of a line, cut right before it, would be taken
  for a message of its own; hence `NoLineWithin`.
- A drop of the station is heard only while `wifi_reconnect_task` listens, and a
  join that fails is not tried again until the next drop (`main.rs` 487-490);
  hence `unheard` in `HeardDropsAreMended`.
- The design note says "Reconnect behavior handles closed connections"
  (`docs/lpec subscriptions.md` 33). On the firmware a call that fails resets
  session and socket; a call that learns of the end and returns without an error
  does not. There are four: a poll that stops at its line budget (`lpec.rs` 774)
  or at a timeout in the moment the end arrives, a command whose answer came with
  the end (`lpec.rs` 981), the titles of the pins, whose errors are passed over
  (`lpec.rs` 1332-1334, `main.rs` 767-768), and a cover's download on the other
  socket. `ensure_lpec_socket` (`net.rs` 207) then opens a new connection under a
  session that believes it is subscribed; it polls and hears nothing, and a
  silent connection fails no poll. `Returns` is all four, `overheard` notes that
  it happened, and `SubscribedIsHeard` and `ComesToHear` hold up to then.
- A device that restarts without closing leaves a half-open connection, on which
  only a command finds anything out; hence `silent`.

## 7. Plan

Done, in this order: `Hold`, `Playlist`, `PlaylistMachine`, `SkipSession`,
`HifiStatus`, `HifiDriver`, `HifiScreen`, `HifiScreenMachine`, `CoverFlow`,
`FirmwareFlow`, `Focus`, `Layouts`, `Panel`, `AppShell`, `Raster`, `Drawing`,
`Wire`, `Link`; proofs of the playlist, the session, the screen, the words,
both flows, the app, the link and the wire.

Left, models: the composition of `Link` with `SkipSession` (what a session that
has gone deaf on a replaced socket shows); the decoding of pins and of a track's
metadata, as operators against a reference definition, as `Wire` does for lines;
the level bars' pixels in `Drawing`.

Left, proofs: what section 5 names as only model-checked is out of the prover's
reach or complete in its run; new proofs come with new models.

## 8. Not modelled

- Fonts, the fitting of text to its band, colours, blending into the frame
  buffer, the scaling of covers and the level bars' pixels. A panel of the model
  says what shows, not how it looks.
- Decoding: the XML of pins and tracks, base64, JPEG, HTTP, and the
  configuration file. Pure; a failure to decode is a failed fetch or load in the
  flows.
- The tables of services and their actions in `linn-lpec`: data.
- Sockets, displays, touch controllers, boards, the power key, the window of the
  simulator: hardware and I/O. Of the transports a session sees lines, time-outs
  and ends of file.
- `linn-ci-gateway`: a test tool.
