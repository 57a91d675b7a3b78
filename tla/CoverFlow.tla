------------------------------ MODULE CoverFlow ------------------------------
(***************************************************************************)
(* Words and picture, end to end, in the simulator: the app with the HiFi  *)
(* screen up (apps/sim/src/main.rs), the worker's command thread and       *)
(* background thread (crates/app-runtime/src/hifi.rs) and the channels     *)
(* between the three.  HifiScreen and HifiDriver say what each side does   *)
(* with a message; this module says when messages are made and taken.      *)
(*                                                                         *)
(* The session under the driver (SkipSession) is reduced to the place it   *)
(* believes the device is at, whether that is a guess, and the status it   *)
(* would report.  It learns of the device only from the lines it reads.    *)
(* The device plays a queue of tracks in a ring.                           *)
(***************************************************************************)
EXTENDS HifiDriver, HifiScreen

CONSTANT
  Worlds  \* what the device has and the user may do

Controls == {"Left", "Right", "Select", "Back", "Tile"}

Tracks == [title : Titles, art : Covers, duration : Nat]
Transports == {"Playing", "Paused"}

(* A world is one choice of that, kept throughout a behaviour: the device's *)
(* tracks, its pins and the place each starts; the presses the user makes; *)
(* whether a skip is shown before the device can act on it (prompt),       *)
(* whether user and device let everything settle before they do more       *)
(* (patient), whether skips may come to nothing; and bounds.               *)
IsWorld(w) ==
  /\ DOMAIN w = {"queue", "pinList", "pinStarts", "controls", "prompt", "patient",
                 "skipsFail", "presses", "moves", "failures", "time"}
  /\ w.queue \in Seq(Tracks) /\ w.queue # <<>>
  /\ w.pinList \in [Slots -> Option(Pins)]
  /\ w.pinStarts \in [Slots -> DOMAIN w.queue]
  /\ w.controls \subseteq Controls
  /\ {w.prompt, w.patient, w.skipsFail} \subseteq BOOLEAN
  /\ {w.presses, w.moves, w.failures, w.time} \subseteq Nat

ASSUME FlowAssumption == \A w \in Worlds : IsWorld(w)

VARIABLES
  (* the device *)
  at,         \* its place in Queue
  transport,  \* "Playing" or "Paused"
  told,       \* what its subscription announced last, None without one
  wire,       \* lines on their way to the session
  (* the app *)
  screen, now,
  draining,   \* is a tick under way?
  (* the command thread *)
  commands,   \* HifiCommands queued
  sending,    \* the one being sent, None between commands
  (* the background thread *)
  requests,   \* Requests queued
  stage,      \* the step of a tick it is at
  driver,
  position,   \* the place the session believes the device is at, or None
  guessed,    \* is that a guess it defends?
  live,       \* the session's status
  changed,    \* has the poll under way changed it?
  (* to the app *)
  responses,
  (* the environment *)
  world, presses, moves, failures

device == <<at, transport>>
connection == <<told, wire>>
bounds == <<world, presses, moves, failures>>
app == <<screen, now, draining>>
command == <<commands, sending>>
session == <<position, guessed, live, changed>>
vars == <<device, connection, app, command, requests, stage, driver, session,
          responses, bounds>>

Queue == world.queue

Stages == {"idle", "poll", "reading", "load", "pins", "pinArtwork", "prefetch"}

(* What a subscription has announced, and the lines that announce it. *)
Announcements ==
  [id : Option(DOMAIN Queue), track : Option(DOMAIN Queue),
   transport : Option(Transports)]
Lines ==
  [kind : {"Id"}, at : DOMAIN Queue]
    \cup [kind : {"Info"}, track : Option(DOMAIN Queue), transport : Option(Transports)]

NotTold == [id |-> None, track |-> None, transport |-> None]

NoStatus ==
  [title |-> NoTitle, art |-> NoUri, playback |-> "Unknown", elapsed |-> 0,
   duration |-> 0, volume |-> 0]

Init ==
  /\ world \in Worlds
  /\ at \in DOMAIN Queue /\ transport = "Playing"
  /\ told = None /\ wire = <<>>
  /\ screen = NewScreen(0) /\ now = 0 /\ draining = FALSE
  /\ commands = <<>> /\ sending = None
  /\ requests = <<[kind |-> "SyncScreen"]>>
  /\ stage = "idle" /\ driver = NewDriver
  /\ position = None /\ guessed = FALSE /\ live = NoStatus /\ changed = FALSE
  /\ responses = <<>>
  /\ presses = 0 /\ moves = 0 /\ failures = 0

(* Places before and after one, round the ends. *)
Place(i, forward) ==
  IF forward THEN (i % Len(Queue)) + 1
  ELSE IF i = 1 THEN Len(Queue) ELSE i - 1

Waits(kind) == \E i \in DOMAIN requests : requests[i].kind = kind

(* Has the device said everything of itself? *)
Announced == told = [id |-> at, track |-> at, transport |-> transport]

(* No command is under way, and everything has been said and read. *)
NoCommand == commands = <<>> /\ sending = None /\ ~Waits("TrackChanged")
Quiet == NoCommand /\ Announced /\ wire = <<>>
-----------------------------------------------------------------------------
(* The app.                                                                *)

(* App::update for an event from the runtime. *)
Applied(s, event, time) ==
  CASE event.kind = "Status"     -> ApplyStatus(s, event.status, time)
    [] event.kind = "Artwork"    -> ApplyArtwork(s, event.uri)
    [] event.kind = "Pins"       -> ApplyPins(s, event.pins)
    [] event.kind = "PinArtwork" -> ApplyPinArtwork(s, event.slot, event.uri)

(* drain_runtime_worker: one event after the other, until none is there.   *)
Drain ==
  /\ stage = "idle" /\ ~Waits("Tick")
  /\ responses # <<>>
  /\ screen' = Applied(screen, Head(responses), now)
  /\ responses' = Tail(responses)
  /\ draining' = TRUE
  /\ UNCHANGED <<device, connection, now, command, requests, stage, driver, session,
                 bounds>>

(* Then the app's own tick, and a Tick for the worker, which is assumed to *)
(* keep up with them.                                                      *)
AppTick(passed) ==
  /\ stage = "idle" /\ ~Waits("Tick")
  /\ responses = <<>>
  /\ now' = now + passed /\ now' <= world.time
  /\ screen' = OnTick(screen, now')
  /\ requests' = Append(requests, [kind |-> "Tick"])
  /\ draining' = FALSE
  /\ UNCHANGED <<device, connection, command, stage, driver, session, responses,
                 bounds>>

(* A press, and the command it makes of it.  The user rests early enough   *)
(* for what a press defends to lapse within the clock.                     *)
Press(control, effect, cmds) ==
  /\ control \in world.controls
  /\ ~draining
  /\ presses < world.presses /\ now + OptimisticTtl <= world.time
  /\ world.patient => Quiet
  /\ presses' = presses + 1
  /\ screen' = effect
  /\ commands' = commands \o cmds
  /\ UNCHANGED <<device, connection, now, draining, sending, requests, stage, driver,
                 session, responses, world, moves, failures>>

Playing == screen.page = "NowPlaying"

PressLeft ==
  /\ Playing
  /\ Press("Left", PreviousOrRestart(screen, now),
           <<[kind |-> IF Restarts(screen) THEN "Restart" ELSE "Previous"]>>)

PressRight ==
  Playing /\ Press("Right", NextTrack(screen, now), <<[kind |-> "Next"]>>)

PressSelect ==
  Playing /\ Press("Select", TogglePlayback(screen, now), <<[kind |-> "Toggle"]>>)

PressBack == Press("Back", TurnPage(screen), <<>>)

TapTile(slot) ==
  /\ ~Playing
  /\ screen.pins[slot] # None
  /\ Press("Tile", InvokePin(screen, slot, now),
           <<[kind |-> "Pin", slot |-> slot]>>)
-----------------------------------------------------------------------------
(* The device, and the command thread.                                     *)

DeviceMoves ==
  /\ moves < world.moves
  /\ moves' = moves + 1
  /\ world.patient => Announced /\ commands = <<>> /\ sending = None
  /\ at' \in DOMAIN Queue \ {at}
  /\ UNCHANGED <<transport, connection, app, command, requests, stage, driver,
                 session, responses, world, presses, failures>>

(* The subscriptions announce what has changed since, and everything once: *)
(* Ds/Playlist the place, Ds/Info the track and the transport state.       *)
AnnounceId ==
  /\ told # None /\ told.id # at
  /\ told' = [told EXCEPT !.id = at]
  /\ wire' = Append(wire, [kind |-> "Id", at |-> at])
  /\ UNCHANGED <<device, app, command, requests, stage, driver, session, responses,
                 bounds>>

AnnounceInfo ==
  /\ told # None /\ <<told.track, told.transport>> # <<at, transport>>
  /\ told' = [told EXCEPT !.track = at, !.transport = transport]
  /\ wire' = Append(wire,
       [kind |-> "Info",
        track |-> IF told.track = at THEN None ELSE at,
        transport |-> IF told.transport = transport THEN None ELSE transport])
  /\ UNCHANGED <<device, app, command, requests, stage, driver, session, responses,
                 bounds>>

(* run_commands: a skip is announced to the background thread first. *)
TakeCommand ==
  /\ sending = None /\ commands # <<>>
  /\ sending' = Head(commands)
  /\ commands' = Tail(commands)
  /\ requests' = IF Head(commands).kind \in {"Previous", "Next"}
                 THEN Append(requests,
                             [kind |-> "TrackChanged",
                              forward |-> Head(commands).kind = "Next"])
                 ELSE requests
  /\ UNCHANGED <<device, connection, app, stage, driver, session, responses, bounds>>

(* The device takes it. *)
CommandDone ==
  /\ sending # None
  /\ world.prompt => ~Waits("TrackChanged")
  /\ at' = CASE sending.kind = "Next"     -> Place(at, TRUE)
              [] sending.kind = "Previous" -> Place(at, FALSE)
              [] sending.kind = "Pin"      -> world.pinStarts[sending.slot]
              [] OTHER                     -> at
  /\ transport' = CASE sending.kind = "Pin" -> "Playing"
                     [] sending.kind = "Toggle" /\ CanPause(transport) -> "Paused"
                     [] sending.kind = "Toggle" /\ ~CanPause(transport) -> "Playing"
                     [] OTHER -> transport
  /\ sending' = None
  /\ requests' = Append(requests, [kind |-> "RequestStatusPoll"])
  /\ UNCHANGED <<connection, app, commands, stage, driver, session, responses,
                 bounds>>

CommandFails ==
  /\ sending # None
  /\ sending.kind \in {"Previous", "Next"} => world.skipsFail
  /\ failures < world.failures
  /\ failures' = failures + 1
  /\ sending' = None
  /\ UNCHANGED <<device, connection, app, commands, requests, stage, driver, session,
                 responses, world, presses, moves>>
-----------------------------------------------------------------------------
(* The background thread: run_background.                                  *)

Take(kind) ==
  /\ stage = "idle"
  /\ requests # <<>> /\ Head(requests).kind = kind
  /\ requests' = Tail(requests)
  /\ UNCHANGED <<device, connection, app, command, bounds>>

TakeSyncScreen ==
  /\ Take("SyncScreen")
  /\ driver' = SetActive(driver, TRUE)
  /\ UNCHANGED <<stage, session, responses>>

TakeRequestStatusPoll ==
  /\ Take("RequestStatusPoll")
  /\ driver' = RequestStatusPoll(driver)
  /\ UNCHANGED <<stage, session, responses>>

(* The session's status, with the words of another track. *)
Showing(i) ==
  [live EXCEPT !.title = Queue[i].title, !.art = Queue[i].art,
               !.elapsed = 0, !.duration = Queue[i].duration]

(* A skip whose goal the session knows is shown at once.  It goes from the *)
(* place the session believes the device is at.                            *)
TakePredictedSkip ==
  /\ Take("TrackChanged")
  /\ position # None
  /\ position' = Place(position, Head(requests).forward)
  /\ guessed' = TRUE
  /\ live' = Showing(position')
  /\ driver' = MarkTrackChanged(driver, live')
  /\ responses' = responses \o TrackChangeEvents(driver, live')
  /\ UNCHANGED <<stage, changed>>

(* One that cannot be predicted clears the session's track. *)
TakeUnpredictedSkip ==
  /\ Take("TrackChanged")
  /\ driver' = MarkTrackChanged(driver, None)
  /\ live' = [live EXCEPT !.title = NoTitle, !.art = NoUri,
                          !.elapsed = 0, !.duration = 0]
  /\ UNCHANGED <<stage, position, guessed, changed, responses>>

TakeTick ==
  /\ Take("Tick")
  /\ stage' = "poll"
  /\ UNCHANGED <<driver, session, responses>>

(* One step of a tick. *)
Does(from, to) ==
  /\ stage = from /\ stage' = to
  /\ UNCHANGED <<device, app, command, requests, world, presses, moves>>

(* The interval has not passed and nobody asked.                           *)
SkipPoll ==
  /\ Does("poll", "load")
  /\ ~(driver.active /\ driver.pollRequested)
  /\ UNCHANGED <<connection, driver, session, responses, failures>>

(* status, poll: ensure_subscribed, then the lines that have arrived. *)
BeginPoll ==
  /\ Does("poll", "reading")
  /\ driver.active
  /\ told' = IF told = None THEN NotTold ELSE told
  /\ UNCHANGED <<wire, driver, session, responses, failures>>

(* Another place than the one guessed is passed over, unless the guess's    *)
(* time is up; the place guessed ends the guess.                           *)
ReadId(line) ==
  /\ line.kind = "Id"
  /\ \/ guessed /\ line.at # position /\ UNCHANGED <<position, guessed>>
     \/ position' = line.at /\ guessed' = FALSE
  /\ UNCHANGED live

(* What is said of the track is passed over while a guess is held. *)
ReadInfo(line) ==
  /\ line.kind = "Info"
  /\ LET shown == IF line.track = None \/ guessed THEN live ELSE Showing(line.track)
     IN  live' = IF line.transport = None THEN shown
                 ELSE [shown EXCEPT !.playback = line.transport]
  /\ UNCHANGED <<position, guessed>>

ReadLine ==
  /\ Does("reading", "reading")
  /\ wire # <<>>
  /\ ReadId(Head(wire)) \/ ReadInfo(Head(wire))
  /\ wire' = Tail(wire)
  /\ changed' = (changed \/ <<position, live>>' # <<position, live>>)
  /\ UNCHANGED <<told, driver, responses, failures>>

\* Mutated: the session answers only with what is new.
PollEndsWithNews ==
  /\ Does("reading", "load")
  /\ changed' = FALSE
  /\ IF changed
     THEN /\ driver' = RefreshStatus(driver, live)
          /\ responses' = Append(responses, StatusEvent(live))
     ELSE /\ driver' = PollBrought(driver, "Nothing")
          /\ UNCHANGED responses
  /\ UNCHANGED <<connection, position, guessed, live, failures>>

(* A read times out, or the poll's lines are used up.  The session answers *)
(* with the status it has, if lines have changed it or there is something  *)
(* in it to show.                                                          *)
PollEnds ==
  /\ Does("reading", "load")
  /\ changed' = FALSE
  /\ IF changed \/ HasLiveContent(live)
     THEN /\ driver' = RefreshStatus(driver, live)
          /\ responses' = Append(responses, StatusEvent(live))
     ELSE /\ driver' = PollBrought(driver, "Nothing")
          /\ UNCHANGED responses
  /\ UNCHANGED <<connection, position, guessed, live, failures>>

(* It cannot connect. *)
PollConnectFails ==
  /\ Does("poll", "load")
  /\ driver.active
  /\ failures < world.failures /\ failures' = failures + 1
  /\ driver' = PollBrought(driver, "Error")
  /\ UNCHANGED <<connection, session, responses>>

\* Mutated: the lines are lost, and the session goes on as if subscribed.
PollFailsKeeping ==
  /\ Does("reading", "load")
  /\ failures < world.failures /\ failures' = failures + 1
  /\ wire' = <<>> /\ changed' = FALSE
  /\ driver' = PollBrought(driver, "Error")
  /\ UNCHANGED <<told, position, guessed, live, responses>>

(* The connection has ended: the lines on it are lost, and the session      *)
(* subscribes anew with the next poll; what it believes it keeps. *)
PollFails ==
  /\ Does("reading", "load")
  /\ failures < world.failures /\ failures' = failures + 1
  /\ told' = None /\ wire' = <<>> /\ changed' = FALSE
  /\ driver' = PollBrought(driver, "Error")
  /\ UNCHANGED <<position, guessed, live, responses>>

(* A cover comes, or it does not. *)
MayLoad(Loaded, Failed) ==
  \/ Loaded /\ UNCHANGED failures
  \/ failures < world.failures /\ failures' = failures + 1 /\ Failed

LoadPendingArtwork ==
  /\ Does("load", "pins")
  /\ IF ~driver.active \/ driver.pendingArt = NoUri
     THEN UNCHANGED <<driver, responses, failures>>
     ELSE /\ driver' = LoadPending(driver)
          /\ MayLoad(responses' = Append(responses, ArtworkEvent(driver.pendingArt)),
                     UNCHANGED responses)
  /\ UNCHANGED <<connection, session>>

FetchPinsIfNeeded ==
  /\ Does("pins", "pinArtwork")
  /\ IF ~driver.active \/ driver.pinsFetched
     THEN UNCHANGED <<driver, responses, failures>>
     ELSE MayLoad(/\ driver' = FetchedPins(driver, world.pinList)
                  /\ responses' = Append(responses, PinsEvent(world.pinList)),
                  driver' = TriedPins(driver) /\ UNCHANGED responses)
  /\ UNCHANGED <<connection, session>>

FetchPinArtwork ==
  /\ Does("pinArtwork", "prefetch")
  /\ \/ /\ driver.active
        /\ \E slot \in Slots :
             /\ NextPinCover(driver, slot)
             /\ driver' = TriedPinCover(driver, slot)
             /\ MayLoad(responses' = Append(responses,
                          PinArtworkEvent(slot, driver.pins[slot].art)),
                        UNCHANGED responses)
     \/ /\ driver.active => \A slot \in Slots : ~PinCoverDue(driver, slot)
        /\ UNCHANGED <<driver, responses, failures>>
  /\ UNCHANGED <<connection, session>>

(* The next track's cover, if the session has its metadata.                *)
PrefetchNext ==
  /\ Does("prefetch", "idle")
  /\ position # None
  /\ LET uri == Queue[Place(position, TRUE)].art
     IN  /\ uri # NoUri /\ PrefetchDue(driver, uri)
         /\ MayLoad(driver' = PrefetchNextArtwork(driver, uri, uri),
                    driver' = PrefetchNextArtwork(driver, uri, None))
  /\ UNCHANGED <<connection, session, responses>>

PrefetchNothing ==
  /\ Does("prefetch", "idle")
  /\ UNCHANGED <<connection, driver, session, responses, failures>>
-----------------------------------------------------------------------------
User ==
  \/ PressLeft \/ PressRight \/ PressSelect \/ PressBack
  \/ \E slot \in Slots : TapTile(slot)

CommandThread == TakeCommand \/ CommandDone \/ CommandFails

Background ==
  \/ TakeSyncScreen \/ TakeRequestStatusPoll
  \/ TakePredictedSkip \/ TakeUnpredictedSkip \/ TakeTick
  \/ SkipPoll \/ BeginPoll \/ ReadLine \/ PollEnds \/ PollConnectFails \/ PollFails
  \/ LoadPendingArtwork \/ FetchPinsIfNeeded \/ FetchPinArtwork
  \/ PrefetchNext \/ PrefetchNothing

Device == DeviceMoves \/ AnnounceId \/ AnnounceInfo

Next ==
  \/ Drain \/ (\E passed \in {0, 1} : AppTick(passed)) \/ User
  \/ Device \/ CommandThread \/ Background

(* The loops run; the device announces; a poll comes due now and then, and *)
(* now and then reads what has arrived; time passes.                       *)
Fairness ==
  /\ WF_vars(Drain) /\ WF_vars(AppTick(0)) /\ SF_vars(AppTick(1))
  /\ WF_vars(TakeCommand) /\ WF_vars(CommandDone)
  /\ WF_vars(AnnounceId) /\ WF_vars(AnnounceInfo)
  /\ WF_vars(Background)
  /\ SF_vars(BeginPoll) /\ SF_vars(ReadLine)

Spec == Init /\ [][Next]_vars /\ Fairness
-----------------------------------------------------------------------------

(* The shape of the state; and a decoded cover is that of the uri it was   *)
(* prefetched for (prefetch_next_artwork, mark_track_changed), which is    *)
(* what lets it be handed out with the words of a skip.                    *)
TypeOK ==
  /\ driver.prefetched \in {None, driver.prefetchedArt}
  /\ at \in DOMAIN Queue /\ transport \in Transports
  /\ told \in Option(Announcements) /\ wire \in Seq(Lines)
  /\ screen \in ScreenStates /\ now \in 0..world.time /\ draining \in BOOLEAN
  /\ stage \in Stages /\ driver \in Drivers
  /\ position \in Option(DOMAIN Queue) /\ (guessed => position # None)
  /\ live \in Statuses /\ {guessed, changed} \subseteq BOOLEAN
  /\ {presses, moves, failures} \subseteq Nat

(* Whatever the user, the device and the network do, skips that fail and   *)
(* guesses that come late among it, the screen comes to say what the       *)
(* session says: no pin standing in, no press or old report held against   *)
(* it stays, because a poll reports the status also when nothing in it is  *)
(* new (status, live_status, ApplyStatus).  Whether the session is right   *)
(* is the next property's question.                                        *)
ScreenFollows == <>[](live.title # NoTitle => screen.status.title = live.title)

(* Commands the session can follow: shown before the device acts on them,   *)
(* one at a time, and skips succeed, to another track.  Without that a     *)
(* guess or a cleared track may stay until the device moves again: nothing *)
(* but a line of the device ends either.                                   *)
Followable ==
  world.prompt /\ world.patient /\ ~world.skipsFail /\ Len(Queue) > 1

(* Then, skips predicted and not, pins, pauses, lost lines and lost         *)
(* commands other than skips in any order, once the world rests the words  *)
(* on screen are those of the device's track: the app, the worker and the  *)
(* session, which each hold some back for a while, let go of them.         *)
WordsCome == <>[](Followable => screen.status.title = Queue[at].title)

(* And the picture is that of the device's track, after a predicted skip,   *)
(* with a prefetched cover or without, or an unpredicted one, and a track  *)
(* that ends by itself before or after it (the driver remembers what it    *)
(* loaded, the screen refuses what is not its own).  Of one skip, if        *)
(* nothing is lost: the cover of a skip that is taken back while it loads  *)
(* is refused, remembered as loaded and not loaded again.                  *)
PictureComes ==
  <>[](Followable /\ world.presses <= 1 /\ world.failures = 0 =>
         screen.artwork = Queue[at].art)
=============================================================================
