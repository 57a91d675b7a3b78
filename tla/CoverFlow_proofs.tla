-------------------------- MODULE CoverFlow_proofs --------------------------
(***************************************************************************)
(* For every world, queue of tracks and order in which the app and the     *)
(* worker's threads take turns, the simulator's flow keeps its shape: the  *)
(* screen stays sound, a decoded cover is that of the uri it was           *)
(* prefetched for, and the threads send each other only what they can      *)
(* take.                                                                   *)
(***************************************************************************)
EXTENDS CoverFlow, Methods_proofs, SequenceTheorems

(* What is sent between the threads. *)
Messages ==
  [kind : {"Status"}, status : Statuses]
    \cup [kind : {"Artwork"}, uri : Uris]
    \cup [kind : {"Pins"}, pins : [Slots -> Option(Pins)]]
    \cup [kind : {"PinArtwork"}, slot : Slots, uri : Uris]
Commands ==
  [kind : {"Restart", "Previous", "Next", "Toggle"}] \cup [kind : {"Pin"}, slot : Slots]
Requests ==
  [kind : {"SyncScreen", "Tick", "RequestStatusPoll"}]
    \cup [kind : {"TrackChanged"}, forward : BOOLEAN]

(* The driver decodes no cover but the one it notes. *)
DriverOK(d) == d \in Drivers /\ d.prefetched \in {None, d.prefetchedArt}

Passed ==
  /\ responses \in Seq(Messages) /\ requests \in Seq(Requests)
  /\ commands \in Seq(Commands) /\ (sending # None => sending \in Commands)

(* What the session believes, and what is on its way to it. *)
SessionOK ==
  /\ position \in Option(DOMAIN Queue) /\ (guessed => position # None)
  /\ live \in Statuses /\ guessed \in BOOLEAN /\ changed \in BOOLEAN
ConnectionOK == told \in Option(Announcements) /\ wire \in Seq(Lines)

IInv ==
  /\ world \in Worlds /\ at \in DOMAIN Queue /\ transport \in Transports
  /\ ConnectionOK /\ SessionOK
  /\ Sound(screen, now) /\ now \in 0..world.time /\ draining \in BOOLEAN
  /\ stage \in Stages /\ DriverOK(driver) /\ Passed
  /\ {presses, moves, failures} \subseteq Nat
-----------------------------------------------------------------------------
(* The world.                                                              *)

LEMMA WorldType ==
  ASSUME world \in Worlds
  PROVE  /\ Queue \in Seq(Tracks) /\ Len(Queue) \in Nat \ {0}
         /\ DOMAIN Queue = 1..Len(Queue)
         /\ \A i \in DOMAIN Queue : Queue[i] \in Tracks
         /\ world.pinList \in [Slots -> Option(Pins)]
         /\ world.pinStarts \in [Slots -> DOMAIN Queue]
         /\ world.time \in Nat
<1>1. IsWorld(world)
  BY FlowAssumption
<1>2. /\ Queue \in Seq(Tracks) /\ Queue # <<>>
      /\ world.pinList \in [Slots -> Option(Pins)]
      /\ world.pinStarts \in [Slots -> DOMAIN Queue]
      /\ world.time \in Nat
  BY <1>1 DEF IsWorld, Queue
<1> DEFINE q == Queue
<1> HIDE DEF q
<1>3. q \in Seq(Tracks) /\ q # <<>>
  BY <1>2 DEF q
<1>4. /\ Len(q) \in Nat \ {0} /\ DOMAIN q = 1..Len(q)
      /\ \A i \in DOMAIN q : q[i] \in Tracks
  BY <1>3, LenProperties, ElementOfSeq, EmptySeq
<1> QED
  BY <1>2, <1>4 DEF q

LEMMA PlaceType ==
  ASSUME world \in Worlds, NEW i \in DOMAIN Queue, NEW forward
  PROVE  Place(i, forward) \in DOMAIN Queue
<1> DEFINE n == Len(Queue)
<1>1. n \in Nat \ {0} /\ DOMAIN Queue = 1..n
  BY WorldType
<1>2. Place(i, forward) = IF forward THEN (i % n) + 1 ELSE IF i = 1 THEN n ELSE i - 1
  BY DEF Place
<1> HIDE DEF n
<1>3. i \in 1..n
  BY <1>1
<1>4. (i % n) \in 0..(n - 1)
  BY <1>1, <1>3
<1> QED
  BY <1>1, <1>2, <1>3, <1>4

LEMMA PlacesAreNotNone ==
  ASSUME world \in Worlds PROVE \A i \in DOMAIN Queue : i # None
BY WorldType, ScreenAssumption

(* The words of a track of the queue are a status. *)
LEMMA ShowingType ==
  ASSUME world \in Worlds, live \in Statuses, NEW i \in DOMAIN Queue
  PROVE  Showing(i) \in Statuses
<1>1. Queue[i] \in Tracks
  BY WorldType
<1> QED
  BY <1>1 DEF Showing, Tracks, Statuses, Covers
-----------------------------------------------------------------------------
(* What is sent.                                                           *)

LEMMA MessageTypes ==
  /\ \A status \in Statuses : StatusEvent(status) \in Messages
  /\ \A uri \in Uris : ArtworkEvent(uri) \in Messages
  /\ \A pins \in [Slots -> Option(Pins)] : PinsEvent(pins) \in Messages
  /\ \A slot \in Slots, uri \in Uris : PinArtworkEvent(slot, uri) \in Messages
BY DEF Messages, StatusEvent, ArtworkEvent, PinsEvent, PinArtworkEvent

LEMMA AppendTypes ==
  ASSUME NEW S, NEW s \in Seq(S)
  PROVE  /\ \A e \in S : Append(s, e) \in Seq(S) /\ s \o <<e>> \in Seq(S)
         /\ \A e \in S, f \in S : s \o <<e, f>> \in Seq(S)
         /\ s \o <<>> \in Seq(S)
         /\ s # <<>> => Head(s) \in S /\ Tail(s) \in Seq(S)
<1>1. \A e \in S, f \in S : <<e>> \in Seq(S) /\ <<e, f>> \in Seq(S)
  OBVIOUS
<1>2. <<>> \in Seq(S)
  OBVIOUS
<1> QED
  BY <1>1, <1>2, AppendProperties, ConcatProperties, HeadTailProperties

(* What the driver's steps keep. *)
LEMMA DriverStays ==
  ASSUME NEW d, DriverOK(d)
  PROVE  /\ DriverOK(SetActive(d, TRUE))
         /\ DriverOK(RequestStatusPoll(d))
         /\ \A status \in Statuses : DriverOK(RefreshStatus(d, status))
         /\ \A nothing \in {"Nothing", "Error"} : DriverOK(PollBrought(d, nothing))
         /\ DriverOK(LoadPending(d)) /\ DriverOK(TriedPins(d))
         /\ \A pins \in [Slots -> Option(Pins)] : DriverOK(FetchedPins(d, pins))
<1>0. d \in Drivers /\ d.prefetched \in {None, d.prefetchedArt}
  BY DEF DriverOK
<1>1. DriverOK(SetActive(d, TRUE))
  BY <1>0 DEF SetActive, Drivers, DriverOK
<1>2. DriverOK(RequestStatusPoll(d))
  BY <1>0 DEF RequestStatusPoll, Drivers, DriverOK
<1>3. ASSUME NEW status \in Statuses PROVE DriverOK(RefreshStatus(d, status))
  <2> DEFINE pending == IF status.art = NoUri THEN NoUri
                        ELSE IF status.playback = "Playing" /\ status.art # d.lastArt
                        THEN status.art ELSE d.pendingArt
             last == IF status.art = NoUri THEN NoUri ELSE d.lastArt
             again == status.playback \in {"Unknown", "Buffering"}
  <2>1. status.art \in Covers /\ d.pendingArt \in Covers /\ d.lastArt \in Covers /\ NoUri \in Covers
    BY <1>0 DEF Statuses, Drivers, Covers
  <2>2. pending \in Covers /\ last \in Covers /\ again \in BOOLEAN
    BY <2>1
  <2>3. RefreshStatus(d, status) =
          [d EXCEPT !.pendingArt = pending, !.lastArt = last, !.pollRequested = again]
    BY DEF RefreshStatus
  <2> HIDE DEF pending, last, again
  <2> QED
    BY <1>0, <2>2, <2>3 DEF Drivers, DriverOK
<1>4. ASSUME NEW nothing \in {"Nothing", "Error"} PROVE DriverOK(PollBrought(d, nothing))
  <2> DEFINE again == nothing = "Error"
  <2>1. again \in BOOLEAN
    OBVIOUS
  <2>2. PollBrought(d, nothing) = [d EXCEPT !.pollRequested = again]
    BY DEF PollBrought
  <2> HIDE DEF again
  <2> QED
    BY <1>0, <2>1, <2>2 DEF Drivers, DriverOK
<1>5. DriverOK(LoadPending(d))
  BY <1>0 DEF LoadPending, Drivers, Covers, DriverOK
<1>6. DriverOK(TriedPins(d))
  BY <1>0 DEF TriedPins, Drivers, DriverOK
<1>7. ASSUME NEW pins \in [Slots -> Option(Pins)] PROVE DriverOK(FetchedPins(d, pins))
  <2> DEFINE r == TriedPins(d)
  <2>1. r \in Drivers /\ r.prefetched \in {None, r.prefetchedArt}
    BY <1>6 DEF DriverOK
  <2>2. FetchedPins(d, pins) = [r EXCEPT !.pins = pins]
    BY DEF FetchedPins
  <2> HIDE DEF r
  <2> QED
    BY <2>1, <2>2 DEF Drivers, DriverOK
<1> QED
  BY <1>1, <1>2, <1>3, <1>4, <1>5, <1>6, <1>7

(* A skip that is shown: a decoded cover is handed out and kept no longer. *)
LEMMA MarkTrackChangedStays ==
  ASSUME NEW d, DriverOK(d), NEW predicted, predicted # None => predicted \in Statuses
  PROVE  /\ DriverOK(MarkTrackChanged(d, predicted))
         /\ \A s \in Seq(Messages) :
              s \o TrackChangeEvents(d, predicted) \in Seq(Messages)
<1> DEFINE asked == RequestStatusPoll(d)
<1>1. asked \in Drivers /\ asked.prefetched \in {None, asked.prefetchedArt}
  BY DriverStays DEF DriverOK
<1>2. predicted # None => predicted.art \in Covers
  BY DEF Statuses, Covers
<1>3. DriverOK(MarkTrackChanged(d, predicted))
  <2> DEFINE handed == [asked EXCEPT !.pendingArt = NoUri, !.lastArt = predicted.art,
                                     !.prefetched = None, !.prefetchedArt = NoUri]
             queued == [asked EXCEPT !.pendingArt = predicted.art]
             forgot == [asked EXCEPT !.lastArt = NoUri, !.pendingArt = NoUri]
  <2>1. MarkTrackChanged(d, predicted) =
          IF predicted = None THEN forgot
          ELSE IF predicted.art \in {NoUri, d.lastArt} THEN asked
          ELSE IF CoverReady(d, predicted) THEN handed ELSE queued
    BY DEF MarkTrackChanged, ForgetCurrentTrackArtwork
  <2> HIDE DEF asked
  <2>2. DriverOK(forgot) /\ DriverOK(asked)
    BY <1>1 DEF DriverOK, Drivers, Covers
  <2>3. predicted # None => DriverOK(handed) /\ DriverOK(queued)
    BY <1>1, <1>2 DEF DriverOK, Drivers, Covers, Option
  <2> HIDE DEF forgot, handed, queued
  <2> QED
    BY <2>1, <2>2, <2>3
<1>4. ASSUME NEW s \in Seq(Messages)
      PROVE  s \o TrackChangeEvents(d, predicted) \in Seq(Messages)
  <2>0. CASE predicted = None
    <3>1. TrackChangeEvents(d, predicted) = <<>>
      BY <2>0 DEF TrackChangeEvents
    <3> QED
      BY <3>1, AppendTypes
  <2>1. predicted # None => StatusEvent(predicted) \in Messages
    BY MessageTypes
  <2>2. CASE predicted # None /\ CoverReady(d, predicted)
    <3>1. predicted.art \in Uris
      BY <1>2, <2>2 DEF CoverReady, Covers
    <3>2. ArtworkEvent(predicted.art) \in Messages
      BY <3>1, MessageTypes
    <3>3. TrackChangeEvents(d, predicted) = <<StatusEvent(predicted), ArtworkEvent(predicted.art)>>
      BY <2>2 DEF TrackChangeEvents
    <3> QED
      BY <2>1, <2>2, <3>2, <3>3, AppendTypes
  <2>3. CASE predicted # None /\ ~CoverReady(d, predicted)
    <3>1. TrackChangeEvents(d, predicted) = <<StatusEvent(predicted)>>
      BY <2>3 DEF TrackChangeEvents
    <3> QED
      BY <2>1, <2>3, <3>1, AppendTypes
  <2> QED
    BY <2>0, <2>2, <2>3
<1> QED
  BY <1>3, <1>4
-----------------------------------------------------------------------------
(* The app.                                                                *)

LEMMA AppliedSound ==
  ASSUME NEW t \in Nat, NEW s, Sound(s, t), NEW event \in Messages
  PROVE  Sound(Applied(s, event, t), t)
<1>1. CASE event.kind = "Status"
  <2>1. event.status \in Statuses /\ Applied(s, event, t) = ApplyStatus(s, event.status, t)
    BY <1>1 DEF Messages, Applied
  <2> QED
    BY <2>1, ApplyStatusProperty
<1>2. CASE event.kind = "Artwork"
  <2>1. event.uri \in Uris /\ Applied(s, event, t) = ApplyArtwork(s, event.uri)
    BY <1>2 DEF Messages, Applied
  <2> QED
    BY <2>1, ApplyArtworkSound
<1>3. CASE event.kind = "Pins"
  <2>1. event.pins \in [Slots -> Option(Pins)] /\ Applied(s, event, t) = ApplyPins(s, event.pins)
    BY <1>3 DEF Messages, Applied
  <2> QED
    BY <2>1, ApplyPinsSound
<1>4. CASE event.kind = "PinArtwork"
  <2>1. /\ event.slot \in Slots /\ event.uri \in Uris
        /\ Applied(s, event, t) = ApplyPinArtwork(s, event.slot, event.uri)
    BY <1>4 DEF Messages, Applied
  <2> QED
    BY <2>1, ApplyPinArtworkSound
<1> QED
  BY <1>1, <1>2, <1>3, <1>4 DEF Messages

LEMMA InitIInv == Init => IInv
<1> SUFFICES ASSUME Init PROVE IInv
  OBVIOUS
<1>1. /\ world \in Worlds /\ at \in DOMAIN Queue /\ transport = "Playing"
      /\ screen = NewScreen(0) /\ now = 0 /\ draining = FALSE
      /\ commands = <<>> /\ sending = None /\ responses = <<>>
      /\ requests = <<[kind |-> "SyncScreen"]>>
      /\ stage = "idle" /\ driver = NewDriver /\ told = None /\ wire = <<>>
      /\ position = None /\ guessed = FALSE /\ live = NoStatus /\ changed = FALSE
      /\ presses = 0 /\ moves = 0 /\ failures = 0
  BY DEF Init
<1>2. Sound(screen, now)
  BY <1>1, NewScreenSound
<1>3. DriverOK(driver)
  BY <1>1 DEF DriverOK, Drivers, NewDriver, Covers, Option, NoPins
<1>4. [kind |-> "SyncScreen"] \in Requests
  BY DEF Requests
<1>5. Passed
  BY <1>1, <1>4 DEF Passed
<1>6. SessionOK /\ ConnectionOK
  <2>1. NoStatus \in Statuses
    BY StatusAssumption DEF NoStatus, Statuses, Playbacks
  <2>2. SessionOK
    BY <1>1, <2>1 DEF SessionOK, Option
  <2>3. wire \in Seq(Lines)
    BY <1>1
  <2>4. ConnectionOK
    BY <1>1, <2>3 DEF ConnectionOK, Option
  <2> QED
    BY <2>2, <2>4
<1>7. world.time \in Nat /\ 0 \in 0..world.time
  BY <1>1, WorldType
<1>8. stage \in Stages /\ transport \in Transports /\ {presses, moves, failures} \subseteq Nat
  BY <1>1 DEF Stages, Transports
<1> QED
  BY <1>1, <1>2, <1>3, <1>5, <1>6, <1>7, <1>8 DEF IInv

LEMMA Facts ==
  ASSUME IInv
  PROVE  /\ now \in Nat /\ now \in 0..world.time /\ world.time \in Nat
         /\ Sound(screen, now) /\ screen \in ScreenStates
         /\ DriverOK(driver) /\ world \in Worlds /\ at \in DOMAIN Queue
         /\ SessionOK /\ ConnectionOK /\ live \in Statuses /\ failures \in Nat
         /\ responses \in Seq(Messages) /\ requests \in Seq(Requests)
         /\ stage \in Stages
BY WorldType DEF IInv, Sound, SessionOK, Passed

LEMMA SessionStays ==
  ASSUME SessionOK, UNCHANGED <<session, world>> PROVE SessionOK'
BY DEF SessionOK, session, Queue

LEMMA ConnectionStays ==
  ASSUME ConnectionOK, UNCHANGED <<connection, world>> PROVE ConnectionOK'
BY DEF ConnectionOK, connection, Announcements, Lines, Queue

LEMMA DrainStep ==
  ASSUME IInv, Drain PROVE IInv'
<1>1. responses \in Seq(Messages) /\ responses # <<>>
  BY DEF IInv, Passed, Drain
<1>2. Head(responses) \in Messages /\ Tail(responses) \in Seq(Messages)
  BY <1>1, AppendTypes
<1>3. Sound(screen', now)
  BY <1>2, Facts, AppliedSound DEF Drain
<1> QED
  BY <1>2, <1>3, Facts, SessionStays, ConnectionStays
  DEF IInv, Drain, Passed, device, command, bounds, Queue

LEMMA AppTickStep ==
  ASSUME IInv, NEW passed \in {0, 1}, AppTick(passed) PROVE IInv'
<1>1. now' \in Nat /\ now <= now' /\ now' \in 0..world.time
  BY Facts DEF AppTick
<1>2. Sound(screen', now')
  BY <1>1, Facts, OnTickSound DEF AppTick
<1>3. requests' \in Seq(Requests)
  <2>1. requests \in Seq(Requests) /\ [kind |-> "Tick"] \in Requests
    BY DEF IInv, Passed, Requests
  <2> QED
    BY <2>1, AppendTypes DEF AppTick
<1> QED
  BY <1>1, <1>2, <1>3, SessionStays, ConnectionStays
  DEF IInv, AppTick, Passed, device, command, bounds, Queue

LEMMA PressStep ==
  ASSUME IInv, NEW control, NEW effect, NEW cmds, Press(control, effect, cmds),
         Sound(effect, now), cmds = <<>> \/ \E c \in Commands : cmds = <<c>>
  PROVE  IInv'
<1>1. commands' \in Seq(Commands)
  <2>1. commands \in Seq(Commands) /\ commands' = commands \o cmds
    BY DEF IInv, Passed, Press
  <2> QED
    BY <2>1, AppendTypes
<1>2. presses' \in Nat
  BY DEF Press, IInv
<1>3. Sound(screen', now')
  BY DEF Press
<1> QED
  BY <1>1, <1>2, <1>3, SessionStays, ConnectionStays
  DEF IInv, Press, Passed, device, Queue

LEMMA UserStep ==
  ASSUME IInv, User PROVE IInv'
<1>1. \A kind \in {"Restart", "Previous", "Next", "Toggle"} : [kind |-> kind] \in Commands
  BY DEF Commands
<1>2. \A slot \in Slots : [kind |-> "Pin", slot |-> slot] \in Commands
  BY DEF Commands
<1>3. CASE PressLeft
  <2> DEFINE c == [kind |-> IF Restarts(screen) THEN "Restart" ELSE "Previous"]
             effect == PreviousOrRestart(screen, now)
  <2>1. c \in Commands
    BY <1>1
  <2>2. Sound(effect, now)
    BY Facts, RestartSound, BeginTrackChangeSound DEF PreviousOrRestart
  <2>3. Press("Left", effect, <<c>>)
    BY <1>3 DEF PressLeft
  <2> HIDE DEF c, effect
  <2> QED
    BY <2>1, <2>2, <2>3, PressStep
<1>4. CASE PressRight
  <2> DEFINE c == [kind |-> "Next"]
             effect == NextTrack(screen, now)
  <2>1. c \in Commands
    BY <1>1
  <2>2. Sound(effect, now)
    BY Facts, BeginTrackChangeSound DEF NextTrack
  <2>3. Press("Right", effect, <<c>>)
    BY <1>4 DEF PressRight
  <2> HIDE DEF c, effect
  <2> QED
    BY <2>1, <2>2, <2>3, PressStep
<1>5. CASE PressSelect
  <2> DEFINE c == [kind |-> "Toggle"]
             effect == TogglePlayback(screen, now)
  <2>1. c \in Commands
    BY <1>1
  <2>2. Sound(effect, now)
    BY Facts, TogglePlaybackSound
  <2>3. Press("Select", effect, <<c>>)
    BY <1>5 DEF PressSelect
  <2> HIDE DEF c, effect
  <2> QED
    BY <2>1, <2>2, <2>3, PressStep
<1>6. CASE PressBack
  <2> DEFINE effect == TurnPage(screen)
  <2>1. Sound(effect, now)
    BY Facts, TurnPageSound
  <2>2. Press("Back", effect, <<>>)
    BY <1>6 DEF PressBack
  <2> HIDE DEF effect
  <2> QED
    BY <2>1, <2>2, PressStep
<1>7. ASSUME NEW slot \in Slots, TapTile(slot) PROVE IInv'
  <2> DEFINE c == [kind |-> "Pin", slot |-> slot]
             effect == InvokePin(screen, slot, now)
  <2>1. c \in Commands
    BY <1>2
  <2>2. Sound(effect, now)
    BY <1>7, Facts, InvokePinSound DEF TapTile
  <2>3. Press("Tile", effect, <<c>>)
    BY <1>7 DEF TapTile
  <2> HIDE DEF c, effect
  <2> QED
    BY <2>1, <2>2, <2>3, PressStep
<1> QED
  BY <1>3, <1>4, <1>5, <1>6, <1>7 DEF User
-----------------------------------------------------------------------------
(* The device, and the command thread.                                     *)

LEMMA DeviceMovesStep ==
  ASSUME IInv, DeviceMoves PROVE IInv'
<1>1. at' \in DOMAIN Queue /\ moves' \in Nat
  BY DEF DeviceMoves, IInv
<1> QED
  BY <1>1, SessionStays, ConnectionStays
  DEF DeviceMoves, IInv, Passed, app, command, Queue

(* What it says is a line the session can read. *)
LEMMA AnnounceStep ==
  ASSUME IInv, AnnounceId \/ AnnounceInfo PROVE IInv'
<1>1. /\ UNCHANGED <<device, app, command, requests, stage, driver, session, responses,
                     bounds>>
      /\ told # None
  BY DEF AnnounceId, AnnounceInfo
<1>2. told \in Announcements /\ wire \in Seq(Lines)
  BY <1>1, Facts DEF ConnectionOK, Option
<1>3. at \in DOMAIN Queue /\ transport \in Transports
  BY DEF IInv
<1>4. told' \in Announcements /\ (\E line \in Lines : wire' = Append(wire, line))
  <2>1. CASE AnnounceId
    <3>1. told' \in Announcements
      BY <1>2, <1>3, <2>1 DEF AnnounceId, Announcements, Option
    <3>2. [kind |-> "Id", at |-> at] \in Lines
      BY <1>3 DEF Lines
    <3> QED
      BY <2>1, <3>1, <3>2 DEF AnnounceId
  <2>2. CASE AnnounceInfo
    <3>1. told' \in Announcements
      BY <1>2, <1>3, <2>2 DEF AnnounceInfo, Announcements, Option
    <3> DEFINE track == IF told.track = at THEN None ELSE at
               state == IF told.transport = transport THEN None ELSE transport
               line  == [kind |-> "Info", track |-> track, transport |-> state]
    <3>2. track \in Option(DOMAIN Queue) /\ state \in Option(Transports)
      BY <1>3 DEF Option
    <3>3. wire' = Append(wire, line)
      BY <2>2 DEF AnnounceInfo
    <3> HIDE DEF track, state
    <3>4. line \in Lines
      BY <3>2 DEF Lines
    <3> QED
      BY <3>1, <3>3, <3>4
  <2> QED
    BY <2>1, <2>2
<1>5. told' \in Option(Announcements) /\ wire' \in Seq(Lines)
  BY <1>2, <1>4, AppendTypes DEF Option
<1>6. ConnectionOK'
  BY <1>1, <1>5 DEF ConnectionOK, Announcements, Lines, bounds, Queue
<1> QED
  BY <1>1, <1>6, SessionStays DEF IInv, Passed, device, app, command, bounds, Queue

LEMMA TakeCommandStep ==
  ASSUME IInv, TakeCommand PROVE IInv'
<1>1. Head(commands) \in Commands /\ Tail(commands) \in Seq(Commands)
  <2>1. commands \in Seq(Commands) /\ commands # <<>>
    BY DEF IInv, Passed, TakeCommand
  <2> QED
    BY <2>1, AppendTypes
<1>2. requests' \in Seq(Requests)
  <2> DEFINE forward == Head(commands).kind = "Next"
             e == [kind |-> "TrackChanged", forward |-> forward]
  <2>1. forward \in BOOLEAN
    OBVIOUS
  <2>2. requests' \in {requests, Append(requests, e)}
    BY DEF TakeCommand
  <2> HIDE DEF forward
  <2>3. e \in Requests
    BY <2>1 DEF Requests
  <2> HIDE DEF e
  <2>4. requests \in Seq(Requests)
    BY DEF IInv, Passed
  <2> QED
    BY <2>2, <2>3, <2>4, AppendTypes
<1>3. sending' \in Commands /\ commands' \in Seq(Commands)
  BY <1>1 DEF TakeCommand
<1> QED
  BY <1>2, <1>3, SessionStays, ConnectionStays
  DEF TakeCommand, IInv, Passed, device, app, bounds, Queue

LEMMA CommandDoneStep ==
  ASSUME IInv, CommandDone PROVE IInv'
<1>1. sending \in Commands
  BY DEF IInv, Passed, CommandDone
<1>2. at' \in DOMAIN Queue
  <2>1. \A i \in DOMAIN Queue : Place(i, TRUE) \in DOMAIN Queue /\ Place(i, FALSE) \in DOMAIN Queue
    BY Facts, PlaceType
  <2>2. sending.kind = "Pin" => world.pinStarts[sending.slot] \in DOMAIN Queue
    <3>1. world.pinStarts \in [Slots -> DOMAIN Queue]
      BY Facts, WorldType
    <3>2. sending.kind = "Pin" => sending.slot \in Slots
      BY <1>1 DEF Commands
    <3> QED
      BY <3>1, <3>2
  <2>3. at' = CASE sending.kind = "Next"     -> Place(at, TRUE)
                [] sending.kind = "Previous" -> Place(at, FALSE)
                [] sending.kind = "Pin"      -> world.pinStarts[sending.slot]
                [] OTHER                     -> at
    BY DEF CommandDone
  <2>4. at \in DOMAIN Queue
    BY Facts
  <2>5. CASE sending.kind = "Next"
    BY <2>1, <2>3, <2>4, <2>5
  <2>6. CASE sending.kind = "Previous"
    BY <2>1, <2>3, <2>4, <2>6
  <2>7. CASE sending.kind = "Pin"
    BY <2>2, <2>3, <2>7
  <2>8. CASE sending.kind \notin {"Next", "Previous", "Pin"}
    BY <2>3, <2>4, <2>8
  <2> QED
    BY <2>5, <2>6, <2>7, <2>8
<1>3. transport' \in Transports
  <2>1. transport' = CASE sending.kind = "Pin" -> "Playing"
                       [] sending.kind = "Toggle" /\ CanPause(transport) -> "Paused"
                       [] sending.kind = "Toggle" /\ ~CanPause(transport) -> "Playing"
                       [] OTHER -> transport
    BY DEF CommandDone
  <2>2. transport \in Transports
    BY DEF IInv
  <2>3. CASE sending.kind = "Pin"
    BY <2>1, <2>3 DEF Transports
  <2>4. CASE sending.kind = "Toggle"
    BY <2>1, <2>4 DEF Transports
  <2>5. CASE sending.kind \notin {"Pin", "Toggle"}
    BY <2>1, <2>2, <2>5
  <2> QED
    BY <2>3, <2>4, <2>5
<1>4. requests' \in Seq(Requests)
  <2>1. requests \in Seq(Requests) /\ [kind |-> "RequestStatusPoll"] \in Requests
    BY DEF IInv, Passed, Requests
  <2> QED
    BY <2>1, AppendTypes DEF CommandDone
<1>5. sending' = None
  BY DEF CommandDone
<1> QED
  BY <1>2, <1>3, <1>4, <1>5, SessionStays, ConnectionStays
  DEF CommandDone, IInv, Passed, app, bounds, Queue

LEMMA CommandFailsStep ==
  ASSUME IInv, CommandFails PROVE IInv'
BY SessionStays, ConnectionStays
DEF CommandFails, IInv, Passed, device, app, Queue
-----------------------------------------------------------------------------
(* The background thread.                                                  *)

(* It leaves the device, the app and the command thread alone. *)
LEMMA BackgroundKeeps ==
  ASSUME IInv, UNCHANGED <<device, app, command, world, presses, moves>>,
         DriverOK(driver'), stage' \in Stages, failures' \in Nat,
         SessionOK', ConnectionOK',
         responses' \in Seq(Messages), requests' \in Seq(Requests)
  PROVE  IInv'
BY DEF IInv, Passed, device, app, command, Queue

LEMMA TakeIs ==
  ASSUME IInv, NEW kind, Take(kind)
  PROVE  /\ UNCHANGED <<device, app, command, world, presses, moves>>
         /\ requests' \in Seq(Requests) /\ failures' \in Nat
         /\ ConnectionOK'
         /\ Head(requests) \in Requests /\ Head(requests).kind = kind
<1>1. requests \in Seq(Requests) /\ requests # <<>> /\ requests' = Tail(requests)
  BY DEF IInv, Passed, Take
<1>2. requests' \in Seq(Requests) /\ Head(requests) \in Requests
  BY <1>1, AppendTypes
<1>3. UNCHANGED <<connection, world>>
  BY DEF Take, bounds
<1> QED
  BY <1>2, <1>3, Facts, ConnectionStays DEF Take, bounds

LEMMA TakeStep ==
  ASSUME IInv, TakeSyncScreen \/ TakeRequestStatusPoll \/ TakeTick
  PROVE  IInv'
<1>1. \E kind : Take(kind)
  BY DEF TakeSyncScreen, TakeRequestStatusPoll, TakeTick
<1>2. /\ UNCHANGED <<device, app, command, world, presses, moves>>
      /\ requests' \in Seq(Requests) /\ failures' \in Nat /\ ConnectionOK'
  BY <1>1, TakeIs
<1>3. /\ UNCHANGED session /\ responses' = responses
      /\ stage' \in {stage, "poll"}
      /\ driver' \in {driver, SetActive(driver, TRUE), RequestStatusPoll(driver)}
  BY DEF TakeSyncScreen, TakeRequestStatusPoll, TakeTick
<1>4. SessionOK' /\ stage' \in Stages /\ responses' \in Seq(Messages)
  BY <1>2, <1>3, Facts, SessionStays DEF Stages
<1>5. DriverOK(driver')
  BY <1>3, Facts, DriverStays
<1> QED
  BY <1>2, <1>4, <1>5, BackgroundKeeps

LEMMA TakePredictedSkipStep ==
  ASSUME IInv, TakePredictedSkip PROVE IInv'
<1>1. /\ UNCHANGED <<device, app, command, world, presses, moves>>
      /\ requests' \in Seq(Requests) /\ failures' \in Nat /\ ConnectionOK'
  BY TakeIs DEF TakePredictedSkip
<1> DEFINE goal  == Place(position, Head(requests).forward)
           shown == Showing(goal)
<1>2. /\ position # None /\ position' = goal /\ guessed' = TRUE
      /\ live' = Showing(position')
      /\ driver' = MarkTrackChanged(driver, live')
      /\ responses' = responses \o TrackChangeEvents(driver, live')
      /\ UNCHANGED <<stage, changed>>
  BY DEF TakePredictedSkip
<1>3. position \in DOMAIN Queue
  BY <1>2, Facts DEF SessionOK, Option
<1>4. goal \in DOMAIN Queue /\ goal # None
  BY <1>3, Facts, PlaceType, PlacesAreNotNone
<1>5. shown \in Statuses
  BY <1>4, Facts, ShowingType
<1>6. live' = shown
  BY <1>2
<1> HIDE DEF goal, shown
<1>7. changed \in BOOLEAN /\ Queue' = Queue
  BY <1>1, Facts DEF SessionOK, Queue
<1>8. SessionOK'
  BY <1>2, <1>4, <1>5, <1>6, <1>7 DEF SessionOK, Option
<1>9. /\ driver' = MarkTrackChanged(driver, shown)
      /\ responses' = responses \o TrackChangeEvents(driver, shown)
  BY <1>2, <1>6
<1>10. shown # None => shown \in Statuses
  BY <1>5
<1>11. DriverOK(driver') /\ responses' \in Seq(Messages)
  BY <1>9, <1>10, Facts, MarkTrackChangedStays
<1>12. stage' \in Stages
  BY <1>2, Facts
<1> QED
  BY <1>1, <1>8, <1>11, <1>12, BackgroundKeeps

LEMMA TakeUnpredictedSkipStep ==
  ASSUME IInv, TakeUnpredictedSkip PROVE IInv'
<1>1. /\ UNCHANGED <<device, app, command, world, presses, moves>>
      /\ requests' \in Seq(Requests) /\ failures' \in Nat /\ ConnectionOK'
  BY TakeIs DEF TakeUnpredictedSkip
<1>2. /\ driver' = MarkTrackChanged(driver, None)
      /\ live' = [live EXCEPT !.title = NoTitle, !.art = NoUri,
                              !.elapsed = 0, !.duration = 0]
      /\ UNCHANGED <<stage, position, guessed, changed, responses>>
  BY DEF TakeUnpredictedSkip
<1>3. DriverOK(driver')
  BY <1>2, Facts, MarkTrackChangedStays
<1>4. live' \in Statuses
  BY <1>2, Facts, StatusAssumption DEF Statuses
<1>5. SessionOK'
  BY <1>1, <1>2, <1>4, Facts DEF SessionOK, Queue
<1>6. stage' \in Stages /\ responses' \in Seq(Messages)
  BY <1>2, Facts
<1> QED
  BY <1>1, <1>3, <1>5, <1>6, BackgroundKeeps

LEMMA DoesIs ==
  ASSUME IInv, NEW from, NEW to \in Stages, Does(from, to)
  PROVE  /\ UNCHANGED <<device, app, command, world, presses, moves>>
         /\ requests' \in Seq(Requests) /\ stage' \in Stages
BY DEF Does, IInv, Passed

LEMMA StagesAre ==
  {"idle", "poll", "reading", "load", "pins", "pinArtwork", "prefetch"} \subseteq Stages
BY DEF Stages

LEMMA MayLoadIs ==
  ASSUME IInv, NEW Loaded, NEW Failed, MayLoad(Loaded, Failed)
  PROVE  failures' \in Nat /\ (Loaded \/ Failed)
BY DEF MayLoad, IInv

LEMMA BeginPollStep ==
  ASSUME IInv, BeginPoll PROVE IInv'
<1>1. /\ UNCHANGED <<device, app, command, world, presses, moves>>
      /\ requests' \in Seq(Requests) /\ stage' \in Stages
  BY DoesIs, StagesAre DEF BeginPoll
<1>2. /\ told' \in {told, NotTold} /\ wire' = wire
      /\ UNCHANGED <<driver, session, responses, failures>>
  BY DEF BeginPoll
<1>3. NotTold \in Announcements
  BY DEF NotTold, Announcements, Option
<1>4. ConnectionOK'
  <2>1. told' \in Option(Announcements) /\ wire' \in Seq(Lines)
    BY <1>2, <1>3, Facts DEF ConnectionOK, Option
  <2> QED
    BY <1>1, <2>1 DEF ConnectionOK, Announcements, Lines, Queue
<1>5. SessionOK' /\ DriverOK(driver') /\ failures' \in Nat /\ responses' \in Seq(Messages)
  BY <1>1, <1>2, Facts, SessionStays
<1> QED
  BY <1>1, <1>4, <1>5, BackgroundKeeps

(* A line leaves the session at a place of the queue, with words of its own. *)
LEMMA ReadLineStep ==
  ASSUME IInv, ReadLine PROVE IInv'
<1>1. /\ UNCHANGED <<device, app, command, world, presses, moves>>
      /\ requests' \in Seq(Requests) /\ stage' \in Stages
  BY DoesIs, StagesAre DEF ReadLine
<1> DEFINE line == Head(wire)
<1>2. /\ wire # <<>> /\ wire' = Tail(wire)
      /\ ReadId(line) \/ ReadInfo(line)
      /\ changed' \in BOOLEAN
      /\ UNCHANGED <<told, driver, responses, failures>>
  BY DEF ReadLine
<1>3. line \in Lines /\ Tail(wire) \in Seq(Lines)
  <2>1. wire \in Seq(Lines)
    BY Facts DEF ConnectionOK
  <2> QED
    BY <1>2, <2>1, AppendTypes
<1> HIDE DEF line
<1>4. ConnectionOK'
  <2>1. told' \in Option(Announcements) /\ wire' \in Seq(Lines)
    BY <1>2, <1>3, Facts DEF ConnectionOK
  <2> QED
    BY <1>1, <2>1 DEF ConnectionOK, Announcements, Lines, Queue
<1>5. /\ position \in Option(DOMAIN Queue) /\ (guessed => position # None)
      /\ live \in Statuses /\ guessed \in BOOLEAN
  BY Facts DEF SessionOK
<1>6. /\ position' \in Option(DOMAIN Queue) /\ (guessed' => position' # None)
      /\ live' \in Statuses /\ guessed' \in BOOLEAN
  <2>1. CASE ReadId(line)
    <3>1. line.kind = "Id" => line.at \in DOMAIN Queue
      BY <1>3 DEF Lines
    <3> QED
      BY <1>5, <2>1, <3>1 DEF ReadId, Option
  <2>2. CASE ReadInfo(line)
    <3> DEFINE shown == IF line.track = None \/ guessed THEN live ELSE Showing(line.track)
    <3>1. line.track \in Option(DOMAIN Queue) /\ line.transport \in Option(Transports)
      BY <1>3, <2>2 DEF Lines, ReadInfo
    <3>2. line.track # None => Showing(line.track) \in Statuses
      BY <1>5, <3>1, Facts, ShowingType DEF Option
    <3>3. shown \in Statuses
      BY <1>5, <3>2
    <3>4. /\ live' = IF line.transport = None THEN shown
                     ELSE [shown EXCEPT !.playback = line.transport]
          /\ UNCHANGED <<position, guessed>>
      BY <2>2 DEF ReadInfo
    <3> HIDE DEF shown
    <3>5. line.transport # None => line.transport \in Playbacks
      BY <3>1 DEF Option, Transports, Playbacks
    <3>6. live' \in Statuses
      BY <3>3, <3>4, <3>5 DEF Statuses
    <3> QED
      BY <1>5, <3>4, <3>6
  <2> QED
    BY <1>2, <2>1, <2>2
<1>7. SessionOK'
  BY <1>1, <1>2, <1>6 DEF SessionOK, Queue
<1>8. DriverOK(driver') /\ failures' \in Nat /\ responses' \in Seq(Messages)
  BY <1>2, Facts
<1> QED
  BY <1>1, <1>4, <1>7, <1>8, BackgroundKeeps

LEMMA PollEndsStep ==
  ASSUME IInv, PollEnds PROVE IInv'
<1>1. /\ UNCHANGED <<device, app, command, world, presses, moves>>
      /\ requests' \in Seq(Requests) /\ stage' \in Stages
  BY DoesIs, StagesAre DEF PollEnds
<1>2. /\ changed' = FALSE /\ UNCHANGED <<connection, position, guessed, live, failures>>
      /\ driver' \in {RefreshStatus(driver, live), PollBrought(driver, "Nothing")}
      /\ responses' \in {responses, Append(responses, StatusEvent(live))}
  BY DEF PollEnds
<1>3. SessionOK' /\ ConnectionOK'
  BY <1>1, <1>2, Facts, ConnectionStays DEF SessionOK, Queue
<1>4. DriverOK(driver')
  BY <1>2, Facts, DriverStays
<1>5. responses' \in Seq(Messages) /\ failures' \in Nat
  BY <1>2, Facts, MessageTypes, AppendTypes
<1> QED
  BY <1>1, <1>3, <1>4, <1>5, BackgroundKeeps

LEMMA PollBringsNothingStep ==
  ASSUME IInv, SkipPoll \/ PollConnectFails \/ PollFails PROVE IInv'
<1>1. /\ UNCHANGED <<device, app, command, world, presses, moves>>
      /\ requests' \in Seq(Requests) /\ stage' \in Stages
  BY DoesIs, StagesAre DEF SkipPoll, PollConnectFails, PollFails
<1>2. /\ driver' \in {driver, PollBrought(driver, "Error")}
      /\ failures' \in {failures, failures + 1} /\ responses' = responses
      /\ UNCHANGED <<position, guessed, live>> /\ changed' \in {changed, FALSE}
      /\ UNCHANGED connection \/ (told' = None /\ wire' = <<>>)
  BY DEF SkipPoll, PollConnectFails, PollFails, session
<1>3. DriverOK(driver')
  BY <1>2, Facts, DriverStays
<1>4. failures' \in Nat /\ responses' \in Seq(Messages)
  <2>1. failures \in Nat
    BY Facts
  <2>2. failures' \in Nat
    BY <1>2, <2>1
  <2> QED
    BY <1>2, <2>2, Facts
<1>5. SessionOK'
  BY <1>1, <1>2, Facts DEF SessionOK, Queue
<1>6. ConnectionOK'
  <2>1. CASE UNCHANGED connection
    BY <1>1, <2>1, Facts, ConnectionStays
  <2>2. CASE told' = None /\ wire' = <<>>
    <3>1. wire' \in Seq(Lines')
      BY <2>2
    <3> QED
      BY <2>2, <3>1 DEF ConnectionOK, Option
  <2> QED
    BY <1>2, <2>1, <2>2
<1> QED
  BY <1>1, <1>3, <1>4, <1>5, <1>6, BackgroundKeeps

LEMMA LoadStep ==
  ASSUME IInv, LoadPendingArtwork PROVE IInv'
<1>1. /\ UNCHANGED <<device, app, command, world, presses, moves>>
      /\ requests' \in Seq(Requests) /\ stage' \in Stages
  BY DoesIs, StagesAre DEF LoadPendingArtwork
<1>2. SessionOK' /\ ConnectionOK'
  BY <1>1, Facts, SessionStays, ConnectionStays DEF LoadPendingArtwork
<1>3. responses \in Seq(Messages) /\ DriverOK(driver) /\ failures \in Nat
  BY Facts DEF IInv, Passed
<1>4. CASE ~driver.active \/ driver.pendingArt = NoUri
  <2>1. UNCHANGED <<driver, responses, failures>>
    BY <1>4 DEF LoadPendingArtwork
  <2> QED
    BY <1>1, <1>2, <1>3, <2>1, BackgroundKeeps
<1>5. CASE ~(~driver.active \/ driver.pendingArt = NoUri)
  <2>1. driver.pendingArt \in Uris
    BY <1>3, <1>5 DEF DriverOK, Drivers, Covers
  <2>2. ArtworkEvent(driver.pendingArt) \in Messages
    BY <2>1, MessageTypes
  <2>3. driver' = LoadPending(driver) /\ failures' \in Nat
    BY <1>3, <1>5 DEF LoadPendingArtwork, MayLoad
  <2>4. responses' \in {responses, Append(responses, ArtworkEvent(driver.pendingArt))}
    BY <1>5 DEF LoadPendingArtwork, MayLoad
  <2>5. responses' \in Seq(Messages)
    BY <1>3, <2>2, <2>4, AppendTypes
  <2>6. DriverOK(driver')
    BY <1>3, <2>3, DriverStays
  <2> QED
    BY <1>1, <1>2, <2>3, <2>5, <2>6, BackgroundKeeps
<1> QED
  BY <1>4, <1>5

LEMMA FetchPinsStep ==
  ASSUME IInv, FetchPinsIfNeeded PROVE IInv'
<1>1. /\ UNCHANGED <<device, app, command, world, presses, moves>>
      /\ requests' \in Seq(Requests) /\ stage' \in Stages
  BY DoesIs, StagesAre DEF FetchPinsIfNeeded
<1>2. SessionOK' /\ ConnectionOK'
  BY <1>1, Facts, SessionStays, ConnectionStays DEF FetchPinsIfNeeded
<1>3. responses \in Seq(Messages) /\ DriverOK(driver) /\ failures \in Nat
  BY Facts DEF IInv, Passed
<1>4. world.pinList \in [Slots -> Option(Pins)]
  BY Facts, WorldType
<1>5. PinsEvent(world.pinList) \in Messages
  BY <1>4, MessageTypes
<1>6. failures' \in Nat
  BY <1>3 DEF FetchPinsIfNeeded, MayLoad
<1>7. driver' \in {driver, FetchedPins(driver, world.pinList), TriedPins(driver)}
  BY DEF FetchPinsIfNeeded, MayLoad
<1>8. responses' \in {responses, Append(responses, PinsEvent(world.pinList))}
  BY DEF FetchPinsIfNeeded, MayLoad
<1>9. DriverOK(driver')
  BY <1>3, <1>4, <1>7, DriverStays
<1>10. responses' \in Seq(Messages)
  BY <1>3, <1>5, <1>8, AppendTypes
<1> QED
  BY <1>1, <1>2, <1>6, <1>9, <1>10, BackgroundKeeps

LEMMA FetchPinArtworkStep ==
  ASSUME IInv, FetchPinArtwork PROVE IInv'
<1>1. /\ UNCHANGED <<device, app, command, world, presses, moves>>
      /\ requests' \in Seq(Requests) /\ stage' \in Stages
  BY DoesIs, StagesAre DEF FetchPinArtwork
<1>2. SessionOK' /\ ConnectionOK'
  BY <1>1, Facts, SessionStays, ConnectionStays DEF FetchPinArtwork
<1>3. /\ responses \in Seq(Messages) /\ failures \in Nat
      /\ DriverOK(driver) /\ driver \in Drivers
      /\ driver.prefetched \in {None, driver.prefetchedArt}
  BY Facts DEF DriverOK
<1>4. CASE UNCHANGED <<driver, responses, failures>>
  BY <1>1, <1>2, <1>3, <1>4, BackgroundKeeps
<1>5. ASSUME NEW slot \in Slots, NextPinCover(driver, slot),
             driver' = TriedPinCover(driver, slot),
             MayLoad(responses' = Append(responses, PinArtworkEvent(slot, driver.pins[slot].art)),
                     UNCHANGED responses)
      PROVE  IInv'
  <2> DEFINE uri == driver.pins[slot].art
             e == PinArtworkEvent(slot, uri)
             tried == [driver.pinArt EXCEPT ![slot] = uri]
  <2>1. driver.pins[slot] # None /\ driver.pins[slot] \in Option(Pins)
    BY <1>3, <1>5 DEF NextPinCover, PinCoverDue, Drivers
  <2>2. driver.pins[slot] \in Pins
    BY <2>1 DEF Option
  <2>3. uri \in Uris
    <3>1. uri \in Uris \cup {NoUri}
      BY <2>2 DEF Pins
    <3>2. uri # NoUri
      BY <1>5 DEF NextPinCover, PinCoverDue
    <3> QED
      BY <3>1, <3>2
  <2>4. e \in Messages
    BY <2>3, MessageTypes
  <2>5. responses' \in {responses, Append(responses, e)} /\ failures' \in Nat
    BY <1>3, <1>5 DEF MayLoad
  <2>6. driver' = [driver EXCEPT !.pinArt = tried]
    BY <1>3, <1>5 DEF TriedPinCover, Drivers
  <2> HIDE DEF uri, e
  <2>7. tried \in [Slots -> Covers]
    BY <1>3, <2>3 DEF Drivers, Covers
  <2> HIDE DEF tried
  <2>8. DriverOK(driver')
    BY <1>3, <2>6, <2>7 DEF Drivers, DriverOK
  <2>9. responses' \in Seq(Messages)
    BY <1>3, <2>4, <2>5, AppendTypes
  <2> QED
    BY <1>1, <1>2, <2>5, <2>8, <2>9, BackgroundKeeps
<1> QED
  BY <1>4, <1>5 DEF FetchPinArtwork

LEMMA PrefetchStep ==
  ASSUME IInv, PrefetchNext \/ PrefetchNothing PROVE IInv'
<1>1. /\ UNCHANGED <<device, app, command, world, presses, moves>>
      /\ requests' \in Seq(Requests) /\ stage' \in Stages
  BY DoesIs, StagesAre DEF PrefetchNext, PrefetchNothing
<1>2. /\ SessionOK' /\ ConnectionOK'
      /\ responses' \in Seq(Messages)
  BY <1>1, Facts, SessionStays, ConnectionStays DEF PrefetchNext, PrefetchNothing, IInv, Passed
<1>3. failures \in Nat /\ DriverOK(driver) /\ driver \in Drivers
  BY Facts DEF DriverOK
<1>4. CASE PrefetchNothing
  BY <1>1, <1>2, <1>3, <1>4, BackgroundKeeps DEF PrefetchNothing
<1>5. CASE PrefetchNext
  <2> DEFINE uri == Queue[Place(position, TRUE)].art
  <2>1. /\ position # None
        /\ uri # NoUri /\ PrefetchDue(driver, uri)
        /\ MayLoad(driver' = PrefetchNextArtwork(driver, uri, uri),
                   driver' = PrefetchNextArtwork(driver, uri, None))
    BY <1>5 DEF PrefetchNext
  <2>2. Queue[Place(position, TRUE)] \in Tracks
    <3>1. position \in DOMAIN Queue
      BY <2>1, Facts DEF SessionOK, Option
    <3> QED
      BY <3>1, Facts, PlaceType, WorldType
  <2>3. uri \in Uris
    BY <2>1, <2>2 DEF Tracks, Covers
  <2>4. /\ driver' \in {PrefetchNextArtwork(driver, uri, uri), PrefetchNextArtwork(driver, uri, None)}
        /\ failures' \in Nat
    <3>1. MayLoad(driver' = PrefetchNextArtwork(driver, uri, uri),
                  driver' = PrefetchNextArtwork(driver, uri, None))
      BY <2>1
    <3> HIDE DEF uri
    <3> QED
      BY <1>3, <3>1 DEF MayLoad
  <2> HIDE DEF uri
  <2>5. DriverOK(driver')
    BY <1>3, <2>3, <2>4 DEF PrefetchNextArtwork, DriverOK, Drivers, Covers, Option
  <2> QED
    BY <1>1, <1>2, <2>4, <2>5, BackgroundKeeps
<1> QED
  BY <1>4, <1>5
-----------------------------------------------------------------------------
LEMMA NextIInv == IInv /\ [Next]_vars => IInv'
<1> SUFFICES ASSUME IInv, [Next]_vars PROVE IInv'
  OBVIOUS
<1>1. CASE Drain
  BY <1>1, DrainStep
<1>2. ASSUME NEW passed \in {0, 1}, AppTick(passed) PROVE IInv'
  BY <1>2, AppTickStep
<1>3. CASE User
  BY <1>3, UserStep
<1>4. CASE Device
  BY <1>4, DeviceMovesStep, AnnounceStep DEF Device
<1>5. CASE CommandThread
  BY <1>5, TakeCommandStep, CommandDoneStep, CommandFailsStep DEF CommandThread
<1>6. CASE Background
  BY <1>6, TakeStep, TakePredictedSkipStep, TakeUnpredictedSkipStep, BeginPollStep,
     ReadLineStep, PollEndsStep, PollBringsNothingStep,
     LoadStep, FetchPinsStep, FetchPinArtworkStep, PrefetchStep
  DEF Background
<1>7. CASE UNCHANGED vars
  BY <1>7, SessionStays, ConnectionStays
  DEF vars, IInv, Passed, device, app, command, bounds, Queue
<1> QED
  BY <1>1, <1>2, <1>3, <1>4, <1>5, <1>6, <1>7 DEF Next

LEMMA IInvHolds == Spec => []IInv
BY InitIInv, NextIInv, PTL DEF Spec

(* The shape of the simulator's flow, whatever the user, the device and     *)
(* the network do; and the decoded cover is always that of the uri it was   *)
(* prefetched for (prefetch_next_artwork, mark_track_changed). *)
THEOREM TypeCorrect == Spec => []TypeOK
<1>1. IInv => TypeOK
  BY DEF IInv, TypeOK, Sound, DriverOK, SessionOK, ConnectionOK
<1> QED
  BY <1>1, IInvHolds, PTL

(* The screen in the whole app is as sound as on its own: a cover that is   *)
(* not the status's has a deadline, the position is counted from now, the   *)
(* level shown is the one held (hifi.rs). *)
THEOREM ScreenStaysSound == Spec => []Sound(screen, now)
<1>1. IInv => Sound(screen, now)
  BY DEF IInv
<1> QED
  BY <1>1, IInvHolds, PTL
=============================================================================
