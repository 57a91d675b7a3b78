------------------------ MODULE FirmwareFlow_proofs ------------------------
(***************************************************************************)
(* For every number of slots in the artwork pool, every queue of tracks    *)
(* and every order in which the firmware's tasks take turns: the flow      *)
(* keeps its shape, and a slot is written while nothing can see it.        *)
(***************************************************************************)
EXTENDS FirmwareFlow, Methods_proofs, SequenceTheorems

(* What is sent between the tasks. *)
Messages ==
  [kind : {"Status"}, status : Statuses]
    \cup [kind : {"Artwork"}, uri : Uris, slot : PoolSlots]
    \cup [kind : {"Pins"}, pins : [Slots -> Option(Pins)]]
    \cup [kind : {"Back", "Network"}]
Commands == [kind : {"SetActive"}] \cup [kind : {"Pin"}, slot : Slots]

OutboxOK == outbox = <<>> \/ \E e \in Messages : outbox = <<e>>

(* The firmware's pins have no covers of their own. *)
ScreenOK == screen # None => Sound(screen, now) /\ screen.pinArt = NoPins

Shape ==
  /\ TypeOK
  /\ events \in Option(Messages) /\ requests \in Seq(Commands) /\ OutboxOK
  /\ ScreenOK

IsCover(event) == IF event = None THEN FALSE ELSE event.kind = "Artwork"

(* Slot was taken when `after' more have not been. *)
Age(slot, after) == slot + 1 + after \in {nextIndex, nextIndex + PoolSize}

(* A cover is only loaded once its status has been sent, so that there is  *)
(* one on its way at most: it is the youngest, and the one the app has     *)
(* kept is as old as the number it has refused since. *)
OneCover ==
  /\ IsCover(events) => Age(events.slot, 0)
  /\ outbox # <<>> /\ IsCover(Head(outbox)) =>
       Age(Head(outbox).slot, 0) /\ ~IsCover(events) /\ driver.pendingArt = NoUri
  /\ driver.pendingArt # NoUri /\ outbox = <<>> => ~IsCover(events)

HeldOld ==
  screen # None => (screen.artwork # None /\ refused < PoolSize => Age(held, refused))

IInv == Shape /\ OneCover /\ HeldOld
-----------------------------------------------------------------------------
(* Helpers.                                                                *)

LEMMA NextSlot ==
  ASSUME NEW i \in PoolSlots
  PROVE  (i + 1) % PoolSize = (IF i + 1 = PoolSize THEN 0 ELSE i + 1)
<1> DEFINE P == PoolSize
           q == (i + 1) \div P
           r == (i + 1) % P
<1>1. P \in Nat \ {0} /\ i \in Nat /\ i < P
  BY FirmwareAssumption DEF PoolSlots
<1> HIDE DEF P
<1>2. q \in Nat /\ r \in 0..(P - 1) /\ i + 1 = P * q + r
  BY <1>1
<1> HIDE DEF q, r
<1>3. CASE q = 0
  <2>1. P * q = 0
    BY <1>1, <1>3
  <2>2. r = i + 1 /\ i + 1 # P
    BY <1>1, <1>2, <2>1
  <2> QED
    BY <2>2 DEF r, P
<1>4. CASE q = 1
  <2>1. P * q = P
    BY <1>1, <1>4
  <2>2. r = 0 /\ i + 1 = P
    BY <1>1, <1>2, <2>1
  <2> QED
    BY <2>2 DEF r, P
<1>5. CASE q >= 2
  <2>1. P * q >= P * 2
    BY <1>1, <1>2, <1>5
  <2>2. P * q \in Nat
    BY <1>1, <1>2
  <2> QED
    BY <1>1, <1>2, <2>1, <2>2
<1> QED
  BY <1>2, <1>3, <1>4, <1>5

LEMMA NextIndexType ==
  ASSUME nextIndex \in PoolSlots, Acquire
  PROVE  nextIndex' \in PoolSlots
<1>1. PoolSize \in Nat \ {0}
  BY FirmwareAssumption
<1> QED
  BY <1>1, NextSlot DEF Acquire, PoolSlots

LEMMA MessageTypes ==
  /\ \A status \in Statuses : StatusEvent(status) \in Messages
  /\ \A uri \in Uris, slot \in PoolSlots : DecodedEvent(uri, slot) \in Messages
  /\ PinsEvent(PinList) \in Messages
  /\ [kind |-> "Back"] \in Messages /\ [kind |-> "Network"] \in Messages
BY FirmwareAssumption DEF Messages, StatusEvent, DecodedEvent, PinsEvent

LEMMA QueueStatus ==
  ASSUME NEW i \in DOMAIN Queue PROVE Queue[i] \in Statuses
BY FirmwareAssumption, ElementOfSeq, LenProperties

(* What the driver's steps keep. *)
LEMMA DriverTypes ==
  ASSUME NEW d \in Drivers
  PROVE  /\ SetActive(d, TRUE) \in Drivers
         /\ SetActive(d, TRUE).pendingArt = d.pendingArt
         /\ \A status \in Statuses : RefreshStatus(d, status) \in Drivers
         /\ \A nothing \in {"Nothing", "Error"} :
              /\ PollBrought(d, nothing) \in Drivers
              /\ PollBrought(d, nothing).pendingArt = d.pendingArt
         /\ LoadPending(d) \in Drivers /\ LoadPending(d).pendingArt = NoUri
         /\ TriedPins(d) \in Drivers /\ TriedPins(d).pendingArt = d.pendingArt
         /\ FetchedPins(d, PinList) \in Drivers
         /\ FetchedPins(d, PinList).pendingArt = d.pendingArt
<1>1. /\ SetActive(d, TRUE) \in Drivers
      /\ SetActive(d, TRUE).pendingArt = d.pendingArt
  BY DEF SetActive, Drivers
<1>2. ASSUME NEW status \in Statuses PROVE RefreshStatus(d, status) \in Drivers
  <2>1. status.art \in Covers /\ d.pendingArt \in Covers /\ d.lastArt \in Covers /\ NoUri \in Covers
    BY DEF Statuses, Drivers, Covers
  <2>2. (IF status.art = NoUri THEN NoUri
         ELSE IF status.playback = "Playing" /\ status.art # d.lastArt
         THEN status.art ELSE d.pendingArt) \in Covers
    BY <2>1
  <2>3. (IF status.art = NoUri THEN NoUri ELSE d.lastArt) \in Covers
    BY <2>1
  <2>4. (status.playback \in {"Unknown", "Buffering"}) \in BOOLEAN
    OBVIOUS
  <2> QED
    BY <2>2, <2>3, <2>4 DEF RefreshStatus, Drivers
<1>3. ASSUME NEW nothing \in {"Nothing", "Error"}
      PROVE  /\ PollBrought(d, nothing) \in Drivers
             /\ PollBrought(d, nothing).pendingArt = d.pendingArt
  <2>1. (nothing = "Error") \in BOOLEAN
    OBVIOUS
  <2> QED
    BY <2>1 DEF PollBrought, Drivers
<1>4. LoadPending(d) \in Drivers /\ LoadPending(d).pendingArt = NoUri
  BY DEF LoadPending, Drivers, Covers
<1>5. TriedPins(d) \in Drivers /\ TriedPins(d).pendingArt = d.pendingArt
  BY DEF TriedPins, Drivers
<1>6. /\ FetchedPins(d, PinList) \in Drivers
      /\ FetchedPins(d, PinList).pendingArt = d.pendingArt
  BY <1>5, FirmwareAssumption DEF FetchedPins, Drivers
<1> QED
  BY <1>1, <1>2, <1>3, <1>4, <1>5, <1>6
-----------------------------------------------------------------------------
(* What the screen's handlers do with its cover.                           *)

Keeps(s, r) == r.artwork = s.artwork /\ r.pinArt = s.pinArt

LEMMA ApplyStatusKeeps ==
  ASSUME NEW s \in ScreenStates, NEW incoming \in Statuses, NEW t \in Nat
  PROVE  Keeps(s, ApplyStatus(s, incoming, t))
BY DEF ApplyStatus, ScreenStates, Keeps

LEMMA ApplyArtworkKeeps ==
  ASSUME NEW s \in ScreenStates, NEW uri
  PROVE  ApplyArtwork(s, uri).pinArt = s.pinArt
BY DEF ApplyArtwork, ScreenStates

LEMMA ApplyPinsKeeps ==
  ASSUME NEW s \in ScreenStates, s.pinArt = NoPins, NEW pins
  PROVE  Keeps(s, ApplyPins(s, pins))
<1> DEFINE Same(slot) == /\ s.pins[slot] # None /\ pins[slot] # None
                         /\ s.pins[slot].id = pins[slot].id
           art == [slot \in Slots |-> IF Same(slot) THEN s.pinArt[slot] ELSE None]
<1>1. art = NoPins
  BY DEF NoPins
<1>2. ApplyPins(s, pins) = [s EXCEPT !.pins = pins, !.pinArt = art]
  BY DEF ScreenStates, ApplyPins
<1> QED
  BY <1>1, <1>2 DEF ScreenStates, Keeps

LEMMA TurnPageKeeps ==
  ASSUME NEW s \in ScreenStates PROVE Keeps(s, TurnPage(s))
BY DEF TurnPage, ScreenStates, Keeps

LEMMA InvokePinKeeps ==
  ASSUME NEW s \in ScreenStates, s.pinArt = NoPins, NEW slot \in Slots,
         s.pins[slot] # None, NEW t
  PROVE  /\ InvokePin(s, slot, t).artwork = None
         /\ InvokePin(s, slot, t).pinArt = NoPins
<1>1. s.pins[slot].art # None
  BY StatusAssumption DEF ScreenStates, Pins, Option
<1>2. s.pinArt[slot] = None
  BY DEF NoPins
<1> QED
  BY <1>1, <1>2 DEF InvokePin, ScreenStates

LEMMA OnTickKeeps ==
  ASSUME NEW s \in ScreenStates, NEW t
  PROVE  /\ OnTick(s, t).artwork \in {None, s.artwork}
         /\ OnTick(s, t).pinArt = s.pinArt
<1> DEFINE dropped == DroppedCover(s, t)
           u == [s EXCEPT !.overlayUntil  = Cleared(@, t),
                          !.artwork       = dropped,
                          !.staleUntil    = Cleared(@, t),
                          !.progressUntil = Cleared(@, t),
                          !.intro = IF @ # None /\ t >= s.intro.expires THEN None ELSE @]
<1>1. dropped \in {None, s.artwork}
  BY DEF DroppedCover
<1>2. OnTick(s, t) = TickPlayback(u, t)
  BY DEF OnTick
<1> HIDE DEF dropped
<1>3. /\ u.artwork = dropped /\ u.pinArt = s.pinArt
      /\ DOMAIN u = DOMAIN s
  BY DEF ScreenStates
<1> HIDE DEF u
<1>4. /\ "artwork" \in DOMAIN u /\ "pinArt" \in DOMAIN u
      /\ TickPlayback(u, t).artwork = u.artwork /\ TickPlayback(u, t).pinArt = u.pinArt
  BY <1>3 DEF TickPlayback, ScreenStates
<1> QED
  BY <1>1, <1>2, <1>3, <1>4

LEMMA NewScreenKeeps ==
  ASSUME NEW t PROVE NewScreen(t).artwork = None /\ NewScreen(t).pinArt = NoPins
BY DEF NewScreen
-----------------------------------------------------------------------------
(* The main loop.                                                          *)

LEMMA TimeType == IInv => now \in Nat /\ MaxTime \in Nat
BY FirmwareAssumption DEF IInv, Shape, TypeOK

LEMMA AppliedSound ==
  ASSUME IInv, screen # None
  PROVE  /\ Sound(Applied(events), now) /\ Applied(events).pinArt = NoPins
         /\ Applied(events).artwork = screen.artwork \/ IsCover(events)
<1>0. now \in Nat /\ Sound(screen, now) /\ screen \in ScreenStates /\ screen.pinArt = NoPins
  BY TimeType DEF IInv, Shape, ScreenOK, Sound
<1>1. CASE events = None
  BY <1>0, <1>1 DEF Applied
<1>2. CASE events # None
  <2>0. events \in Messages
    BY <1>2 DEF IInv, Shape, Option
  <2>1. CASE events.kind = "Status"
    <3>1. events.status \in Statuses
      BY <2>0, <2>1 DEF Messages
    <3>2. Applied(events) = ApplyStatus(screen, events.status, now)
      BY <1>2, <2>1 DEF Applied
    <3>3. Sound(Applied(events), now)
      BY <1>0, <3>1, <3>2, ApplyStatusProperty
    <3> QED
      BY <1>0, <3>1, <3>2, <3>3, ApplyStatusKeeps DEF Keeps
  <2>2. CASE events.kind = "Artwork"
    <3>1. events.uri \in Uris
      BY <2>0, <2>2 DEF Messages
    <3>2. Applied(events) = ApplyArtwork(screen, events.uri)
      BY <1>2, <2>2 DEF Applied
    <3>3. Sound(Applied(events), now)
      BY <1>0, <3>1, <3>2, ApplyArtworkSound
    <3> QED
      BY <1>0, <1>2, <2>2, <3>2, <3>3, ApplyArtworkKeeps DEF IsCover
  <2>3. CASE events.kind = "Pins"
    <3>1. events.pins \in [Slots -> Option(Pins)]
      BY <2>0, <2>3 DEF Messages
    <3>2. Applied(events) = ApplyPins(screen, events.pins)
      BY <1>2, <2>3 DEF Applied
    <3>3. Sound(Applied(events), now)
      BY <1>0, <3>1, <3>2, ApplyPinsSound
    <3> QED
      BY <1>0, <3>2, <3>3, ApplyPinsKeeps DEF Keeps
  <2>4. CASE events.kind = "Back"
    <3>1. Applied(events) = TurnPage(screen)
      BY <1>2, <2>4 DEF Applied
    <3>2. Sound(Applied(events), now)
      BY <1>0, <3>1, TurnPageSound
    <3> QED
      BY <1>0, <3>1, <3>2, TurnPageKeeps DEF Keeps
  <2>5. CASE events.kind = "Network"
    BY <1>0, <1>2, <2>5 DEF Applied
  <2> QED
    BY <2>0, <2>1, <2>2, <2>3, <2>4, <2>5 DEF Messages
<1> QED
  BY <1>1, <1>2

LEMMA TrySendType ==
  ASSUME NEW q \in Seq(Commands), Len(q) <= RequestCapacity, NEW c \in Commands
  PROVE  TrySend(q, c) \in Seq(Commands) /\ Len(TrySend(q, c)) <= RequestCapacity
<1>1. Len(q) \in Nat /\ RequestCapacity \in Nat
  BY LenProperties, FirmwareAssumption
<1>2. Append(q, c) \in Seq(Commands) /\ Len(Append(q, c)) = Len(q) + 1
  BY AppendProperties
<1> QED
  BY <1>1, <1>2 DEF TrySend

(* What a frame leaves, whatever was touched in it. *)
LEMMA FrameStep ==
  ASSUME IInv, NEW passed \in {0, 1}, NEW touched, NEW commands,
         Frame(passed, touched, commands), touches' \in Nat,
         commands = <<>> \/ \E c \in Commands : commands = <<c>>,
         touched # None =>
           /\ Sound(touched, now) /\ touched.pinArt = NoPins
           /\ touched.artwork # None =>
                screen # None /\ touched.artwork = Applied(events).artwork
  PROVE  IInv'
<1>0. /\ now \in Nat /\ MaxTime \in Nat /\ PoolSize \in Nat \ {0} /\ held \in PoolSlots
      /\ refused \in Nat /\ nextIndex \in PoolSlots
  BY TimeType, FirmwareAssumption DEF IInv, Shape, TypeOK
<1>1. now' \in Nat /\ now <= now' /\ now' \in 0..MaxTime
  BY <1>0 DEF Frame
<1>2. requests' \in Seq(Commands) /\ Len(requests') <= RequestCapacity
  <2> DEFINE told == IF focused' = focused THEN requests
                     ELSE TrySend(requests, [kind |-> "SetActive"])
  <2>1. requests \in Seq(Commands) /\ Len(requests) <= RequestCapacity
    BY DEF IInv, Shape, TypeOK
  <2>2. [kind |-> "SetActive"] \in Commands
    BY DEF Commands
  <2>3. told \in Seq(Commands) /\ Len(told) <= RequestCapacity
    BY <2>1, <2>2, TrySendType
  <2>4. requests' = IF commands = <<>> THEN told ELSE TrySend(told, Head(commands))
    BY DEF Frame
  <2> HIDE DEF told
  <2>5. CASE commands = <<>>
    BY <2>3, <2>4, <2>5
  <2>6. CASE \E c \in Commands : commands = <<c>>
    <3>1. PICK c \in Commands : commands = <<c>>
      BY <2>6
    <3>2. Head(commands) = c /\ commands # <<>>
      BY <3>1
    <3> QED
      BY <2>3, <2>4, <3>1, <3>2, TrySendType
  <2> QED
    BY <2>5, <2>6
<1>3. screen' # None =>
        /\ touched # None
        /\ Sound(screen', now') /\ screen'.pinArt = NoPins
        /\ screen'.artwork # None => screen'.artwork = touched.artwork
  <2> SUFFICES ASSUME screen' # None
               PROVE  /\ touched # None
                      /\ Sound(screen', now') /\ screen'.pinArt = NoPins
                      /\ screen'.artwork # None => screen'.artwork = touched.artwork
    OBVIOUS
  <2>1. touched # None /\ screen' = OnTick(touched, now')
    BY DEF Frame
  <2>2. touched \in ScreenStates
    BY <2>1 DEF Sound
  <2>3. Sound(screen', now')
    BY <1>0, <1>1, <2>1, OnTickSound
  <2> QED
    BY <2>1, <2>2, <2>3, OnTickKeeps
<1>4. screen' \in Option(ScreenStates) /\ focused' \in BOOLEAN
  BY <1>3 DEF Option, Sound, Frame
<1>5. TakesCover => screen # None /\ IsCover(events) /\ events.slot \in PoolSlots
  BY DEF TakesCover, IsCover, IInv, Shape, Option, Messages
<1>6. /\ held' = (IF TakesCover THEN events.slot ELSE held)
      /\ refused' = (IF TakesCover THEN 0 ELSE refused)
      /\ nextIndex' = nextIndex /\ events' = None
      /\ UNCHANGED <<at, key, stage, outbox, driver, live, pixels, keys, moves, failures>>
  BY DEF Frame, runtime
<1>7. held' \in PoolSlots /\ refused' \in Nat
  BY <1>0, <1>5, <1>6
<1>8. Shape'
  BY <1>1, <1>2, <1>3, <1>4, <1>6, <1>7
  DEF IInv, Shape, TypeOK, OutboxOK, ScreenOK, Option
<1>9. OneCover'
  BY <1>6 DEF IInv, OneCover, IsCover, Age
<1>10. HeldOld'
  <2> SUFFICES ASSUME screen' # None, screen'.artwork # None, refused' < PoolSize
               PROVE  Age(held, refused)'
    BY DEF HeldOld
  <2>1. screen # None /\ screen'.artwork = Applied(events).artwork
    BY <1>3
  <2>2. CASE TakesCover
    <3>1. Age(events.slot, 0)
      BY <1>5, <2>2 DEF IInv, OneCover
    <3> QED
      BY <1>6, <2>2, <3>1 DEF Age
  <2>3. CASE ~TakesCover
    <3>1. Applied(events).artwork = screen.artwork
      BY <2>1, <2>3, AppliedSound DEF TakesCover, IsCover, Applied
    <3>2. Age(held, refused)
      BY <1>6, <2>1, <2>3, <3>1 DEF IInv, HeldOld
    <3> QED
      BY <1>6, <2>3, <3>2 DEF Age
  <2> QED
    BY <2>2, <2>3
<1> QED
  BY <1>8, <1>9, <1>10 DEF IInv

LEMMA MainLoopStep ==
  ASSUME IInv,
         \/ \E passed \in {0, 1} : PlainFrame(passed)
         \/ TouchLauncher
         \/ \E slot \in Slots : TouchTile(slot)
  PROVE  IInv'
<1>0. now \in Nat /\ touches \in Nat
  BY TimeType DEF IInv, Shape, TypeOK
<1>1. CASE \E passed \in {0, 1} : PlainFrame(passed)
  <2>1. PICK passed \in {0, 1} : PlainFrame(passed)
    BY <1>1
  <2>2. Applied(events) # None => screen # None
    BY DEF Applied
  <2>3. Frame(passed, Applied(events), <<>>) /\ touches' \in Nat
    BY <1>0, <2>1 DEF PlainFrame
  <2> QED
    BY <2>2, <2>3, AppliedSound, FrameStep
<1>2. CASE TouchLauncher
  <2>1. Frame(0, NewScreen(now), <<>>) /\ touches' \in Nat
    BY <1>0, <1>2 DEF TouchLauncher
  <2>2. Sound(NewScreen(now), now)
    BY <1>0, NewScreenSound
  <2> QED
    BY <2>1, <2>2, NewScreenKeeps, FrameStep
<1>3. CASE \E slot \in Slots : TouchTile(slot)
  <2>1. PICK slot \in Slots : TouchTile(slot)
    BY <1>3
  <2> DEFINE shown == Applied(events)
             touched == InvokePin(shown, slot, now)
             commands == <<[kind |-> "Pin", slot |-> slot]>>
  <2>2. /\ shown # None /\ shown.pins[slot] # None
        /\ Frame(0, touched, commands) /\ touches' \in Nat
    BY <1>0, <2>1 DEF TouchTile
  <2>3. screen # None
    BY <2>2 DEF Applied
  <2>4. Sound(shown, now) /\ shown.pinArt = NoPins
    BY <2>3, AppliedSound
  <2> HIDE DEF shown
  <2>5. shown \in ScreenStates
    BY <2>4 DEF Sound
  <2>6. Sound(touched, now)
    BY <1>0, <2>2, <2>4, InvokePinSound
  <2>7. touched.artwork = None /\ touched.pinArt = NoPins
    BY <2>2, <2>4, <2>5, InvokePinKeeps
  <2>8. \E c \in Commands : commands = <<c>>
    BY DEF Commands
  <2> HIDE DEF touched, commands
  <2> QED
    BY <2>2, <2>6, <2>7, <2>8, FrameStep
<1> QED
  BY <1>1, <1>2, <1>3
-----------------------------------------------------------------------------
(* The other tasks.                                                        *)

(* A step of the runtime that loads no cover. *)
LEMMA RuntimeStep ==
  ASSUME IInv, outbox = <<>>,
         UNCHANGED <<main, key, events, pool, touches, keys, moves>>,
         at' \in DOMAIN Queue, stage' \in Stages, failures' \in Nat,
         requests' \in Seq(Commands), Len(requests') <= RequestCapacity,
         driver' \in Drivers, live' \in Option(Statuses),
         \/ outbox' = <<>> /\ (driver'.pendingArt # NoUri => driver.pendingArt # NoUri)
         \/ \E e \in Messages : outbox' = <<e>> /\ ~IsCover(e)
  PROVE  IInv'
<1>1. outbox' = <<>> \/ \E e \in Messages : outbox' = <<e>> /\ ~IsCover(e)
  OBVIOUS
<1>2. \A e : Head(<<e>>) = e /\ <<e>> # <<>> /\ Len(<<e>>) = 1
  OBVIOUS
<1>3. Shape'
  <2>1. Len(outbox') <= 1
    <3>1. CASE outbox' = <<>>
      BY <3>1, EmptySeq
    <3>2. CASE \E e \in Messages : outbox' = <<e>>
      BY <1>2, <3>2
    <3> QED
      BY <1>1, <3>1, <3>2
  <2> QED
    BY <1>1, <2>1 DEF IInv, Shape, TypeOK, OutboxOK, ScreenOK, main, pool
<1>4. OneCover'
  <2>1. IsCover(events)' <=> IsCover(events)
    BY DEF IsCover
  <2>2. outbox' # <<>> => ~IsCover(Head(outbox'))
    BY <1>1, <1>2
  <2>3. driver'.pendingArt # NoUri /\ outbox' = <<>> => driver.pendingArt # NoUri
    BY <1>2
  <2> QED
    BY <2>1, <2>2, <2>3 DEF IInv, OneCover, Age, IsCover, pool
<1>5. HeldOld'
  BY DEF IInv, HeldOld, Age, main, pool
<1> QED
  BY <1>3, <1>4, <1>5 DEF IInv

LEMMA TakeType ==
  ASSUME IInv, NEW kind, Take(kind)
  PROVE  /\ requests' \in Seq(Commands) /\ Len(requests') <= RequestCapacity
         /\ Head(requests) \in Commands /\ Head(requests).kind = kind
<1>1. /\ requests \in Seq(Commands) /\ requests # <<>> /\ requests' = Tail(requests)
      /\ Len(requests) <= RequestCapacity
  BY DEF Take, IInv, Shape, TypeOK
<1>2. Len(requests) \in Nat \ {0} /\ RequestCapacity \in Nat
  BY <1>1, LenProperties, EmptySeq, FirmwareAssumption
<1>3. /\ requests' \in Seq(Commands) /\ Len(requests') = Len(requests) - 1
      /\ Head(requests) \in Commands
  BY <1>1, HeadTailProperties
<1> QED
  BY <1>1, <1>2, <1>3 DEF Take

LEMMA AnsweredType ==
  ASSUME IInv, NEW status \in Statuses, Answered(status)
  PROVE  /\ driver' \in Drivers /\ live' \in Option(Statuses)
         /\ \E e \in Messages : outbox' = <<e>> /\ ~IsCover(e)
<1>1. driver \in Drivers
  BY DEF IInv, Shape, TypeOK
<1>2. StatusEvent(status) \in Messages /\ ~IsCover(StatusEvent(status))
  BY MessageTypes DEF StatusEvent, IsCover
<1> QED
  BY <1>1, <1>2, DriverTypes DEF Answered, Option

LEMMA LoadArtworkStep ==
  ASSUME IInv, LoadArtwork
  PROVE  IInv' /\ ~IsCover(events) /\ outbox = <<>>
<1>0. /\ PoolSize \in Nat \ {0} /\ nextIndex \in PoolSlots /\ refused \in Nat
      /\ held \in PoolSlots /\ driver \in Drivers /\ failures \in Nat
      /\ pixels \in [PoolSlots -> Covers]
  BY FirmwareAssumption DEF IInv, Shape, TypeOK
<1>1. outbox = <<>> /\ ~IsCover(events)
  BY DEF LoadArtwork, Step, IInv, OneCover
<1>2. driver' \in Drivers /\ driver'.pendingArt = NoUri
  BY <1>0, DriverTypes DEF LoadArtwork
<1>3. nextIndex' \in PoolSlots /\ refused' = refused + 1
  BY <1>0, NextIndexType DEF LoadArtwork, Acquire
<1>4. nextIndex + 1 \in {nextIndex', nextIndex' + PoolSize}
  BY <1>0, NextSlot DEF LoadArtwork, Acquire
<1>5. driver.pendingArt \in Uris
  BY <1>0 DEF LoadArtwork, Drivers, Covers
<1>6. \/ outbox' = <<DecodedEvent(driver.pendingArt, nextIndex)>>
         /\ pixels' = [pixels EXCEPT ![nextIndex] = driver.pendingArt]
         /\ failures' = failures
      \/ outbox' = <<>> /\ pixels' = pixels /\ failures' = failures + 1
  BY <1>1 DEF LoadArtwork, Fail
<1>7. DecodedEvent(driver.pendingArt, nextIndex) \in Messages
  BY <1>0, <1>5, MessageTypes
<1>8. /\ UNCHANGED <<main, key, events, touches, keys, moves, at, requests, live>>
      /\ stage' = "pins"
  BY DEF LoadArtwork, Step
<1>9. /\ outbox' = <<>> \/ \E e \in Messages : outbox' = <<e>>
      /\ Len(outbox') <= 1 /\ pixels' \in [PoolSlots -> Covers] /\ failures' \in Nat
  <2>1. (\A e : Len(<<e>>) = 1) /\ Len(<<>>) = 0
    BY EmptySeq
  <2>2. outbox' = <<>> \/ \E e \in Messages : outbox' = <<e>>
    BY <1>6, <1>7
  <2>3. Len(outbox') <= 1
    BY <2>1, <2>2
  <2>4. pixels' \in [PoolSlots -> Covers]
    BY <1>0, <1>5, <1>6 DEF Covers
  <2>5. failures' \in Nat
    BY <1>0, <1>6
  <2> QED
    BY <2>2, <2>3, <2>4, <2>5
<1>10. Shape'
  BY <1>0, <1>2, <1>3, <1>8, <1>9
  DEF IInv, Shape, TypeOK, OutboxOK, ScreenOK, Stages, main
<1>11. OneCover'
  <2>1. IsCover(events') = IsCover(events)
    BY <1>8 DEF IsCover
  <2>2. outbox' # <<>> => Head(outbox') = DecodedEvent(driver.pendingArt, nextIndex)
    BY <1>6
  <2>3. outbox' # <<>> => Head(outbox').slot = nextIndex
    BY <2>2 DEF DecodedEvent
  <2>4. nextIndex + 1 + 0 = nextIndex + 1
    BY <1>0 DEF PoolSlots
  <2>5. outbox' # <<>> => Age(Head(outbox).slot, 0)'
    BY <1>4, <2>3, <2>4 DEF Age
  <2> QED
    BY <1>1, <1>2, <2>1, <2>5 DEF OneCover, IsCover
<1>12. HeldOld'
  <2> SUFFICES ASSUME screen # None, screen.artwork # None, refused + 1 < PoolSize
               PROVE  held + 1 + (refused + 1) \in {nextIndex', nextIndex' + PoolSize}
    BY <1>3, <1>8 DEF HeldOld, Age, main
  <2>1. held + 1 + refused \in {nextIndex, nextIndex + PoolSize}
    BY <1>0 DEF IInv, HeldOld, Age
  <2>2. nextIndex' = IF nextIndex + 1 = PoolSize THEN 0 ELSE nextIndex + 1
    BY <1>0, NextSlot DEF LoadArtwork, Acquire
  <2>3. held + refused + 2 < PoolSize + PoolSize
    BY <1>0 DEF PoolSlots
  <2> QED
    BY <1>0, <2>1, <2>2, <2>3 DEF PoolSlots
<1> QED
  BY <1>1, <1>10, <1>11, <1>12 DEF IInv

(* The event is sent once there is room. *)
LEMMA SendEventStep ==
  ASSUME IInv, SendEvent
  PROVE  IInv'
<1>1. PICK e \in Messages : outbox = <<e>>
  BY DEF SendEvent, IInv, Shape, OutboxOK
<1>2. Head(<<e>>) = e /\ Tail(<<e>>) = <<>> /\ Len(<<>>) = 0
  BY EmptySeq
<1>3. events' = e /\ outbox' = <<>>
  BY <1>1, <1>2 DEF SendEvent
<1>4. Shape'
  BY <1>2, <1>3
  DEF SendEvent, IInv, Shape, TypeOK, OutboxOK, ScreenOK, Option, main, pool, bounds
<1>5. OneCover'
  <2>1. outbox # <<>> /\ Head(outbox) = e
    BY <1>1, <1>2 DEF SendEvent
  <2>2. IsCover(e) => Age(e.slot, 0) /\ driver.pendingArt = NoUri
    BY <2>1 DEF IInv, OneCover
  <2> QED
    BY <1>3, <2>2 DEF SendEvent, OneCover, IsCover, Age, pool
<1>6. HeldOld'
  BY DEF SendEvent, IInv, HeldOld, Age, main, pool
<1> QED
  BY <1>4, <1>5, <1>6 DEF IInv

(* The key and the device: neither puts a cover into the channel. *)
LEMMA EnvironmentStep ==
  ASSUME IInv, UNCHANGED <<main, requests, runtime, pool, touches, failures>>,
         at' \in DOMAIN Queue, key' \in BOOLEAN, keys' \in Nat, moves' \in Nat,
         events' = events \/ events' = [kind |-> "Back"]
  PROVE  IInv'
<1>1. events' \in Option(Messages) /\ (IsCover(events') => events' = events)
  BY MessageTypes DEF IsCover, IInv, Shape, Option
<1>2. Shape'
  BY <1>1 DEF IInv, Shape, TypeOK, OutboxOK, ScreenOK, main, runtime, pool
<1>3. OneCover'
  BY <1>1 DEF IInv, OneCover, IsCover, Age, runtime, pool
<1>4. HeldOld'
  BY DEF IInv, HeldOld, Age, main, pool
<1> QED
  BY <1>2, <1>3, <1>4 DEF IInv

LEMMA TakePinStep ==
  ASSUME IInv, TakePin \/ TakePinFailing
  PROVE  IInv'
<1>0. /\ at \in DOMAIN Queue /\ driver \in Drivers /\ live \in Option(Statuses)
      /\ failures \in Nat
  BY DEF IInv, Shape, TypeOK
<1>1. Take("Pin")
  BY DEF TakePin, TakePinFailing
<1>2. /\ UNCHANGED <<main, key, events, pool, touches, keys, moves>>
      /\ stage' \in Stages /\ outbox = <<>>
  BY <1>1 DEF Take, Step, Stages
<1>3. /\ requests' \in Seq(Commands) /\ Len(requests') <= RequestCapacity
      /\ Head(requests) \in Commands /\ Head(requests).kind = "Pin"
  BY <1>1, TakeType
<1>4. PinStarts[Head(requests).slot] \in DOMAIN Queue
  BY <1>3, FirmwareAssumption DEF Commands
<1>5. at' \in DOMAIN Queue /\ failures' \in Nat
  BY <1>0, <1>4 DEF TakePin, TakePinFailing, Fail
<1>6. Queue[at'] \in Statuses
  BY <1>5, QueueStatus
<1>7. CASE UNCHANGED <<driver, outbox, live>>
  BY <1>0, <1>2, <1>3, <1>5, <1>7, RuntimeStep
<1>8. CASE Answered(Queue[at'])
  <2>1. /\ driver' \in Drivers /\ live' \in Option(Statuses)
        /\ \E e \in Messages : outbox' = <<e>> /\ ~IsCover(e)
    BY <1>6, <1>8, AnsweredType
  <2> QED
    BY <1>2, <1>3, <1>5, <2>1, RuntimeStep
<1>9. CASE live # None /\ Answered(live)
  <2>1. live \in Statuses
    BY <1>0, <1>9 DEF Option
  <2>2. /\ driver' \in Drivers /\ live' \in Option(Statuses)
        /\ \E e \in Messages : outbox' = <<e>> /\ ~IsCover(e)
    BY <1>9, <2>1, AnsweredType
  <2> QED
    BY <1>2, <1>3, <1>5, <2>2, RuntimeStep
<1> QED
  BY <1>7, <1>8, <1>9 DEF TakePin, TakePinFailing

LEMMA PollStep ==
  ASSUME IInv, Poll
  PROVE  IInv'
<1>0. at \in DOMAIN Queue /\ live \in Option(Statuses) /\ failures \in Nat
  BY DEF IInv, Shape, TypeOK
<1>1. /\ UNCHANGED <<main, key, events, pool, touches, keys, moves, at, requests, failures>>
      /\ stage' \in Stages /\ outbox = <<>>
  BY DEF Poll, Step, Stages
<1>2. PICK status \in Statuses : Answered(status)
  BY <1>0, QueueStatus DEF Poll, Option
<1>3. /\ driver' \in Drivers /\ live' \in Option(Statuses)
      /\ \E e \in Messages : outbox' = <<e>> /\ ~IsCover(e)
  BY <1>2, AnsweredType
<1>4. requests' \in Seq(Commands) /\ Len(requests') <= RequestCapacity
  BY <1>1 DEF IInv, Shape, TypeOK
<1> QED
  BY <1>0, <1>1, <1>3, <1>4, RuntimeStep

LEMMA FetchPinsStep ==
  ASSUME IInv, FetchPins
  PROVE  IInv'
<1>0. /\ at \in DOMAIN Queue /\ driver \in Drivers /\ live \in Option(Statuses)
      /\ failures \in Nat
      /\ requests \in Seq(Commands) /\ Len(requests) <= RequestCapacity
  BY DEF IInv, Shape, TypeOK
<1>1. /\ UNCHANGED <<main, key, events, pool, touches, keys, moves, at, requests, live>>
      /\ stage' \in Stages /\ outbox = <<>>
  BY DEF FetchPins, Step, Stages
<1>2. failures' \in Nat
  BY <1>0 DEF FetchPins, Fail
<1>3. CASE UNCHANGED <<driver, outbox>>
  BY <1>0, <1>1, <1>2, <1>3, RuntimeStep
<1>4. CASE driver' = FetchedPins(driver, PinList) /\ outbox' = <<PinsEvent(PinList)>>
  <2>1. driver' \in Drivers
    BY <1>0, <1>4, DriverTypes
  <2>2. PinsEvent(PinList) \in Messages /\ ~IsCover(PinsEvent(PinList))
    BY MessageTypes DEF PinsEvent, IsCover
  <2> QED
    BY <1>0, <1>1, <1>2, <1>4, <2>1, <2>2, RuntimeStep
<1>5. CASE driver' = TriedPins(driver) /\ UNCHANGED outbox
  <2>1. driver' \in Drivers /\ driver'.pendingArt = driver.pendingArt
    BY <1>0, <1>5, DriverTypes
  <2> QED
    BY <1>0, <1>1, <1>2, <1>5, <2>1, RuntimeStep
<1> QED
  BY <1>3, <1>4, <1>5 DEF FetchPins

(* The steps that bring nothing. *)
LEMMA QuietStep ==
  ASSUME IInv,
         \/ NetworkUp \/ TakeSetActive \/ NoMoreRequests \/ SkipPoll
         \/ PollBringsNothing \/ NothingToLoad \/ Rest
  PROVE  IInv'
<1>0. /\ at \in DOMAIN Queue /\ driver \in Drivers /\ live \in Option(Statuses)
      /\ failures \in Nat
      /\ requests \in Seq(Commands) /\ Len(requests) <= RequestCapacity
  BY DEF IInv, Shape, TypeOK
<1>1. /\ UNCHANGED <<main, key, events, pool, touches, keys, moves, at, live>>
      /\ stage' \in Stages /\ outbox = <<>>
  BY DEF NetworkUp, TakeSetActive, NoMoreRequests, SkipPoll, PollBringsNothing,
         NothingToLoad, Rest, Take, Step, Stages
<1>2. CASE NetworkUp
  <2>1. [kind |-> "Network"] \in Messages /\ ~IsCover([kind |-> "Network"])
    BY MessageTypes DEF IsCover
  <2> QED
    BY <1>0, <1>1, <1>2, <2>1, RuntimeStep DEF NetworkUp
<1>3. CASE TakeSetActive
  <2>1. driver' \in Drivers /\ driver'.pendingArt = driver.pendingArt
    BY <1>0, <1>3, DriverTypes DEF TakeSetActive
  <2>2. Take("SetActive") /\ outbox' = outbox /\ failures' = failures
    BY <1>3 DEF TakeSetActive
  <2>3. requests' \in Seq(Commands) /\ Len(requests') <= RequestCapacity
    BY <2>2, TakeType
  <2>4. at' \in DOMAIN Queue /\ failures' \in Nat /\ live' \in Option(Statuses)
    BY <1>0, <1>1, <2>2
  <2>5. outbox' = <<>> /\ (driver'.pendingArt # NoUri => driver.pendingArt # NoUri)
    BY <1>1, <2>1, <2>2
  <2> QED
    BY <1>1, <2>1, <2>3, <2>4, <2>5, RuntimeStep
<1>4. CASE NoMoreRequests \/ SkipPoll \/ NothingToLoad \/ Rest
  <2>1. UNCHANGED <<requests, outbox, driver, failures>>
    BY <1>4 DEF NoMoreRequests, SkipPoll, NothingToLoad, Rest
  <2> QED
    BY <1>0, <1>1, <2>1, RuntimeStep
<1>5. CASE PollBringsNothing
  <2>1. driver' \in Drivers /\ driver'.pendingArt = driver.pendingArt
    BY <1>0, <1>5, DriverTypes DEF PollBringsNothing
  <2>2. failures' \in Nat /\ UNCHANGED <<requests, outbox>>
    BY <1>0, <1>5 DEF PollBringsNothing, Fail
  <2> QED
    BY <1>0, <1>1, <2>1, <2>2, RuntimeStep
<1> QED
  BY <1>2, <1>3, <1>4, <1>5
-----------------------------------------------------------------------------
(* The flow.                                                               *)

LEMMA InitIInv == Init => IInv
<1> SUFFICES ASSUME Init PROVE IInv
  OBVIOUS
<1>1. PoolSize \in Nat \ {0} /\ RequestCapacity \in Nat /\ MaxTime \in Nat
  BY FirmwareAssumption
<1>2. NewDriver \in Drivers /\ NewDriver.pendingArt = NoUri
  BY DEF NewDriver, Drivers, Covers, Option, NoPins
<1>3. /\ 0 \in PoolSlots /\ 0 \in 0..MaxTime /\ Len(<<>>) = 0
      /\ [slot \in PoolSlots |-> NoUri] \in [PoolSlots -> Covers]
  BY <1>1, EmptySeq DEF PoolSlots, Covers
<1>4. TypeOK
  BY <1>1, <1>2, <1>3 DEF Init, TypeOK, Stages, Option
<1>5. Shape
  BY <1>4, EmptySeq DEF Init, Shape, OutboxOK, ScreenOK, Option
<1> QED
  BY <1>2, <1>5 DEF Init, IInv, OneCover, HeldOld, IsCover

LEMMA NextIInv == IInv /\ [Next]_vars => IInv'
<1> SUFFICES ASSUME IInv, [Next]_vars PROVE IInv'
  OBVIOUS
<1>0. at \in DOMAIN Queue /\ key \in BOOLEAN /\ keys \in Nat /\ moves \in Nat
  BY DEF IInv, Shape, TypeOK
<1>1. CASE \/ \E passed \in {0, 1} : PlainFrame(passed)
           \/ TouchLauncher
           \/ \E slot \in Slots : TouchTile(slot)
  BY <1>1, MainLoopStep
<1>2. CASE PressKey
  BY <1>0, <1>2, EnvironmentStep DEF PressKey, channels
<1>3. CASE SendKey
  BY <1>0, <1>3, EnvironmentStep DEF SendKey, bounds
<1>4. CASE DeviceMoves
  BY <1>0, <1>4, EnvironmentStep DEF DeviceMoves, channels
<1>5. CASE SendEvent
  BY <1>5, SendEventStep
<1>6. CASE TakePin \/ TakePinFailing
  BY <1>6, TakePinStep
<1>7. CASE Poll
  BY <1>7, PollStep
<1>8. CASE FetchPins
  BY <1>8, FetchPinsStep
<1>9. CASE LoadArtwork
  BY <1>9, LoadArtworkStep
<1>10. CASE \/ NetworkUp \/ TakeSetActive \/ NoMoreRequests \/ SkipPoll
            \/ PollBringsNothing \/ NothingToLoad \/ Rest
  BY <1>10, QuietStep
<1>11. CASE UNCHANGED vars
  BY <1>0, <1>11, EnvironmentStep DEF vars, channels, bounds
<1> QED
  BY <1>1, <1>2, <1>3, <1>4, <1>5, <1>6, <1>7, <1>8, <1>9, <1>10, <1>11
  DEF Next, RuntimeTask

LEMMA IInvHolds == Spec => []IInv
BY InitIInv, NextIInv, PTL DEF Spec

(* Whatever the tasks send each other and in whichever order they run, the *)
(* state keeps its shape: the index stays in the pool, the queue within    *)
(* its capacity, one event waits at most. *)
THEOREM TypeCorrect == Spec => []TypeOK
<1>1. IInv => TypeOK
  BY DEF IInv, Shape
<1> QED
  BY <1>1, IInvHolds, PTL

(* The slot a cover is written into is seen by nobody as long as fewer     *)
(* covers were decoded since the app took one than the pool has others.    *)
LEMMA WriteUnseen ==
  ASSUME IInv, Next, nextIndex' # nextIndex, refused < PoolSize - 1
  PROVE  nextIndex \notin Viewed
<1>0. /\ PoolSize \in Nat \ {0} /\ nextIndex \in PoolSlots /\ refused \in Nat
      /\ held \in PoolSlots
  BY FirmwareAssumption DEF IInv, Shape, TypeOK
<1>1. LoadArtwork
  BY DEF Next, RuntimeTask, PlainFrame, TouchLauncher, TouchTile, Frame, PressKey,
         SendKey, DeviceMoves, NetworkUp, SendEvent, TakeSetActive, TakePin,
         TakePinFailing, Take, NoMoreRequests, SkipPoll, Poll, PollBringsNothing,
         NothingToLoad, FetchPins, Rest, pool
<1>2. ~IsCover(events) /\ outbox = <<>>
  BY <1>1, LoadArtworkStep
<1>3. Viewed \subseteq
        (IF screen = None THEN {} ELSE IF screen.artwork = None THEN {} ELSE {held})
  BY <1>2 DEF Viewed, IsCover
<1>4. CASE screen # None /\ screen.artwork # None
  <2>1. held + 1 + refused \in {nextIndex, nextIndex + PoolSize}
    BY <1>0, <1>4 DEF IInv, HeldOld, Age
  <2>2. held # nextIndex
    BY <1>0, <2>1 DEF PoolSlots
  <2> QED
    BY <1>3, <1>4, <2>2
<1>5. CASE ~(screen # None /\ screen.artwork # None)
  BY <1>3, <1>5
<1> QED
  BY <1>4, <1>5

(* The pool's slots are recycled behind the app's back: for every size of  *)
(* the pool. *)
THEOREM SlotsAreWrittenUnseen == Spec => WritesUnseen
<1>1. IInv /\ [Next]_vars
        => [nextIndex' # nextIndex /\ refused < PoolSize - 1
              => nextIndex \notin Viewed]_vars
  BY WriteUnseen DEF vars, pool
<1> QED
  BY <1>1, IInvHolds, PTL DEF Spec, WritesUnseen
=============================================================================
