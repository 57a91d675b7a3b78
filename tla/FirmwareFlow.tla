---------------------------- MODULE FirmwareFlow ----------------------------
(***************************************************************************)
(* The firmware end to end (apps/firmware/src/main.rs, artwork_pool.rs):   *)
(* the main loop with the app, the task that drives the HiFi runtime, the  *)
(* BOOT key's task, the two bounded channels between them and the three    *)
(* slots covers are decoded into.  HifiScreen and HifiDriver say what      *)
(* either side does with a message.                                        *)
(*                                                                         *)
(* The tasks share one executor, so a task runs until it waits: the main   *)
(* loop between two frames, the others where a channel is full or a timer  *)
(* runs (network calls block the executor).  Touches are inert on the Now  *)
(* Playing page, and the key only turns pages: the one command a firmware  *)
(* user has is a pin.                                                      *)
(***************************************************************************)
EXTENDS HifiDriver, HifiScreen

CONSTANTS
  Queue,            \* the statuses the device may be in
  PinList,          \* its pins
  PinStarts,        \* what each starts: a place in Queue
  PoolSize,         \* POOL_SIZE
  RequestCapacity,  \* capacity of HIFI_REQUESTS; FIRMWARE_EVENTS has 1
  MaxTouches, MaxKeys, MaxMoves, MaxFailures, MaxTime \* bounds of the environment

ASSUME FirmwareAssumption ==
  /\ Queue \in Seq(Statuses) /\ Queue # <<>>
  /\ PinList \in [Slots -> Option(Pins)]
  /\ PinStarts \in [Slots -> DOMAIN Queue]
  /\ PoolSize \in Nat \ {0} /\ RequestCapacity \in Nat \ {0}
  /\ {MaxTouches, MaxKeys, MaxMoves, MaxFailures, MaxTime} \subseteq Nat

VARIABLES
  at,         \* the device's place in Queue
  (* the main loop *)
  screen,     \* the HiFi screen, None while the launcher is up
  now,
  focused,    \* hifi_screen_active
  held,       \* the slot the app's cover is in
  (* the BOOT key's task *)
  key,        \* is a press of it waiting for room?
  (* the channels *)
  events,     \* FIRMWARE_EVENTS: an event or None
  requests,   \* HIFI_REQUESTS
  (* the runtime task *)
  stage,      \* the step of its loop it is at
  outbox,     \* the events that step has yet to send
  driver,
  live,       \* the session's status, None before the device has reported
  (* the pool *)
  nextIndex,  \* ArtworkPool.next_index
  pixels,     \* whose pixels are in each slot
  refused,    \* covers decoded since the app last took one
  (* the environment *)
  touches, keys, moves, failures

main == <<screen, now, focused, held>>
channels == <<events, requests>>
runtime == <<stage, outbox, driver, live>>
pool == <<nextIndex, pixels, refused>>
bounds == <<touches, keys, moves, failures>>
vars == <<at, main, key, channels, runtime, pool, bounds>>

PoolSlots == 0..(PoolSize - 1)
Stages == {"down", "requests", "poll", "load", "pins", "rest"}

Init ==
  /\ at \in DOMAIN Queue
  /\ screen = None /\ now = 0 /\ focused = FALSE /\ held = 0
  /\ key = FALSE
  /\ events = None /\ requests = <<>>
  /\ stage = "down" /\ outbox = <<>> /\ driver = NewDriver /\ live = None
  /\ nextIndex = 0 /\ pixels = [slot \in PoolSlots |-> NoUri] /\ refused = 0
  /\ touches = 0 /\ keys = 0 /\ moves = 0 /\ failures = 0

(* A decoded cover, the pixels still in their slot. *)
DecodedEvent(uri, slot) == [kind |-> "Artwork", uri |-> uri, slot |-> slot]

(* May another task run? *)
RuntimeWaits == stage \in {"down", "rest"} \/ (outbox # <<>> /\ events # None)
-----------------------------------------------------------------------------
(* The main loop.                                                          *)

(* App::update; before the HiFi screen is up nothing listens. *)
Applied(event) ==
  IF event = None \/ screen = None THEN screen
  ELSE CASE event.kind = "Status"  -> ApplyStatus(screen, event.status, now)
         [] event.kind = "Artwork" -> ApplyArtwork(screen, event.uri)
         [] event.kind = "Pins"    -> ApplyPins(screen, event.pins)
         [] event.kind = "Back"    -> TurnPage(screen)
         [] event.kind = "Network" -> screen

(* The app takes the cover that is there; it keeps one it has of that uri.  *)
TakesCover ==
  IF events = None \/ screen = None THEN FALSE
  ELSE events.kind = "Artwork" /\ Applied(events).artwork # screen.artwork

(* send_hifi_request: dropped when the queue is full. *)
TrySend(queue, request) ==
  IF Len(queue) < RequestCapacity THEN Append(queue, request) ELSE queue

(* The user is done early enough for what a pin shows to lapse. *)
MayTouch == touches < MaxTouches /\ now + OptimisticTtl <= MaxTime

(* One frame: the event that is there, perhaps a touch that shows `touched' *)
(* and makes a command, a tick; then the runtime hears of a screen come up *)
(* and of the command.  No second event can arrive before the frame waits. *)
Frame(passed, touched, commands) ==
  /\ RuntimeWaits
  /\ now' = now + passed /\ now' <= MaxTime
  /\ screen' = IF touched = None THEN None ELSE OnTick(touched, now')
  /\ held' = IF TakesCover THEN events.slot ELSE held
  /\ refused' = IF TakesCover THEN 0 ELSE refused
  /\ focused' = (screen' # None)
  /\ LET told == IF focused' = focused THEN requests
                 ELSE TrySend(requests, [kind |-> "SetActive"])
     IN  requests' = IF commands = <<>> THEN told ELSE TrySend(told, Head(commands))
  /\ events' = None
  /\ UNCHANGED <<at, key, runtime, nextIndex, pixels, keys, moves, failures>>

PlainFrame(passed) == Frame(passed, Applied(events), <<>>) /\ UNCHANGED touches

TouchLauncher ==
  /\ screen = None /\ MayTouch
  /\ touches' = touches + 1
  /\ Frame(0, NewScreen(now), <<>>)

TouchTile(slot) ==
  LET shown == Applied(events)
  IN  /\ shown # None /\ MayTouch
      /\ shown.page = "Choices" /\ shown.pins[slot] # None
      /\ touches' = touches + 1
      /\ Frame(0, InvokePin(shown, slot, now), <<[kind |-> "Pin", slot |-> slot]>>)
-----------------------------------------------------------------------------
(* The BOOT key's task, the device and the channel.                        *)

PressKey ==
  /\ RuntimeWaits
  /\ ~key /\ keys < MaxKeys
  /\ key' = TRUE /\ keys' = keys + 1
  /\ UNCHANGED <<at, main, channels, runtime, pool, touches, moves, failures>>

SendKey ==
  /\ RuntimeWaits
  /\ key /\ events = None
  /\ key' = FALSE
  /\ events' = [kind |-> "Back"]
  /\ UNCHANGED <<at, main, requests, runtime, pool, bounds>>

DeviceMoves ==
  /\ moves < MaxMoves
  /\ moves' = moves + 1
  /\ at' \in DOMAIN Queue \ {at}
  /\ UNCHANGED <<main, key, channels, runtime, pool, touches, keys, failures>>
-----------------------------------------------------------------------------
(* The runtime task: hifi_runtime_loop and FirmwareHifi.                   *)

(* send_app_event waits for room. *)
SendEvent ==
  /\ outbox # <<>> /\ events = None
  /\ events' = Head(outbox)
  /\ outbox' = Tail(outbox)
  /\ UNCHANGED <<at, main, key, requests, stage, driver, live, pool, bounds>>

(* One step of the loop. *)
Step(from, to) ==
  /\ stage = from /\ outbox = <<>>
  /\ stage' = to
  /\ UNCHANGED <<main, key, events, touches, keys, moves>>

Fail == failures < MaxFailures /\ failures' = failures + 1

NetworkUp ==
  /\ Step("down", "requests")
  /\ outbox' = <<[kind |-> "Network"]>>
  /\ UNCHANGED <<at, requests, driver, live, pool, failures>>

Take(kind) ==
  /\ Step("requests", "requests")
  /\ requests # <<>> /\ Head(requests).kind = kind
  /\ requests' = Tail(requests)
  /\ UNCHANGED pool

TakeSetActive ==
  /\ Take("SetActive")
  /\ driver' = SetActive(driver, TRUE)
  /\ UNCHANGED <<at, outbox, live, failures>>

(* What FirmwareHifi::status answers, be it from the command's response,   *)
(* the events or the session's memory; the device has reported before.     *)
Answered(status) ==
  /\ live' = status
  /\ driver' = RefreshStatus(driver, status)
  /\ outbox' = <<StatusEvent(status)>>

(* HifiDriver::handle_command for a pin. *)
TakePin ==
  /\ Take("Pin")
  /\ driver.active
  /\ at' = PinStarts[Head(requests).slot]
  /\ \/ Answered(Queue[at'])
     \/ live # None /\ Answered(live)
     \/ live = None /\ UNCHANGED <<driver, outbox, live>>
  /\ UNCHANGED failures

(* It fails, before the device took it or after. *)
TakePinFailing ==
  /\ Take("Pin")
  /\ driver.active
  /\ at' \in {at, PinStarts[Head(requests).slot]}
  /\ Fail
  /\ UNCHANGED <<driver, outbox, live>>

NoMoreRequests ==
  /\ requests = <<>>
  /\ Step("requests", "poll")
  /\ UNCHANGED <<at, requests, outbox, driver, live, pool, failures>>

SkipPoll ==
  /\ Step("poll", "load")
  /\ ~(driver.active /\ driver.pollRequested)
  /\ UNCHANGED <<at, requests, outbox, driver, live, pool, failures>>

\* Mutated: the interval is forgotten.
PollWhenAsked ==
  /\ Step("poll", "load")
  /\ driver.active /\ driver.pollRequested
  /\ \/ Answered(Queue[at])
     \/ live # None /\ Answered(live)
  /\ UNCHANGED <<at, requests, pool, failures>>

(* The device has announced its track, or has nothing new. *)
Poll ==
  /\ Step("poll", "load")
  /\ driver.active
  /\ \/ Answered(Queue[at])
     \/ live # None /\ Answered(live)
  /\ UNCHANGED <<at, requests, pool, failures>>

PollBringsNothing ==
  /\ Step("poll", "load")
  /\ driver.active
  /\ \/ live = None /\ driver' = PollBrought(driver, "Nothing") /\ UNCHANGED failures
     \/ Fail /\ driver' = PollBrought(driver, "Error")
  /\ UNCHANGED <<at, requests, outbox, live, pool>>

NothingToLoad ==
  /\ Step("load", "pins")
  /\ ~driver.active \/ driver.pendingArt = NoUri
  /\ UNCHANGED <<at, requests, outbox, driver, live, pool, failures>>

\* Mutated: a pool of one slot less.
AcquireOfFewer ==
  /\ nextIndex' = (nextIndex + 1) % (PoolSize - 1)
  /\ refused' = refused + 1

\* Mutated: the index runs off the end of the pool.
AcquirePastEnd ==
  /\ nextIndex' = nextIndex + 1
  /\ refused' = refused + 1

(* ArtworkPool::acquire *)
Acquire ==
  /\ nextIndex' = (nextIndex + 1) % PoolSize
  /\ refused' = refused + 1

(* FirmwareHifi::artwork takes a slot first, and only then loads; pixels   *)
(* are written by the last thing that can fail.                            *)
LoadArtwork ==
  /\ Step("load", "pins")
  /\ driver.active /\ driver.pendingArt # NoUri
  /\ driver' = LoadPending(driver)
  /\ Acquire
  /\ \/ /\ pixels' = [pixels EXCEPT ![nextIndex] = driver.pendingArt]
        /\ outbox' = <<DecodedEvent(driver.pendingArt, nextIndex)>>
        /\ UNCHANGED failures
     \/ Fail /\ UNCHANGED <<pixels, outbox>>
  /\ UNCHANGED <<at, requests, live>>

FetchPins ==
  /\ Step("pins", "rest")
  /\ IF ~driver.active \/ driver.pinsFetched
     THEN UNCHANGED <<driver, outbox, failures>>
     ELSE \/ /\ driver' = FetchedPins(driver, PinList)
             /\ outbox' = <<PinsEvent(PinList)>>
             /\ UNCHANGED failures
          \/ Fail /\ driver' = TriedPins(driver) /\ UNCHANGED outbox
  /\ UNCHANGED <<at, requests, live, pool>>

Rest ==
  /\ Step("rest", "requests")
  /\ UNCHANGED <<at, requests, outbox, driver, live, pool, failures>>

RuntimeTask ==
  \/ SendEvent \/ TakeSetActive \/ TakePin \/ TakePinFailing
  \/ NoMoreRequests \/ SkipPoll \/ Poll \/ PollBringsNothing
  \/ NothingToLoad \/ LoadArtwork \/ FetchPins \/ Rest
-----------------------------------------------------------------------------
Next ==
  \/ \E passed \in {0, 1} : PlainFrame(passed)
  \/ TouchLauncher
  \/ \E slot \in Slots : TouchTile(slot)
  \/ PressKey \/ SendKey \/ DeviceMoves
  \/ NetworkUp \/ RuntimeTask

(* The executor runs every task; time passes; a poll reads what the device *)
(* has announced some time.                                                *)
Fairness ==
  /\ WF_vars(PlainFrame(0)) /\ SF_vars(PlainFrame(1))
  /\ SF_vars(SendKey)
  /\ SF_vars(SendEvent) /\ WF_vars(RuntimeTask)
  /\ SF_vars(Poll /\ live' = Queue[at])

Spec == Init /\ [][Next]_vars /\ Fairness
-----------------------------------------------------------------------------
(* The shape of the state. *)
TypeOK ==
  /\ at \in DOMAIN Queue
  /\ screen \in Option(ScreenStates) /\ now \in 0..MaxTime
  /\ focused \in BOOLEAN /\ held \in PoolSlots /\ key \in BOOLEAN
  /\ Len(requests) <= RequestCapacity
  /\ stage \in Stages /\ Len(outbox) <= 1
  /\ driver \in Drivers /\ live \in Option(Statuses)
  /\ nextIndex \in PoolSlots /\ pixels \in [PoolSlots -> Covers]
  /\ refused \in Nat
  /\ {touches, keys, moves, failures} \subseteq Nat

(* The slots a live view points into: the app's, the channel's and the one *)
(* of an event on its way there.                                           *)
Viewed ==
  (IF screen = None THEN {} ELSE IF screen.artwork = None THEN {} ELSE {held})
  \cup {e.slot : e \in {x \in {events} \cup {outbox[i] : i \in DOMAIN outbox} :
                          x # None /\ x.kind = "Artwork"}}

(* A slot is written while nothing can see it, unless the app has kept one *)
(* cover while as many as the pool has other slots were decoded (failed,   *)
(* or refused by the screen).                                              *)
WritesUnseen ==
  [][nextIndex' # nextIndex /\ refused < PoolSize - 1
       => nextIndex \notin Viewed]_vars

(* However tracks change, pins are tapped or dropped and polls fail, once   *)
(* the network is up and the world rests the words are the device's.       *)
WordsCome ==
  <>[](stage # "down" /\ screen # None)
    => <>[](IF screen = None THEN FALSE ELSE screen.status.title = Queue[at].title)
-----------------------------------------------------------------------------
(* What a comment of the repository says of the pool and the code does not *)
(* do.                                                                     *)

(* artwork_pool.rs, acquire: "the slot we are about to mutate cannot be    *)
(* referenced by any live `&'static` view: ... by then every slot's prior  *)
(* view has been displaced from each of those three holders."              *)
NoViewOfTheSlot == [][nextIndex' # nextIndex => nextIndex \notin Viewed]_vars
=============================================================================
