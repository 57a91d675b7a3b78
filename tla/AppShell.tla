------------------------------ MODULE AppShell ------------------------------
(***************************************************************************)
(* The whole app on a panel: App::update and App::render of                *)
(* crates/app-core/src/lib.rs and ui/render.rs, the launcher and the       *)
(* stopwatch with the HiFi screen of HifiScreen, the focus ring, and the   *)
(* loops that draw a frame when an update asked for one (main of           *)
(* apps/firmware/src/main.rs, update and redraw_png_if_needed of           *)
(* apps/sim/src/main.rs).                                                  *)
(*                                                                         *)
(* The clock counts units that are also the spinners' phases.              *)
(***************************************************************************)
EXTENDS Panel

CONSTANTS
  Targets,  \* the panels the app is drawn on
  Worlds    \* what the user may do and the runtime report

ScreenNames == {"Launcher", "Stopwatch", "HifiControl"}
AllNetworks == {"Offline", "Connecting", "Online"}
AllButtons == Directions \cup {"Select", "Back"}

(* What the stopwatch's page may say: WatchShown. *)
WatchStates == BOOLEAN \X Nat \X AllNetworks \X Nat

(* A world is one choice of that, kept throughout a behaviour: the screens  *)
(* the app may start on, the buttons the user has, the states of the        *)
(* network, what may be reported, and bounds on the clock, on a tick, on    *)
(* touches and presses, and on frames that fail.                            *)
IsWorld(w) ==
  /\ DOMAIN w = {"first", "buttons", "networks", "reports", "covers", "pinLists",
                 "pinCovers", "time", "jump", "taps", "failures"}
  /\ w.first \subseteq ScreenNames /\ w.first # {}
  /\ w.networks \subseteq AllNetworks /\ w.buttons \subseteq AllButtons
  /\ w.reports \subseteq Statuses /\ w.pinLists \subseteq [Slots -> Option(Pins)]
  /\ w.covers \subseteq Uris /\ w.pinCovers \subseteq Slots \X Uris
  /\ {w.time, w.jump, w.taps, w.failures} \subseteq Nat

ASSUME ShellAssumption ==
  /\ \A w \in Worlds : IsWorld(w)
  /\ \E n \in 0..4 : Slots = 1..n  \* CHOICES_VISIBLE of them
  /\ None \notin ScreenNames \cup AllNetworks \cup WatchStates

VARIABLES
  app,       \* App
  session,   \* the RenderSession of each target
  panel,     \* what each target shows
  pending,   \* the targets an update asked a frame for since the last one
  failed,    \* the targets whose last frame failed
  failures,
  world,
  (* for the properties *)
  carried,   \* is the ring one that was set on another page?
  ran, runs  \* how long the stopwatch has run, and how often

vars == <<app, session, panel, pending, failed, failures, world, carried, ran, runs>>
-----------------------------------------------------------------------------
(* ActiveScreen, and the two small screens' states.                        *)

NewActive(name, now) ==
  CASE name = "Launcher"    -> [screen |-> name, ticked |-> None]
    [] name = "Stopwatch"   -> [screen |-> name, running |-> FALSE,
                                seconds |-> 0, last |-> 0]
    [] name = "HifiControl" -> [screen |-> name, hifi |-> NewScreen(now)]

Connecting(a) == a.network = "Connecting"

(* launcher State::on_tick: did the spinner move? *)
LauncherTicks(a, now) == Connecting(a) /\ a.active.ticked # Phase(now)

LauncherTick(a, now) ==
  [a.active EXCEPT !.ticked = IF Connecting(a) THEN Phase(now) ELSE None]

\* Mutated: a watch started again counts from when it last stood still.
StopwatchStartStale(watch, now) == [watch EXCEPT !.running = TRUE]

(* stopwatch State::on_tick: whole seconds of the clock that have gone by.  *)
StopwatchTick(watch, now) ==
  IF ~watch.running \/ Second(now) <= watch.last THEN watch
  ELSE [watch EXCEPT !.seconds = @ + (Second(now) - watch.last), !.last = Second(now)]

StopwatchStart(watch, now) == [watch EXCEPT !.running = TRUE, !.last = Second(now)]
StopwatchStop(watch, now) == [StopwatchTick(watch, now) EXCEPT !.running = FALSE]
-----------------------------------------------------------------------------
(* The focus ring.                                                         *)

TileTargets == [slot \in Slots |-> Tile(slot)]

(* focus_targets: the Now Playing page publishes none. *)
TargetsOf(a) ==
  CASE a.active.screen = "Launcher"  -> LauncherTargets
    [] a.active.screen = "Stopwatch" -> StopwatchTargets
    [] a.active.screen = "HifiControl" ->
         IF a.active.hifi.page = "Choices" THEN TileTargets ELSE <<>>

(* focused_rect: the control the ring is on, if the page has it. *)
FocusedOn(a) == IF a.focus \in DOMAIN TargetsOf(a) THEN a.focus ELSE NoFocus

Navigate(a, name) ==
  [a EXCEPT !.active = NewActive(name, a.now), !.focus = NoFocus]
-----------------------------------------------------------------------------
(* App::update.  A handler yields the app after it and whether it asks for *)
(* a frame.                                                                *)

Outcome(a, redraw) == [app |-> a, redraw |-> redraw]

SetFocus(a, focus) == Outcome([a EXCEPT !.focus = focus], focus # a.focus)

Tapped(a) == [a EXCEPT !.taps = @ + 1]

(* What a tap on the i-th control of the page does, 0 for beside them all.  *)
TapControl(a, i) ==
  IF i = NoFocus THEN a
  ELSE CASE a.active.screen = "Launcher" -> Navigate(a, LauncherScreens[i])
    [] a.active.screen = "Stopwatch" ->
         IF StopwatchActions[i] = "Start" /\ ~a.active.running
         THEN [a EXCEPT !.active = StopwatchStart(a.active, a.now)]
         ELSE IF StopwatchActions[i] = "Stop" /\ a.active.running
         THEN [a EXCEPT !.active = StopwatchStop(a.active, a.now)]
         ELSE a
    [] a.active.screen = "HifiControl" ->
         IF a.active.hifi.pins[i] = None THEN a
         ELSE [a EXCEPT !.active.hifi = InvokePin(a.active.hifi, i, a.now)]

(* handle_touch: the ring follows the finger once there is one. *)
HandleTouch(a, point) ==
  LET i     == FocusHit(TargetsOf(a), point)
      moved == IF a.focus # NoFocus /\ i # NoFocus
               THEN [a EXCEPT !.focus = i] ELSE a
  IN  TapControl(moved, i)

(* activate_focused: a tap in the middle of the control; the first press   *)
(* only shows the ring. *)
ActivateFocused(a) ==
  IF FocusedOn(a) # NoFocus
  THEN Outcome(HandleTouch(a, Centre(TargetsOf(a)[a.focus])), TRUE)
  ELSE SetFocus(a, 1)

GoBack(a) ==
  IF a.active.screen = "Launcher" THEN Outcome(a, FALSE)
  ELSE Outcome(Navigate(a, "Launcher"), TRUE)

MoveFocus(a, direction) ==
  LET next == FocusStep(TargetsOf(a), a.focus, direction)
  IN  IF next = NoFocus THEN Outcome(a, FALSE) ELSE SetFocus(a, next)

(* intercept_button of the HiFi screen: every press on Now Playing, and    *)
(* Back on either page. *)
Intercepts(a, button) ==
  /\ a.active.screen = "HifiControl"
  /\ a.active.hifi.page = "NowPlaying" \/ button = "Back"

HifiPressed(screen, button, now) ==
  CASE button = "Up"     -> TurnVolume(screen, VolumeStep, now)
    [] button = "Down"   -> TurnVolume(screen, -VolumeStep, now)
    [] button = "Left"   -> PreviousOrRestart(screen, now)
    [] button = "Right"  -> NextTrack(screen, now)
    [] button = "Select" -> TogglePlayback(screen, now)
    [] button = "Back"   -> TurnPage(screen)

\* Mutated: the ring is kept across the pages.
HandleInterceptedKeeping(a, button) ==
  Outcome([a EXCEPT !.active.hifi = HifiPressed(a.active.hifi, button, a.now)], TRUE)

(* A page turned takes the ring with it. *)
HandleIntercepted(a, button) ==
  LET hifi == HifiPressed(a.active.hifi, button, a.now)
  IN  Outcome([a EXCEPT !.active.hifi = hifi,
                        !.focus = IF hifi.page = a.active.hifi.page THEN a.focus
                                  ELSE NoFocus],
              TRUE)

HandleButton(a, button) ==
  IF Intercepts(a, button) THEN HandleIntercepted(a, button)
  ELSE CASE button = "Select" -> ActivateFocused(a)
         [] button = "Back"   -> GoBack(a)
         [] button \in Directions -> MoveFocus(a, button)

TickRedraws(a, now) ==
  CASE a.active.screen = "Launcher"  -> LauncherTicks(a, now)
    [] a.active.screen = "Stopwatch" -> StopwatchTick(a.active, now) # a.active
    [] a.active.screen = "HifiControl" ->
         LET screen == a.active.hifi
         IN  \/ Lapsed(screen.overlayUntil, now) \/ Lapsed(screen.staleUntil, now)
             \/ screen.loading \/ screen.status.playback = "Buffering"
             \/ OnTick(screen, now).status # screen.status

HandleTick(a, now) ==
  LET active == CASE a.active.screen = "Launcher"  -> LauncherTick(a, now)
                  [] a.active.screen = "Stopwatch" -> StopwatchTick(a.active, now)
                  [] a.active.screen = "HifiControl" ->
                       [a.active EXCEPT !.hifi = OnTick(a.active.hifi, now)]
  IN  Outcome([a EXCEPT !.now = now, !.active = active], TickRedraws(a, now))

HandleNetwork(a, network) ==
  Outcome([a EXCEPT !.network = network], network # a.network)

(* The HiFi events, which only its screen hears. *)
HandleStatus(a, status) ==
  LET screen == a.active.hifi
      next   == ApplyStatus(screen, status, a.now)
  IN  Outcome([a EXCEPT !.active.hifi = next],
              \/ next.status # screen.status
              \/ screen.loading /\ HasLiveContent(next.status))

HandleArtwork(a, uri) ==
  LET next == ApplyArtwork(a.active.hifi, uri)
  IN  Outcome([a EXCEPT !.active.hifi = next], next.artwork # a.active.hifi.artwork)

HandlePins(a, pins) ==
  LET next == ApplyPins(a.active.hifi, pins)
  IN  Outcome([a EXCEPT !.active.hifi = next], next # a.active.hifi)

HandlePinArtwork(a, slot, uri) ==
  LET next == ApplyPinArtwork(a.active.hifi, slot, uri)
  IN  Outcome([a EXCEPT !.active.hifi = next], next # a.active.hifi)
-----------------------------------------------------------------------------
(* App::render.  The steps a frame takes, each the target's panel and       *)
(* session after it; a frame that fails stops after one of them.           *)

NetShown(a) ==
  [status |-> a.network, phase |-> IF Connecting(a) THEN Phase(a.now) ELSE None]

NetDrawn(cache, a) == cache.net = a.network /\ (Connecting(a) => cache.phase = Phase(a.now))

DrawLauncher(a, t) ==
  LET chrome == [t EXCEPT !.panel.chrome = TRUE, !.session.launcher.chrome = TRUE]
      net == [chrome EXCEPT
                !.panel.net = IF NetDrawn(t.session.launcher, a) THEN @ ELSE NetShown(a),
                !.session.launcher.net = a.network,
                !.session.launcher.phase = NetShown(a).phase]
  IN  <<IF t.session.launcher.chrome THEN t ELSE chrome, net>>

(* The stopwatch draws it all, every time. *)
WatchShown(a) == <<a.active.running, a.active.seconds, a.network, a.taps>>

DrawStopwatch(a, t) == <<[t EXCEPT !.panel.watch = WatchShown(a)]>>

HifiSteps(screen, d, phase) ==
  LET opened  == OpenPage(screen, d)
      slot    == ClearSlot(screen, opened)
      picture == DrawPicture(screen, slot, phase)
      badge   == DrawBadge(screen, picture, HidesReadout(screen, slot))
      words   == DrawWords(screen, badge)
  IN  IF screen.page = "Choices" THEN <<opened, DrawTiles(screen, opened)>>
      ELSE IF screen.loading THEN <<opened, slot, picture>>
      ELSE <<opened, slot, picture, badge, words, DrawReadout(screen, words)>>

WithHifi(remembered, steps) ==
  [i \in DOMAIN steps |->
     [panel |-> steps[i].panel, session |-> [remembered EXCEPT !.hifi = steps[i].cache]]]

DrawHifi(a, t) ==
  WithHifi(t.session,
           HifiSteps(a.active.hifi, [panel |-> t.panel, cache |-> t.session.hifi],
                     Phase(a.now)))

DrawScreen(a, t) ==
  CASE a.active.screen = "Launcher"    -> DrawLauncher(a, t)
    [] a.active.screen = "Stopwatch"   -> DrawStopwatch(a, t)
    [] a.active.screen = "HifiControl" -> DrawHifi(a, t)

Final(steps) == steps[Len(steps)]

DrawRing(a, t) ==
  IF FocusedOn(a) = NoFocus THEN t
  ELSE [t EXCEPT !.panel.rings = @ \cup {FocusedOn(a)}]

WithRing(a, steps) == Append(steps, DrawRing(a, Final(steps)))

(* A clear if the screen changed or the ring moved, the screen, the ring.   *)
RenderSteps(a, target, remembered) ==
  LET name  == a.active.screen
      begun == [panel   |-> IF NeedsClear(remembered, name, FocusedOn(a))
                            THEN BlackPanel ELSE target,
                session |-> BeginFrame(remembered, name, FocusedOn(a))]
  IN  WithRing(a, <<begun>> \o DrawScreen(a, begun))
-----------------------------------------------------------------------------
Init ==
  /\ world \in Worlds
  /\ \E name \in world.first :
       app = [now |-> 0, network |-> "Offline", taps |-> 0,
              active |-> NewActive(name, 0), focus |-> NoFocus]
  /\ session = [t \in Targets |-> NewSession]
  /\ panel = [t \in Targets |-> BlackPanel]
  /\ pending = Targets /\ failed = {} /\ failures = 0
  /\ carried = FALSE /\ ran = 0 /\ runs = 0

Page(a) ==
  <<a.active.screen, IF a.active.screen = "HifiControl" THEN a.active.hifi.page ELSE None>>

Running(a) == a.active.screen = "Stopwatch" /\ a.active.running

(* An event is handled. *)
Update(outcome) ==
  /\ app' = outcome.app
  /\ pending' = IF outcome.redraw THEN Targets ELSE pending
  /\ carried' = IF Page(app') # Page(app) THEN app'.focus # NoFocus /\ app'.focus = app.focus
                ELSE carried /\ app'.focus = app.focus
  /\ ran' = IF app'.active.screen # "Stopwatch" THEN 0
            ELSE IF Running(app) THEN ran + (app'.now - app.now) ELSE ran
  /\ runs' = IF app'.active.screen # "Stopwatch" THEN 0
             ELSE IF Running(app') /\ ~Running(app) THEN runs + 1 ELSE runs
  /\ UNCHANGED <<session, panel, failed, failures, world>>

Tick ==
  \E jump \in 1..world.jump :
    /\ app.now + jump <= world.time
    /\ Update(HandleTick(app, app.now + jump))

TouchDown(point) ==
  /\ app.taps < world.taps
  /\ Update(Outcome(HandleTouch(Tapped(app), point), TRUE))

ButtonPressed(button) ==
  /\ app.taps < world.taps
  /\ Update(HandleButton(Tapped(app), button))

NetworkStatus(network) == network # app.network /\ Update(HandleNetwork(app, network))

Hifi == app.active.screen = "HifiControl"

EventStatus(status) == Hifi /\ Update(HandleStatus(app, status))
EventArtwork(uri) == Hifi /\ Update(HandleArtwork(app, uri))
EventPins(pins) == Hifi /\ Update(HandlePins(app, pins))
EventPinArtwork(slot, uri) == Hifi /\ Update(HandlePinArtwork(app, slot, uri))

(* What a target shows and remembers once a frame is over. *)
Leaves(target, shown, remembered) ==
  /\ panel' = [panel EXCEPT ![target] = shown]
  /\ session' = [session EXCEPT ![target] = remembered]

Completes(target, steps) ==
  Leaves(target, Final(steps).panel, Final(steps).session)

StopsAfter(target, steps) ==
  \E i \in 1..(Len(steps) - 1) :
    Leaves(target, steps[i].panel, AbandonFrame(steps[1].session, app.active.screen))

(* The loop draws what was asked for. *)
Frame(target) ==
  /\ target \in pending
  /\ Completes(target, RenderSteps(app, panel[target], session[target]))
  /\ pending' = pending \ {target}
  /\ failed' = failed \ {target}
  /\ UNCHANGED <<app, failures, world, carried, ran, runs>>

(* A frame that fails part-way is not tried again by itself. *)
FrameFails(target) ==
  /\ target \in pending /\ failures < world.failures
  /\ failures' = failures + 1
  /\ StopsAfter(target, RenderSteps(app, panel[target], session[target]))
  /\ pending' = pending \ {target}
  /\ failed' = failed \cup {target}
  /\ UNCHANGED <<app, world, carried, ran, runs>>

(* The middle of each control of the page, and a point beside them. *)
Points ==
  {Centre(TargetsOf(app)[i]) : i \in DOMAIN TargetsOf(app)} \cup {[x |-> 0, y |-> 0]}

Next ==
  \/ Tick
  \/ \E point \in Points : TouchDown(point)
  \/ \E button \in world.buttons : ButtonPressed(button)
  \/ \E network \in world.networks : NetworkStatus(network)
  \/ \E status \in world.reports : EventStatus(status)
  \/ \E uri \in world.covers : EventArtwork(uri)
  \/ \E pins \in world.pinLists : EventPins(pins)
  \/ \E cover \in world.pinCovers : EventPinArtwork(cover[1], cover[2])
  \/ \E target \in Targets : Frame(target) \/ FrameFails(target)

Spec == Init /\ [][Next]_vars
-----------------------------------------------------------------------------
(* What a panel ought to show.                                             *)

(* The picture's layers, the last one that has the region on top: the cover *)
(* or what stands for it, the badge of what is paused, the readout.        *)
PictureOf(screen, phase) ==
  LET kind  == ArtKind(screen)
      base  == Cover(BlackPanel.picture, Picture,
                     IF kind = "Artwork" THEN screen.artwork ELSE None)
      under == CASE kind \in {"Spinner", "Buffering"}   -> Mark(base, Dots(phase))
                 [] kind \in {"PauseBars", "PlayIcon"} -> Mark(base, Glyph(kind))
                 [] kind = "Artwork" -> IF BadgeWanted(screen) THEN Badge(base) ELSE base
      level == screen.status.volume
  IN  IF screen.loading \/ screen.overlayUntil = None THEN under
      ELSE Level(Level(Cover(under, Readout, "readout"), "number", level), "gauge", level)

NowPlayingOf(screen, phase) ==
  [BlackPanel EXCEPT
     !.picture  = PictureOf(screen, phase),
     !.title    = IF screen.loading THEN None ELSE TitleText(screen.status),
     !.artist   = IF screen.loading THEN None ELSE ArtistText(screen.status),
     !.progress = IF screen.loading THEN None ELSE Filled(screen.status)]

ChoicesOf(screen) ==
  [BlackPanel EXCEPT !.header = TRUE,
                     !.tiles = [slot \in Slots |-> TileShown(TileOf(screen, slot))]]

PageOf(a) ==
  CASE a.active.screen = "Launcher" ->
         [BlackPanel EXCEPT !.chrome = TRUE, !.net = NetShown(a)]
    [] a.active.screen = "Stopwatch" -> [BlackPanel EXCEPT !.watch = WatchShown(a)]
    [] a.active.screen = "HifiControl" ->
         IF a.active.hifi.page = "Choices" THEN ChoicesOf(a.active.hifi)
         ELSE NowPlayingOf(a.active.hifi, Phase(a.now))

Truth(a) ==
  [PageOf(a) EXCEPT !.rings = IF FocusedOn(a) = NoFocus THEN {} ELSE {FocusedOn(a)}]

(* The controls that Left and Right reach from each of a page's. *)
ReachOf(targets) ==
  [i \in DOMAIN targets |-> Reached(targets, i, {"Left", "Right"})]

LauncherReach == ReachOf(LauncherTargets)
StopwatchReach == ReachOf(StopwatchTargets)
TilesReach == ReachOf(TileTargets)

ReachedOn(a) ==
  CASE a.active.screen = "Launcher"    -> LauncherReach
    [] a.active.screen = "Stopwatch"   -> StopwatchReach
    [] a.active.screen = "HifiControl" -> TilesReach

(* Nothing is left to draw on a target that took its last frame. *)
Settled(target) == target \notin pending \cup failed
-----------------------------------------------------------------------------
(* The shape of the state. *)
TypeOK ==
  /\ world \in Worlds
  /\ app.now \in 0..world.time /\ app.taps \in 0..world.taps
  /\ app.network \in AllNetworks /\ app.active.screen \in ScreenNames
  /\ app.focus \in 0..Len(LauncherTargets) \cup Slots
  /\ Hifi => app.active.hifi \in ScreenStates
  /\ pending \subseteq Targets /\ failed \subseteq Targets
  /\ \A t \in Targets : DOMAIN panel[t].picture = Picture

(* All of a panel but the readout's part of the picture and the count of   *)
(* interactions. *)
SteadyPart(p) ==
  [p EXCEPT !.picture = [r \in Picture |-> IF r \in Readout THEN Blank ELSE @[r]],
            !.watch   = IF @ = None THEN None ELSE SubSeq(@, 1, 3)]

(* Whenever no frame is asked for, a panel shows what the app says: no     *)
(* update changes what shows without asking, no frame skips what changed or *)
(* leaves what is gone, whatever failed before (UpdateOutcome, RenderCache, *)
(* abandon_frame).  Of the readout's part of the picture CoverIsWhole says *)
(* what holds; the count of interactions on the stopwatch is out of date   *)
(* after a press of the pad that moves nothing (handle_button).            *)
PanelIsTrue ==
  \A t \in Targets :
    Settled(t) => SteadyPart(panel[t]) = SteadyPart(Truth(app))

(* Where a cover shows with neither readout nor badge, all of it does: both *)
(* are taken off it again (overlay_just_hidden, pause_badge_visible).      *)
CoverIsWhole ==
  \A t \in Targets :
    /\ Settled(t) /\ Hifi
    /\ app.active.hifi.page = "NowPlaying"
    /\ ArtKind(app.active.hifi) = "Artwork" /\ ~BadgeWanted(app.active.hifi)
    /\ app.active.hifi.overlayUntil = None
    => panel[t].picture = PictureOf(app.active.hifi, Phase(app.now))

(* The ring shows only on the page it was set on (focus is dropped by       *)
(* navigate and handle_button, but not by the tap that plays a pin).       *)
NoCarriedRing == FocusedOn(app) # NoFocus => ~carried

(* Left and Right alone bring the ring from where it is to every control   *)
(* of the page: "a left/right-only user can still reach every tile"        *)
(* (focus.rs, step). *)
LeftRightReachAll ==
  FocusedOn(app) # NoFocus =>
    ReachedOn(app)[FocusedOn(app)] = DOMAIN TargetsOf(app)

(* The watch is off by less than a second for each time it was started,    *)
(* however late ticks come (on_tick, handle).                              *)
StopwatchCounts ==
  app.active.screen = "Stopwatch" =>
    LET off == app.active.seconds * TicksPerSecond - ran
    IN  /\ off <= runs * (TicksPerSecond - 1)
        /\ -off <= runs * (TicksPerSecond - 1)
=============================================================================
