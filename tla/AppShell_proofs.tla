--------------------------- MODULE AppShell_proofs ---------------------------
(***************************************************************************)
(* For every panel, every world of buttons and reports and every lateness  *)
(* of the ticks: no focus ring outlives the page it was set on, the        *)
(* stopwatch is off by less than a second for each time it was started, a  *)
(* panel for which no frame is asked shows what the app says whatever      *)
(* failed before, and Left and Right alone reach every control of a page.  *)
(*                                                                         *)
(* In order: the ring and the watch (IInv); what a frame leaves on a panel *)
(* and in its caches (Honest, RenderShows); which handlers may ask for no  *)
(* frame (Quiet, Answers); the pages' controls (WalkReaches); the panels   *)
(* (PanelInv).                                                             *)
(***************************************************************************)
EXTENDS AppShell, Methods_proofs, SequenceTheorems

Actives ==
  [screen : {"Launcher"}, ticked : Option(Nat)]
    \cup [screen : {"Stopwatch"}, running : BOOLEAN, seconds : Nat, last : Nat]
    \cup [screen : {"HifiControl"}, hifi : ScreenStates]

AppOK(a) ==
  /\ a \in [now : Nat, network : AllNetworks, taps : Nat, active : Actives,
            focus : {a.focus}]
  /\ a.active.screen = "HifiControl" => Sound(a.active.hifi, a.now)

OnNowPlaying(a) ==
  a.active.screen = "HifiControl" /\ a.active.hifi.page = "NowPlaying"

(* What the app's handlers but the clock's may do: of the ring, and of the *)
(* stopwatch. *)
RingFollows(a, b) == b.focus = NoFocus \/ Page(b) = Page(a) \/ OnNowPlaying(b)

WatchFollows(a, b) ==
  b.active.screen = "Stopwatch" =>
    \/ b.active = a.active
    \/ a.active.screen # "Stopwatch" /\ b.active = NewActive("Stopwatch", a.now)
    \/ /\ a.active.screen = "Stopwatch" /\ ~a.active.running
       /\ b.active = StopwatchStart(a.active, a.now)
    \/ /\ a.active.screen = "Stopwatch" /\ a.active.running
       /\ b.active = StopwatchStop(a.active, a.now)

Follows(a, b) == AppOK(b) /\ b.now = a.now /\ RingFollows(a, b) /\ WatchFollows(a, b)

(* How far the watch is off, and how far its second has gone. *)
Off == app.active.seconds * TicksPerSecond - ran
Gone == app.now - app.active.last * TicksPerSecond
Slack == TicksPerSecond - 1

(* While it runs, what it will have counted when its second is full is     *)
(* what it was off when started, and the part of a second that was gone.   *)
WatchExact ==
  IF app.active.screen # "Stopwatch" THEN ran = 0 /\ runs = 0
  ELSE IF app.active.running
  THEN /\ app.active.last = Second(app.now)
       /\ runs \in Nat \ {0}
       /\ -((runs - 1) * Slack) <= Off + Gone /\ Off + Gone <= runs * Slack
  ELSE -(runs * Slack) <= Off /\ Off <= runs * Slack

IInv ==
  /\ AppOK(app) /\ world \in Worlds
  /\ carried => OnNowPlaying(app)
  /\ ran \in Nat /\ runs \in Nat /\ WatchExact
-----------------------------------------------------------------------------
(* Handlers.                                                               *)

LEMMA WorldType ==
  ASSUME NEW w \in Worlds
  PROVE  /\ w.first \subseteq ScreenNames /\ w.buttons \subseteq AllButtons
         /\ w.networks \subseteq AllNetworks /\ w.reports \subseteq Statuses
         /\ w.covers \subseteq Uris /\ w.pinLists \subseteq [Slots -> Option(Pins)]
         /\ w.pinCovers \subseteq Slots \X Uris
         /\ w.time \in Nat /\ w.jump \in Nat /\ w.taps \in Nat
BY ShellAssumption DEF IsWorld

LEMMA StaysSame == ASSUME NEW a, AppOK(a) PROVE Follows(a, a)
BY DEF Follows, RingFollows, WatchFollows

(* Another state of the HiFi screen. *)
LEMMA HifiFollows ==
  ASSUME NEW a, AppOK(a), a.active.screen = "HifiControl",
         NEW hifi, Sound(hifi, a.now), NEW focus,
         focus = NoFocus \/ hifi.page = a.active.hifi.page \/ hifi.page = "NowPlaying"
  PROVE  Follows(a, [a EXCEPT !.active.hifi = hifi, !.focus = focus])
<1> DEFINE active == [a.active EXCEPT !.hifi = hifi]
           b == [a EXCEPT !.active = active, !.focus = focus]
<1>1. /\ hifi \in ScreenStates
      /\ a \in [now : Nat, network : AllNetworks, taps : Nat,
                active : [screen : {"HifiControl"}, hifi : ScreenStates], focus : {a.focus}]
  BY DEF Sound, AppOK, Actives
<1>2. [a EXCEPT !.active.hifi = hifi, !.focus = focus] = b
  BY <1>1
<1>3. active = [screen |-> "HifiControl", hifi |-> hifi]
  BY <1>1
<1>4. active \in Actives /\ active.screen = "HifiControl" /\ active.hifi = hifi
  BY <1>1, <1>3 DEF Actives
<1> HIDE DEF active
<1>5. b.now = a.now /\ b.active = active /\ b.focus = focus
  BY <1>1
<1>6. b \in [now : Nat, network : AllNetworks, taps : Nat, active : Actives,
             focus : {focus}]
  BY <1>1, <1>4
<1> HIDE DEF b
<1>7. AppOK(b)
  BY <1>4, <1>5, <1>6 DEF AppOK
<1>8. RingFollows(a, b)
  BY <1>4, <1>5 DEF RingFollows, Page, OnNowPlaying
<1>9. Follows(a, b)
  BY <1>4, <1>5, <1>7, <1>8 DEF Follows, WatchFollows
<1> QED
  BY <1>2, <1>9

LEMMA HifiAlone ==
  ASSUME NEW a, AppOK(a), a.active.screen = "HifiControl",
         NEW hifi, Sound(hifi, a.now),
         hifi.page = a.active.hifi.page \/ hifi.page = "NowPlaying"
  PROVE  Follows(a, [a EXCEPT !.active.hifi = hifi])
<1> DEFINE b == [a EXCEPT !.active.hifi = hifi, !.focus = a.focus]
<1>1. [a EXCEPT !.active.hifi = hifi] = b
  BY DEF AppOK
<1>2. Follows(a, b)
  BY HifiFollows
<1> QED
  BY <1>1, <1>2

LEMMA NavigateFollows ==
  ASSUME NEW a, AppOK(a), NEW name \in ScreenNames, name # a.active.screen
  PROVE  Follows(a, Navigate(a, name))
<1> DEFINE b == Navigate(a, name)
<1>0. a.now \in Nat
  BY DEF AppOK
<1>1. /\ b.now = a.now /\ b.active = NewActive(name, a.now) /\ b.focus = NoFocus
      /\ b.active.screen = name
  BY DEF AppOK, Navigate, NewActive, ScreenNames
<1>2. NewActive(name, a.now) \in Actives
  BY <1>0, NewScreenSound DEF NewActive, ScreenNames, Actives, Option, Sound
<1>3. AppOK(b)
  <2>1. b \in [now : Nat, network : AllNetworks, taps : Nat, active : Actives,
               focus : {NoFocus}]
    BY <1>2 DEF AppOK, Navigate
  <2> QED
    BY <1>0, <1>1, <2>1, NewScreenSound DEF AppOK, NewActive, ScreenNames
<1>4. RingFollows(a, b)
  BY <1>1 DEF RingFollows
<1>5. WatchFollows(a, b)
  BY <1>1 DEF WatchFollows
<1> QED
  BY <1>1, <1>3, <1>4, <1>5 DEF Follows

LEMMA SetFocusFollows ==
  ASSUME NEW a, AppOK(a), NEW focus
  PROVE  Follows(a, [a EXCEPT !.focus = focus])
<1> DEFINE b == [a EXCEPT !.focus = focus]
<1>1. b = [now |-> a.now, network |-> a.network, taps |-> a.taps,
           active |-> a.active, focus |-> focus]
  BY DEF AppOK
<1> QED
  BY <1>1 DEF AppOK, Follows, RingFollows, WatchFollows, Page

(* The watch is started or stopped. *)
LEMMA WatchSet ==
  ASSUME NEW a, AppOK(a), NEW watch, watch.screen = "Stopwatch", watch \in Actives,
         a.active.screen = "Stopwatch",
         \/ ~a.active.running /\ watch = StopwatchStart(a.active, a.now)
         \/ a.active.running /\ watch = StopwatchStop(a.active, a.now)
  PROVE  Follows(a, [a EXCEPT !.active = watch])
<1> DEFINE b == [a EXCEPT !.active = watch]
<1>1. b = [now |-> a.now, network |-> a.network, taps |-> a.taps,
           active |-> watch, focus |-> a.focus]
  BY DEF AppOK
<1> QED
  BY <1>1 DEF AppOK, Follows, RingFollows, WatchFollows, Page

LEMMA WatchTypes ==
  ASSUME NEW watch \in Actives, watch.screen = "Stopwatch", NEW t \in Nat
  PROVE  /\ StopwatchStart(watch, t) \in Actives
         /\ StopwatchStart(watch, t).screen = "Stopwatch"
         /\ StopwatchTick(watch, t) \in Actives
         /\ StopwatchTick(watch, t).screen = "Stopwatch"
         /\ StopwatchStop(watch, t) \in Actives
         /\ StopwatchStop(watch, t).screen = "Stopwatch"
<1>1. watch \in [screen : {"Stopwatch"}, running : BOOLEAN, seconds : Nat, last : Nat]
  BY DEF Actives
<1>2. Second(t) \in Nat
  BY SecondType
<1>3. StopwatchTick(watch, t)
        \in [screen : {"Stopwatch"}, running : BOOLEAN, seconds : Nat, last : Nat]
  <2>1. CASE ~watch.running \/ Second(t) <= watch.last
    BY <1>1, <2>1 DEF StopwatchTick
  <2>2. CASE ~(~watch.running \/ Second(t) <= watch.last)
    <3>1. watch.seconds + (Second(t) - watch.last) \in Nat
      BY <1>1, <1>2, <2>2
    <3>2. StopwatchTick(watch, t)
            = [watch EXCEPT !.seconds = watch.seconds + (Second(t) - watch.last),
                            !.last = Second(t)]
      BY <2>2 DEF StopwatchTick
    <3> QED
      BY <1>1, <1>2, <3>1, <3>2
  <2> QED
    BY <2>1, <2>2
<1> QED
  BY <1>1, <1>2, <1>3 DEF StopwatchStart, StopwatchStop, Actives

(* What a handler may do is said of the screen alone. *)
LEMMA SameScreen ==
  ASSUME NEW a, NEW b, NEW c, a.active = b.active, a.now = b.now, Follows(b, c)
  PROVE  Follows(a, c)
BY DEF Follows, RingFollows, WatchFollows, Page

LEMMA TappedSame ==
  ASSUME NEW a, AppOK(a)
  PROVE  AppOK(Tapped(a)) /\ Tapped(a).active = a.active /\ Tapped(a).now = a.now
<1> DEFINE b == Tapped(a)
<1>1. b = [now |-> a.now, network |-> a.network, taps |-> a.taps + 1,
           active |-> a.active, focus |-> a.focus]
  BY DEF AppOK, Tapped
<1>2. a.taps + 1 \in Nat
  BY DEF AppOK
<1> HIDE DEF b
<1>3. AppOK(b) /\ b.active = a.active /\ b.now = a.now
  BY <1>1, <1>2 DEF AppOK
<1> QED
  BY <1>3 DEF b

(* The controls of a page. *)
LEMMA TargetsType ==
  ASSUME NEW a, AppOK(a)
  PROVE  DOMAIN TargetsOf(a) =
           CASE a.active.screen \in {"Launcher", "Stopwatch"} -> {1, 2}
             [] a.active.screen = "HifiControl" ->
                  IF a.active.hifi.page = "Choices" THEN Slots ELSE {}
<1>1. a.active.screen \in ScreenNames
  BY DEF AppOK, Actives, ScreenNames
<1>2. DOMAIN LauncherTargets = {1, 2} /\ DOMAIN StopwatchTargets = {1, 2}
  BY DEF LauncherTargets, StopwatchTargets, VerticalPair, HorizontalPair
<1>3. DOMAIN TileTargets = Slots
  BY DEF TileTargets
<1>4. DOMAIN <<>> = {}
  OBVIOUS
<1> QED
  BY <1>1, <1>2, <1>3, <1>4 DEF TargetsOf, ScreenNames

LEMMA TapControlFollows ==
  ASSUME NEW a, AppOK(a), NEW i \in {NoFocus} \cup DOMAIN TargetsOf(a)
  PROVE  Follows(a, TapControl(a, i))
<1>0. a.active.screen \in ScreenNames /\ a.now \in Nat /\ a.active \in Actives
  BY DEF AppOK, Actives, ScreenNames
<1>1. CASE i = NoFocus
  BY <1>1, StaysSame DEF TapControl
<1>2. CASE i # NoFocus /\ a.active.screen = "Launcher"
  <2>1. i \in {1, 2}
    BY <1>2, TargetsType
  <2>2. LauncherScreens[i] \in ScreenNames /\ LauncherScreens[i] # "Launcher"
    BY <2>1 DEF LauncherScreens, ScreenNames
  <2>3. TapControl(a, i) = Navigate(a, LauncherScreens[i])
    BY <1>2 DEF TapControl
  <2> QED
    BY <1>2, <2>2, <2>3, NavigateFollows
<1>3. CASE i # NoFocus /\ a.active.screen = "Stopwatch"
  <2>1. CASE TapControl(a, i) = a
    BY <2>1, StaysSame
  <2>2. CASE ~a.active.running /\ TapControl(a, i) = [a EXCEPT !.active = StopwatchStart(a.active, a.now)]
    BY <1>0, <1>3, <2>2, WatchTypes, WatchSet
  <2>3. CASE a.active.running /\ TapControl(a, i) = [a EXCEPT !.active = StopwatchStop(a.active, a.now)]
    BY <1>0, <1>3, <2>3, WatchTypes, WatchSet
  <2> QED
    BY <1>3, <2>1, <2>2, <2>3 DEF TapControl
<1>4. CASE i # NoFocus /\ a.active.screen = "HifiControl"
  <2>1. i \in Slots /\ a.active.hifi \in ScreenStates
    BY <1>0, <1>4, TargetsType DEF Actives
  <2>2. CASE a.active.hifi.pins[i] = None
    BY <1>4, <2>2, StaysSame DEF TapControl
  <2>3. CASE a.active.hifi.pins[i] # None
    <3> DEFINE hifi == InvokePin(a.active.hifi, i, a.now)
    <3>1. Sound(hifi, a.now)
      BY <1>0, <1>4, <2>1, <2>3, InvokePinSound DEF AppOK
    <3>2. hifi.page = "NowPlaying"
      BY <2>1 DEF InvokePin, ScreenStates
    <3>3. TapControl(a, i) = [a EXCEPT !.active.hifi = hifi]
      BY <1>4, <2>3 DEF TapControl
    <3> HIDE DEF hifi
    <3> QED
      BY <1>4, <3>1, <3>2, <3>3, HifiAlone
  <2> QED
    BY <2>2, <2>3
<1> QED
  BY <1>0, <1>1, <1>2, <1>3, <1>4 DEF ScreenNames

LEMMA HitType ==
  ASSUME NEW targets, DOMAIN targets \subseteq 1..4, NEW point
  PROVE  FocusHit(targets, point) \in {NoFocus} \cup DOMAIN targets
<1> DEFINE under == {i \in DOMAIN targets : ContainsPoint(targets[i], point)}
           First(i) == i \in under /\ \A j \in under : i <= j
<1>1. under \subseteq 1..4 /\ under \subseteq DOMAIN targets
  OBVIOUS
<1>2. FocusHit(targets, point)
        = IF under = {} THEN NoFocus ELSE CHOOSE i \in under : \A j \in under : i <= j
  BY DEF FocusHit
<1> HIDE DEF under
<1>3. CASE under = {}
  BY <1>2, <1>3
<1>4. CASE under # {}
  <2>1. \A i \in 1..4 : i \in {1, 2, 3, 4}
    OBVIOUS
  <2>2. \E i \in under : \A j \in under : i <= j
    <3>1. CASE 1 \in under
      BY <1>1, <3>1
    <3>2. CASE 1 \notin under /\ 2 \in under
      BY <1>1, <2>1, <3>2
    <3>3. CASE 1 \notin under /\ 2 \notin under /\ 3 \in under
      BY <1>1, <2>1, <3>3
    <3>4. CASE under \subseteq {4}
      <4>1. 4 \in under /\ \A j \in under : j = 4
        BY <1>4, <3>4
      <4>2. \A j \in under : 4 <= j
        BY <4>1
      <4> QED
        BY <4>1, <4>2
    <3>5. under \subseteq {1, 2, 3, 4}
      BY <1>1, <2>1
    <3> QED
      BY <3>1, <3>2, <3>3, <3>4, <3>5
  <2> QED
    BY <1>1, <1>2, <1>4, <2>2
<1> QED
  BY <1>3, <1>4

LEMMA HandleTouchFollows ==
  ASSUME NEW a, AppOK(a), NEW point
  PROVE  Follows(a, HandleTouch(a, point))
<1> DEFINE i == FocusHit(TargetsOf(a), point)
           moved == IF a.focus # NoFocus /\ i # NoFocus THEN [a EXCEPT !.focus = i] ELSE a
<1>1. i \in {NoFocus} \cup DOMAIN TargetsOf(a)
  <2>1. DOMAIN TargetsOf(a) \subseteq 1..4
    BY TargetsType, ShellAssumption DEF AppOK, Actives
  <2> QED
    BY <2>1, HitType
<1>2. AppOK(moved) /\ moved.active = a.active /\ moved.now = a.now
  BY SetFocusFollows DEF Follows, AppOK
<1>3. TargetsOf(moved) = TargetsOf(a)
  BY <1>2 DEF TargetsOf
<1>4. HandleTouch(a, point) = TapControl(moved, i)
  BY DEF HandleTouch
<1> HIDE DEF i, moved
<1>5. Follows(moved, HandleTouch(a, point))
  BY <1>1, <1>2, <1>3, <1>4, TapControlFollows
<1> QED
  BY <1>2, <1>5, SameScreen

LEMMA PressSound ==
  ASSUME NEW now \in Nat, NEW s, Sound(s, now), NEW button \in AllButtons
  PROVE  Sound(HifiPressed(s, button, now), now)
<1>1. VolumeStep \in Int /\ -VolumeStep \in Int
  BY ScreenAssumption
<1>2. CASE button = "Up"
  BY <1>1, <1>2, TurnVolumeProperty DEF HifiPressed
<1>3. CASE button = "Down"
  BY <1>1, <1>3, TurnVolumeProperty DEF HifiPressed
<1>4. CASE button = "Left"
  BY <1>4, RestartSound, BeginTrackChangeSound DEF HifiPressed, PreviousOrRestart
<1>5. CASE button = "Right"
  BY <1>5, BeginTrackChangeSound DEF HifiPressed, NextTrack
<1>6. CASE button = "Select"
  BY <1>6, TogglePlaybackSound DEF HifiPressed
<1>7. CASE button = "Back"
  BY <1>7, TurnPageSound DEF HifiPressed
<1> QED
  BY <1>2, <1>3, <1>4, <1>5, <1>6, <1>7 DEF AllButtons, Directions

LEMMA ButtonFollows ==
  ASSUME NEW a, AppOK(a), NEW button \in AllButtons
  PROVE  Follows(a, HandleButton(a, button).app)
<1>0. a.now \in Nat
  BY DEF AppOK
<1>1. CASE Intercepts(a, button)
  <2> DEFINE s == a.active.hifi
             hifi == HifiPressed(s, button, a.now)
             focus == IF hifi.page = s.page THEN a.focus ELSE NoFocus
  <2>1. a.active.screen = "HifiControl" /\ Sound(s, a.now)
    BY <1>1 DEF Intercepts, AppOK
  <2>2. HandleButton(a, button).app = [a EXCEPT !.active.hifi = hifi, !.focus = focus]
    BY <1>1 DEF HandleButton, HandleIntercepted, Outcome
  <2>3. Sound(hifi, a.now)
    BY <1>0, <2>1, PressSound
  <2>4. focus = NoFocus \/ hifi.page = s.page
    OBVIOUS
  <2> HIDE DEF hifi, focus
  <2>5. Follows(a, [a EXCEPT !.active.hifi = hifi, !.focus = focus])
    BY <2>1, <2>3, <2>4, HifiFollows
  <2> QED
    BY <2>2, <2>5
<1>2. CASE ~Intercepts(a, button) /\ button = "Select"
  <2>1. HandleButton(a, button) = ActivateFocused(a)
    BY <1>2 DEF HandleButton, Directions
  <2>2. \/ HandleButton(a, button).app
             = HandleTouch(a, Centre(TargetsOf(a)[a.focus]))
        \/ HandleButton(a, button).app = [a EXCEPT !.focus = 1]
    BY <2>1 DEF ActivateFocused, SetFocus, Outcome
  <2> QED
    BY <2>2, HandleTouchFollows, SetFocusFollows
<1>3. CASE ~Intercepts(a, button) /\ button = "Back"
  <2>1. HandleButton(a, button) = GoBack(a)
    BY <1>3 DEF HandleButton, Directions
  <2>2. CASE a.active.screen = "Launcher"
    BY <2>1, <2>2, StaysSame DEF GoBack, Outcome
  <2>3. CASE a.active.screen # "Launcher"
    <3>1. HandleButton(a, button).app = Navigate(a, "Launcher")
      BY <2>1, <2>3 DEF GoBack, Outcome
    <3> QED
      BY <2>3, <3>1, NavigateFollows DEF ScreenNames
  <2> QED
    BY <2>2, <2>3
<1>4. CASE ~Intercepts(a, button) /\ button \in Directions
  <2>1. HandleButton(a, button) = MoveFocus(a, button)
    BY <1>4 DEF HandleButton, Directions
  <2>2. \/ HandleButton(a, button).app = a
        \/ HandleButton(a, button).app
             = [a EXCEPT !.focus = FocusStep(TargetsOf(a), a.focus, button)]
    BY <2>1 DEF MoveFocus, SetFocus, Outcome
  <2> QED
    BY <2>2, StaysSame, SetFocusFollows
<1> QED
  BY <1>1, <1>2, <1>3, <1>4 DEF AllButtons

(* What the runtime and the network report. *)
LEMMA ReportFollows ==
  ASSUME NEW a, AppOK(a), a.active.screen = "HifiControl"
  PROVE  /\ \A status \in Statuses : Follows(a, HandleStatus(a, status).app)
         /\ \A uri \in Uris : Follows(a, HandleArtwork(a, uri).app)
         /\ \A pins \in [Slots -> Option(Pins)] : Follows(a, HandlePins(a, pins).app)
         /\ \A slot \in Slots, uri \in Uris :
              Follows(a, HandlePinArtwork(a, slot, uri).app)
<1> DEFINE s == a.active.hifi
<1>0. a.now \in Nat /\ Sound(s, a.now) /\ s \in ScreenStates
  BY DEF AppOK, Sound
<1>1. ASSUME NEW status \in Statuses PROVE Follows(a, HandleStatus(a, status).app)
  <2> DEFINE next == ApplyStatus(s, status, a.now)
  <2>1. Sound(next, a.now)
    BY <1>0, ApplyStatusProperty
  <2>2. next.page = s.page
    BY <1>0 DEF ApplyStatus, ScreenStates
  <2>3. HandleStatus(a, status).app = [a EXCEPT !.active.hifi = next]
    BY DEF HandleStatus, Outcome
  <2> HIDE DEF next
  <2> QED
    BY <2>1, <2>2, <2>3, HifiAlone
<1>2. ASSUME NEW uri \in Uris PROVE Follows(a, HandleArtwork(a, uri).app)
  <2> DEFINE next == ApplyArtwork(s, uri)
  <2>1. Sound(next, a.now)
    BY <1>0, ApplyArtworkSound
  <2>2. next.page = s.page
    BY <1>0 DEF ApplyArtwork, ScreenStates
  <2>3. HandleArtwork(a, uri).app = [a EXCEPT !.active.hifi = next]
    BY DEF HandleArtwork, Outcome
  <2> HIDE DEF next
  <2> QED
    BY <2>1, <2>2, <2>3, HifiAlone
<1>3. ASSUME NEW pins \in [Slots -> Option(Pins)]
      PROVE  Follows(a, HandlePins(a, pins).app)
  <2> DEFINE next == ApplyPins(s, pins)
  <2>1. Sound(next, a.now)
    BY <1>0, ApplyPinsSound
  <2>2. next.page = s.page
    BY <1>0 DEF ApplyPins, ScreenStates
  <2>3. HandlePins(a, pins).app = [a EXCEPT !.active.hifi = next]
    BY DEF HandlePins, Outcome
  <2> HIDE DEF next
  <2> QED
    BY <2>1, <2>2, <2>3, HifiAlone
<1>4. ASSUME NEW slot \in Slots, NEW uri \in Uris
      PROVE  Follows(a, HandlePinArtwork(a, slot, uri).app)
  <2> DEFINE next == ApplyPinArtwork(s, slot, uri)
  <2>1. Sound(next, a.now)
    BY <1>0, ApplyPinArtworkSound
  <2>2. next.page = s.page
    BY <1>0 DEF ApplyPinArtwork, ScreenStates
  <2>3. HandlePinArtwork(a, slot, uri).app = [a EXCEPT !.active.hifi = next]
    BY DEF HandlePinArtwork, Outcome
  <2> HIDE DEF next
  <2> QED
    BY <2>1, <2>2, <2>3, HifiAlone
<1> QED
  BY <1>1, <1>2, <1>3, <1>4

LEMMA NetworkFollows ==
  ASSUME NEW a, AppOK(a), NEW network \in AllNetworks
  PROVE  Follows(a, HandleNetwork(a, network).app)
<1> DEFINE b == [a EXCEPT !.network = network]
<1>1. b = [now |-> a.now, network |-> network, taps |-> a.taps,
           active |-> a.active, focus |-> a.focus]
  BY DEF AppOK
<1>2. HandleNetwork(a, network).app = b
  BY DEF HandleNetwork, Outcome
<1> HIDE DEF b
<1>3. Follows(a, b)
  BY <1>1 DEF AppOK, Follows, RingFollows, WatchFollows, Page
<1> QED
  BY <1>2, <1>3
-----------------------------------------------------------------------------
(* Steps.                                                                  *)

(* Products, for the prover. *)
LEMMA OneMore ==
  ASSUME NEW n \in Int, NEW k \in Int
  PROVE  (n + 1) * k = n * k + k /\ n * k \in Int
OBVIOUS

LEMMA SecondGone ==
  ASSUME NEW t \in Nat
  PROVE  /\ t - Second(t) * TicksPerSecond \in 0..Slack /\ Second(t) \in Nat
<1> DEFINE T == TicksPerSecond
           q == t \div T
           r == t % T
<1>1. T \in Nat \ {0}
  BY ScreenAssumption
<1> HIDE DEF T
<1>2. q \in Nat /\ r \in 0..(T - 1) /\ t = T * q + r
  BY <1>1
<1>3. T * q = q * T
  BY <1>1, <1>2
<1>4. Second(t) = q
  BY DEF Second, T
<1> HIDE DEF q, r
<1> QED
  BY <1>1, <1>2, <1>3, <1>4 DEF T, Slack

(* An event that is not the clock's. *)
LEMMA UpdateStep ==
  ASSUME IInv, NEW outcome, Update(outcome), Follows(app, outcome.app)
  PROVE  IInv'
<1> DEFINE a == app
           b == outcome.app
           T == TicksPerSecond
<1>0. /\ app' = b /\ AppOK(b) /\ b.now = a.now /\ AppOK(a) /\ world' = world
      /\ a.now \in Nat /\ ran \in Nat /\ runs \in Nat
  BY DEF Update, Follows, IInv, AppOK
<1>1. carried' => OnNowPlaying(app')
  BY <1>0 DEF Update, Follows, RingFollows, IInv, Page, OnNowPlaying
<1>2. T \in Nat \ {0}
  BY ScreenAssumption
<1>3. CASE b.active.screen # "Stopwatch"
  BY <1>0, <1>1, <1>3 DEF Update, IInv, WatchExact
<1>4. CASE b.active.screen = "Stopwatch"
  <2>1. b.active \in [screen : {"Stopwatch"}, running : BOOLEAN, seconds : Nat, last : Nat]
    BY <1>0, <1>4 DEF AppOK, Actives
  <2>2. ran' = IF Running(a) THEN ran + 0 ELSE ran
    BY <1>0, <1>4 DEF Update
  <2>3. ran' = ran
    BY <1>0, <2>2
  <2>4. CASE b.active = a.active
    <3>1. runs' = runs
      BY <1>0, <1>4, <2>4 DEF Update, Running
    <3> QED
      BY <1>0, <1>1, <2>3, <2>4, <3>1 DEF IInv, WatchExact, Off, Gone
  <2>5. CASE a.active.screen # "Stopwatch" /\ b.active = NewActive("Stopwatch", a.now)
    <3>1. /\ ~b.active.running /\ b.active.seconds = 0
          /\ ran = 0 /\ runs = 0
      BY <2>5 DEF NewActive, IInv, WatchExact
    <3>2. runs' = 0
      BY <1>0, <1>4, <3>1 DEF Update, Running
    <3>3. 0 * Slack = 0 /\ 0 * T = 0
      BY <1>2 DEF Slack
    <3> QED
      BY <1>0, <1>1, <1>4, <2>3, <3>1, <3>2, <3>3 DEF IInv, WatchExact, Off
  <2>6. CASE /\ a.active.screen = "Stopwatch" /\ ~a.active.running
             /\ b.active = StopwatchStart(a.active, a.now)
    <3>1. a.active \in [screen : {"Stopwatch"}, running : BOOLEAN, seconds : Nat, last : Nat]
      BY <1>0, <2>6 DEF AppOK, Actives
    <3>2. /\ b.active.running /\ b.active.seconds = a.active.seconds
          /\ b.active.last = Second(a.now)
      BY <2>6, <3>1 DEF StopwatchStart
    <3>3. runs' = runs + 1
      BY <1>0, <1>4, <2>6, <3>2 DEF Update, Running
    <3> DEFINE off == a.active.seconds * T - ran
               gone == a.now - Second(a.now) * T
               k == runs * Slack
    <3>4. off \in Int /\ gone \in 0..Slack /\ Slack \in Nat
      BY <1>0, <1>2, <3>1, SecondGone DEF Slack
    <3>5. k \in Int /\ (runs + 1) * Slack = k + Slack
      BY <1>0, <3>4, OneMore
    <3>6. -k <= off /\ off <= k
      BY <2>6 DEF IInv, WatchExact, Off
    <3>7. runs' - 1 = runs /\ runs' * Slack = k + Slack
      BY <1>0, <3>3, <3>5
    <3>8. Off' = off /\ Gone' = gone
      BY <1>0, <2>3, <3>2 DEF Off, Gone
    <3> HIDE DEF off, gone
    <3>9. -k <= off + gone /\ off + gone <= k + Slack
      BY <3>4, <3>5, <3>6
    <3>10. WatchExact'
      BY <1>0, <1>4, <3>2, <3>3, <3>7, <3>8, <3>9 DEF WatchExact, Slack
    <3> QED
      BY <1>0, <1>1, <2>3, <3>3, <3>10 DEF IInv
  <2>7. CASE /\ a.active.screen = "Stopwatch" /\ a.active.running
             /\ b.active = StopwatchStop(a.active, a.now)
    <3>1. a.active \in [screen : {"Stopwatch"}, running : BOOLEAN, seconds : Nat, last : Nat]
      BY <1>0, <2>7 DEF AppOK, Actives
    <3>2. a.active.last = Second(a.now) /\ runs \in Nat \ {0}
      BY <2>7 DEF IInv, WatchExact
    <3>3. StopwatchTick(a.active, a.now) = a.active
      BY <1>0, <3>1, <3>2 DEF StopwatchTick
    <3>4. ~b.active.running /\ b.active.seconds = a.active.seconds
      BY <2>7, <3>1, <3>3 DEF StopwatchStop
    <3>5. runs' = runs
      BY <1>0, <1>4, <3>4 DEF Update, Running
    <3> DEFINE off == a.active.seconds * T - ran
               gone == a.now - Second(a.now) * T
               k == (runs - 1) * Slack
    <3>6. off \in Int /\ gone \in 0..Slack /\ Slack \in Nat
      BY <1>0, <1>2, <3>1, SecondGone DEF Slack
    <3>7. k \in Int /\ runs * Slack = k + Slack
      <4>1. runs - 1 \in Int /\ (runs - 1) + 1 = runs
        BY <3>2
      <4>2. /\ ((runs - 1) + 1) * Slack = (runs - 1) * Slack + Slack
            /\ (runs - 1) * Slack \in Int
        <5>1. Slack \in Int
          BY <3>6
        <5> QED
          BY <4>1, <5>1, OneMore
      <4> QED
        BY <4>1, <4>2
    <3>8. -k <= off + gone /\ off + gone <= k + Slack
      BY <2>7, <3>2, <3>7 DEF IInv, WatchExact, Off, Gone
    <3>9. Off' = off
      BY <1>0, <2>3, <3>4 DEF Off
    <3> HIDE DEF off, gone, k
    <3>10. -(k + Slack) <= off /\ off <= k + Slack
      BY <3>6, <3>7, <3>8
    <3>11. WatchExact'
      BY <1>0, <1>4, <3>4, <3>5, <3>7, <3>9, <3>10 DEF WatchExact, Slack
    <3> QED
      BY <1>0, <1>1, <2>3, <3>5, <3>11 DEF IInv
  <2> QED
    BY <1>0, <1>4, <2>4, <2>5, <2>6, <2>7 DEF Follows, WatchFollows
<1> QED
  BY <1>3, <1>4

LEMMA Distribute ==
  ASSUME NEW m \in Int, NEW n \in Int, NEW k \in Int
  PROVE  (m + n) * k = m * k + n * k /\ m * k \in Int /\ n * k \in Int
OBVIOUS

LEMMA OnTickPage ==
  ASSUME NEW s \in ScreenStates, NEW t PROVE OnTick(s, t).page = s.page
<1> DEFINE u == [s EXCEPT !.overlayUntil  = Cleared(@, t),
                          !.artwork       = DroppedCover(s, t),
                          !.staleUntil    = Cleared(@, t),
                          !.progressUntil = Cleared(@, t),
                          !.intro = IF @ # None /\ t >= s.intro.expires THEN None ELSE @]
<1>1. OnTick(s, t) = TickPlayback(u, t)
  BY DEF OnTick
<1>2. u.page = s.page /\ DOMAIN u = DOMAIN s
  BY DEF ScreenStates
<1> HIDE DEF u
<1>3. "page" \in DOMAIN u /\ TickPlayback(u, t).page = u.page
  BY <1>2 DEF TickPlayback, ScreenStates
<1> QED
  BY <1>1, <1>2, <1>3

(* The app when the clock has ticked. *)
TickedTo(a, b, later) ==
  /\ AppOK(b) /\ b.now = later /\ b.focus = a.focus /\ b.network = a.network
  /\ b.taps = a.taps /\ b.active.screen = a.active.screen
  /\ a.active.screen = "Launcher" => b.active = LauncherTick(a, later)
  /\ a.active.screen = "Stopwatch" => b.active = StopwatchTick(a.active, later)
  /\ a.active.screen = "HifiControl" => b.active.hifi = OnTick(a.active.hifi, later)

LEMMA TickApp ==
  ASSUME NEW a, AppOK(a), NEW later \in Nat, a.now <= later
  PROVE  TickedTo(a, HandleTick(a, later).app, later)
<1> DEFINE active == CASE a.active.screen = "Launcher"  -> LauncherTick(a, later)
                       [] a.active.screen = "Stopwatch" -> StopwatchTick(a.active, later)
                       [] a.active.screen = "HifiControl" ->
                            [a.active EXCEPT !.hifi = OnTick(a.active.hifi, later)]
           b == [a EXCEPT !.now = later, !.active = active]
<1>0. a.now \in Nat /\ a.active \in Actives
  BY DEF AppOK
<1>1. HandleTick(a, later).app = b
  BY DEF HandleTick, Outcome
<1>2. /\ active \in Actives /\ active.screen = a.active.screen
      /\ a.active.screen = "HifiControl" =>
           Sound(active.hifi, later) /\ active.hifi = OnTick(a.active.hifi, later)
  <2>1. CASE a.active.screen = "Launcher"
    <3>1. a.active \in [screen : {"Launcher"}, ticked : Option(Nat)]
      BY <1>0, <2>1 DEF Actives
    <3>2. Phase(later) \in Nat
      BY PanelAssumption DEF Phase
    <3>3. active = LauncherTick(a, later)
      BY <2>1
    <3>4. active \in [screen : {"Launcher"}, ticked : Option(Nat)]
      BY <3>1, <3>2, <3>3 DEF LauncherTick, Option
    <3> QED
      BY <2>1, <3>4 DEF Actives
  <2>2. CASE a.active.screen = "Stopwatch"
    BY <1>0, <2>2, WatchTypes
  <2>3. CASE a.active.screen = "HifiControl"
    <3> DEFINE hifi == OnTick(a.active.hifi, later)
    <3>1. /\ a.active \in [screen : {"HifiControl"}, hifi : ScreenStates]
          /\ Sound(a.active.hifi, a.now)
      BY <1>0, <2>3 DEF AppOK, Actives
    <3>2. Sound(hifi, later)
      BY <1>0, <3>1, OnTickSound
    <3>3. active = [a.active EXCEPT !.hifi = hifi]
      BY <2>3
    <3> HIDE DEF hifi
    <3>4. active = [screen |-> "HifiControl", hifi |-> hifi] /\ hifi \in ScreenStates
      BY <3>1, <3>2, <3>3 DEF Sound
    <3> HIDE DEF active
    <3>5. active \in Actives /\ active.screen = a.active.screen /\ active.hifi = hifi
      BY <2>3, <3>4 DEF Actives
    <3> QED
      BY <3>2, <3>5 DEF hifi
  <2> QED
    BY <1>0, <2>1, <2>2, <2>3 DEF Actives
<1>3. /\ a.active.screen = "Launcher" => active = LauncherTick(a, later)
      /\ a.active.screen = "Stopwatch" => active = StopwatchTick(a.active, later)
  OBVIOUS
<1> HIDE DEF active
<1>4. /\ b.now = later /\ b.active = active /\ b.focus = a.focus
      /\ b.network = a.network /\ b.taps = a.taps
  BY DEF AppOK
<1>5. AppOK(b)
  <2>1. b \in [now : Nat, network : AllNetworks, taps : Nat, active : Actives,
               focus : {a.focus}]
    BY <1>2 DEF AppOK
  <2> QED
    BY <1>2, <1>4, <2>1 DEF AppOK
<1> HIDE DEF b
<1> QED
  BY <1>1, <1>2, <1>3, <1>4, <1>5 DEF TickedTo

LEMMA TickStep ==
  ASSUME IInv, Tick
  PROVE  IInv'
<1> DEFINE a == app
           T == TicksPerSecond
<1>0. /\ AppOK(a) /\ a.now \in Nat /\ a.active \in Actives
      /\ ran \in Nat /\ runs \in Nat /\ T \in Nat \ {0}
  BY ScreenAssumption DEF IInv, AppOK
<1>1. PICK jump \in 1..world.jump : Update(HandleTick(app, app.now + jump))
  BY DEF Tick
<1> DEFINE later == app.now + jump
           b == HandleTick(a, later).app
           active == b.active
<1>2. later \in Nat /\ a.now <= later /\ later - a.now \in Nat
  <2>1. jump \in Nat
    BY <1>1, WorldType DEF IInv
  <2> QED
    BY <1>0, <2>1
<1>3. app' = b /\ world' = world
  BY <1>1 DEF Update
<1>4. /\ carried' = IF Page(app') # Page(app)
                    THEN app'.focus # NoFocus /\ app'.focus = app.focus
                    ELSE carried /\ app'.focus = app.focus
      /\ ran' = IF app'.active.screen # "Stopwatch" THEN 0
                ELSE IF Running(app) THEN ran + (app'.now - app.now) ELSE ran
      /\ runs' = IF app'.active.screen # "Stopwatch" THEN 0
                 ELSE IF Running(app') /\ ~Running(app) THEN runs + 1 ELSE runs
  BY <1>1 DEF Update
<1> HIDE DEF later, b
<1>5. TickedTo(a, b, later)
  BY <1>0, <1>2, TickApp DEF b
<1>6. /\ AppOK(b) /\ b.now = later /\ b.focus = a.focus
      /\ active.screen = a.active.screen
      /\ a.active.screen = "HifiControl" => active.hifi.page = a.active.hifi.page
      /\ a.active.screen = "Stopwatch" => active = StopwatchTick(a.active, later)
  <2>1. a.active.screen = "HifiControl" => a.active.hifi \in ScreenStates
    BY <1>0 DEF Actives
  <2> QED
    BY <1>5, <2>1, OnTickPage DEF TickedTo
<1>7. Page(b) = Page(a) /\ (OnNowPlaying(a) => OnNowPlaying(b))
  BY <1>6 DEF Page, OnNowPlaying
<1>8. carried' => OnNowPlaying(app')
  BY <1>3, <1>4, <1>7 DEF IInv
<1>9. CASE a.active.screen # "Stopwatch"
  BY <1>3, <1>4, <1>6, <1>8, <1>9 DEF IInv, WatchExact
<1>10. CASE a.active.screen = "Stopwatch"
  <2>1. a.active \in [screen : {"Stopwatch"}, running : BOOLEAN, seconds : Nat, last : Nat]
    BY <1>0, <1>10 DEF Actives
  <2>2. CASE ~a.active.running
    <3>1. active = a.active
      BY <1>6, <1>10, <2>2 DEF StopwatchTick
    <3>2. ran' = ran /\ runs' = runs
      BY <1>3, <1>4, <1>6, <1>10, <2>2, <3>1 DEF Running
    <3> QED
      BY <1>3, <1>6, <1>8, <1>10, <2>2, <3>1, <3>2 DEF IInv, WatchExact, Off
  <2>3. CASE a.active.running
    <3> DEFINE last == Second(a.now)
               next == Second(later)
               d == next - last
    <3>1. a.active.last = last /\ runs \in Nat \ {0}
      BY <1>10, <2>3 DEF IInv, WatchExact
    <3>2. last \in Nat /\ next \in Nat /\ last <= next /\ d \in Nat
      BY <1>0, <1>2, SecondType, SecondsGrow
    <3>3. /\ active.seconds = a.active.seconds + d /\ active.last = next
          /\ active.running = TRUE
      <4>1. CASE next <= last
        <5>1. active = a.active
          BY <1>6, <1>10, <3>1, <4>1 DEF StopwatchTick
        <5>2. next = last /\ d = 0
          BY <3>2, <4>1
        <5> HIDE DEF last, next, d
        <5> QED
          BY <2>1, <2>3, <3>1, <5>1, <5>2
      <4>2. CASE ~(next <= last)
        <5>1. active = [a.active EXCEPT !.seconds = @ + (next - a.active.last), !.last = next]
          BY <1>6, <1>10, <2>3, <3>1, <4>2 DEF StopwatchTick
        <5>2. next - a.active.last = d
          BY <3>1
        <5> HIDE DEF last, next
        <5> QED
          BY <2>1, <2>3, <5>1, <5>2
      <4> QED
        BY <4>1, <4>2
    <3>4. ran' = ran + (later - a.now) /\ runs' = runs
      BY <1>3, <1>4, <1>6, <1>10, <2>3, <3>3 DEF Running
    <3>5. Off' = (a.active.seconds + d) * T - (ran + (later - a.now))
      BY <1>3, <1>6, <3>3, <3>4 DEF Off
    <3>6. Gone' = later - next * T
      BY <1>3, <1>6, <3>3 DEF Gone
    <3>7. Off = a.active.seconds * T - ran /\ Gone = a.now - last * T
      BY <3>1 DEF Off, Gone
    <3>8. next = last + d
      BY <3>2
    <3> HIDE DEF last, next, d
    <3>9. Off' + Gone' = Off + Gone
      <4> DEFINE s == a.active.seconds
      <4>1. s \in Int /\ d \in Int /\ last \in Int /\ T \in Int
        BY <1>0, <2>1, <3>2
      <4> HIDE DEF s, T
      <4>2. /\ (s + d) * T = s * T + d * T /\ (last + d) * T = last * T + d * T
            /\ s * T \in Int /\ d * T \in Int /\ last * T \in Int
        BY <4>1, Distribute
      <4> DEFINE x == s * T
                 y == d * T
                 z == last * T
      <4>3. Off' = (x + y) - (ran + (later - a.now)) /\ Gone' = later - (z + y)
        BY <3>5, <3>6, <3>8, <4>2 DEF s, T
      <4>4. Off = x - ran /\ Gone = a.now - z
        BY <3>7 DEF s, T
      <4>5. x \in Int /\ y \in Int /\ z \in Int
        BY <4>2
      <4> HIDE DEF x, y, z
      <4> QED
        BY <1>0, <1>2, <4>3, <4>4, <4>5
    <3>10. -((runs - 1) * Slack) <= Off + Gone /\ Off + Gone <= runs * Slack
      BY <1>10, <2>3 DEF IInv, WatchExact
    <3>11. WatchExact'
      <4>1. /\ app'.active.screen = "Stopwatch" /\ app'.active.running
            /\ app'.active.last = Second(app'.now)
        BY <1>3, <1>6, <1>10, <3>3 DEF next
      <4>2. Slack' = Slack
        BY DEF Slack
      <4> QED
        BY <3>1, <3>4, <3>9, <3>10, <4>1, <4>2 DEF WatchExact
    <3> QED
      BY <1>0, <1>2, <1>3, <1>6, <1>8, <3>4, <3>11 DEF IInv
  <2> QED
    BY <2>1, <2>2, <2>3
<1> QED
  BY <1>9, <1>10
-----------------------------------------------------------------------------
(* The app.                                                                *)

LEMMA InitIInv == Init => IInv
<1> SUFFICES ASSUME Init PROVE IInv
  OBVIOUS
<1>1. world \in Worlds /\ carried = FALSE /\ ran = 0 /\ runs = 0
  BY DEF Init
<1>2. PICK name \in ScreenNames :
        app = [now |-> 0, network |-> "Offline", taps |-> 0,
               active |-> NewActive(name, 0), focus |-> NoFocus]
  BY <1>1, WorldType DEF Init
<1>3. Sound(NewScreen(0), 0)
  BY NewScreenSound
<1>4. NewActive(name, 0) \in Actives /\ NewActive(name, 0).screen = name
  BY <1>3 DEF NewActive, ScreenNames, Actives, Option, Sound
<1>5. name = "HifiControl" => NewActive(name, 0).hifi = NewScreen(0)
  BY DEF NewActive
<1>6. AppOK(app)
  BY <1>2, <1>3, <1>4, <1>5 DEF AppOK, AllNetworks
<1>7. WatchExact
  <2>1. CASE name # "Stopwatch"
    BY <1>1, <1>2, <1>4, <2>1 DEF WatchExact
  <2>2. CASE name = "Stopwatch"
    <3>1. app.active.screen = "Stopwatch" /\ ~app.active.running /\ app.active.seconds = 0
      BY <1>2, <2>2 DEF NewActive
    <3>2. 0 * Slack = 0 /\ 0 * TicksPerSecond = 0
      BY ScreenAssumption DEF Slack
    <3> QED
      BY <1>1, <3>1, <3>2 DEF WatchExact, Off
  <2> QED
    BY <2>1, <2>2
<1> QED
  BY <1>1, <1>6, <1>7 DEF IInv

LEMMA StutterStep ==
  ASSUME IInv, UNCHANGED <<app, world, carried, ran, runs>> PROVE IInv'
BY DEF IInv, AppOK, OnNowPlaying, WatchExact, Off, Gone, Slack, Second

LEMMA NextIInv == IInv /\ [Next]_vars => IInv'
<1> SUFFICES ASSUME IInv, [Next]_vars PROVE IInv'
  OBVIOUS
<1>0. AppOK(app) /\ world \in Worlds
  BY DEF IInv
<1>1. CASE Tick
  BY <1>1, TickStep
<1>2. CASE \E point \in Points : TouchDown(point)
  <2>1. PICK point \in Points : TouchDown(point)
    BY <1>2
  <2> DEFINE outcome == Outcome(HandleTouch(Tapped(app), point), TRUE)
  <2>2. Update(outcome) /\ outcome.app = HandleTouch(Tapped(app), point)
    BY <2>1 DEF TouchDown, Outcome
  <2>3. Follows(app, outcome.app)
    BY <1>0, <2>2, TappedSame, HandleTouchFollows, SameScreen
  <2> QED
    BY <2>2, <2>3, UpdateStep
<1>3. CASE \E button \in world.buttons : ButtonPressed(button)
  <2>1. PICK button \in AllButtons : ButtonPressed(button)
    BY <1>0, <1>3, WorldType
  <2> DEFINE outcome == HandleButton(Tapped(app), button)
  <2>2. Update(outcome)
    BY <2>1 DEF ButtonPressed
  <2>3. Follows(app, outcome.app)
    BY <1>0, TappedSame, ButtonFollows, SameScreen
  <2> QED
    BY <2>2, <2>3, UpdateStep
<1>4. CASE \E network \in world.networks : NetworkStatus(network)
  <2>1. PICK network \in AllNetworks : NetworkStatus(network)
    BY <1>0, <1>4, WorldType
  <2> QED
    BY <1>0, <2>1, NetworkFollows, UpdateStep DEF NetworkStatus
<1>5. CASE \E status \in world.reports : EventStatus(status)
  <2>1. PICK status \in Statuses : EventStatus(status)
    BY <1>0, <1>5, WorldType
  <2> QED
    BY <1>0, <2>1, ReportFollows, UpdateStep DEF EventStatus, Hifi
<1>6. CASE \E uri \in world.covers : EventArtwork(uri)
  <2>1. PICK uri \in Uris : EventArtwork(uri)
    BY <1>0, <1>6, WorldType
  <2> QED
    BY <1>0, <2>1, ReportFollows, UpdateStep DEF EventArtwork, Hifi
<1>7. CASE \E pins \in world.pinLists : EventPins(pins)
  <2>1. PICK pins \in [Slots -> Option(Pins)] : EventPins(pins)
    BY <1>0, <1>7, WorldType
  <2> QED
    BY <1>0, <2>1, ReportFollows, UpdateStep DEF EventPins, Hifi
<1>8. CASE \E cover \in world.pinCovers : EventPinArtwork(cover[1], cover[2])
  <2>1. PICK slot \in Slots, uri \in Uris : EventPinArtwork(slot, uri)
    BY <1>0, <1>8, WorldType
  <2> QED
    BY <1>0, <2>1, ReportFollows, UpdateStep DEF EventPinArtwork, Hifi
<1>9. CASE \E target \in Targets : Frame(target) \/ FrameFails(target)
  BY <1>9, StutterStep DEF Frame, FrameFails
<1>10. CASE UNCHANGED vars
  BY <1>10, StutterStep DEF vars
<1> QED
  BY <1>1, <1>2, <1>3, <1>4, <1>5, <1>6, <1>7, <1>8, <1>9, <1>10 DEF Next

LEMMA IInvHolds == Spec => []IInv
BY InitIInv, NextIInv, PTL DEF Spec

(* A focus ring never shows on a page it was not set on: a pin's tap turns *)
(* the page and keeps the focus, but onto a page that publishes no control, *)
(* and the way back drops it. *)
THEOREM RingsStayHome == Spec => []NoCarriedRing
<1>1. IInv => NoCarriedRing
  <2> SUFFICES ASSUME IInv, carried PROVE FocusedOn(app) = NoFocus
    BY DEF NoCarriedRing
  <2>1. OnNowPlaying(app) /\ AppOK(app)
    BY DEF IInv
  <2>2. DOMAIN TargetsOf(app) = {}
    BY <2>1, TargetsType DEF OnNowPlaying
  <2> QED
    BY <2>2 DEF FocusedOn
<1> QED
  BY <1>1, IInvHolds, PTL

(* However late the ticks come and however often the watch is started and  *)
(* stopped, it is off by less than a second for each start. *)
THEOREM WatchKeepsTime == Spec => []StopwatchCounts
<1>1. IInv => StopwatchCounts
  <2> SUFFICES ASSUME IInv, app.active.screen = "Stopwatch"
               PROVE  /\ Off <= runs * Slack
                      /\ -Off <= runs * Slack
    BY DEF StopwatchCounts, Off, Slack
  <2>1. /\ app.active \in [screen : {"Stopwatch"}, running : BOOLEAN,
                           seconds : Nat, last : Nat]
        /\ app.now \in Nat /\ ran \in Nat /\ runs \in Nat
    BY DEF IInv, AppOK, Actives
  <2>2. TicksPerSecond \in Nat \ {0} /\ Slack \in Nat
    BY ScreenAssumption DEF Slack
  <2>3. Off \in Int /\ runs * Slack \in Int
    BY <2>1, <2>2, Distribute DEF Off
  <2>4. CASE ~app.active.running
    BY <2>3, <2>4 DEF IInv, WatchExact
  <2>5. CASE app.active.running
    <3>1. Gone \in 0..Slack
      BY <2>1, <2>5, SecondGone DEF IInv, WatchExact, Gone
    <3>2. runs * Slack = (runs - 1) * Slack + Slack /\ (runs - 1) * Slack \in Int
      <4>1. runs - 1 \in Int /\ Slack \in Int /\ (runs - 1) + 1 = runs
        BY <2>1, <2>2
      <4>2. /\ ((runs - 1) + 1) * Slack = (runs - 1) * Slack + Slack
            /\ (runs - 1) * Slack \in Int
        BY <4>1, OneMore
      <4> QED
        BY <4>1, <4>2
    <3>3. -((runs - 1) * Slack) <= Off + Gone /\ Off + Gone <= runs * Slack
      BY <2>5 DEF IInv, WatchExact
    <3> DEFINE k == (runs - 1) * Slack
               n == runs * Slack
    <3>4. /\ n = k + Slack /\ k \in Int /\ Slack \in Nat
          /\ -k <= Off + Gone /\ Off + Gone <= n
      BY <2>2, <3>2, <3>3
    <3> HIDE DEF k, n
    <3>5. Off <= n /\ -Off <= n
      BY <2>3, <3>1, <3>4
    <3> QED
      BY <3>5 DEF n
  <2> QED
    BY <2>4, <2>5
<1> QED
  BY <1>1, IInvHolds, PTL
-----------------------------------------------------------------------------
(* What shows, in parts.                                                   *)

(* Panels, caches and sessions are records, pictures functions. *)
IsPicture(picture) == picture = [r \in Picture |-> picture[r]]

IsPanel(p) ==
  /\ p = [picture |-> p.picture, title |-> p.title, artist |-> p.artist,
          progress |-> p.progress, header |-> p.header, tiles |-> p.tiles,
          chrome |-> p.chrome, net |-> p.net, watch |-> p.watch, rings |-> p.rings]
  /\ IsPicture(p.picture)

IsNow(c) ==
  /\ c = [phase |-> c.phase, filled |-> c.filled, duration |-> c.duration,
          title |-> c.title, artist |-> c.artist, art |-> c.art,
          loading |-> c.loading, overlay |-> c.overlay, value |-> c.value,
          percent |-> c.percent, badge |-> c.badge]
  /\ c.loading \in BOOLEAN /\ c.overlay \in BOOLEAN /\ c.badge \in BOOLEAN

IsCache(c) ==
  /\ c = [page |-> c.page, kind |-> c.kind, now |-> c.now, choices |-> c.choices]
  /\ IsNow(c.now)
  /\ c.choices = [header |-> c.choices.header, tiles |-> c.choices.tiles]

IsSession(s) ==
  /\ s = [lastScreen |-> s.lastScreen, lastFocus |-> s.lastFocus,
          launcher |-> s.launcher, hifi |-> s.hifi]
  /\ s.launcher = [chrome |-> s.launcher.chrome, net |-> s.launcher.net,
                   phase |-> s.launcher.phase]
  /\ s.launcher.chrome \in BOOLEAN
  /\ IsCache(s.hifi)

Plain(uri) == [Blank EXCEPT !.base = uri]

NoPicture(p) ==
  /\ p.picture = BlackPanel.picture
  /\ p.title = None /\ p.artist = None /\ p.progress = None
NoTiles(p) == p.header = FALSE /\ p.tiles = BlackPanel.tiles
NoChrome(p) == p.chrome = FALSE /\ p.net = None
NoWatch(p) == p.watch = None

RingOf(focus) == IF focus = NoFocus THEN {} ELSE {focus}

(* What a cache remembers of a panel is on it, and nothing of another page. *)
LauncherKept(p, c) ==
  /\ NoPicture(p) /\ NoTiles(p) /\ NoWatch(p)
  /\ p.chrome = c.chrome
  /\ IF c.net = None THEN p.net = None
     ELSE /\ c.net \in AllNetworks /\ p.net = [status |-> c.net, phase |-> c.phase]
          /\ c.net # "Connecting" => c.phase = None

StopwatchKept(p) == NoPicture(p) /\ NoTiles(p) /\ NoChrome(p)

CoverKept(picture, c) ==
  IF c.kind # "Artwork" THEN picture["rim"] = Blank
  ELSE /\ picture["rim"] = Plain(c.now.art)
       /\ ~c.now.overlay => picture["field"] = Plain(c.now.art)
       /\ ~c.now.overlay /\ ~c.now.badge =>
            \A r \in BadgeSquare : picture[r] = Plain(c.now.art)

WordsKept(p, now) ==
  /\ p.title = now.title /\ p.artist = now.artist /\ p.progress = now.filled
  /\ now.loading => now.title = None /\ now.artist = None /\ now.filled = None

TilesKept(p, choices) ==
  /\ p.header = choices.header
  /\ p.tiles = [slot \in Slots |-> IF choices.tiles[slot] = None THEN None
                                   ELSE TileShown(choices.tiles[slot])]

HifiKept(p, c) ==
  CASE c.page = "NowPlaying" ->
         /\ NoTiles(p) /\ NoChrome(p) /\ NoWatch(p)
         /\ CoverKept(p.picture, c) /\ WordsKept(p, c.now)
    [] c.page = "Choices" ->
         NoPicture(p) /\ NoChrome(p) /\ NoWatch(p) /\ TilesKept(p, c.choices)
    [] OTHER -> TRUE

Kept(name, p, s) ==
  CASE name = "Launcher"    -> LauncherKept(p, s.launcher)
    [] name = "Stopwatch"   -> StopwatchKept(p)
    [] name = "HifiControl" -> NoWatch(p) /\ HifiKept(p, s.hifi)

(* Unless its last frame failed. *)
Honest(p, s) ==
  s.lastScreen # None =>
    /\ s.lastScreen \in ScreenNames /\ IsPanel(p)
    /\ p.rings = RingOf(s.lastFocus) /\ Kept(s.lastScreen, p, s)

(* A screen that waits for its first report has drawn no words. *)
Unspoken(screen, now) ==
  screen.loading => now.title = None /\ now.artist = None /\ now.filled = None

Young(a, s) ==
  s.lastScreen = "HifiControl" =>
    /\ a.active.screen = "HifiControl"
    /\ Unspoken(a.active.hifi, s.hifi.now)

(* A cover that shows with nothing over it. *)
Bare(a) ==
  /\ a.active.screen = "HifiControl" /\ a.active.hifi.page = "NowPlaying"
  /\ ArtKind(a.active.hifi) = "Artwork" /\ ~BadgeWanted(a.active.hifi)
  /\ a.active.hifi.overlayUntil = None
-----------------------------------------------------------------------------
LEMMA BlankPlain == Blank = Plain(None)
BY DEF Blank, Plain

LEMMA Regions ==
  /\ Picture = {"core", "number", "gauge", "field", "rim"}
  /\ Readout = {"core", "number", "gauge", "field"}
  /\ BadgeSquare = {"core", "number", "gauge"}
BY DEF Picture, Readout, BadgeSquare

LEMMA BlackIsPanel ==
  /\ IsPanel(BlackPanel) /\ BlackPanel.rings = {}
  /\ NoPicture(BlackPanel) /\ NoTiles(BlackPanel) /\ NoChrome(BlackPanel)
  /\ NoWatch(BlackPanel)
  /\ \A r \in Picture : BlackPanel.picture[r] = Blank
BY DEF IsPanel, IsPicture, BlackPanel, NoPicture, NoTiles, NoChrome, NoWatch

(* Drawing on a picture. *)
LEMMA CoverProperty ==
  ASSUME NEW picture, NEW regions, NEW base
  PROVE  /\ IsPicture(Cover(picture, regions, base))
         /\ \A r \in Picture :
              Cover(picture, regions, base)[r]
                = IF r \in regions THEN Plain(base) ELSE picture[r]
BY DEF IsPicture, Cover, Plain

LEMMA MarkProperty ==
  ASSUME NEW picture, NEW mark
  PROVE  /\ IsPicture(Mark(picture, mark))
         /\ \A r \in Picture \ BadgeSquare : Mark(picture, mark)[r] = picture[r]
BY DEF IsPicture, Mark

LEMMA BadgeProperty ==
  ASSUME NEW picture
  PROVE  /\ IsPicture(Badge(picture))
         /\ \A r \in Picture \ BadgeSquare : Badge(picture)[r] = picture[r]
BY CoverProperty, MarkProperty DEF Badge

LEMMA LevelProperty ==
  ASSUME NEW picture, IsPicture(picture), NEW region \in Picture, NEW level
  PROVE  /\ IsPicture(Level(picture, region, level))
         /\ \A r \in Picture \ {region} : Level(picture, region, level)[r] = picture[r]
<1>1. DOMAIN picture = Picture
  BY DEF IsPicture
<1>2. Level(picture, region, level)
        = [r \in Picture |-> IF r = region
                             THEN [base |-> "readout", marks |-> {}, level |-> level]
                             ELSE picture[r]]
  BY <1>1 DEF Level
<1> QED
  BY <1>2 DEF IsPicture

(* What a panel steadily shows, part by part. *)
WatchPart(watch) == IF watch = None THEN None ELSE SubSeq(watch, 1, 3)

LEMMA SteadySame ==
  ASSUME NEW p, IsPanel(p), NEW q, IsPanel(q),
         p.picture["rim"] = q.picture["rim"],
         p.title = q.title, p.artist = q.artist, p.progress = q.progress,
         p.header = q.header, p.tiles = q.tiles, p.chrome = q.chrome, p.net = q.net,
         WatchPart(p.watch) = WatchPart(q.watch), p.rings = q.rings
  PROVE  SteadyPart(p) = SteadyPart(q)
<1> DEFINE Rest(x) == [r \in Picture |-> IF r \in Readout THEN Blank ELSE x.picture[r]]
<1>1. Rest(p) = Rest(q)
  BY Regions
<1>2. ASSUME NEW x, IsPanel(x)
      PROVE  SteadyPart(x) =
               [picture |-> Rest(x), title |-> x.title, artist |-> x.artist,
                progress |-> x.progress, header |-> x.header, tiles |-> x.tiles,
                chrome |-> x.chrome, net |-> x.net, watch |-> WatchPart(x.watch),
                rings |-> x.rings]
  <2>1. SteadyPart(x) = [x EXCEPT !.picture = Rest(x), !.watch = WatchPart(x.watch)]
    BY DEF SteadyPart, WatchPart
  <2> HIDE DEF Rest
  <2> QED
    BY <1>2, <2>1 DEF IsPanel
<1> QED
  BY <1>1, <1>2
-----------------------------------------------------------------------------
(* The truth, part by part.                                                *)

LEMMA KindType ==
  ASSUME NEW s PROVE ArtKind(s) \in ArtKinds
BY DEF ArtKind, ArtKinds

LEMMA PictureRim ==
  ASSUME NEW s, NEW phase
  PROVE  /\ IsPicture(PictureOf(s, phase))
         /\ PictureOf(s, phase)["rim"]
              = IF ArtKind(s) = "Artwork" THEN Plain(s.artwork) ELSE Blank
<1> DEFINE kind == ArtKind(s)
           base == Cover(BlackPanel.picture, Picture,
                         IF kind = "Artwork" THEN s.artwork ELSE None)
           under == CASE kind \in {"Spinner", "Buffering"}   -> Mark(base, Dots(phase))
                      [] kind \in {"PauseBars", "PlayIcon"} -> Mark(base, Glyph(kind))
                      [] kind = "Artwork" -> IF BadgeWanted(s) THEN Badge(base) ELSE base
           rim == IF kind = "Artwork" THEN Plain(s.artwork) ELSE Blank
           readout == Cover(under, Readout, "readout")
           number == Level(readout, "number", s.status.volume)
           gauge == Level(number, "gauge", s.status.volume)
<1>1. IsPicture(base) /\ base["rim"] = rim
  BY CoverProperty, BlankPlain, Regions
<1>2. kind \in ArtKinds
  BY KindType
<1>3. PictureOf(s, phase) = IF s.loading \/ s.overlayUntil = None THEN under ELSE gauge
  BY DEF PictureOf
<1> HIDE DEF base, kind
<1>4. IsPicture(under) /\ under["rim"] = rim
  BY <1>1, <1>2, MarkProperty, BadgeProperty, Regions DEF ArtKinds
<1> HIDE DEF under
<1>5. IsPicture(readout) /\ readout["rim"] = rim
  BY <1>4, CoverProperty, Regions
<1> HIDE DEF readout
<1>6. IsPicture(number) /\ number["rim"] = rim
  BY <1>5, LevelProperty, Regions
<1> HIDE DEF number
<1>7. IsPicture(gauge) /\ gauge["rim"] = rim
  BY <1>6, LevelProperty, Regions
<1> HIDE DEF gauge
<1> QED
  BY <1>3, <1>4, <1>7 DEF kind

(* A cover with nothing over it is all of the picture. *)
LEMMA BarePicture ==
  ASSUME NEW s, NEW phase, ArtKind(s) = "Artwork", ~BadgeWanted(s), s.overlayUntil = None
  PROVE  PictureOf(s, phase) = [r \in Picture |-> Plain(s.artwork)]
<1>1. PictureOf(s, phase) = Cover(BlackPanel.picture, Picture, s.artwork)
  BY DEF PictureOf
<1> QED
  BY <1>1 DEF Cover, Plain

LEMMA PageFields ==
  ASSUME NEW a, a.active.screen \in ScreenNames
  PROVE  LET p == PageOf(a)
             s == a.active.hifi
         IN  /\ IsPanel(p)
             /\ a.active.screen = "Launcher" =>
                  /\ NoPicture(p) /\ NoTiles(p) /\ NoWatch(p)
                  /\ p.chrome = TRUE /\ p.net = NetShown(a)
             /\ a.active.screen = "Stopwatch" =>
                  /\ NoPicture(p) /\ NoTiles(p) /\ NoChrome(p)
                  /\ p.watch = WatchShown(a)
             /\ a.active.screen = "HifiControl" /\ s.page = "Choices" =>
                  /\ NoPicture(p) /\ NoChrome(p) /\ NoWatch(p)
                  /\ p.header = TRUE
                  /\ p.tiles = [slot \in Slots |-> TileShown(TileOf(s, slot))]
             /\ a.active.screen = "HifiControl" /\ s.page # "Choices" =>
                  /\ NoTiles(p) /\ NoChrome(p) /\ NoWatch(p)
                  /\ p.picture = PictureOf(s, Phase(a.now))
                  /\ p.title = IF s.loading THEN None ELSE TitleText(s.status)
                  /\ p.artist = IF s.loading THEN None ELSE ArtistText(s.status)
                  /\ p.progress = IF s.loading THEN None ELSE Filled(s.status)
<1> DEFINE p == PageOf(a)
           s == a.active.hifi
<1>1. CASE a.active.screen = "Launcher"
  <2>1. p = [BlackPanel EXCEPT !.chrome = TRUE, !.net = NetShown(a)]
    BY <1>1 DEF PageOf
  <2> QED
    BY <1>1, <2>1 DEF BlackPanel, IsPanel, IsPicture, NoPicture, NoTiles, NoWatch
<1>2. CASE a.active.screen = "Stopwatch"
  <2>1. p = [BlackPanel EXCEPT !.watch = WatchShown(a)]
    BY <1>2 DEF PageOf
  <2> QED
    BY <1>2, <2>1 DEF BlackPanel, IsPanel, IsPicture, NoPicture, NoTiles, NoChrome
<1>3. CASE a.active.screen = "HifiControl" /\ s.page = "Choices"
  <2>1. p = [BlackPanel EXCEPT !.header = TRUE,
                     !.tiles = [slot \in Slots |-> TileShown(TileOf(s, slot))]]
    BY <1>3 DEF PageOf, ChoicesOf
  <2> QED
    BY <1>3, <2>1 DEF BlackPanel, IsPanel, IsPicture, NoPicture, NoWatch, NoChrome
<1>4. CASE a.active.screen = "HifiControl" /\ s.page # "Choices"
  <2> DEFINE title == IF s.loading THEN None ELSE TitleText(s.status)
             artist == IF s.loading THEN None ELSE ArtistText(s.status)
             filled == IF s.loading THEN None ELSE Filled(s.status)
             picture == PictureOf(s, Phase(a.now))
  <2>1. p = [BlackPanel EXCEPT !.picture = picture, !.title = title, !.artist = artist,
                               !.progress = filled]
    BY <1>4 DEF PageOf, NowPlayingOf
  <2>2. IsPicture(picture)
    BY PictureRim
  <2> HIDE DEF title, artist, filled, picture
  <2>3. /\ IsPanel(p) /\ NoTiles(p) /\ NoChrome(p) /\ NoWatch(p)
        /\ p.picture = picture /\ p.title = title /\ p.artist = artist
        /\ p.progress = filled
    BY <2>1, <2>2 DEF BlackPanel, IsPanel, NoTiles, NoWatch, NoChrome
  <2> QED
    BY <1>4, <2>3 DEF title, artist, filled, picture
<1> QED
  BY <1>1, <1>2, <1>3, <1>4 DEF ScreenNames

LEMMA TruthFields ==
  ASSUME NEW a, a.active.screen \in ScreenNames
  PROVE  LET p == PageOf(a)
             q == Truth(a)
         IN  /\ IsPanel(q) /\ q.rings = RingOf(FocusedOn(a))
             /\ q.picture = p.picture /\ q.title = p.title /\ q.artist = p.artist
             /\ q.progress = p.progress /\ q.header = p.header /\ q.tiles = p.tiles
             /\ q.chrome = p.chrome /\ q.net = p.net /\ q.watch = p.watch
<1> DEFINE p == PageOf(a)
           focus == FocusedOn(a)
<1>1. IsPanel(p)
  BY PageFields
<1>2. Truth(a) = [p EXCEPT !.rings = RingOf(focus)]
  BY DEF Truth, RingOf
<1> HIDE DEF p, focus
<1> QED
  BY <1>1, <1>2 DEF IsPanel, p, focus
-----------------------------------------------------------------------------
(* The Now Playing page and the tiles, step by step.                       *)

IsDraw(d) ==
  d = [panel |-> d.panel, cache |-> d.cache] /\ IsPanel(d.panel) /\ IsCache(d.cache)

OnlyPicture(p, q) ==
  /\ p.title = q.title /\ p.artist = q.artist /\ p.progress = q.progress
  /\ p.header = q.header /\ p.tiles = q.tiles /\ p.chrome = q.chrome
  /\ p.net = q.net /\ p.watch = q.watch /\ p.rings = q.rings

LEMMA WithPicture ==
  ASSUME NEW p, IsPanel(p), NEW picture, IsPicture(picture)
  PROVE  LET q == [p EXCEPT !.picture = picture]
         IN  IsPanel(q) /\ OnlyPicture(p, q) /\ q.picture = picture
BY DEF IsPanel, OnlyPicture

LEMMA FreshCache ==
  /\ IsCache(HifiCache) /\ HifiCache.page = None
  /\ HifiCache.kind = None /\ ~HifiCache.now.loading
  /\ HifiCache.now.title = None /\ HifiCache.now.artist = None
  /\ HifiCache.now.filled = None
  /\ HifiCache.choices.header = FALSE
  /\ \A slot \in Slots : HifiCache.choices.tiles[slot] = None
BY DEF HifiCache, NowPlayingCache, ChoicesCache, IsCache, IsNow

LEMMA OpenPageKeeps ==
  ASSUME NEW s, s.page \in {"NowPlaying", "Choices"}, NEW d, IsDraw(d), NEW rings,
         NoWatch(d.panel), HifiKept(d.panel, d.cache), Unspoken(s, d.cache.now),
         d.panel.rings \subseteq rings
  PROVE  LET o == OpenPage(s, d)
         IN  /\ IsDraw(o) /\ o.cache.page = s.page /\ NoWatch(o.panel)
             /\ HifiKept(o.panel, o.cache) /\ Unspoken(s, o.cache.now)
             /\ o.panel.rings \subseteq rings
<1> DEFINE o == OpenPage(s, d)
           cache == [HifiCache EXCEPT !.page = s.page]
<1>1. CASE d.cache.page = s.page
  BY <1>1 DEF OpenPage
<1>2. CASE d.cache.page # s.page
  <2>1. o = [panel |-> BlackPanel, cache |-> cache]
    BY <1>2 DEF OpenPage
  <2>2. /\ IsCache(cache) /\ cache.page = s.page /\ cache.kind = None
        /\ cache.now = HifiCache.now /\ cache.choices = HifiCache.choices
    BY FreshCache DEF IsCache
  <2> HIDE DEF cache
  <2>3. /\ IsDraw(o) /\ o.panel = BlackPanel /\ o.cache = cache
    BY <2>1, <2>2, BlackIsPanel DEF IsDraw
  <2>4. None # "Artwork"
    BY PanelAssumption DEF ArtKinds
  <2>5. CoverKept(BlackPanel.picture, cache)
    BY <2>2, <2>4, BlackIsPanel, Regions DEF CoverKept
  <2>6. WordsKept(BlackPanel, cache.now)
    BY <2>2, FreshCache, BlackIsPanel DEF WordsKept, NoPicture
  <2>7. TilesKept(BlackPanel, cache.choices)
    <3>1. /\ BlackPanel.header = FALSE
          /\ BlackPanel.tiles = [slot \in Slots |-> None]
      BY DEF BlackPanel
    <3> QED
      BY <2>2, <3>1, FreshCache DEF TilesKept
  <2>8. HifiKept(BlackPanel, cache)
    BY <2>2, <2>5, <2>6, <2>7, BlackIsPanel DEF HifiKept
  <2>9. Unspoken(s, cache.now)
    BY <2>2, FreshCache DEF Unspoken
  <2> QED
    BY <2>2, <2>3, <2>8, <2>9, BlackIsPanel
<1> QED
  BY <1>1, <1>2

(* Once the slot is cleared it is of the picture's kind or blank. *)
SlotKept(s, d) ==
  IF d.cache.kind = ArtKind(s) THEN CoverKept(d.panel.picture, d.cache)
  ELSE \A r \in Picture : d.panel.picture[r] = Blank

LEMMA ClearSlotKeeps ==
  ASSUME NEW s, NEW d, IsDraw(d), CoverKept(d.panel.picture, d.cache)
  PROVE  LET o == ClearSlot(s, d)
         IN  /\ IsDraw(o) /\ o.cache = d.cache /\ OnlyPicture(d.panel, o.panel)
             /\ SlotKept(s, o)
<1> DEFINE o == ClearSlot(s, d)
           picture == Cover(d.panel.picture, Picture, None)
<1>1. CASE d.cache.kind = ArtKind(s)
  BY <1>1 DEF ClearSlot, SlotKept, OnlyPicture
<1>2. CASE d.cache.kind # ArtKind(s)
  <2>1. IsPicture(picture) /\ \A r \in Picture : picture[r] = Blank
    BY CoverProperty, BlankPlain
  <2> DEFINE p == [d.panel EXCEPT !.picture = picture]
  <2>2. o = [d EXCEPT !.panel = p]
    BY <1>2 DEF ClearSlot, IsDraw
  <2> HIDE DEF picture
  <2>3. IsPanel(p) /\ OnlyPicture(d.panel, p) /\ p.picture = picture
    BY <2>1, WithPicture DEF IsDraw
  <2> HIDE DEF p
  <2>4. IsDraw(o) /\ o.cache = d.cache /\ o.panel = p
    BY <2>2, <2>3 DEF IsDraw
  <2> HIDE DEF o
  <2> QED
    BY <1>2, <2>1, <2>3, <2>4 DEF SlotKept, o
<1> QED
  BY <1>1, <1>2

LEMMA SpinnerProperty ==
  ASSUME NEW picture, IsPicture(picture), NEW c, NEW kind, NEW wiped, NEW phase
  PROVE  LET q == SpinnerOn(picture, c, kind, wiped, phase)
         IN  IsPicture(q) /\ q["rim"] = picture["rim"]
BY MarkProperty, Regions DEF SpinnerOn

(* What the drawing of the picture does to it, and to the caches. *)
LEMMA DrawPictureShows ==
  ASSUME NEW s, NEW d, IsDraw(d), NEW phase, SlotKept(s, d)
  PROVE  LET o == DrawPicture(s, d, phase)
         IN  /\ IsDraw(o) /\ OnlyPicture(d.panel, o.panel)
             /\ o.cache.page = d.cache.page /\ o.cache.kind = ArtKind(s)
             /\ CoverKept(o.panel.picture, o.cache)
             /\ ArtKind(s) = "Artwork" => o.cache.now.art = s.artwork
             /\ s.overlayUntil = None => ~o.cache.now.overlay
<1> DEFINE kind == ArtKind(s)
           c == d.cache
           wiped  == HidesReadout(s, d)
           black  == IF wiped /\ kind # "Artwork"
                     THEN Cover(d.panel.picture, Readout, None) ELSE d.panel.picture
           shown  == IF ~wiped THEN c.now
                     ELSE [c.now EXCEPT !.overlay = FALSE, !.value = None, !.percent = None]
           turns  == kind \in {"Spinner", "Buffering"}
           cached == IF kind = "Spinner" THEN [shown EXCEPT !.loading = TRUE]
                     ELSE ForgetLoading(shown)
           now    == [cached EXCEPT !.phase = IF turns THEN phase ELSE @,
                                    !.art = IF kind = "Artwork" THEN s.artwork ELSE @]
           picture == IF kind = "Spinner" THEN SpinnerOn(black, c, kind, wiped, phase)
                      ELSE PictureOn(s, black, c, wiped, phase)
           o == DrawPicture(s, d, phase)
           p == [d.panel EXCEPT !.picture = picture]
           e == [c EXCEPT !.kind = kind, !.now = now]
<1>1. o = [panel |-> p, cache |-> e]
  BY DEF DrawPicture
<1>2. kind \in ArtKinds /\ IsCache(c) /\ IsNow(c.now) /\ IsPicture(d.panel.picture)
  BY KindType DEF IsDraw, IsCache, IsPanel
<1>3. wiped <=> c.now.overlay /\ s.overlayUntil = None
  BY DEF HidesReadout
<1>4. IsNow(shown) /\ shown.art = c.now.art /\ shown.badge = c.now.badge
      /\ shown.overlay = (c.now.overlay /\ ~wiped)
  <2>1. CASE wiped
    BY <1>2, <2>1 DEF IsNow
  <2>2. CASE ~wiped
    BY <1>2, <2>2 DEF IsNow
  <2> QED
    BY <2>1, <2>2
<1> HIDE DEF shown
<1>5. IsNow(cached) /\ cached.art = shown.art /\ cached.badge = shown.badge
      /\ cached.overlay = shown.overlay
  BY <1>4 DEF IsNow, ForgetLoading
<1> HIDE DEF cached
<1>6. /\ IsNow(now) /\ now.badge = c.now.badge
      /\ now.art = IF kind = "Artwork" THEN s.artwork ELSE c.now.art
      /\ now.overlay = (c.now.overlay /\ ~wiped)
  <2>1. now = [cached EXCEPT !.phase = IF turns THEN phase ELSE @,
                             !.art = IF kind = "Artwork" THEN s.artwork ELSE @]
    OBVIOUS
  <2> HIDE DEF now
  <2> QED
    BY <1>4, <1>5, <2>1 DEF IsNow
<1> HIDE DEF now
<1>7. IsCache(e) /\ e.page = c.page /\ e.kind = kind /\ e.now = now
  <2>1. e = [c EXCEPT !.kind = kind, !.now = now]
    OBVIOUS
  <2> HIDE DEF e
  <2> QED
    BY <1>2, <1>6, <2>1 DEF IsCache
<1> HIDE DEF e
<1>8. /\ IsPicture(black) /\ black["rim"] = d.panel.picture["rim"]
      /\ kind = "Artwork" => black = d.panel.picture
  BY <1>2, CoverProperty, Regions
<1> HIDE DEF black
<1>9. IsPicture(picture) /\ CoverKept(picture, e)
  <2>1. CASE kind = "Artwork"
    <3> DEFINE painted == c.now.art = s.artwork /\ c.kind = "Artwork"
    <3>1. picture = IF ~painted THEN Cover(d.panel.picture, Picture, s.artwork)
                    ELSE IF wiped THEN Cover(d.panel.picture, Readout, s.artwork)
                    ELSE d.panel.picture
      BY <1>8, <2>1 DEF PictureOn
    <3>2. now.art = s.artwork
      BY <1>6, <2>1
    <3>3. CASE ~painted
      <4>1. IsPicture(picture) /\ \A r \in Picture : picture[r] = Plain(s.artwork)
        BY <3>1, <3>3, CoverProperty
      <4> HIDE DEF picture
      <4> QED
        BY <1>7, <2>1, <3>2, <4>1, Regions DEF CoverKept
    <3>4. CASE painted /\ wiped
      <4>0. picture = Cover(d.panel.picture, Readout, s.artwork)
        BY <3>1, <3>4
      <4>1. /\ IsPicture(picture) /\ \A r \in Readout : picture[r] = Plain(s.artwork)
            /\ picture["rim"] = d.panel.picture["rim"]
        <5> HIDE DEF picture
        <5> QED
          BY <4>0, CoverProperty, Regions
      <4>2. d.panel.picture["rim"] = Plain(s.artwork)
        BY <2>1, <3>4 DEF SlotKept, CoverKept
      <4> HIDE DEF picture
      <4> QED
        BY <1>7, <2>1, <3>2, <4>1, <4>2, Regions DEF CoverKept
    <3>5. CASE painted /\ ~wiped
      <4>1. picture = d.panel.picture /\ CoverKept(picture, c)
        BY <2>1, <3>1, <3>5 DEF SlotKept
      <4> HIDE DEF picture
      <4>2. now.overlay = c.now.overlay
        BY <1>2, <1>6, <3>5 DEF IsNow
      <4> QED
        BY <1>2, <1>6, <1>7, <2>1, <3>5, <4>1, <4>2 DEF CoverKept
    <3> QED
      BY <3>3, <3>4, <3>5
  <2>2. CASE kind # "Artwork"
    <3>1. d.panel.picture["rim"] = Blank
      BY <2>2, Regions DEF SlotKept, CoverKept
    <3>2. IsPicture(picture) /\ picture["rim"] = black["rim"]
      <4>1. CASE kind \in {"Spinner", "Buffering"}
        BY <1>8, <4>1, SpinnerProperty DEF PictureOn
      <4>2. CASE kind \in {"PauseBars", "PlayIcon"}
        BY <1>8, <4>2, MarkProperty, Regions DEF PictureOn
      <4> QED
        BY <1>2, <2>2, <4>1, <4>2 DEF ArtKinds
    <3> QED
      BY <1>7, <1>8, <2>2, <3>1, <3>2 DEF CoverKept
  <2> QED
    BY <2>1, <2>2
<1> HIDE DEF picture
<1>10. IsPanel(p) /\ OnlyPicture(d.panel, p) /\ p.picture = picture
  BY <1>9, WithPicture DEF IsDraw
<1> HIDE DEF p
<1>11. IsDraw(o) /\ o.panel = p /\ o.cache = e
  BY <1>1, <1>7, <1>10 DEF IsDraw
<1>12. s.overlayUntil = None => ~now.overlay
  BY <1>3, <1>6
<1> HIDE DEF o
<1> QED
  BY <1>6, <1>7, <1>9, <1>10, <1>11, <1>12 DEF o

LEMMA SpinnerLoads == ASSUME NEW s PROVE s.loading <=> ArtKind(s) = "Spinner"
BY DEF ArtKind

(* It leaves the words, and forgets none but those of a screen that had     *)
(* drawn none. *)
LEMMA DrawPictureWords ==
  ASSUME NEW s, NEW d, IsDraw(d), NEW phase,
         WordsKept(d.panel, d.cache.now), Unspoken(s, d.cache.now)
  PROVE  LET o == DrawPicture(s, d, phase)
         IN  /\ WordsKept([d.panel EXCEPT !.picture = o.panel.picture], o.cache.now)
             /\ Unspoken(s, o.cache.now) /\ o.cache.now.loading = (ArtKind(s) = "Spinner")
<1> DEFINE kind == ArtKind(s)
           c == d.cache.now
           wiped  == HidesReadout(s, d)
           shown  == IF ~wiped THEN c
                     ELSE [c EXCEPT !.overlay = FALSE, !.value = None, !.percent = None]
           turns  == kind \in {"Spinner", "Buffering"}
           cached == IF kind = "Spinner" THEN [shown EXCEPT !.loading = TRUE]
                     ELSE ForgetLoading(shown)
           now    == [cached EXCEPT !.phase = IF turns THEN phase ELSE @,
                                    !.art = IF kind = "Artwork" THEN s.artwork ELSE @]
           o == DrawPicture(s, d, phase)
           p == [d.panel EXCEPT !.picture = o.panel.picture]
           Same(x, y) == x.title = y.title /\ x.artist = y.artist /\ x.filled = y.filled
<1>1. o.cache = [d.cache EXCEPT !.kind = kind, !.now = now]
  BY DEF DrawPicture
<1>2. IsNow(c) /\ o.cache.now = now
  <2> HIDE DEF now, o, kind
  <2> QED
    BY <1>1 DEF IsDraw, IsCache
<1>3. IsNow(shown) /\ Same(shown, c) /\ shown.loading = c.loading
  <2>1. CASE wiped
    BY <1>2, <2>1 DEF IsNow
  <2>2. CASE ~wiped
    BY <1>2, <2>2 DEF IsNow
  <2> QED
    BY <2>1, <2>2
<1> HIDE DEF shown
<1>4. c.loading => c.title = None /\ c.artist = None /\ c.filled = None
  BY DEF WordsKept
<1>5. IsNow(cached) /\ Same(cached, c) /\ cached.loading = (kind = "Spinner")
  <2>1. CASE kind = "Spinner"
    BY <1>3, <2>1 DEF IsNow
  <2>2. CASE kind # "Spinner" /\ ~shown.loading
    BY <1>3, <2>2 DEF IsNow, ForgetLoading
  <2>3. CASE kind # "Spinner" /\ shown.loading
    <3>1. cached = [shown EXCEPT !.title = None, !.artist = None, !.filled = None,
                                 !.duration = None, !.loading = FALSE]
      BY <2>3 DEF ForgetLoading
    <3> HIDE DEF cached
    <3>2. IsNow(cached) /\ cached.title = None /\ cached.artist = None
          /\ cached.filled = None /\ ~cached.loading
      BY <1>3, <3>1 DEF IsNow
    <3> QED
      BY <1>3, <1>4, <2>3, <3>2 DEF IsNow
  <2> QED
    BY <2>1, <2>2, <2>3
<1> HIDE DEF cached
<1>6. Same(now, c) /\ now.loading = (kind = "Spinner")
  BY <1>5 DEF IsNow
<1>7. p.title = d.panel.title /\ p.artist = d.panel.artist /\ p.progress = d.panel.progress
  BY DEF IsDraw, IsPanel
<1>8. kind = "Spinner" => s.loading
  BY SpinnerLoads
<1> HIDE DEF now, p, o, kind
<1>9. WordsKept(p, now) /\ Unspoken(s, now)
  BY <1>6, <1>7, <1>8 DEF WordsKept, Unspoken
<1> QED
  BY <1>2, <1>6, <1>9 DEF kind, p, o

OnlyBadge(m, n) ==
  /\ m.title = n.title /\ m.artist = n.artist /\ m.filled = n.filled
  /\ m.duration = n.duration /\ m.loading = n.loading /\ m.art = n.art
  /\ m.overlay = n.overlay

LEMMA DrawBadgeKeeps ==
  ASSUME NEW s, NEW d, IsDraw(d), NEW wiped, CoverKept(d.panel.picture, d.cache),
         d.cache.kind = ArtKind(s),
         ArtKind(s) = "Artwork" => d.cache.now.art = s.artwork
  PROVE  LET o == DrawBadge(s, d, wiped)
         IN  /\ IsDraw(o) /\ OnlyPicture(d.panel, o.panel)
             /\ CoverKept(o.panel.picture, o.cache)
             /\ o.cache.page = d.cache.page /\ o.cache.kind = d.cache.kind
             /\ OnlyBadge(d.cache.now, o.cache.now)
             /\ ~BadgeWanted(s) => ~o.cache.now.badge
<1> DEFINE o == DrawBadge(s, d, wiped)
           Drawn(picture, badge) ==
             [d EXCEPT !.panel.picture = picture, !.cache.now.badge = badge]
<1>0. IsPanel(d.panel) /\ IsCache(d.cache) /\ IsNow(d.cache.now) /\ IsPicture(d.panel.picture)
  BY DEF IsDraw, IsCache, IsPanel
<1>1. ASSUME NEW picture, IsPicture(picture), NEW badge \in BOOLEAN,
             picture["rim"] = d.panel.picture["rim"],
             picture["field"] = d.panel.picture["field"],
             ~badge /\ ArtKind(s) = "Artwork" =>
               \A r \in BadgeSquare : picture[r] = Plain(s.artwork)
      PROVE  LET e == Drawn(picture, badge)
             IN  /\ IsDraw(e) /\ OnlyPicture(d.panel, e.panel)
                 /\ CoverKept(e.panel.picture, e.cache)
                 /\ e.cache.page = d.cache.page /\ e.cache.kind = d.cache.kind
                 /\ OnlyBadge(d.cache.now, e.cache.now) /\ e.cache.now.badge = badge
  <2> DEFINE e == Drawn(picture, badge)
             p == [d.panel EXCEPT !.picture = picture]
             now == [d.cache.now EXCEPT !.badge = badge]
             c == [d.cache EXCEPT !.now = now]
  <2>1. e = [d EXCEPT !.panel = p, !.cache = c]
    BY <1>0 DEF IsDraw, IsCache
  <2>2. IsPanel(p) /\ OnlyPicture(d.panel, p) /\ p.picture = picture
    BY <1>0, <1>1, WithPicture
  <2>3. IsNow(now) /\ now.badge = badge /\ OnlyBadge(d.cache.now, now)
    BY <1>0, <1>1 DEF IsNow, OnlyBadge
  <2> HIDE DEF p, now
  <2>4. IsCache(c) /\ c.page = d.cache.page /\ c.kind = d.cache.kind /\ c.now = now
    BY <1>0, <2>3 DEF IsCache
  <2> HIDE DEF c
  <2>5. e = [panel |-> p, cache |-> c]
    <3> HIDE DEF e
    <3> QED
      BY <2>1 DEF IsDraw
  <2>6. IsDraw(e) /\ e.panel = p /\ e.cache = c
    BY <2>2, <2>4, <2>5 DEF IsDraw
  <2>7. CoverKept(picture, c)
    BY <1>1, <2>3, <2>4 DEF CoverKept, OnlyBadge
  <2> HIDE DEF e
  <2> QED
    BY <2>2, <2>3, <2>4, <2>6, <2>7 DEF e
<1>2. CASE BadgeWanted(s) /\ d.cache.now.badge /\ ~wiped
  <2>1. o = d
    BY <1>2 DEF DrawBadge
  <2> QED
    BY <1>2, <2>1 DEF OnlyPicture, OnlyBadge
<1>3. CASE BadgeWanted(s) /\ ~(d.cache.now.badge /\ ~wiped)
  <2>1. o = Drawn(Badge(d.panel.picture), TRUE)
    BY <1>0, <1>3 DEF DrawBadge, IsDraw
  <2>2. /\ IsPicture(Badge(d.panel.picture))
        /\ Badge(d.panel.picture)["rim"] = d.panel.picture["rim"]
        /\ Badge(d.panel.picture)["field"] = d.panel.picture["field"]
    BY BadgeProperty, Regions
  <2> HIDE DEF o, Drawn
  <2> QED
    BY <1>1, <1>3, <2>1, <2>2 DEF o
<1>4. CASE ~BadgeWanted(s) /\ ~d.cache.now.badge
  <2>1. o = d
    BY <1>4 DEF DrawBadge
  <2> QED
    BY <1>4, <2>1 DEF OnlyPicture, OnlyBadge
<1>5. CASE ~BadgeWanted(s) /\ d.cache.now.badge
  <2> DEFINE base == IF ArtKind(s) = "Artwork" THEN s.artwork ELSE None
             picture == Cover(d.panel.picture, BadgeSquare, base)
  <2>1. o = Drawn(picture, FALSE)
    BY <1>0, <1>5 DEF DrawBadge, IsDraw
  <2>2. /\ IsPicture(picture)
        /\ picture["rim"] = d.panel.picture["rim"]
        /\ picture["field"] = d.panel.picture["field"]
        /\ \A r \in BadgeSquare : picture[r] = Plain(base)
    BY CoverProperty, Regions
  <2>3. ArtKind(s) = "Artwork" => base = s.artwork
    OBVIOUS
  <2> HIDE DEF o, Drawn, picture, base
  <2> QED
    BY <1>1, <1>5, <2>1, <2>2, <2>3 DEF o
<1> QED
  BY <1>2, <1>3, <1>4, <1>5

(* What a panel has besides the words and the bar. *)
OnlyWords(p, q) ==
  /\ p.picture = q.picture /\ p.header = q.header /\ p.tiles = q.tiles
  /\ p.chrome = q.chrome /\ p.net = q.net /\ p.watch = q.watch /\ p.rings = q.rings

LEMMA DrawWordsKeeps ==
  ASSUME NEW s, NEW d, IsDraw(d), WordsKept(d.panel, d.cache.now), ~d.cache.now.loading,
         CoverKept(d.panel.picture, d.cache)
  PROVE  LET o == DrawWords(s, d)
         IN  /\ IsDraw(o) /\ OnlyWords(d.panel, o.panel)
             /\ o.cache.page = d.cache.page /\ o.cache.kind = d.cache.kind
             /\ CoverKept(o.panel.picture, o.cache) /\ WordsKept(o.panel, o.cache.now)
             /\ ~o.cache.now.loading /\ o.cache.now.art = d.cache.now.art
             /\ o.cache.now.overlay = d.cache.now.overlay
             /\ o.cache.now.badge = d.cache.now.badge
             /\ o.panel.title = TitleText(s.status)
             /\ o.panel.artist = ArtistText(s.status)
             /\ o.panel.progress = Filled(s.status)
<1> DEFINE status == s.status
           title == TitleText(status)
           artist == ArtistText(status)
           filled == Filled(status)
           c == d.cache.now
           same == c.duration = status.duration /\ c.filled = filled
           p == [d.panel EXCEPT !.progress = IF same THEN @ ELSE filled,
                                !.title = IF c.title = title THEN @ ELSE title,
                                !.artist = IF c.artist = artist THEN @ ELSE artist]
           now == [c EXCEPT !.filled = filled, !.duration = status.duration,
                            !.title = title, !.artist = artist]
           e == [d.cache EXCEPT !.now = now]
           o == DrawWords(s, d)
<1>1. o = [panel |-> p, cache |-> e]
  BY DEF DrawWords
<1>2. IsPanel(d.panel) /\ IsCache(d.cache) /\ IsNow(c)
  BY DEF IsDraw, IsCache
<1> HIDE DEF title, artist, filled, status
<1>3. /\ IsPanel(p) /\ OnlyWords(d.panel, p)
      /\ p.title = title /\ p.artist = artist /\ p.progress = filled
  <2>1. p = [d.panel EXCEPT !.progress = IF same THEN @ ELSE filled,
                                !.title = IF c.title = title THEN @ ELSE title,
                                !.artist = IF c.artist = artist THEN @ ELSE artist]
    OBVIOUS
  <2> HIDE DEF p
  <2> QED
    BY <1>2, <2>1 DEF WordsKept, IsPanel, OnlyWords
<1>4. /\ IsNow(now) /\ now.title = title /\ now.artist = artist /\ now.filled = filled
      /\ now.loading = c.loading /\ now.art = c.art /\ now.overlay = c.overlay
      /\ now.badge = c.badge
  <2>1. now = [c EXCEPT !.filled = filled, !.duration = status.duration,
                            !.title = title, !.artist = artist]
    OBVIOUS
  <2> HIDE DEF now
  <2> QED
    BY <1>2, <2>1 DEF IsNow
<1> HIDE DEF p, now
<1>5. IsCache(e) /\ e.page = d.cache.page /\ e.kind = d.cache.kind /\ e.now = now
  BY <1>2, <1>4 DEF IsCache
<1> HIDE DEF e
<1>6. IsDraw(o) /\ o.panel = p /\ o.cache = e
  BY <1>1, <1>3, <1>5 DEF IsDraw
<1>7. CoverKept(p.picture, e)
  BY <1>3, <1>4, <1>5 DEF CoverKept, OnlyWords
<1>8. WordsKept(p, now)
  BY <1>3, <1>4 DEF WordsKept
<1> HIDE DEF o
<1> QED
  BY <1>3, <1>4, <1>5, <1>6, <1>7, <1>8 DEF title, artist, filled, status, o

LEMMA DrawReadoutKeeps ==
  ASSUME NEW s, NEW d, IsDraw(d), CoverKept(d.panel.picture, d.cache),
         WordsKept(d.panel, d.cache.now)
  PROVE  LET o == DrawReadout(s, d)
         IN  /\ IsDraw(o) /\ OnlyPicture(d.panel, o.panel)
             /\ o.cache.page = d.cache.page /\ o.cache.kind = d.cache.kind
             /\ CoverKept(o.panel.picture, o.cache) /\ WordsKept(o.panel, o.cache.now)
             /\ o.cache.now.art = d.cache.now.art
             /\ o.cache.now.loading = d.cache.now.loading
             /\ s.overlayUntil = None => o = d
<1> DEFINE level == s.status.volume
           c == d.cache.now
           cover == IF c.overlay THEN d.panel.picture
                    ELSE Cover(d.panel.picture, Readout, "readout")
           number == IF c.overlay /\ c.value = level THEN cover
                     ELSE Level(cover, "number", level)
           gauge  == IF c.overlay /\ c.percent = level THEN number
                     ELSE Level(number, "gauge", level)
           p == [d.panel EXCEPT !.picture = gauge]
           now == [c EXCEPT !.overlay = TRUE, !.value = level, !.percent = level]
           e == [d.cache EXCEPT !.now = now]
           o == DrawReadout(s, d)
<1>1. CASE s.overlayUntil = None
  BY <1>1 DEF DrawReadout, OnlyPicture
<1>2. CASE s.overlayUntil # None
  <2>1. o = [panel |-> p, cache |-> e]
    BY <1>2 DEF DrawReadout
  <2>2. IsPanel(d.panel) /\ IsCache(d.cache) /\ IsNow(c) /\ IsPicture(d.panel.picture)
    BY DEF IsDraw, IsCache, IsPanel
  <2>3. IsPicture(cover) /\ cover["rim"] = d.panel.picture["rim"]
    BY <2>2, CoverProperty, Regions
  <2> HIDE DEF cover
  <2>4. IsPicture(number) /\ number["rim"] = d.panel.picture["rim"]
    BY <2>3, LevelProperty, Regions
  <2> HIDE DEF number
  <2>5. IsPicture(gauge) /\ gauge["rim"] = d.panel.picture["rim"]
    BY <2>4, LevelProperty, Regions
  <2> HIDE DEF gauge
  <2>6. IsPanel(p) /\ OnlyPicture(d.panel, p) /\ p.picture = gauge
    BY <2>2, <2>5, WithPicture
  <2>7. /\ IsNow(now) /\ now.title = c.title /\ now.artist = c.artist
        /\ now.filled = c.filled /\ now.loading = c.loading /\ now.art = c.art
        /\ now.overlay
    <3>1. now = [c EXCEPT !.overlay = TRUE, !.value = level, !.percent = level]
      OBVIOUS
    <3> HIDE DEF now
    <3> QED
      BY <2>2, <3>1 DEF IsNow
  <2> HIDE DEF p, now
  <2>8. IsCache(e) /\ e.page = d.cache.page /\ e.kind = d.cache.kind /\ e.now = now
    BY <2>2, <2>7 DEF IsCache
  <2> HIDE DEF e
  <2>9. IsDraw(o) /\ o.panel = p /\ o.cache = e
    BY <2>1, <2>6, <2>8 DEF IsDraw
  <2>10. CoverKept(gauge, e)
    BY <2>5, <2>7, <2>8 DEF CoverKept
  <2>11. WordsKept(p, now)
    BY <2>6, <2>7 DEF WordsKept, OnlyPicture
  <2> HIDE DEF o
  <2> QED
    BY <1>2, <2>6, <2>7, <2>8, <2>9, <2>10, <2>11 DEF o
<1> QED
  BY <1>1, <1>2

LEMMA TileType ==
  ASSUME NEW s \in ScreenStates, NEW slot \in Slots
  PROVE  TileOf(s, slot) \in TileStates /\ TileOf(s, slot) # None
<1>1. TileOf(s, slot) \in TileStates
  <2>1. slot \in Nat
    BY ShellAssumption
  <2>2. s.pins[slot] \in Option(Pins) /\ s.pinArt[slot] \in Option(Uris)
    BY DEF ScreenStates
  <2> QED
    BY <2>1, <2>2 DEF TileOf, TileStates, Option, Pins
<1> QED
  BY <1>1, PanelAssumption

LEMMA DrawTilesShows ==
  ASSUME NEW s \in ScreenStates, NEW d, IsDraw(d), TilesKept(d.panel, d.cache.choices),
         NoPicture(d.panel), NoChrome(d.panel), NoWatch(d.panel)
  PROVE  LET o == DrawTiles(s, d)
         IN  /\ IsDraw(o) /\ o.cache.page = d.cache.page /\ o.cache.now = d.cache.now
             /\ NoPicture(o.panel) /\ NoChrome(o.panel) /\ NoWatch(o.panel)
             /\ o.panel.header = TRUE
             /\ o.panel.tiles = [slot \in Slots |-> TileShown(TileOf(s, slot))]
             /\ TilesKept(o.panel, o.cache.choices) /\ o.panel.rings = d.panel.rings
<1> DEFINE o == DrawTiles(s, d)
           old == d.cache.choices.tiles
           tiles == [slot \in Slots |-> IF old[slot] = TileOf(s, slot) THEN d.panel.tiles[slot]
                                        ELSE TileShown(TileOf(s, slot))]
           shown == [slot \in Slots |-> TileShown(TileOf(s, slot))]
           known == [slot \in Slots |-> TileOf(s, slot)]
           choices == [header |-> TRUE, tiles |-> known]
           p == [d.panel EXCEPT !.header = TRUE, !.tiles = tiles]
           e == [d.cache EXCEPT !.choices = choices]
<1>1. o = [panel |-> p, cache |-> e]
  BY DEF DrawTiles
<1>2. IsPanel(d.panel) /\ IsCache(d.cache)
  BY DEF IsDraw
<1>3. tiles = shown
  <2>1. ASSUME NEW slot \in Slots, old[slot] = TileOf(s, slot)
        PROVE  d.panel.tiles[slot] = TileShown(TileOf(s, slot))
    BY <2>1, TileType DEF TilesKept
  <2> QED
    BY <2>1
<1>4. shown = [slot \in Slots |-> IF known[slot] = None THEN None ELSE TileShown(known[slot])]
  BY TileType
<1> HIDE DEF tiles, shown, known
<1>5. /\ IsPanel(p) /\ p.header = TRUE /\ p.tiles = shown /\ p.rings = d.panel.rings
      /\ NoPicture(p) /\ NoChrome(p) /\ NoWatch(p)
  <2>1. p = [d.panel EXCEPT !.header = TRUE, !.tiles = tiles]
    OBVIOUS
  <2> HIDE DEF p
  <2> QED
    BY <1>2, <1>3, <2>1 DEF IsPanel, NoPicture, NoChrome, NoWatch
<1>6. /\ choices = [header |-> choices.header, tiles |-> choices.tiles]
      /\ choices.header = TRUE /\ choices.tiles = known
  OBVIOUS
<1> HIDE DEF p, choices
<1>7. IsCache(e) /\ e.page = d.cache.page /\ e.now = d.cache.now /\ e.choices = choices
  BY <1>2, <1>6 DEF IsCache
<1> HIDE DEF e
<1>8. IsDraw(o) /\ o.panel = p /\ o.cache = e
  BY <1>1, <1>5, <1>7 DEF IsDraw
<1>9. TilesKept(p, choices)
  BY <1>4, <1>5, <1>6 DEF TilesKept
<1> HIDE DEF o
<1> QED
  BY <1>5, <1>7, <1>8, <1>9 DEF o, shown

(* The HiFi screen's part of a frame, from a panel that its cache tells     *)
(* true of. *)
HifiTrue(s, p) ==
  IF s.page = "Choices"
  THEN /\ NoPicture(p) /\ NoChrome(p) /\ p.header = TRUE
       /\ p.tiles = [slot \in Slots |-> TileShown(TileOf(s, slot))]
  ELSE /\ NoTiles(p) /\ NoChrome(p)
       /\ p.picture["rim"] = IF ArtKind(s) = "Artwork" THEN Plain(s.artwork) ELSE Blank
       /\ p.title = IF s.loading THEN None ELSE TitleText(s.status)
       /\ p.artist = IF s.loading THEN None ELSE ArtistText(s.status)
       /\ p.progress = IF s.loading THEN None ELSE Filled(s.status)
       /\ ArtKind(s) = "Artwork" /\ ~BadgeWanted(s) /\ s.overlayUntil = None =>
            p.picture = [r \in Picture |-> Plain(s.artwork)]

Drawable(s, d, rings) ==
  /\ IsDraw(d) /\ NoWatch(d.panel) /\ HifiKept(d.panel, d.cache)
  /\ Unspoken(s, d.cache.now) /\ d.panel.rings \subseteq rings

LEMMA ChoicesFrame ==
  ASSUME NEW s \in ScreenStates, s.page = "Choices", NEW rings, NEW d, Drawable(s, d, rings),
         NEW phase
  PROVE  \E opened, last :
           /\ HifiSteps(s, d, phase) = <<opened, last>> /\ IsDraw(opened)
           /\ Drawable(s, last, rings) /\ last.cache.page = s.page /\ HifiTrue(s, last.panel)
<1> DEFINE opened == OpenPage(s, d)
           last == DrawTiles(s, opened)
<1>1. HifiSteps(s, d, phase) = <<opened, last>>
  BY DEF HifiSteps
<1>2. Drawable(s, opened, rings) /\ opened.cache.page = "Choices"
  BY OpenPageKeeps DEF Drawable, ScreenStates
<1> HIDE DEF opened
<1>3. /\ NoPicture(opened.panel) /\ NoChrome(opened.panel) /\ NoWatch(opened.panel)
      /\ TilesKept(opened.panel, opened.cache.choices)
  BY <1>2 DEF Drawable, HifiKept
<1>4. /\ IsDraw(last) /\ last.cache.page = "Choices" /\ last.cache.now = opened.cache.now
      /\ NoPicture(last.panel) /\ NoChrome(last.panel) /\ NoWatch(last.panel)
      /\ last.panel.header = TRUE
      /\ last.panel.tiles = [slot \in Slots |-> TileShown(TileOf(s, slot))]
      /\ TilesKept(last.panel, last.cache.choices) /\ last.panel.rings = opened.panel.rings
  BY <1>2, <1>3, DrawTilesShows DEF Drawable
<1> HIDE DEF last
<1>5. Drawable(s, last, rings)
  BY <1>2, <1>4 DEF Drawable, HifiKept
<1>6. HifiTrue(s, last.panel)
  BY <1>4 DEF HifiTrue
<1> QED
  BY <1>1, <1>2, <1>4, <1>5, <1>6 DEF Drawable

PagePlayed(s, rings, steps) ==
  \E opened, slot, picture, badge, words, last :
    /\ steps = IF s.loading THEN <<opened, slot, picture>>
               ELSE <<opened, slot, picture, badge, words, last>>
    /\ IsDraw(opened) /\ IsDraw(slot) /\ IsDraw(picture)
    /\ s.loading => Drawable(s, picture, rings) /\ HifiTrue(s, picture.panel)
    /\ ~s.loading => /\ IsDraw(badge) /\ IsDraw(words)
                     /\ Drawable(s, last, rings) /\ HifiTrue(s, last.panel)

LEMMA PlayingFrame ==
  ASSUME NEW s \in ScreenStates, s.page = "NowPlaying", NEW rings, NEW d,
         Drawable(s, d, rings), NEW phase
  PROVE  PagePlayed(s, rings, HifiSteps(s, d, phase))
<1> DEFINE opened == OpenPage(s, d)
           slot == ClearSlot(s, opened)
           picture == DrawPicture(s, slot, phase)
           badge == DrawBadge(s, picture, HidesReadout(s, slot))
           words == DrawWords(s, badge)
           last == DrawReadout(s, words)
           Elsewhere(p) == NoTiles(p) /\ NoChrome(p) /\ NoWatch(p) /\ p.rings \subseteq rings
           rim == IF ArtKind(s) = "Artwork" THEN Plain(s.artwork) ELSE Blank
<1>0. /\ "NowPlaying" # "Choices" /\ (s.loading <=> ArtKind(s) = "Spinner")
  BY SpinnerLoads
<1>1. HifiSteps(s, d, phase) = IF s.loading THEN <<opened, slot, picture>>
                               ELSE <<opened, slot, picture, badge, words, last>>
  BY DEF HifiSteps
<1>2. Drawable(s, opened, rings) /\ opened.cache.page = "NowPlaying"
  BY OpenPageKeeps DEF Drawable, ScreenStates
<1> HIDE DEF opened
<1>3. /\ Elsewhere(opened.panel) /\ CoverKept(opened.panel.picture, opened.cache)
      /\ WordsKept(opened.panel, opened.cache.now)
  BY <1>2 DEF Drawable, HifiKept
<1>4. /\ IsDraw(slot) /\ slot.cache = opened.cache /\ SlotKept(s, slot)
      /\ OnlyPicture(opened.panel, slot.panel)
  BY <1>2, <1>3, ClearSlotKeeps DEF Drawable
<1> HIDE DEF slot
<1>5. /\ Elsewhere(slot.panel) /\ WordsKept(slot.panel, slot.cache.now)
      /\ Unspoken(s, slot.cache.now)
  BY <1>2, <1>3, <1>4 DEF OnlyPicture, WordsKept, Drawable, NoTiles, NoChrome, NoWatch
<1>6. /\ IsDraw(picture) /\ OnlyPicture(slot.panel, picture.panel)
      /\ picture.cache.page = slot.cache.page /\ picture.cache.kind = ArtKind(s)
      /\ CoverKept(picture.panel.picture, picture.cache)
      /\ ArtKind(s) = "Artwork" => picture.cache.now.art = s.artwork
      /\ s.overlayUntil = None => ~picture.cache.now.overlay
  BY <1>4, DrawPictureShows
<1>7. /\ WordsKept(picture.panel, picture.cache.now)
      /\ Unspoken(s, picture.cache.now)
      /\ picture.cache.now.loading = (ArtKind(s) = "Spinner")
  <2> DEFINE p == [slot.panel EXCEPT !.picture = picture.panel.picture]
  <2>1. /\ WordsKept(p, picture.cache.now)
        /\ Unspoken(s, picture.cache.now)
        /\ picture.cache.now.loading = (ArtKind(s) = "Spinner")
    BY <1>4, <1>5, DrawPictureWords
  <2> HIDE DEF picture
  <2>2. p.title = slot.panel.title /\ p.artist = slot.panel.artist
        /\ p.progress = slot.panel.progress
    BY <1>4 DEF IsDraw, IsPanel
  <2> HIDE DEF p
  <2> QED
    BY <1>6, <2>1, <2>2 DEF OnlyPicture, WordsKept
<1> HIDE DEF picture
<1>8. Elsewhere(picture.panel) /\ picture.cache.page = "NowPlaying"
  BY <1>2, <1>4, <1>5, <1>6 DEF OnlyPicture, NoTiles, NoChrome, NoWatch
<1>9. ASSUME NEW e, IsDraw(e), Elsewhere(e.panel), e.cache.page = "NowPlaying",
             CoverKept(e.panel.picture, e.cache), WordsKept(e.panel, e.cache.now),
             e.cache.kind = ArtKind(s),
             ArtKind(s) = "Artwork" => e.cache.now.art = s.artwork
      PROVE  /\ HifiKept(e.panel, e.cache)
             /\ e.panel.picture["rim"] = rim
             /\ ArtKind(s) = "Artwork" /\ ~e.cache.now.overlay /\ ~e.cache.now.badge =>
                  e.panel.picture = [r \in Picture |-> Plain(s.artwork)]
  <2>1. HifiKept(e.panel, e.cache)
    BY <1>9 DEF HifiKept
  <2>2. e.panel.picture["rim"] = rim
    BY <1>9 DEF CoverKept
  <2>3. ASSUME ArtKind(s) = "Artwork", ~e.cache.now.overlay, ~e.cache.now.badge
        PROVE  e.panel.picture = [r \in Picture |-> Plain(s.artwork)]
    <3>1. \A r \in Picture : e.panel.picture[r] = Plain(s.artwork)
      BY <1>9, <2>3, Regions DEF CoverKept
    <3>2. e.panel.picture = [r \in Picture |-> e.panel.picture[r]]
      BY <1>9 DEF IsDraw, IsPanel, IsPicture
    <3> QED
      BY <3>1, <3>2
  <2> QED
    BY <2>1, <2>2, <2>3
<1>10. CASE s.loading
  <2>1. HifiKept(picture.panel, picture.cache) /\ picture.panel.picture["rim"] = rim
    BY <1>6, <1>7, <1>8, <1>9
  <2>2. Drawable(s, picture, rings)
    BY <1>6, <1>7, <1>8, <2>1 DEF Drawable
  <2>3. /\ picture.panel.title = None /\ picture.panel.artist = None
        /\ picture.panel.progress = None
    BY <1>0, <1>7, <1>10 DEF WordsKept
  <2>4. HifiTrue(s, picture.panel)
    BY <1>0, <1>8, <1>10, <2>1, <2>3 DEF HifiTrue
  <2> QED
    BY <1>1, <1>2, <1>4, <1>6, <1>8, <1>10, <2>2, <2>4 DEF Drawable, PagePlayed
<1>11. CASE ~s.loading
  <2>1. /\ IsDraw(badge) /\ OnlyPicture(picture.panel, badge.panel)
        /\ CoverKept(badge.panel.picture, badge.cache)
        /\ badge.cache.page = picture.cache.page /\ badge.cache.kind = picture.cache.kind
        /\ OnlyBadge(picture.cache.now, badge.cache.now)
        /\ ~BadgeWanted(s) => ~badge.cache.now.badge
    BY <1>6, DrawBadgeKeeps
  <2> HIDE DEF badge
  <2>2. /\ Elsewhere(badge.panel) /\ WordsKept(badge.panel, badge.cache.now)
        /\ ~badge.cache.now.loading
    BY <1>0, <1>7, <1>8, <1>11, <2>1
    DEF OnlyPicture, OnlyBadge, WordsKept, NoTiles, NoChrome, NoWatch
  <2>3. /\ IsDraw(words) /\ OnlyWords(badge.panel, words.panel)
        /\ words.cache.page = badge.cache.page /\ words.cache.kind = badge.cache.kind
        /\ CoverKept(words.panel.picture, words.cache)
        /\ WordsKept(words.panel, words.cache.now)
        /\ ~words.cache.now.loading /\ words.cache.now.art = badge.cache.now.art
        /\ words.cache.now.overlay = badge.cache.now.overlay
        /\ words.cache.now.badge = badge.cache.now.badge
        /\ words.panel.title = TitleText(s.status)
        /\ words.panel.artist = ArtistText(s.status)
        /\ words.panel.progress = Filled(s.status)
    BY <2>1, <2>2, DrawWordsKeeps
  <2> HIDE DEF words
  <2>4. /\ IsDraw(last) /\ OnlyPicture(words.panel, last.panel)
        /\ last.cache.page = words.cache.page /\ last.cache.kind = words.cache.kind
        /\ CoverKept(last.panel.picture, last.cache)
        /\ WordsKept(last.panel, last.cache.now)
        /\ last.cache.now.art = words.cache.now.art
        /\ last.cache.now.loading = words.cache.now.loading
        /\ s.overlayUntil = None => last = words
    BY <2>3, DrawReadoutKeeps
  <2> HIDE DEF last
  <2>5. Elsewhere(last.panel)
    BY <2>2, <2>3, <2>4 DEF OnlyPicture, OnlyWords, NoTiles, NoChrome, NoWatch
  <2>6. /\ last.cache.page = "NowPlaying" /\ last.cache.kind = ArtKind(s)
        /\ ArtKind(s) = "Artwork" => last.cache.now.art = s.artwork
    BY <1>6, <1>8, <2>1, <2>3, <2>4 DEF OnlyBadge
  <2>7. /\ HifiKept(last.panel, last.cache)
        /\ last.panel.picture["rim"] = rim
        /\ ArtKind(s) = "Artwork" /\ ~last.cache.now.overlay /\ ~last.cache.now.badge =>
             last.panel.picture = [r \in Picture |-> Plain(s.artwork)]
    BY <1>9, <2>4, <2>5, <2>6
  <2>8. s.overlayUntil = None /\ ~BadgeWanted(s) =>
          ~last.cache.now.overlay /\ ~last.cache.now.badge
    BY <1>6, <2>1, <2>3, <2>4 DEF OnlyBadge
  <2>9. Drawable(s, last, rings)
    BY <1>11, <2>4, <2>5, <2>7 DEF Drawable, Unspoken
  <2>10. HifiTrue(s, last.panel)
    BY <1>0, <1>11, <2>3, <2>4, <2>5, <2>7, <2>8 DEF HifiTrue, OnlyPicture
  <2> QED
    BY <1>1, <1>2, <1>4, <1>6, <1>11, <2>1, <2>3, <2>6, <2>9, <2>10 DEF Drawable, PagePlayed
<1> QED
  BY <1>10, <1>11
-----------------------------------------------------------------------------
(* A frame.                                                                *)

IsStep(t) ==
  t = [panel |-> t.panel, session |-> t.session] /\ IsPanel(t.panel) /\ IsSession(t.session)

(* A step of a frame of this screen, whose session tells true of the panel. *)
Ready(a, t) ==
  /\ IsStep(t)
  /\ t.session.lastScreen = a.active.screen /\ t.session.lastFocus = FocusedOn(a)
  /\ t.panel.rings \subseteq RingOf(FocusedOn(a))
  /\ Kept(a.active.screen, t.panel, t.session)
  /\ a.active.screen = "HifiControl" => Unspoken(a.active.hifi, t.session.hifi.now)

(* The screen has drawn what it has to. *)
TrueTo(a, p) ==
  CASE a.active.screen = "Launcher"    -> p.chrome = TRUE /\ p.net = NetShown(a)
    [] a.active.screen = "Stopwatch"   -> p.watch = WatchShown(a)
    [] a.active.screen = "HifiControl" -> HifiTrue(a.active.hifi, p)

LEMMA NoneApart ==
  /\ None \notin ScreenNames /\ None \notin AllNetworks
  /\ None \notin {"NowPlaying", "Choices"}
BY ShellAssumption, PanelAssumption

LEMMA BegunReady ==
  ASSUME NEW a, a.active.screen \in ScreenNames, NEW p, NEW s, IsSession(s),
         Honest(p, s), Young(a, s)
  PROVE  Ready(a, [panel   |-> IF NeedsClear(s, a.active.screen, FocusedOn(a))
                               THEN BlackPanel ELSE p,
                   session |-> BeginFrame(s, a.active.screen, FocusedOn(a))])
<1> DEFINE name == a.active.screen
           focus == FocusedOn(a)
           clear == NeedsClear(s, name, focus)
           q == IF clear THEN BlackPanel ELSE p
           kept == IF clear THEN InvalidateScreen(s, name) ELSE s
           r == BeginFrame(s, name, focus)
           t == [panel |-> q, session |-> r]
<1>0. name \in ScreenNames /\ name # None
  BY NoneApart
<1>1. r = [kept EXCEPT !.lastScreen = name, !.lastFocus = focus]
  BY DEF BeginFrame
<1>2. CASE clear
  <2>1. kept = [s EXCEPT !.launcher   = IF name = "Launcher" THEN LauncherCache ELSE @,
                         !.hifi       = IF name = "HifiControl" THEN HifiCache ELSE @,
                         !.lastScreen = IF s.lastScreen = name THEN None ELSE @,
                         !.lastFocus  = IF s.lastScreen = name THEN NoFocus ELSE @]
    BY <1>2 DEF InvalidateScreen
  <2> HIDE DEF kept, name, focus
  <2>2. /\ kept.launcher = IF name = "Launcher" THEN LauncherCache ELSE s.launcher
        /\ kept.hifi = IF name = "HifiControl" THEN HifiCache ELSE s.hifi
        /\ kept = [lastScreen |-> kept.lastScreen, lastFocus |-> kept.lastFocus,
                   launcher |-> kept.launcher, hifi |-> kept.hifi]
    BY <2>1 DEF IsSession
  <2> HIDE DEF r
  <2>3. /\ r.lastScreen = name /\ r.lastFocus = focus
        /\ r.launcher = kept.launcher /\ r.hifi = kept.hifi
        /\ r = [lastScreen |-> r.lastScreen, lastFocus |-> r.lastFocus,
                launcher |-> r.launcher, hifi |-> r.hifi]
    BY <1>1, <2>2
  <2>4. /\ LauncherCache.chrome = FALSE /\ LauncherCache.net = None
        /\ LauncherCache = [chrome |-> LauncherCache.chrome, net |-> LauncherCache.net,
                            phase |-> LauncherCache.phase]
    BY DEF LauncherCache
  <2>5. IsSession(r)
    BY <2>2, <2>3, <2>4, FreshCache DEF IsSession
  <2>6. q = BlackPanel
    BY <1>2
  <2> HIDE DEF q
  <2>7. Kept(name, q, r)
    <3>1. LauncherKept(BlackPanel, LauncherCache)
      BY <2>4, BlackIsPanel DEF LauncherKept, NoChrome
    <3>2. HifiKept(BlackPanel, HifiCache)
      BY FreshCache, NoneApart DEF HifiKept
    <3> QED
      BY <1>0, <2>2, <2>3, <2>6, <3>1, <3>2, BlackIsPanel DEF Kept, StopwatchKept, ScreenNames
  <2>8. name = "HifiControl" => Unspoken(a.active.hifi, r.hifi.now)
    BY <2>2, <2>3, FreshCache DEF Unspoken
  <2>9. IsStep(t) /\ t.session = r /\ t.panel = q
    BY <2>5, <2>6, BlackIsPanel DEF IsStep
  <2> QED
    BY <2>3, <2>6, <2>7, <2>8, <2>9, BlackIsPanel DEF Ready, name, focus, q, r
<1>3. CASE ~clear
  <2>1. s.lastScreen = name /\ s.lastFocus = focus /\ q = p /\ kept = s
    BY <1>3 DEF NeedsClear
  <2>2. r = s
    <3> HIDE DEF kept, r, name, focus
    <3> QED
      BY <1>1, <2>1 DEF IsSession
  <2>3. IsPanel(p) /\ p.rings = RingOf(focus) /\ Kept(name, p, s)
    BY <1>0, <2>1 DEF Honest
  <2>4. name = "HifiControl" => Unspoken(a.active.hifi, s.hifi.now)
    BY <2>1 DEF Young
  <2> HIDE DEF q, r
  <2>5. IsStep(t) /\ t.session = r /\ t.panel = q
    BY <2>1, <2>2, <2>3 DEF IsStep
  <2> HIDE DEF t
  <2>6. Ready(a, t)
    BY <2>1, <2>2, <2>3, <2>4, <2>5 DEF Ready
  <2> QED
    BY <2>6 DEF t, q, r
<1> QED
  BY <1>2, <1>3

LEMMA LauncherFrame ==
  ASSUME NEW a, a.active.screen = "Launcher", a.network \in AllNetworks,
         NEW t, Ready(a, t)
  PROVE  \E first, last : /\ DrawScreen(a, t) = <<first, last>>
                          /\ IsPanel(first.panel) /\ Ready(a, last) /\ TrueTo(a, last.panel)
<1> DEFINE c == t.session.launcher
           chrome == [t EXCEPT !.panel.chrome = TRUE, !.session.launcher.chrome = TRUE]
           phase == NetShown(a).phase
           shown == IF NetDrawn(c, a) THEN t.panel.net ELSE NetShown(a)
           first == IF c.chrome THEN t ELSE chrome
           net == [chrome EXCEPT
                !.panel.net = IF NetDrawn(c, a) THEN @ ELSE NetShown(a),
                !.session.launcher.net = a.network,
                !.session.launcher.phase = phase]
           lit == [t.panel EXCEPT !.chrome = TRUE]
           known == [c EXCEPT !.chrome = TRUE]
           p == [lit EXCEPT !.net = shown]
           l == [[known EXCEPT !.net = a.network] EXCEPT !.phase = phase]
           k == [t.session EXCEPT !.launcher = known]
           s == [t.session EXCEPT !.launcher = l]
<1>0. /\ IsStep(t) /\ IsPanel(t.panel) /\ IsSession(t.session)
      /\ LauncherKept(t.panel, c) /\ t.panel.rings \subseteq RingOf(FocusedOn(a))
  BY DEF Ready, IsStep, Kept
<1>1. DrawScreen(a, t) = <<first, net>>
  BY DEF DrawScreen, DrawLauncher
<1>2. chrome = [t EXCEPT !.panel = lit, !.session = k]
  BY <1>0 DEF IsStep
<1>3. net = [t EXCEPT !.panel = p, !.session = s]
  <2>1. chrome.panel.net = t.panel.net
    BY <1>0 DEF IsStep, IsPanel
  <2>2. net = [chrome EXCEPT !.panel.net = shown,
                             !.session.launcher.net = a.network,
                             !.session.launcher.phase = phase]
    BY <2>1
  <2> HIDE DEF shown, phase, net
  <2> QED
    BY <1>0, <2>2 DEF IsStep, IsSession
<1>4. /\ IsPanel(lit) /\ lit.chrome = TRUE /\ lit.net = t.panel.net
      /\ lit.rings = t.panel.rings /\ NoPicture(lit) /\ NoTiles(lit) /\ NoWatch(lit)
  <2>1. lit = [t.panel EXCEPT !.chrome = TRUE]
    OBVIOUS
  <2> HIDE DEF lit
  <2> QED
    BY <1>0, <2>1 DEF IsPanel, LauncherKept, NoPicture, NoTiles, NoWatch
<1>5. known.chrome = TRUE /\ known = [chrome |-> known.chrome, net |-> known.net,
                                      phase |-> known.phase]
  <2>1. known = [c EXCEPT !.chrome = TRUE]
    OBVIOUS
  <2> HIDE DEF known
  <2> QED
    BY <1>0, <2>1 DEF IsSession
<1>6. /\ l.chrome = TRUE /\ l.net = a.network /\ l.phase = phase
      /\ l = [chrome |-> l.chrome, net |-> l.net, phase |-> l.phase]
  <2>1. l = [[known EXCEPT !.net = a.network] EXCEPT !.phase = phase]
    OBVIOUS
  <2> HIDE DEF l, known, phase
  <2> QED
    BY <1>5, <2>1
<1>7. shown = NetShown(a)
  <2> SUFFICES ASSUME NetDrawn(c, a) PROVE t.panel.net = NetShown(a)
    OBVIOUS
  <2>1. c.net = a.network /\ c.net # None
    BY NoneApart DEF NetDrawn
  <2>2. c.phase = phase
    BY <1>0, <2>1 DEF NetDrawn, NetShown, Connecting, LauncherKept
  <2> QED
    BY <1>0, <2>1, <2>2 DEF LauncherKept, NetShown
<1>8. /\ IsPanel(p) /\ p.chrome = TRUE /\ p.net = NetShown(a)
      /\ p.rings = t.panel.rings /\ NoPicture(p) /\ NoTiles(p) /\ NoWatch(p)
  <2>1. p = [lit EXCEPT !.net = shown]
    OBVIOUS
  <2> HIDE DEF p, lit, shown
  <2> QED
    BY <1>4, <1>7, <2>1 DEF IsPanel, NoPicture, NoTiles, NoWatch
<1>9. k = [t.session EXCEPT !.launcher = known] /\ s = [t.session EXCEPT !.launcher = l]
  OBVIOUS
<1> HIDE DEF lit, p, known, l, k, s, chrome, net
<1>10. IsSession(k)
  BY <1>0, <1>5, <1>9 DEF IsSession
<1>11. /\ IsSession(s) /\ s.lastScreen = t.session.lastScreen
       /\ s.lastFocus = t.session.lastFocus /\ s.launcher = l
  BY <1>0, <1>6, <1>9 DEF IsSession
<1>12. IsPanel(first.panel)
  <2>1. chrome.panel = lit
    BY <1>0, <1>2 DEF IsStep
  <2> QED
    BY <1>0, <1>4, <2>1
<1>13. IsStep(net) /\ net.panel = p /\ net.session = s
  BY <1>0, <1>3, <1>8, <1>11 DEF IsStep
<1>14. l.net # None /\ NetShown(a) = [status |-> l.net, phase |-> l.phase]
       /\ (l.net # "Connecting" => l.phase = None)
  BY <1>6, NoneApart DEF NetShown, Connecting
<1>15. LauncherKept(p, l)
  BY <1>6, <1>8, <1>14 DEF LauncherKept
<1>16. Ready(a, net)
  BY <1>0, <1>8, <1>11, <1>13, <1>15 DEF Ready, Kept
<1>17. TrueTo(a, net.panel)
  BY <1>8, <1>13 DEF TrueTo
<1> HIDE DEF first
<1> QED
  BY <1>1, <1>12, <1>16, <1>17

LEMMA StopwatchFrame ==
  ASSUME NEW a, a.active.screen = "Stopwatch", NEW t, Ready(a, t)
  PROVE  \E last : /\ DrawScreen(a, t) = <<last>> /\ Ready(a, last)
                   /\ TrueTo(a, last.panel)
<1> DEFINE watch == WatchShown(a)
           p == [t.panel EXCEPT !.watch = watch]
           last == [t EXCEPT !.panel = p]
<1>0. /\ IsStep(t) /\ IsPanel(t.panel) /\ IsSession(t.session) /\ StopwatchKept(t.panel)
      /\ t.session.lastScreen = a.active.screen /\ t.session.lastFocus = FocusedOn(a)
      /\ t.panel.rings \subseteq RingOf(FocusedOn(a))
  BY DEF Ready, IsStep, Kept
<1>1. DrawScreen(a, t) = <<last>>
  BY DEF DrawScreen, DrawStopwatch
<1>2. /\ IsPanel(p) /\ p.watch = watch /\ p.rings = t.panel.rings
      /\ NoPicture(p) /\ NoTiles(p) /\ NoChrome(p)
  <2>1. p = [t.panel EXCEPT !.watch = watch]
    OBVIOUS
  <2> HIDE DEF p, watch
  <2> QED
    BY <1>0, <2>1 DEF IsPanel, StopwatchKept, NoPicture, NoTiles, NoChrome
<1>3. IsStep(last) /\ last.panel = p /\ last.session = t.session
  <2>1. last = [t EXCEPT !.panel = p]
    OBVIOUS
  <2> HIDE DEF p, last
  <2> QED
    BY <1>0, <1>2, <2>1 DEF IsStep
<1> HIDE DEF p, last
<1>4. Ready(a, last)
  BY <1>0, <1>2, <1>3 DEF Ready, Kept, StopwatchKept
<1>5. TrueTo(a, last.panel)
  BY <1>2, <1>3 DEF TrueTo
<1> QED
  BY <1>1, <1>4, <1>5

(* What a screen draws: steps on sound panels, the last of them true. *)
DrawnWell(a, steps) ==
  \E n \in Nat \ {0} :
    /\ steps = [i \in 1..n |-> steps[i]]
    /\ \A i \in 1..n : IsPanel(steps[i].panel)
    /\ Ready(a, steps[n]) /\ TrueTo(a, steps[n].panel)

LEMMA DrawnOne ==
  ASSUME NEW a, NEW x, Ready(a, x), TrueTo(a, x.panel)
  PROVE  DrawnWell(a, <<x>>)
<1> DEFINE S == <<x>>
<1>1. S = [i \in 1..1 |-> S[i]] /\ S[1] = x
  OBVIOUS
<1>2. \A i \in 1..1 : S[i] = x
  BY <1>1
<1> HIDE DEF S
<1>3. IsPanel(x.panel)
  BY DEF Ready, IsStep
<1>4. DrawnWell(a, S)
  BY <1>1, <1>2, <1>3 DEF DrawnWell
<1> QED
  BY <1>4 DEF S

LEMMA DrawnTwo ==
  ASSUME NEW a, NEW x, NEW y, IsPanel(x.panel), Ready(a, y), TrueTo(a, y.panel)
  PROVE  DrawnWell(a, <<x, y>>)
<1> DEFINE S == <<x, y>>
<1>1. S = [i \in 1..2 |-> S[i]] /\ S[1] = x /\ S[2] = y
  OBVIOUS
<1> HIDE DEF S
<1>3. IsPanel(y.panel)
  BY DEF Ready, IsStep
<1>4. \A i \in 1..2 : IsPanel(S[i].panel)
  BY <1>1, <1>3
<1>5. DrawnWell(a, S)
  BY <1>1, <1>4 DEF DrawnWell
<1> QED
  BY <1>5 DEF S

(* The HiFi page's steps are those of its draws. *)
LEMMA WithHifiReady ==
  ASSUME NEW a, a.active.screen = "HifiControl", NEW t, Ready(a, t),
         NEW d, Drawable(a.active.hifi, d, RingOf(FocusedOn(a))),
         HifiTrue(a.active.hifi, d.panel),
         NEW x, x = [panel |-> d.panel, session |-> [t.session EXCEPT !.hifi = d.cache]]
  PROVE  Ready(a, x) /\ TrueTo(a, x.panel)
<1> DEFINE s == [t.session EXCEPT !.hifi = d.cache]
<1>1. IsSession(t.session) /\ IsPanel(d.panel) /\ IsCache(d.cache)
  BY DEF Ready, IsStep, Drawable, IsDraw
<1>2. /\ IsSession(s) /\ s.hifi = d.cache /\ s.lastScreen = t.session.lastScreen
      /\ s.lastFocus = t.session.lastFocus
  <2>1. s = [t.session EXCEPT !.hifi = d.cache]
    OBVIOUS
  <2> HIDE DEF s
  <2> QED
    BY <1>1, <2>1 DEF IsSession
<1>3. x.panel = d.panel /\ x.session = s /\ x = [panel |-> x.panel, session |-> x.session]
  OBVIOUS
<1> HIDE DEF s
<1>4. IsStep(x)
  BY <1>1, <1>2, <1>3 DEF IsStep
<1>5. Kept("HifiControl", x.panel, x.session)
  BY <1>2, <1>3 DEF Kept, Drawable
<1>6. Ready(a, x)
  BY <1>2, <1>3, <1>4, <1>5 DEF Ready, Drawable
<1>7. TrueTo(a, x.panel)
  BY <1>3 DEF TrueTo
<1> QED
  BY <1>6, <1>7

LEMMA HifiFrame ==
  ASSUME NEW a, a.active.screen = "HifiControl", a.active.hifi \in ScreenStates,
         NEW t, Ready(a, t)
  PROVE  DrawnWell(a, DrawScreen(a, t))
<1> DEFINE s == a.active.hifi
           rings == RingOf(FocusedOn(a))
           d == [panel |-> t.panel, cache |-> t.session.hifi]
           phase == Phase(a.now)
           With(e) == [panel |-> e.panel, session |-> [t.session EXCEPT !.hifi = e.cache]]
           S == HifiSteps(s, d, phase)
           W == DrawScreen(a, t)
<1>1. W = [i \in DOMAIN S |-> With(S[i])]
  BY DEF DrawScreen, DrawHifi, WithHifi
<1>2. Drawable(s, d, rings)
  <2>1. /\ IsPanel(t.panel) /\ IsCache(t.session.hifi) /\ NoWatch(t.panel)
        /\ HifiKept(t.panel, t.session.hifi) /\ t.panel.rings \subseteq rings
        /\ Unspoken(s, t.session.hifi.now)
    BY DEF Ready, IsStep, Kept, IsSession
  <2>2. d = [panel |-> d.panel, cache |-> d.cache] /\ d.panel = t.panel
        /\ d.cache = t.session.hifi
    OBVIOUS
  <2> HIDE DEF d
  <2> QED
    BY <2>1, <2>2 DEF Drawable, IsDraw
<1> HIDE DEF d, rings, phase
<1>3. ASSUME NEW n \in Nat \ {0}, DOMAIN S = 1..n, \A i \in 1..n : IsDraw(S[i]),
             Drawable(s, S[n], rings), HifiTrue(s, S[n].panel)
      PROVE  DrawnWell(a, W)
  <2>1. W = [i \in 1..n |-> W[i]] /\ \A i \in 1..n : W[i] = With(S[i])
    BY <1>1, <1>3
  <2>2. \A i \in 1..n : With(S[i]).panel = S[i].panel
    OBVIOUS
  <2>3. W[n] = With(S[n])
    BY <1>3, <2>1
  <2>4. Ready(a, W[n]) /\ TrueTo(a, W[n].panel)
    BY <1>3, <2>3, WithHifiReady DEF rings
  <2> HIDE DEF With, S, W
  <2>5. \A i \in 1..n : IsPanel(W[i].panel)
    BY <1>3, <2>1, <2>2 DEF IsDraw
  <2> QED
    BY <1>3, <2>1, <2>4, <2>5 DEF DrawnWell
<1> HIDE DEF W, S, With
<1>4. s.page \in {"NowPlaying", "Choices"}
  BY DEF ScreenStates
<1>5. CASE s.page = "Choices"
  <2>1. PICK x, y : /\ S = <<x, y>> /\ IsDraw(x) /\ Drawable(s, y, rings)
                    /\ HifiTrue(s, y.panel)
    BY <1>2, <1>5, ChoicesFrame DEF S
  <2>2. DOMAIN S = 1..2 /\ S[1] = x /\ S[2] = y
    BY <2>1
  <2>3. \A i \in 1..2 : IsDraw(S[i])
    BY <2>1, <2>2 DEF Drawable
  <2> QED
    BY <1>3, <2>1, <2>2, <2>3 DEF W
<1>6. CASE s.page = "NowPlaying"
  <2>0. s \in ScreenStates /\ s.page = "NowPlaying" /\ S = HifiSteps(s, d, phase)
    BY <1>6 DEF S
  <2> HIDE DEF s
  <2>1. PICK x1, x2, x3, x4, x5, x6 :
           /\ S = IF s.loading THEN <<x1, x2, x3>> ELSE <<x1, x2, x3, x4, x5, x6>>
           /\ IsDraw(x1) /\ IsDraw(x2) /\ IsDraw(x3)
           /\ s.loading => Drawable(s, x3, rings) /\ HifiTrue(s, x3.panel)
           /\ ~s.loading => /\ IsDraw(x4) /\ IsDraw(x5)
                            /\ Drawable(s, x6, rings) /\ HifiTrue(s, x6.panel)
    <3>1. PagePlayed(s, rings, S)
      BY <1>2, <2>0, PlayingFrame
    <3> QED
      BY <3>1 DEF PagePlayed
  <2>2. CASE s.loading
    <3>1. DOMAIN S = 1..3 /\ S[1] = x1 /\ S[2] = x2 /\ S[3] = x3
      BY <2>1, <2>2
    <3>2. \A i \in 1..3 : IsDraw(S[i])
      BY <2>1, <3>1
    <3> QED
      BY <1>3, <2>1, <2>2, <3>1, <3>2 DEF W
  <2>3. CASE ~s.loading
    <3>1. /\ DOMAIN S = 1..6 /\ S[1] = x1 /\ S[2] = x2 /\ S[3] = x3
          /\ S[4] = x4 /\ S[5] = x5 /\ S[6] = x6
      BY <2>1, <2>3
    <3>2. \A i \in 1..6 : IsDraw(S[i])
      BY <2>1, <2>3, <3>1 DEF Drawable
    <3> QED
      BY <1>3, <2>1, <2>3, <3>1, <3>2 DEF W
  <2> QED
    BY <2>2, <2>3
<1> QED
  BY <1>4, <1>5, <1>6

LEMMA ScreenDraws ==
  ASSUME NEW a, AppOK(a), NEW t, Ready(a, t)
  PROVE  DrawnWell(a, DrawScreen(a, t))
<1>1. /\ a.network \in AllNetworks /\ a.active \in Actives
  BY DEF AppOK
<1>2. CASE a.active.screen = "Launcher"
  <2>1. PICK x, y : /\ DrawScreen(a, t) = <<x, y>> /\ IsPanel(x.panel)
                    /\ Ready(a, y) /\ TrueTo(a, y.panel)
    BY <1>1, <1>2, LauncherFrame
  <2> QED
    BY <2>1, DrawnTwo
<1>3. CASE a.active.screen = "Stopwatch"
  <2>1. PICK x : DrawScreen(a, t) = <<x>> /\ Ready(a, x) /\ TrueTo(a, x.panel)
    BY <1>3, StopwatchFrame
  <2> QED
    BY <2>1, DrawnOne
<1>4. CASE a.active.screen = "HifiControl"
  BY <1>1, <1>4, HifiFrame DEF Actives
<1> QED
  BY <1>1, <1>2, <1>3, <1>4 DEF Actives

OnlyRings(p, q) ==
  /\ p.picture = q.picture /\ p.title = q.title /\ p.artist = q.artist
  /\ p.progress = q.progress /\ p.header = q.header /\ p.tiles = q.tiles
  /\ p.chrome = q.chrome /\ p.net = q.net /\ p.watch = q.watch

LEMMA RingsKept ==
  ASSUME NEW name, NEW p, NEW q, NEW s, OnlyRings(p, q), Kept(name, p, s)
  PROVE  Kept(name, q, s)
BY DEF OnlyRings, Kept, LauncherKept, StopwatchKept, HifiKept, CoverKept, WordsKept,
       TilesKept, NoPicture, NoTiles, NoChrome, NoWatch

LEMMA RingsTrue ==
  ASSUME NEW a, NEW p, NEW q, OnlyRings(p, q), TrueTo(a, p)
  PROVE  TrueTo(a, q)
BY DEF OnlyRings, TrueTo, HifiTrue, NoPicture, NoTiles, NoChrome

(* A drawn page of this screen is the truth. *)
LEMMA DrawnIsTrue ==
  ASSUME NEW a, AppOK(a), NEW p, NEW s, IsPanel(p), Kept(a.active.screen, p, s),
         TrueTo(a, p), p.rings = RingOf(FocusedOn(a))
  PROVE  /\ SteadyPart(p) = SteadyPart(Truth(a))
         /\ Bare(a) => p.picture = PictureOf(a.active.hifi, Phase(a.now))
<1> DEFINE q == Truth(a)
           page == PageOf(a)
           hifi == a.active.hifi
           pic == PictureOf(hifi, Phase(a.now))
<1>0. a.active.screen \in ScreenNames
  BY DEF AppOK, Actives, ScreenNames
<1>1. /\ IsPanel(q) /\ q.rings = RingOf(FocusedOn(a))
      /\ q.picture = page.picture /\ q.title = page.title /\ q.artist = page.artist
      /\ q.progress = page.progress /\ q.header = page.header /\ q.tiles = page.tiles
      /\ q.chrome = page.chrome /\ q.net = page.net /\ q.watch = page.watch
  BY <1>0, TruthFields
<1> HIDE DEF q
<1>2. CASE a.active.screen = "Launcher"
  <2>1. /\ NoPicture(page) /\ NoTiles(page) /\ NoWatch(page)
        /\ page.chrome = TRUE /\ page.net = NetShown(a)
    BY <1>0, <1>2, PageFields
  <2>2. /\ NoPicture(p) /\ NoTiles(p) /\ NoWatch(p)
        /\ p.chrome = TRUE /\ p.net = NetShown(a)
    BY <1>2 DEF Kept, LauncherKept, TrueTo
  <2> HIDE DEF page
  <2>3. SteadyPart(p) = SteadyPart(q)
    BY <1>1, <2>1, <2>2, SteadySame DEF NoPicture, NoTiles, NoWatch
  <2> QED
    BY <1>2, <2>3 DEF Bare, q
<1>3. CASE a.active.screen = "Stopwatch"
  <2>1. /\ NoPicture(page) /\ NoTiles(page) /\ NoChrome(page)
        /\ page.watch = WatchShown(a)
    BY <1>0, <1>3, PageFields
  <2>2. /\ NoPicture(p) /\ NoTiles(p) /\ NoChrome(p) /\ p.watch = WatchShown(a)
    BY <1>3 DEF Kept, StopwatchKept, TrueTo
  <2> HIDE DEF page
  <2>3. SteadyPart(p) = SteadyPart(q)
    BY <1>1, <2>1, <2>2, SteadySame DEF NoPicture, NoTiles, NoChrome
  <2> QED
    BY <1>3, <2>3 DEF Bare, q
<1>4. CASE a.active.screen = "HifiControl" /\ hifi.page = "Choices"
  <2> DEFINE tiles == [slot \in Slots |-> TileShown(TileOf(hifi, slot))]
  <2>1. /\ NoPicture(page) /\ NoChrome(page) /\ NoWatch(page) /\ page.header = TRUE
        /\ page.tiles = tiles
    BY <1>0, <1>4, PageFields
  <2>2. /\ NoPicture(p) /\ NoChrome(p) /\ NoWatch(p) /\ p.header = TRUE
        /\ p.tiles = tiles
    BY <1>4 DEF Kept, TrueTo, HifiTrue
  <2> HIDE DEF page, hifi, tiles
  <2>3. SteadyPart(p) = SteadyPart(q)
    BY <1>1, <2>1, <2>2, SteadySame DEF NoPicture, NoWatch, NoChrome
  <2> QED
    BY <1>4, <2>3 DEF Bare, q, hifi
<1>5. CASE a.active.screen = "HifiControl" /\ hifi.page # "Choices"
  <2> DEFINE rim == IF ArtKind(hifi) = "Artwork" THEN Plain(hifi.artwork) ELSE Blank
             title == IF hifi.loading THEN None ELSE TitleText(hifi.status)
             artist == IF hifi.loading THEN None ELSE ArtistText(hifi.status)
             filled == IF hifi.loading THEN None ELSE Filled(hifi.status)
  <2>1. /\ NoTiles(page) /\ NoChrome(page) /\ NoWatch(page) /\ page.picture = pic
        /\ page.title = title /\ page.artist = artist /\ page.progress = filled
    BY <1>0, <1>5, PageFields
  <2>2. /\ NoTiles(p) /\ NoChrome(p) /\ NoWatch(p) /\ p.picture["rim"] = rim
        /\ p.title = title /\ p.artist = artist /\ p.progress = filled
    BY <1>5 DEF Kept, TrueTo, HifiTrue
  <2>3. pic["rim"] = rim
    BY PictureRim
  <2>4. Bare(a) => p.picture = [r \in Picture |-> Plain(hifi.artwork)]
    BY <1>5 DEF TrueTo, HifiTrue, Bare
  <2>5. Bare(a) => pic = [r \in Picture |-> Plain(hifi.artwork)]
    BY BarePicture DEF Bare
  <2> HIDE DEF page, hifi, pic, rim, title, artist, filled
  <2>6. SteadyPart(p) = SteadyPart(q)
    BY <1>1, <2>1, <2>2, <2>3, SteadySame DEF NoTiles, NoWatch, NoChrome
  <2> QED
    BY <2>4, <2>5, <2>6 DEF q, pic, hifi
<1> QED
  BY <1>0, <1>2, <1>3, <1>4, <1>5 DEF ScreenNames

(* What ought to show does. *)
Says(a, p) ==
  /\ SteadyPart(p) = SteadyPart(Truth(a))
  /\ Bare(a) => p.picture = PictureOf(a.active.hifi, Phase(a.now))

(* What is left of a frame that was drawn to its end. *)
Shows(a, p, s) ==
  /\ IsPanel(p) /\ IsSession(s) /\ s.lastScreen = a.active.screen
  /\ Honest(p, s) /\ Young(a, s) /\ Says(a, p)

LEMMA RingShows ==
  ASSUME NEW a, AppOK(a), NEW t, Ready(a, t), TrueTo(a, t.panel)
  PROVE  LET u == DrawRing(a, t) IN Shows(a, u.panel, u.session)
<1> DEFINE u == DrawRing(a, t)
           focus == FocusedOn(a)
           rings == t.panel.rings \cup {focus}
           p == [t.panel EXCEPT !.rings = rings]
<1>0. /\ IsStep(t) /\ IsPanel(t.panel) /\ IsSession(t.session)
      /\ t.panel.rings \subseteq RingOf(focus) /\ a.active.screen \in ScreenNames
      /\ Kept(a.active.screen, t.panel, t.session)
      /\ t.session.lastScreen = a.active.screen /\ t.session.lastFocus = focus
  BY DEF Ready, IsStep, AppOK, Actives, ScreenNames
<1>1. /\ IsPanel(u.panel) /\ u.session = t.session /\ OnlyRings(t.panel, u.panel)
      /\ u.panel.rings = RingOf(focus)
  <2>1. CASE focus = NoFocus
    BY <1>0, <2>1 DEF DrawRing, RingOf, OnlyRings
  <2>2. CASE focus # NoFocus
    <3>1. u = [t EXCEPT !.panel = p]
      BY <1>0, <2>2 DEF DrawRing, IsStep, IsPanel
    <3>2. rings = RingOf(focus)
      BY <1>0, <2>2 DEF RingOf
    <3>3. p = [t.panel EXCEPT !.rings = rings]
      OBVIOUS
    <3> HIDE DEF p, rings, u
    <3>4. IsPanel(p) /\ OnlyRings(t.panel, p) /\ p.rings = rings
      BY <1>0, <3>3 DEF IsPanel, OnlyRings
    <3>5. u.panel = p /\ u.session = t.session
      BY <1>0, <3>1 DEF IsStep
    <3> QED
      BY <3>2, <3>4, <3>5
  <2> QED
    BY <2>1, <2>2
<1> HIDE DEF u
<1>2. Kept(a.active.screen, u.panel, u.session) /\ TrueTo(a, u.panel)
  BY <1>0, <1>1, RingsKept, RingsTrue
<1>3. /\ SteadyPart(u.panel) = SteadyPart(Truth(a))
      /\ Bare(a) => u.panel.picture = PictureOf(a.active.hifi, Phase(a.now))
  BY <1>1, <1>2, DrawnIsTrue
<1>4. Honest(u.panel, u.session)
  BY <1>0, <1>1, <1>2 DEF Honest
<1>5. Young(a, u.session)
  BY <1>0, <1>1 DEF Ready, Young
<1> QED
  BY <1>0, <1>1, <1>3, <1>4, <1>5 DEF Shows, Says, u

(* The frame's steps are the clear, the screen's, and the ring. *)
Framed(b, S, n, x) ==
  LET F == <<b>> \o S
      G == Append(F, x)
  IN  /\ Final(F) = S[n]
      /\ Len(G) = n + 2 /\ Final(G) = x /\ G[1] = b
      /\ \A i \in 1..n : G[i + 1] = S[i]

LEMMA StepsOfFrame ==
  ASSUME NEW b, NEW S, NEW n \in Nat \ {0}, S = [i \in 1..n |-> S[i]], NEW x
  PROVE  Framed(b, S, n, x)
<1> DEFINE T == {S[i] : i \in 1..n} \cup {b, x}
           F == <<b>> \o S
           G == Append(F, x)
<1>1. S \in Seq(T) /\ Len(S) = n
  <2>1. \A i \in 1..n : S[i] \in T
    OBVIOUS
  <2>2. S \in [1..n -> T]
    BY <2>1
  <2> QED
    BY <2>2
<1>2. b \in T /\ x \in T
  OBVIOUS
<1> HIDE DEF T
<1>3. <<b>> \in Seq(T) /\ Len(<<b>>) = 1 /\ <<b>>[1] = b
  BY <1>2
<1>4. /\ F \in Seq(T) /\ Len(F) = 1 + n
      /\ \A i \in 1..(1 + n) : F[i] = IF i <= 1 THEN <<b>>[i] ELSE S[i - 1]
  BY <1>1, <1>3, ConcatProperties
<1> HIDE DEF F
<1>5. /\ Len(G) = Len(F) + 1 /\ \A i \in 1..Len(F) : G[i] = F[i]
      /\ G[Len(F) + 1] = x
  BY <1>2, <1>4, AppendProperties
<1> HIDE DEF G
<1>6. Final(F) = S[n]
  <2>1. 1 + n \in 1..(1 + n) /\ ~(1 + n <= 1) /\ (1 + n) - 1 = n
    OBVIOUS
  <2>2. F[1 + n] = S[n]
    BY <1>4, <2>1
  <2> QED
    BY <1>4, <2>2 DEF Final
<1>7. Len(G) = n + 2 /\ Final(G) = x
  BY <1>4, <1>5 DEF Final
<1>8. G[1] = b /\ \A i \in 1..n : G[i + 1] = S[i]
  <2>1. 1 \in 1..Len(F) /\ F[1] = b
    <3>1. 1 \in 1..(1 + n) /\ 1 <= 1
      OBVIOUS
    <3> QED
      BY <1>3, <1>4, <3>1
  <2>2. ASSUME NEW i \in 1..n PROVE G[i + 1] = S[i]
    <3>1. i + 1 \in 1..(1 + n) /\ ~(i + 1 <= 1) /\ (i + 1) - 1 = i
      OBVIOUS
    <3>2. F[i + 1] = S[i]
      BY <1>4, <3>1
    <3> QED
      BY <1>4, <1>5, <3>1, <3>2
  <2> QED
    BY <1>5, <2>1, <2>2
<1> QED
  BY <1>6, <1>7, <1>8 DEF F, G, Framed

LEMMA RenderShows ==
  ASSUME NEW a, AppOK(a), NEW p, NEW s, IsSession(s), Honest(p, s), Young(a, s)
  PROVE  LET steps == RenderSteps(a, p, s)
         IN  /\ Shows(a, Final(steps).panel, Final(steps).session)
             /\ IsSession(steps[1].session)
             /\ \A i \in 1..(Len(steps) - 1) : IsPanel(steps[i].panel)
<1> DEFINE name == a.active.screen
           b == [panel   |-> IF NeedsClear(s, name, FocusedOn(a)) THEN BlackPanel ELSE p,
                 session |-> BeginFrame(s, name, FocusedOn(a))]
           S == DrawScreen(a, b)
           F == <<b>> \o S
           x == DrawRing(a, Final(F))
           G == Append(F, x)
<1>1. RenderSteps(a, p, s) = G
  BY DEF RenderSteps, WithRing
<1>2. Ready(a, b)
  BY BegunReady DEF AppOK, Actives, ScreenNames
<1> HIDE DEF b
<1>3. DrawnWell(a, S)
  BY <1>2, ScreenDraws
<1> HIDE DEF S
<1>4. PICK n \in Nat \ {0} :
        /\ S = [i \in 1..n |-> S[i]]
        /\ \A i \in 1..n : IsPanel(S[i].panel)
        /\ Ready(a, S[n]) /\ TrueTo(a, S[n].panel)
  BY <1>3 DEF DrawnWell
<1> HIDE DEF x
<1>5. /\ Final(F) = S[n] /\ Len(G) = n + 2 /\ Final(G) = x /\ G[1] = b
      /\ \A i \in 1..n : G[i + 1] = S[i]
  <2>1. Framed(b, S, n, x)
    BY <1>4, StepsOfFrame
  <2> QED
    BY <2>1 DEF Framed
<1> HIDE DEF F, G
<1>6. Shows(a, x.panel, x.session)
  BY <1>4, <1>5, RingShows DEF x
<1>7. IsSession(b.session) /\ IsPanel(b.panel)
  BY <1>2 DEF Ready, IsStep
<1>8. ASSUME NEW i \in 1..(n + 1) PROVE IsPanel(G[i].panel)
  <2>1. CASE i = 1
    BY <1>5, <1>7, <2>1
  <2>2. CASE i # 1
    <3>1. i - 1 \in 1..n /\ (i - 1) + 1 = i
      BY <2>2
    <3>2. G[i] = S[i - 1]
      BY <1>5, <3>1
    <3> QED
      BY <1>4, <3>1, <3>2
  <2> QED
    BY <2>1, <2>2
<1>9. (n + 2) - 1 = n + 1
  OBVIOUS
<1> QED
  BY <1>1, <1>5, <1>6, <1>7, <1>8, <1>9

LEMMA AbandonedKnowsNothing ==
  ASSUME NEW s, IsSession(s), NEW name
  PROVE  LET r == AbandonFrame(s, name) IN IsSession(r) /\ r.lastScreen = None
<1> DEFINE i == InvalidateScreen(s, name)
           r == AbandonFrame(s, name)
<1>1. i = [s EXCEPT !.launcher   = IF name = "Launcher" THEN LauncherCache ELSE @,
                    !.hifi       = IF name = "HifiControl" THEN HifiCache ELSE @,
                    !.lastScreen = IF s.lastScreen = name THEN None ELSE @,
                    !.lastFocus  = IF s.lastScreen = name THEN NoFocus ELSE @]
  BY DEF InvalidateScreen
<1>2. r = [i EXCEPT !.lastScreen = None, !.lastFocus = NoFocus]
  BY DEF AbandonFrame
<1> HIDE DEF i, r
<1>3. /\ LauncherCache.chrome = FALSE
      /\ LauncherCache = [chrome |-> LauncherCache.chrome, net |-> LauncherCache.net,
                          phase |-> LauncherCache.phase]
  BY DEF LauncherCache
<1>4. IsSession(i)
  BY <1>1, <1>3, FreshCache DEF IsSession
<1>5. IsSession(r) /\ r.lastScreen = None
  BY <1>2, <1>4 DEF IsSession
<1> QED
  BY <1>5 DEF r
-----------------------------------------------------------------------------
(* What handlers that ask for no frame leave as it shows. *)

Quiet(a, b) ==
  /\ SteadyPart(Truth(b)) = SteadyPart(Truth(a))
  /\ Bare(b) => /\ Bare(a)
                /\ PictureOf(b.active.hifi, Phase(b.now))
                     = PictureOf(a.active.hifi, Phase(a.now))

LEMMA QuietTwice ==
  ASSUME NEW a, NEW b, NEW c, Quiet(a, b), Quiet(b, c) PROVE Quiet(a, c)
BY DEF Quiet

LEMMA WatchSteady ==
  ASSUME NEW a, NEW b, a.active.running = b.active.running,
         a.active.seconds = b.active.seconds, a.network = b.network
  PROVE  SubSeq(WatchShown(a), 1, 3) = SubSeq(WatchShown(b), 1, 3)
<1> DEFINE r == a.active.running
           n == a.active.seconds
           w == a.network
           x == a.taps
           y == b.taps
<1>1. WatchShown(a) = <<r, n, w, x>> /\ WatchShown(b) = <<r, n, w, y>>
  BY DEF WatchShown
<1> HIDE DEF r, n, w, x, y
<1>2. ASSUME NEW z PROVE SubSeq(<<r, n, w, z>>, 1, 3) = <<r, n, w>>
  <2>1. SubSeq(<<r, n, w, z>>, 1, 3) = [i \in 1..3 |-> <<r, n, w, z>>[i]]
    OBVIOUS
  <2>2. <<r, n, w>> = [i \in 1..3 |-> <<r, n, w>>[i]]
    OBVIOUS
  <2>3. \A i \in 1..3 : <<r, n, w, z>>[i] = <<r, n, w>>[i]
    OBVIOUS
  <2> QED
    BY <2>1, <2>2, <2>3
<1> QED
  BY <1>1, <1>2

LEMMA WatchIsSomething ==
  ASSUME NEW a, AppOK(a), a.active.screen = "Stopwatch"
  PROVE  WatchShown(a) # None
<1>1. /\ a.active.running \in BOOLEAN /\ a.active.seconds \in Nat
      /\ a.network \in AllNetworks /\ a.taps \in Nat
  BY DEF AppOK, Actives
<1>2. WatchShown(a) \in WatchStates
  BY <1>1 DEF WatchShown, WatchStates
<1> QED
  BY <1>2, ShellAssumption

(* What of the HiFi screen shows, and stays. *)
SameTiles(s, u) == \A slot \in Slots : TileOf(u, slot) = TileOf(s, slot)

SamePlaying(s, u) ==
  /\ ArtKind(u) = ArtKind(s) /\ (ArtKind(s) = "Artwork" => u.artwork = s.artwork)
  /\ u.loading = s.loading
  /\ ~s.loading => /\ TitleText(u.status) = TitleText(s.status)
                   /\ ArtistText(u.status) = ArtistText(s.status)
                   /\ Filled(u.status) = Filled(s.status)
  /\ ~BadgeWanted(u) => ~BadgeWanted(s)
  /\ u.overlayUntil = None => s.overlayUntil = None

SameHifi(s, u) ==
  /\ u.page = s.page
  /\ IF s.page = "Choices" THEN SameTiles(s, u) ELSE SamePlaying(s, u)

SameShown(a, b) ==
  CASE a.active.screen = "Launcher"    -> NetShown(b) = NetShown(a)
    [] a.active.screen = "Stopwatch"   ->
         /\ b.active.running = a.active.running /\ b.active.seconds = a.active.seconds
         /\ b.network = a.network
    [] a.active.screen = "HifiControl" -> SameHifi(a.active.hifi, b.active.hifi)

SameSteady(p, q) ==
  /\ p.picture["rim"] = q.picture["rim"]
  /\ p.title = q.title /\ p.artist = q.artist /\ p.progress = q.progress
  /\ p.header = q.header /\ p.tiles = q.tiles /\ p.chrome = q.chrome /\ p.net = q.net
  /\ WatchPart(p.watch) = WatchPart(q.watch) /\ p.rings = q.rings

LEMMA QuietWhenSame ==
  ASSUME NEW a, AppOK(a), NEW b, AppOK(b), b.active.screen = a.active.screen,
         FocusedOn(b) = FocusedOn(a), SameShown(a, b)
  PROVE  Quiet(a, b)
<1> DEFINE p == PageOf(a)
           q == PageOf(b)
           s == a.active.hifi
           u == b.active.hifi
           x == Truth(a)
           y == Truth(b)
           pa == PictureOf(s, Phase(a.now))
           pb == PictureOf(u, Phase(b.now))
<1>0. a.active.screen \in ScreenNames
  BY DEF AppOK, Actives, ScreenNames
<1>1. /\ IsPanel(x) /\ x.rings = RingOf(FocusedOn(a))
      /\ x.picture = p.picture /\ x.title = p.title /\ x.artist = p.artist
      /\ x.progress = p.progress /\ x.header = p.header /\ x.tiles = p.tiles
      /\ x.chrome = p.chrome /\ x.net = p.net /\ x.watch = p.watch
  BY <1>0, TruthFields
<1>2. /\ IsPanel(y) /\ y.rings = RingOf(FocusedOn(a))
      /\ y.picture = q.picture /\ y.title = q.title /\ y.artist = q.artist
      /\ y.progress = q.progress /\ y.header = q.header /\ y.tiles = q.tiles
      /\ y.chrome = q.chrome /\ y.net = q.net /\ y.watch = q.watch
  BY <1>0, TruthFields
<1>3. /\ SameSteady(y, x)
      /\ Bare(b) => Bare(a) /\ pb = pa
      => Quiet(a, b)
  BY <1>1, <1>2, SteadySame DEF Quiet, SameSteady
<1> HIDE DEF x, y, pa, pb
<1>4. CASE a.active.screen = "Launcher"
  <2>1. /\ NoPicture(p) /\ NoTiles(p) /\ NoWatch(p)
        /\ p.chrome = TRUE /\ p.net = NetShown(a)
    BY <1>0, <1>4, PageFields
  <2>2. /\ NoPicture(q) /\ NoTiles(q) /\ NoWatch(q)
        /\ q.chrome = TRUE /\ q.net = NetShown(a)
    BY <1>0, <1>4, PageFields DEF SameShown
  <2> HIDE DEF p, q
  <2>3. SameSteady(y, x)
    BY <1>1, <1>2, <2>1, <2>2 DEF NoPicture, NoTiles, NoWatch, SameSteady
  <2> QED
    BY <1>3, <1>4, <2>3 DEF Bare
<1>5. CASE a.active.screen = "Stopwatch"
  <2>1. /\ NoPicture(p) /\ NoTiles(p) /\ NoChrome(p) /\ p.watch = WatchShown(a)
    BY <1>0, <1>5, PageFields
  <2>2. /\ NoPicture(q) /\ NoTiles(q) /\ NoChrome(q) /\ q.watch = WatchShown(b)
    BY <1>0, <1>5, PageFields
  <2> HIDE DEF p, q
  <2>3. WatchPart(WatchShown(a)) = WatchPart(WatchShown(b))
    BY <1>5, WatchSteady, WatchIsSomething DEF WatchPart, SameShown
  <2>4. SameSteady(y, x)
    BY <1>1, <1>2, <2>1, <2>2, <2>3 DEF NoPicture, NoTiles, NoChrome, SameSteady
  <2> QED
    BY <1>3, <1>5, <2>4 DEF Bare
<1>6. CASE a.active.screen = "HifiControl" /\ s.page = "Choices"
  <2> DEFINE tiles == [slot \in Slots |-> TileShown(TileOf(s, slot))]
             others == [slot \in Slots |-> TileShown(TileOf(u, slot))]
  <2>1. /\ NoPicture(p) /\ NoChrome(p) /\ NoWatch(p) /\ p.header = TRUE
        /\ p.tiles = tiles
    BY <1>0, <1>6, PageFields
  <2>2. u.page = s.page /\ SameTiles(s, u)
    BY <1>6 DEF SameShown, SameHifi
  <2>3. /\ NoPicture(q) /\ NoChrome(q) /\ NoWatch(q) /\ q.header = TRUE
        /\ q.tiles = others
    BY <1>0, <1>6, <2>2, PageFields
  <2>4. tiles = others
    BY <2>2 DEF SameTiles
  <2>5. ~Bare(b)
    BY <1>6, <2>2 DEF Bare
  <2> HIDE DEF p, q, tiles, others, s, u
  <2>6. SameSteady(y, x)
    BY <1>1, <1>2, <2>1, <2>3, <2>4 DEF NoPicture, NoChrome, NoWatch, SameSteady
  <2> QED
    BY <1>3, <2>5, <2>6
<1>7. CASE a.active.screen = "HifiControl" /\ s.page # "Choices"
  <2> DEFINE rim == IF ArtKind(s) = "Artwork" THEN Plain(s.artwork) ELSE Blank
             title == IF s.loading THEN None ELSE TitleText(s.status)
             artist == IF s.loading THEN None ELSE ArtistText(s.status)
             filled == IF s.loading THEN None ELSE Filled(s.status)
  <2>1. /\ NoTiles(p) /\ NoChrome(p) /\ NoWatch(p) /\ p.picture = pa
        /\ p.title = title /\ p.artist = artist /\ p.progress = filled
    BY <1>0, <1>7, PageFields DEF pa
  <2>2. u.page = s.page /\ SamePlaying(s, u)
    BY <1>7 DEF SameShown, SameHifi
  <2>3. /\ NoTiles(q) /\ NoChrome(q) /\ NoWatch(q) /\ q.picture = pb
        /\ q.title = title /\ q.artist = artist /\ q.progress = filled
    BY <1>0, <1>7, <2>2, PageFields DEF pb, SamePlaying
  <2>4. pa["rim"] = rim
    BY PictureRim DEF pa
  <2>5. pb["rim"] = rim
    BY <2>2, PictureRim DEF pb, SamePlaying
  <2>6. Bare(b) => Bare(a)
    BY <1>7, <2>2 DEF Bare, SamePlaying
  <2>7. Bare(a) => pa = [r \in Picture |-> Plain(s.artwork)]
    BY BarePicture DEF Bare, pa
  <2>8. Bare(b) => pb = [r \in Picture |-> Plain(s.artwork)]
    <3>1. Bare(b) => pb = [r \in Picture |-> Plain(u.artwork)]
      BY BarePicture DEF Bare, pb
    <3>2. Bare(b) => u.artwork = s.artwork
      BY <2>2 DEF Bare, SamePlaying
    <3> QED
      BY <3>1, <3>2
  <2> HIDE DEF p, q, s, u, rim, title, artist, filled
  <2>9. SameSteady(y, x)
    BY <1>1, <1>2, <2>1, <2>3, <2>4, <2>5 DEF NoTiles, NoChrome, NoWatch, SameSteady
  <2> QED
    BY <1>3, <2>6, <2>7, <2>8, <2>9
<1> QED
  BY <1>0, <1>4, <1>5, <1>6, <1>7 DEF ScreenNames

LEMMA QuietAlone == ASSUME NEW a PROVE Quiet(a, a)
BY DEF Quiet

LEMMA TappedQuiet ==
  ASSUME NEW a, AppOK(a)
  PROVE  /\ Quiet(a, Tapped(a)) /\ Tapped(a).focus = a.focus
         /\ Tapped(a).network = a.network /\ Tapped(a).taps = a.taps + 1
<1> DEFINE b == Tapped(a)
<1>1. /\ AppOK(b) /\ b.active = a.active /\ b.now = a.now /\ b.focus = a.focus
      /\ b.network = a.network /\ b.taps = a.taps + 1
  BY TappedSame DEF AppOK, Tapped
<1> HIDE DEF b
<1>2. FocusedOn(b) = FocusedOn(a)
  BY <1>1 DEF FocusedOn, TargetsOf
<1>3. SameShown(a, b)
  <2>1. a.active.screen \in ScreenNames
    BY DEF AppOK, Actives, ScreenNames
  <2>2. NetShown(b) = NetShown(a)
    BY <1>1 DEF NetShown, Connecting
  <2>3. SameHifi(a.active.hifi, b.active.hifi)
    BY <1>1 DEF SameHifi, SameTiles, SamePlaying
  <2> QED
    BY <1>1, <2>1, <2>2, <2>3 DEF SameShown, ScreenNames
<1>4. Quiet(a, b)
  BY <1>1, <1>2, <1>3, QuietWhenSame
<1> QED
  BY <1>1, <1>4 DEF b
-----------------------------------------------------------------------------
(* Where the pad takes the ring.                                           *)

(* Controls whose middles are points, numbered from 1 to at most 4. *)
IsLayout(targets, n) ==
  /\ n \in 0..4 /\ DOMAIN targets = 1..n
  /\ \A i \in 1..n : Centre(targets[i]).x \in Int /\ Centre(targets[i]).y \in Int

LEMMA CostType ==
  ASSUME NEW targets, NEW n, IsLayout(targets, n), NEW i \in 1..n, NEW j \in 1..n,
         NEW direction \in Directions
  PROVE  CostOf(targets, i, j, direction) \in Int
<1> DEFINE p == Centre(targets[i])
           q == Centre(targets[j])
<1>1. p.x \in Int /\ p.y \in Int /\ q.x \in Int /\ q.y \in Int
  BY DEF IsLayout
<1> HIDE DEF p, q
<1>2. Along(p, q, direction) \in Int
  BY <1>1 DEF Along, Directions
<1>3. Across(p, q, direction) \in Int
  BY <1>1 DEF Across, Magnitude
<1>4. Cost(p, q, direction) \in Int
  BY <1>2, <1>3 DEF Cost
<1> QED
  BY <1>4 DEF CostOf, p, q

LEMMA CheapestExists ==
  ASSUME NEW A, A \subseteq {1, 2, 3, 4}, A # {}, NEW c, \A i \in A : c[i] \in Int
  PROVE  \E i \in A : \A j \in A : c[i] < c[j] \/ (c[i] = c[j] /\ i <= j)
<1> DEFINE Best(i, B) == i \in B /\ \A j \in B : c[i] < c[j] \/ (c[i] = c[j] /\ i <= j)
<1>1. ASSUME NEW B, B \subseteq A, NEW k \in A, k \notin B, \A j \in B : j < k,
             B = {} \/ \E i : Best(i, B)
      PROVE  \E i : Best(i, B \cup {k})
  <2>1. CASE B = {}
    <3>1. k <= k /\ c[k] = c[k]
      OBVIOUS
    <3>2. Best(k, B \cup {k})
      BY <2>1, <3>1
    <3> QED
      BY <3>2
  <2>2. CASE \E i : Best(i, B)
    <3>1. PICK i : Best(i, B)
      BY <2>2
    <3>2. CASE c[i] <= c[k]
      <4>1. c[i] < c[k] \/ (c[i] = c[k] /\ i <= k)
        BY <1>1, <3>1, <3>2
      <4>2. Best(i, B \cup {k})
        BY <3>1, <4>1
      <4> QED
        BY <4>2
    <3>3. CASE ~(c[i] <= c[k])
      <4>1. \A j \in B : c[k] < c[j]
        BY <1>1, <3>1, <3>3
      <4>2. Best(k, B \cup {k})
        BY <4>1
      <4> QED
        BY <4>2
    <3> QED
      BY <3>2, <3>3
  <2> QED
    BY <1>1, <2>1, <2>2
<1> DEFINE Fine(B) == B = {} \/ \E i : Best(i, B)
           One == A \cap {1}
           Two == A \cap {1, 2}
           Three == A \cap {1, 2, 3}
<1>2. ASSUME NEW B, B \subseteq A, NEW k \in {1, 2, 3, 4}, \A j \in B : j < k, Fine(B),
             NEW C, C = B \cup (A \cap {k})
      PROVE  Fine(C)
  <2>1. CASE k \in A
    <3>1. C = B \cup {k} /\ k \notin B
      BY <1>2, <2>1
    <3> HIDE DEF Best
    <3>2. \E i : Best(i, B \cup {k})
      BY <1>1, <1>2, <2>1, <3>1
    <3> QED
      BY <3>1, <3>2
  <2>2. CASE k \notin A
    <3>1. C = B
      BY <1>2, <2>2
    <3> QED
      BY <1>2, <3>1
  <2> QED
    BY <2>1, <2>2
<1>3. /\ One = {} \cup (A \cap {1}) /\ Two = One \cup (A \cap {2})
      /\ Three = Two \cup (A \cap {3}) /\ A = Three \cup (A \cap {4})
  OBVIOUS
<1>4. /\ One \subseteq A /\ Two \subseteq A /\ Three \subseteq A
      /\ \A j \in One : j < 2
      /\ \A j \in Two : j < 3
      /\ \A j \in Three : j < 4
  OBVIOUS
<1>5. Fine({})
  OBVIOUS
<1> HIDE DEF Fine, One, Two, Three
<1>6. Fine(One)
  BY <1>2, <1>3, <1>5
<1>7. Fine(Two)
  BY <1>2, <1>3, <1>4, <1>6
<1>8. Fine(Three)
  BY <1>2, <1>3, <1>4, <1>7
<1>9. Fine(A)
  BY <1>2, <1>3, <1>4, <1>8
<1> QED
  BY <1>9 DEF Fine

LEMMA NearestType ==
  ASSUME NEW targets, NEW n, IsLayout(targets, n), NEW from \in 1..n,
         NEW direction \in Directions, Ahead(targets, from, direction) # {}
  PROVE  Nearest(targets, from, direction) \in Ahead(targets, from, direction)
<1> DEFINE A == Ahead(targets, from, direction)
           c == [i \in 1..n |-> CostOf(targets, from, i, direction)]
<1>1. A \subseteq 1..n
  BY DEF Ahead, IsLayout
<1>2. \A i \in A : c[i] = CostOf(targets, from, i, direction) /\ c[i] \in Int
  BY <1>1, CostType
<1>3. A \subseteq {1, 2, 3, 4}
  BY <1>1 DEF IsLayout
<1> HIDE DEF A, c
<1>4. \E i \in A : \A j \in A : c[i] < c[j] \/ (c[i] = c[j] /\ i <= j)
  BY <1>2, <1>3, CheapestExists DEF A
<1>5. \E i \in A : \A j \in A :
        \/ CostOf(targets, from, i, direction) < CostOf(targets, from, j, direction)
        \/ /\ CostOf(targets, from, i, direction) = CostOf(targets, from, j, direction)
           /\ i <= j
  BY <1>2, <1>4
<1> QED
  BY <1>5 DEF A, Nearest

(* The only cheapest of the controls ahead is the nearest. *)
LEMMA NearestIs ==
  ASSUME NEW targets, NEW n, IsLayout(targets, n), NEW from \in 1..n,
         NEW direction \in Directions, NEW i \in Ahead(targets, from, direction),
         \A j \in Ahead(targets, from, direction) \ {i} :
           CostOf(targets, from, i, direction) < CostOf(targets, from, j, direction)
  PROVE  Nearest(targets, from, direction) = i
<1> DEFINE A == Ahead(targets, from, direction)
           C(j) == CostOf(targets, from, j, direction)
           Best(k) == \A j \in A : C(k) < C(j) \/ (C(k) = C(j) /\ k <= j)
<1>1. A \subseteq 1..n /\ \A j \in A : C(j) \in Int
  BY CostType DEF Ahead, IsLayout
<1>2. Nearest(targets, from, direction) = CHOOSE k \in A : Best(k)
  BY DEF Nearest
<1> HIDE DEF A, C
<1>3. i \in A /\ \A j \in A \ {i} : C(i) < C(j)
  BY DEF A, C
<1>4. Best(i)
  BY <1>1, <1>3
<1>5. ASSUME NEW k \in A, Best(k) PROVE k = i
  BY <1>1, <1>3, <1>5
<1> HIDE DEF Best
<1> QED
  BY <1>2, <1>3, <1>4, <1>5

LEMMA StepType ==
  ASSUME NEW targets, NEW n, IsLayout(targets, n), n # 0 => targets # <<>>,
         n # 0 => Len(targets) = n, n = 0 => targets = <<>>,
         NEW focus, NEW direction \in Directions
  PROVE  FocusStep(targets, focus, direction) \in 0..n
<1>0. n \in 0..4 /\ DOMAIN targets = 1..n
  BY DEF IsLayout
<1>1. CASE n = 0
  BY <1>0, <1>1 DEF FocusStep, NoFocus
<1>2. CASE n # 0 /\ focus \notin 1..n
  <2>1. FocusStep(targets, focus, direction) = 1
    BY <1>0, <1>2 DEF FocusStep
  <2> QED
    BY <1>0, <1>2, <2>1
<1>3. CASE n # 0 /\ focus \in 1..n /\ Ahead(targets, focus, direction) # {}
  <2>1. FocusStep(targets, focus, direction) = Nearest(targets, focus, direction)
    BY <1>0, <1>3 DEF FocusStep
  <2>2. Nearest(targets, focus, direction) \in Ahead(targets, focus, direction)
    BY <1>3, NearestType
  <2> QED
    BY <1>0, <2>1, <2>2 DEF Ahead
<1>4. CASE n # 0 /\ focus \in 1..n /\ Ahead(targets, focus, direction) = {}
  <2>1. FocusStep(targets, focus, direction) = NextInOrder(targets, focus, direction)
    BY <1>0, <1>4 DEF FocusStep
  <2>2. Len(targets) = n
    BY <1>4
  <2> QED
    BY <1>0, <1>4, <2>1, <2>2 DEF NextInOrder, NoFocus
<1> QED
  BY <1>1, <1>2, <1>3, <1>4
-----------------------------------------------------------------------------
(* The three pages' controls. *)

LEMMA LauncherPlaces ==
  LET t == LauncherTargets
  IN  /\ t = <<t[1], t[2]>>
      /\ Centre(t[1]) = [x |-> 205, y |-> 178] /\ Centre(t[2]) = [x |-> 205, y |-> 338]
BY DEF LauncherTargets, VerticalPair, Rect, Centre, DisplayWidth

LEMMA StopwatchPlaces ==
  LET t == StopwatchTargets
  IN  /\ t = <<t[1], t[2]>>
      /\ Centre(t[1]) = [x |-> 109, y |-> 182] /\ Centre(t[2]) = [x |-> 301, y |-> 182]
BY DEF StopwatchTargets, HorizontalPair, Rect, Centre, DisplayWidth

LEMMA TilePlaces ==
  /\ Centre(Tile(1)) = [x |-> 105, y |-> 161] /\ Centre(Tile(2)) = [x |-> 305, y |-> 161]
  /\ Centre(Tile(3)) = [x |-> 105, y |-> 383] /\ Centre(Tile(4)) = [x |-> 305, y |-> 383]
BY DEF Tile, Rect, Centre

LEMMA AheadSideways ==
  ASSUME NEW targets, NEW n, IsLayout(targets, n), NEW i \in 1..n
  PROVE  /\ Ahead(targets, i, "Right")
              = {j \in 1..n \ {i} : Centre(targets[j]).x - Centre(targets[i]).x > 0}
         /\ Ahead(targets, i, "Left")
              = {j \in 1..n \ {i} : Centre(targets[i]).x - Centre(targets[j]).x > 0}
BY DEF Ahead, Along, IsLayout

LEMMA CostSideways ==
  ASSUME NEW targets, NEW n, IsLayout(targets, n), NEW i \in 1..n, NEW j \in 1..n
  PROVE  LET p == Centre(targets[i])
             q == Centre(targets[j])
         IN  /\ CostOf(targets, i, j, "Right") = (q.x - p.x) + 3 * Magnitude(q.y - p.y)
             /\ CostOf(targets, i, j, "Left") = (p.x - q.x) + 3 * Magnitude(q.y - p.y)
BY DEF CostOf, Cost, Along, Across

(* Right goes on in reading order, Left goes back in it. *)
Walks(targets, n) ==
  \A i \in 1..n : /\ i < n => FocusStep(targets, i, "Right") = i + 1
                  /\ i > 1 => FocusStep(targets, i, "Left") = i - 1

LEMMA LauncherLayout ==
  /\ IsLayout(LauncherTargets, 2) /\ Len(LauncherTargets) = 2
  /\ LauncherTargets # <<>> /\ Walks(LauncherTargets, 2)
<1> DEFINE t == LauncherTargets
<1>1. DOMAIN t = 1..2 /\ Len(t) = 2 /\ t # <<>>
  BY LauncherPlaces DEF LauncherTargets, VerticalPair
<1>2. /\ Centre(t[1]) = [x |-> 205, y |-> 178] /\ Centre(t[2]) = [x |-> 205, y |-> 338]
  BY LauncherPlaces
<1> HIDE DEF t
<1>3. IsLayout(t, 2)
  BY <1>1, <1>2 DEF IsLayout
<1>4. ASSUME NEW i \in 1..2
      PROVE  Ahead(t, i, "Right") = {} /\ Ahead(t, i, "Left") = {}
  BY <1>2, <1>3, AheadSideways
<1>5. 1 \in 1..2 /\ 2 \in 1..2 /\ \A i \in 1..2 : i = 1 \/ i = 2
  OBVIOUS
<1>6. FocusStep(t, 1, "Right") = 2
  BY <1>1, <1>4, <1>5 DEF FocusStep, NextInOrder
<1>7. FocusStep(t, 2, "Left") = 1
  BY <1>1, <1>4, <1>5 DEF FocusStep, NextInOrder
<1>8. Walks(t, 2)
  BY <1>5, <1>6, <1>7 DEF Walks
<1> QED
  BY <1>1, <1>3, <1>8 DEF t

LEMMA StopwatchLayout ==
  /\ IsLayout(StopwatchTargets, 2) /\ Len(StopwatchTargets) = 2
  /\ StopwatchTargets # <<>> /\ Walks(StopwatchTargets, 2)
<1> DEFINE t == StopwatchTargets
<1>1. DOMAIN t = 1..2 /\ Len(t) = 2 /\ t # <<>>
  BY StopwatchPlaces DEF StopwatchTargets, HorizontalPair
<1>2. /\ Centre(t[1]) = [x |-> 109, y |-> 182] /\ Centre(t[2]) = [x |-> 301, y |-> 182]
  BY StopwatchPlaces
<1> HIDE DEF t
<1>3. IsLayout(t, 2)
  BY <1>1, <1>2 DEF IsLayout
<1>4. 1 \in 1..2 /\ 2 \in 1..2 /\ \A i \in 1..2 : i = 1 \/ i = 2
  OBVIOUS
<1>5. Ahead(t, 1, "Right") = {2} /\ Ahead(t, 2, "Left") = {1}
  BY <1>2, <1>3, <1>4, AheadSideways
<1>6. Nearest(t, 1, "Right") = 2 /\ Nearest(t, 2, "Left") = 1
  BY <1>3, <1>4, <1>5, NearestIs DEF Directions
<1>7. FocusStep(t, 1, "Right") = 2 /\ FocusStep(t, 2, "Left") = 1
  BY <1>1, <1>4, <1>5, <1>6 DEF FocusStep
<1>8. Walks(t, 2)
  BY <1>4, <1>7 DEF Walks
<1> QED
  BY <1>1, <1>3, <1>8 DEF t

LEMMA TilesLayout ==
  ASSUME NEW n \in 0..4, Slots = 1..n
  PROVE  /\ IsLayout(TileTargets, n) /\ Len(TileTargets) = n
         /\ n # 0 => TileTargets # <<>>
         /\ n = 0 => TileTargets = <<>>
         /\ Walks(TileTargets, n)
<1> DEFINE t == TileTargets
<1>1. t = [slot \in 1..n |-> Tile(slot)]
  BY DEF TileTargets
<1>2. DOMAIN t = 1..n /\ \A i \in 1..n : t[i] = Tile(i)
  BY <1>1
<1>3. /\ 1 <= n => Centre(t[1]) = [x |-> 105, y |-> 161]
      /\ 2 <= n => Centre(t[2]) = [x |-> 305, y |-> 161]
      /\ 3 <= n => Centre(t[3]) = [x |-> 105, y |-> 383]
      /\ 4 <= n => Centre(t[4]) = [x |-> 305, y |-> 383]
  BY <1>2, TilePlaces
<1>4. Len(t) = n /\ (n = 0 => t = <<>>) /\ (n # 0 => t # <<>>)
  <2> DEFINE T == {Tile(i) : i \in 1..n}
  <2>1. t \in Seq(T) /\ Len(t) = n
    <3>1. t \in [1..n -> T]
      BY <1>1
    <3> HIDE DEF t, T
    <3> QED
      BY <3>1
  <2>2. n = 0 => t = <<>>
    <3> SUFFICES ASSUME n = 0 PROVE t = <<>>
      OBVIOUS
    <3>1. ~(Len(t) \in Nat \ {0})
      BY <2>1
    <3> HIDE DEF t, T
    <3> QED
      BY <2>1, <3>1, EmptySeq
  <2>3. n # 0 => t # <<>>
    <3>1. n # 0 => 1 \in DOMAIN t
      BY <1>2
    <3> HIDE DEF t
    <3> QED
      BY <3>1
  <2> QED
    BY <2>1, <2>2, <2>3
<1> HIDE DEF t
<1>5. \A i \in 1..n : i \in {1, 2, 3, 4}
  OBVIOUS
<1>6. IsLayout(t, n)
  BY <1>2, <1>3, <1>5 DEF IsLayout
<1> DEFINE C(i) == Centre(t[i])
<1>7. ASSUME NEW i \in 1..n, i < n PROVE FocusStep(t, i, "Right") = i + 1
  <2>0. Ahead(t, i, "Right") = {j \in 1..n \ {i} : C(j).x - C(i).x > 0}
    BY <1>6, AheadSideways
  <2>1. CASE i = 2
    <3>1. Ahead(t, i, "Right") = {}
      BY <1>3, <1>5, <2>0, <2>1
    <3> QED
      BY <1>2, <1>4, <1>7, <2>1, <3>1 DEF FocusStep, NextInOrder
  <2>2. CASE i \in {1, 3}
    <3>1. i + 1 \in Ahead(t, i, "Right")
      BY <1>3, <1>7, <2>0, <2>2
    <3>2. ASSUME NEW j \in Ahead(t, i, "Right") \ {i + 1}
          PROVE  CostOf(t, i, i + 1, "Right") < CostOf(t, i, j, "Right")
      <4>1. j \in 1..n /\ i + 1 \in 1..n /\ j # i /\ C(j).x - C(i).x > 0
        BY <1>7, <2>0, <3>2
      <4>2. CostOf(t, i, j, "Right") = (C(j).x - C(i).x) + 3 * Magnitude(C(j).y - C(i).y)
        BY <1>6, <4>1, CostSideways
      <4>3. CostOf(t, i, i + 1, "Right")
              = (C(i + 1).x - C(i).x) + 3 * Magnitude(C(i + 1).y - C(i).y)
        BY <1>6, <4>1, CostSideways
      <4>4. CASE i = 1
        <5>1. n \geq 2 /\ (n \geq 3 => C(3).x = C(1).x)
          BY <1>3, <1>7, <4>4
        <5>2. j = 4
          BY <1>5, <4>1, <4>4, <5>1, <3>2, <1>3
        <5> QED
          BY <1>3, <4>1, <4>2, <4>3, <4>4, <5>2 DEF Magnitude
      <4>5. CASE i = 3
        <5>1. j = 2
          BY <1>5, <4>1, <4>5, <3>2, <1>3, <1>7
        <5> QED
          BY <1>3, <4>1, <4>2, <4>3, <4>5, <5>1 DEF Magnitude
      <4> QED
        BY <2>2, <4>4, <4>5
    <3>3. Nearest(t, i, "Right") = i + 1
      BY <1>6, <3>1, <3>2, NearestIs DEF Directions
    <3> QED
      BY <1>2, <1>4, <3>1, <3>3 DEF FocusStep
  <2> QED
    BY <1>5, <1>7, <2>1, <2>2
<1>8. ASSUME NEW i \in 1..n, i > 1 PROVE FocusStep(t, i, "Left") = i - 1
  <2>0. Ahead(t, i, "Left") = {j \in 1..n \ {i} : C(i).x - C(j).x > 0}
    BY <1>6, AheadSideways
  <2>1. CASE i = 3
    <3>1. Ahead(t, i, "Left") = {}
      BY <1>3, <1>5, <2>0, <2>1
    <3> QED
      BY <1>2, <1>4, <1>8, <2>1, <3>1 DEF FocusStep, NextInOrder
  <2>2. CASE i \in {2, 4}
    <3>1. i - 1 \in Ahead(t, i, "Left")
      BY <1>3, <1>8, <2>0, <2>2
    <3>2. ASSUME NEW j \in Ahead(t, i, "Left") \ {i - 1}
          PROVE  CostOf(t, i, i - 1, "Left") < CostOf(t, i, j, "Left")
      <4>1. j \in 1..n /\ i - 1 \in 1..n /\ j # i /\ C(i).x - C(j).x > 0
        BY <1>8, <2>0, <3>2
      <4>2. CostOf(t, i, j, "Left") = (C(i).x - C(j).x) + 3 * Magnitude(C(j).y - C(i).y)
        BY <1>6, <4>1, CostSideways
      <4>3. CostOf(t, i, i - 1, "Left")
              = (C(i).x - C(i - 1).x) + 3 * Magnitude(C(i - 1).y - C(i).y)
        BY <1>6, <4>1, CostSideways
      <4>4. CASE i = 2
        <5>1. j = 3
          BY <1>5, <4>1, <4>4, <3>2, <1>3
        <5> QED
          BY <1>3, <4>1, <4>2, <4>3, <4>4, <5>1 DEF Magnitude
      <4>5. CASE i = 4
        <5>1. j = 1
          BY <1>5, <4>1, <4>5, <3>2, <1>3, <1>8
        <5> QED
          BY <1>3, <4>1, <4>2, <4>3, <4>5, <5>1 DEF Magnitude
      <4> QED
        BY <2>2, <4>4, <4>5
    <3>3. Nearest(t, i, "Left") = i - 1
      BY <1>6, <3>1, <3>2, NearestIs DEF Directions
    <3> QED
      BY <1>2, <1>4, <3>1, <3>3 DEF FocusStep
  <2> QED
    BY <1>5, <1>8, <2>1, <2>2
<1>9. Walks(t, n)
  BY <1>7, <1>8 DEF Walks
<1> QED
  BY <1>4, <1>6, <1>9 DEF t

(* Who walks through all in order reaches all. *)
LEMMA WalkReaches ==
  ASSUME NEW targets, NEW n \in 0..4, DOMAIN targets = 1..n, Walks(targets, n),
         NEW from \in 1..n
  PROVE  Reached(targets, from, {"Left", "Right"}) = 1..n
<1>1. ASSUME NEW C \in SUBSET (1..n), from \in C, Closed(targets, C, {"Left", "Right"})
      PROVE  C = 1..n
  <2>1. ASSUME NEW i \in C PROVE (i < n => i + 1 \in C) /\ (i > 1 => i - 1 \in C)
    <3>1. /\ FocusStep(targets, i, "Right") \in C \cup {0}
          /\ FocusStep(targets, i, "Left") \in C \cup {0}
      BY <1>1 DEF Closed, NoFocus
    <3>2. i \in 1..n /\ i + 1 # 0 /\ (i > 1 => i - 1 # 0)
      BY <1>1
    <3> QED
      BY <3>1, <3>2 DEF Walks
  <2>2. from \in {1, 2, 3, 4} /\ n \in {1, 2, 3, 4}
    OBVIOUS
  <2>3. /\ from = 2 => 1 \in C
        /\ from = 3 => 2 \in C /\ 1 \in C
        /\ from = 4 => 3 \in C /\ 2 \in C /\ 1 \in C
    BY <1>1, <2>1
  <2>4. 1 \in C
    BY <1>1, <2>2, <2>3
  <2>5. n \geq 2 => 2 \in C
    BY <2>1, <2>4
  <2>6. n \geq 3 => 3 \in C
    BY <2>1, <2>5
  <2>7. n = 4 => 4 \in C
    BY <2>1, <2>6
  <2>8. \A j \in 1..n : j = 1 \/ (j = 2 /\ n \geq 2) \/ (j = 3 /\ n \geq 3) \/ (j = 4 /\ n = 4)
    OBVIOUS
  <2> QED
    BY <1>1, <2>4, <2>5, <2>6, <2>7, <2>8
<1> QED
  BY <1>1 DEF Reached

(* The controls of a page, as the pad moves over them. *)
Places == 0..2 \cup Slots

LEMMA PageLayout ==
  ASSUME NEW a, AppOK(a), TargetsOf(a) # <<>>
  PROVE  \E n \in 0..4 :
           /\ IsLayout(TargetsOf(a), n) /\ Len(TargetsOf(a)) = n
           /\ n # 0 => TargetsOf(a) # <<>>
           /\ n = 0 => TargetsOf(a) = <<>>
           /\ Walks(TargetsOf(a), n) /\ 0..n \subseteq Places
<1>1. a.active.screen \in ScreenNames
  BY DEF AppOK, Actives, ScreenNames
<1>2. CASE a.active.screen = "Launcher"
  BY <1>2, LauncherLayout DEF TargetsOf, Places
<1>3. CASE a.active.screen = "Stopwatch"
  BY <1>3, StopwatchLayout DEF TargetsOf, Places
<1>4. CASE a.active.screen = "HifiControl"
  <2>1. TargetsOf(a) = TileTargets
    BY <1>4 DEF TargetsOf
  <2>2. PICK n \in 0..4 : Slots = 1..n
    BY ShellAssumption
  <2>3. 0..n \subseteq Places
    BY <2>2 DEF Places
  <2> QED
    BY <2>1, <2>2, <2>3, TilesLayout
<1> QED
  BY <1>1, <1>2, <1>3, <1>4 DEF ScreenNames

LEMMA StepPlace ==
  ASSUME NEW a, AppOK(a), NEW direction \in Directions
  PROVE  FocusStep(TargetsOf(a), a.focus, direction) \in Places
<1>1. CASE TargetsOf(a) = <<>>
  BY <1>1 DEF FocusStep, NoFocus, Places
<1>2. CASE TargetsOf(a) # <<>>
  BY <1>2, PageLayout, StepType
<1> QED
  BY <1>1, <1>2

(* What a handler does besides: it never goes back to before the first     *)
(* report, the launcher's spinner is where the clock is, the ring is on a  *)
(* place, and what shows is as it was if no frame is asked for. *)
LauncherTicked(a) ==
  a.active.screen = "Launcher" => a.active.ticked \in {None, Phase(a.now)}

Grows(a, b) ==
  a.active.screen = "HifiControl" =>
    b.active.screen = "HifiControl" /\ (b.active.hifi.loading => a.active.hifi.loading)

Known(a) == AppOK(a) /\ LauncherTicked(a) /\ a.focus \in Places

Carries(a, b) ==
  Known(b) /\ Grows(a, b) /\ b.network \in AllNetworks /\ b.taps = a.taps

LEMMA CarriesSelf == ASSUME NEW a, Known(a) PROVE Carries(a, a)
BY DEF Carries, Known, Grows, AppOK

LEMMA FocusCarries ==
  ASSUME NEW a, Known(a), NEW focus \in Places
  PROVE  LET b == [a EXCEPT !.focus = focus]
         IN  Carries(a, b) /\ b.active = a.active /\ b.now = a.now
<1> DEFINE b == [a EXCEPT !.focus = focus]
<1>1. b = [now |-> a.now, network |-> a.network, taps |-> a.taps,
           active |-> a.active, focus |-> focus]
  BY DEF AppOK, Known
<1>2. AppOK(b)
  BY SetFocusFollows DEF Follows, Known
<1> HIDE DEF b
<1>3. b.active = a.active /\ b.now = a.now /\ b.focus = focus /\ b.taps = a.taps
      /\ b.network = a.network
  BY <1>1
<1>4. Known(b)
  BY <1>2, <1>3 DEF Known, LauncherTicked
<1>5. Carries(a, b)
  BY <1>2, <1>3, <1>4 DEF Carries, Grows, AppOK
<1> QED
  BY <1>3, <1>5 DEF b

LEMMA NavigateCarries ==
  ASSUME NEW a, Known(a), NEW name \in ScreenNames, name # a.active.screen,
         a.active.screen # "HifiControl"
  PROVE  Carries(a, Navigate(a, name))
<1> DEFINE b == Navigate(a, name)
<1>1. /\ b.active = NewActive(name, a.now) /\ b.focus = NoFocus
      /\ b.now = a.now /\ b.taps = a.taps /\ b.network = a.network
  BY DEF AppOK, Known, Navigate
<1>2. AppOK(b)
  BY NavigateFollows DEF Follows, Known
<1> HIDE DEF b
<1>3. b.active.screen = "Launcher" => b.active.ticked = None
  BY <1>1 DEF NewActive, ScreenNames
<1>4. Known(b)
  BY <1>1, <1>2, <1>3 DEF Known, LauncherTicked, NoFocus, Places
<1>5. Carries(a, b)
  BY <1>1, <1>2, <1>4 DEF Carries, Grows, AppOK
<1> QED
  BY <1>5 DEF b

(* Another state of the HiFi screen. *)
HifiSet(a, b, hifi, focus) ==
  /\ Carries(a, b) /\ b.active.screen = "HifiControl" /\ b.active.hifi = hifi
  /\ b.now = a.now /\ b.focus = focus

LEMMA HifiCarries ==
  ASSUME NEW a, Known(a), a.active.screen = "HifiControl",
         NEW hifi, Sound(hifi, a.now), hifi.loading => a.active.hifi.loading,
         NEW focus \in Places,
         focus = NoFocus \/ hifi.page = a.active.hifi.page \/ hifi.page = "NowPlaying"
  PROVE  HifiSet(a, [a EXCEPT !.active.hifi = hifi, !.focus = focus], hifi, focus)
<1> DEFINE b == [a EXCEPT !.active.hifi = hifi, !.focus = focus]
<1>1. /\ b.active.hifi = hifi /\ b.active.screen = "HifiControl"
      /\ b.focus = focus /\ b.now = a.now /\ b.taps = a.taps /\ b.network = a.network
  BY DEF AppOK, Actives, Known
<1>2. AppOK(b)
  BY HifiFollows DEF Follows, Known
<1> HIDE DEF b
<1>3. Known(b)
  BY <1>1, <1>2 DEF Known, LauncherTicked
<1>4. Carries(a, b)
  BY <1>1, <1>2, <1>3 DEF Carries, Grows, AppOK
<1> QED
  BY <1>1, <1>4 DEF HifiSet, b

LEMMA HifiAloneCarries ==
  ASSUME NEW a, Known(a), a.active.screen = "HifiControl",
         NEW hifi, Sound(hifi, a.now), hifi.loading => a.active.hifi.loading,
         hifi.page = a.active.hifi.page \/ hifi.page = "NowPlaying"
  PROVE  HifiSet(a, [a EXCEPT !.active.hifi = hifi], hifi, a.focus)
<1> DEFINE b == [a EXCEPT !.active.hifi = hifi, !.focus = a.focus]
<1>0. AppOK(a) /\ a.focus \in Places
  BY DEF Known
<1>1. [a EXCEPT !.active.hifi = hifi] = b
  BY <1>0 DEF AppOK
<1>2. HifiSet(a, b, hifi, a.focus)
  BY <1>0, HifiCarries
<1> QED
  BY <1>1, <1>2

LEMMA WatchCarries ==
  ASSUME NEW a, Known(a), a.active.screen = "Stopwatch",
         NEW b, Follows(a, b), NEW watch, watch.screen = "Stopwatch",
         b = [a EXCEPT !.active = watch]
  PROVE  Carries(a, b)
<1>1. /\ b.active = watch /\ b.focus = a.focus /\ b.now = a.now /\ b.taps = a.taps
      /\ b.network = a.network
  BY DEF AppOK, Known
<1> QED
  BY <1>1 DEF Carries, Known, LauncherTicked, Grows, Follows, AppOK

LEMMA TickPlaybackLoads ==
  ASSUME NEW s \in ScreenStates, NEW now
  PROVE  LET u == TickPlayback(s, now)
         IN  /\ u.loading => s.loading
             /\ s.loading => u.status = s.status
             /\ u.page = s.page /\ u.artwork = s.artwork /\ u.overlayUntil = s.overlayUntil
             /\ u.staleUntil = s.staleUntil /\ u.pins = s.pins /\ u.pinArt = s.pinArt
             /\ ~s.loading => u.loading = s.loading
<1> DEFINE passed == Second(now) - s.lastSecond
           reached == s.status.elapsed + passed
           end == s.status.duration
           u == TickPlayback(s, now)
<1>1. CASE s.loading
  <2>1. u = [s EXCEPT !.loading = now - s.created < LoadingTimeout]
    BY <1>1 DEF TickPlayback
  <2> QED
    BY <1>1, <2>1 DEF ScreenStates
<1>2. CASE ~s.loading /\ (s.status.playback # "Playing" \/ end = 0 \/ passed <= 0)
  <2>1. u = s
    BY <1>2 DEF TickPlayback
  <2> QED
    BY <1>2, <2>1
<1>3. CASE ~s.loading /\ ~(s.status.playback # "Playing" \/ end = 0 \/ passed <= 0)
  <2> DEFINE e == IF reached < end THEN reached ELSE end
             pb == IF reached < end THEN s.status.playback ELSE "Stopped"
             st == [s.status EXCEPT !.elapsed = e, !.playback = pb]
  <2>1. u = [s EXCEPT !.lastSecond = Second(now), !.status = st]
    BY <1>3 DEF TickPlayback, ScreenStates
  <2> HIDE DEF st, u
  <2> QED
    BY <1>3, <2>1 DEF ScreenStates, u
<1> QED
  BY <1>1, <1>2, <1>3

LEMMA PressLoads ==
  ASSUME NEW s \in ScreenStates, NEW button \in AllButtons, NEW now
  PROVE  HifiPressed(s, button, now).loading => s.loading
<1>1. CASE button = "Up"
  BY <1>1 DEF HifiPressed, TurnVolume, ScreenStates
<1>2. CASE button = "Down"
  BY <1>2 DEF HifiPressed, TurnVolume, ScreenStates
<1>3. CASE button = "Left"
  BY <1>3 DEF HifiPressed, PreviousOrRestart, Restart, BeginTrackChange, ScreenStates
<1>4. CASE button = "Right"
  BY <1>4 DEF HifiPressed, NextTrack, BeginTrackChange, ScreenStates
<1>5. CASE button = "Select"
  <2> DEFINE pausing == CanPause(s.status.playback)
             toggled == IF pausing THEN "Paused" ELSE "Playing"
             timed == IF pausing THEN TickPlayback(s, now)
                      ELSE [s EXCEPT !.lastSecond = Second(now)]
             u == TogglePlayback(s, now)
  <2>1. u = [timed EXCEPT !.status.playback = toggled, !.playbackHeld = Hold(toggled, now)]
    BY DEF TogglePlayback
  <2>2. timed.loading => s.loading
    BY TickPlaybackLoads DEF ScreenStates
  <2>3. DOMAIN timed = DOMAIN s /\ "loading" \in DOMAIN s
    BY DEF TickPlayback, ScreenStates
  <2> HIDE DEF timed, u
  <2>4. u.loading = timed.loading
    BY <2>1, <2>3
  <2> QED
    BY <1>5, <2>2, <2>4 DEF HifiPressed, u
<1>6. CASE button = "Back"
  BY <1>6 DEF HifiPressed, TurnPage, ScreenStates
<1> QED
  BY <1>1, <1>2, <1>3, <1>4, <1>5, <1>6 DEF AllButtons, Directions

LEMMA CarriesTwice ==
  ASSUME NEW a, NEW b, NEW c, Carries(a, b), Carries(b, c),
         b.active.screen = a.active.screen
  PROVE  Carries(a, c)
BY DEF Carries, Grows

LEMMA InvokePinShows ==
  ASSUME NEW s \in ScreenStates, NEW slot, NEW now
  PROVE  /\ InvokePin(s, slot, now).page = "NowPlaying"
         /\ InvokePin(s, slot, now).loading = s.loading
BY DEF InvokePin, ScreenStates

LEMMA TapControlCarries ==
  ASSUME NEW a, Known(a), NEW i \in {NoFocus} \cup DOMAIN TargetsOf(a)
  PROVE  Carries(a, TapControl(a, i))
<1>0. /\ AppOK(a) /\ a.active.screen \in ScreenNames /\ a.now \in Nat
      /\ a.active \in Actives
  BY DEF Known, AppOK, Actives, ScreenNames
<1>1. CASE TapControl(a, i) = a
  BY <1>1, CarriesSelf
<1>2. CASE i # NoFocus /\ a.active.screen = "Launcher"
  <2>1. i \in {1, 2}
    BY <1>0, <1>2, TargetsType
  <2>2. LauncherScreens[i] \in ScreenNames /\ LauncherScreens[i] # "Launcher"
    BY <2>1 DEF LauncherScreens, ScreenNames
  <2>3. TapControl(a, i) = Navigate(a, LauncherScreens[i])
    BY <1>2 DEF TapControl
  <2> QED
    BY <1>2, <2>2, <2>3, NavigateCarries
<1>3. CASE i # NoFocus /\ a.active.screen = "Stopwatch" /\ TapControl(a, i) # a
  <2>1. Follows(a, TapControl(a, i))
    BY <1>0, TapControlFollows
  <2>2. CASE TapControl(a, i) = [a EXCEPT !.active = StopwatchStart(a.active, a.now)]
    BY <1>0, <1>3, <2>1, <2>2, WatchTypes, WatchCarries
  <2>3. CASE TapControl(a, i) = [a EXCEPT !.active = StopwatchStop(a.active, a.now)]
    BY <1>0, <1>3, <2>1, <2>3, WatchTypes, WatchCarries
  <2> QED
    BY <1>3, <2>2, <2>3 DEF TapControl
<1>4. CASE i # NoFocus /\ a.active.screen = "HifiControl" /\ TapControl(a, i) # a
  <2> DEFINE hifi == InvokePin(a.active.hifi, i, a.now)
  <2>1. i \in Slots /\ a.active.hifi \in ScreenStates
    BY <1>0, <1>4, TargetsType DEF Actives
  <2>2. a.active.hifi.pins[i] # None /\ TapControl(a, i) = [a EXCEPT !.active.hifi = hifi]
    BY <1>4 DEF TapControl
  <2>3. Sound(hifi, a.now)
    BY <1>0, <1>4, <2>1, <2>2, InvokePinSound DEF AppOK
  <2>4. hifi.page = "NowPlaying" /\ hifi.loading = a.active.hifi.loading
    BY <2>1, InvokePinShows
  <2> HIDE DEF hifi
  <2>5. HifiSet(a, [a EXCEPT !.active.hifi = hifi], hifi, a.focus)
    BY <1>4, <2>3, <2>4, HifiAloneCarries
  <2> QED
    BY <2>2, <2>5 DEF HifiSet
<1>5. CASE i = NoFocus
  BY <1>1, <1>5 DEF TapControl
<1> QED
  BY <1>0, <1>1, <1>2, <1>3, <1>4, <1>5 DEF ScreenNames

LEMMA TargetPlaces ==
  ASSUME NEW a, AppOK(a)
  PROVE  DOMAIN TargetsOf(a) \subseteq 1..4 /\ DOMAIN TargetsOf(a) \subseteq Places
<1>1. a.active.screen \in ScreenNames
  BY DEF AppOK, Actives, ScreenNames
<1>2. DOMAIN TargetsOf(a) \subseteq {1, 2} \cup Slots
  BY <1>1, TargetsType DEF ScreenNames
<1>3. PICK n \in 0..4 : Slots = 1..n
  BY ShellAssumption
<1> QED
  BY <1>2, <1>3 DEF Places

LEMMA TouchCarries ==
  ASSUME NEW a, Known(a), NEW point
  PROVE  Carries(a, HandleTouch(a, point))
<1> DEFINE i == FocusHit(TargetsOf(a), point)
           set == [a EXCEPT !.focus = i]
           moved == IF a.focus # NoFocus /\ i # NoFocus THEN set ELSE a
<1>0. AppOK(a)
  BY DEF Known
<1>1. i \in {NoFocus} \cup DOMAIN TargetsOf(a) /\ i \in Places
  BY <1>0, TargetPlaces, HitType DEF NoFocus, Places
<1>2. Carries(a, set) /\ set.active = a.active
  BY <1>1, FocusCarries
<1>3. HandleTouch(a, point) = TapControl(moved, i)
  BY DEF HandleTouch
<1> HIDE DEF i, set
<1>4. Carries(a, moved) /\ moved.active = a.active
  BY <1>2, CarriesSelf
<1> HIDE DEF moved
<1>5. TargetsOf(moved) = TargetsOf(a) /\ Known(moved)
  BY <1>4 DEF TargetsOf, Carries
<1>6. Carries(moved, HandleTouch(a, point))
  BY <1>1, <1>3, <1>5, TapControlCarries
<1> QED
  BY <1>4, <1>6, CarriesTwice

(* A press, and whether it asks for a frame. *)
Answers(a, outcome) ==
  Carries(a, outcome.app) /\ (~outcome.redraw => Quiet(a, outcome.app))

LEMMA SetFocusAnswers ==
  ASSUME NEW a, Known(a), NEW focus \in Places
  PROVE  Answers(a, SetFocus(a, focus))
<1> DEFINE b == [a EXCEPT !.focus = focus]
<1>1. SetFocus(a, focus).app = b /\ (SetFocus(a, focus).redraw <=> focus # a.focus)
  BY DEF SetFocus, Outcome
<1>2. Carries(a, b)
  BY FocusCarries
<1>3. focus = a.focus => b = a
  BY DEF Known, AppOK
<1> HIDE DEF b
<1> QED
  BY <1>1, <1>2, <1>3, QuietAlone DEF Answers

LEMMA ButtonAnswers ==
  ASSUME NEW a, Known(a), NEW button \in AllButtons
  PROVE  Answers(a, HandleButton(a, button))
<1>0. AppOK(a) /\ a.focus \in Places /\ a.active.screen \in ScreenNames /\ a.now \in Nat
  BY DEF Known, AppOK, Actives, ScreenNames
<1>1. CASE Intercepts(a, button)
  <2> DEFINE s == a.active.hifi
             hifi == HifiPressed(s, button, a.now)
             focus == IF hifi.page = s.page THEN a.focus ELSE NoFocus
             b == [a EXCEPT !.active.hifi = hifi, !.focus = focus]
  <2>1. a.active.screen = "HifiControl" /\ Sound(s, a.now) /\ s \in ScreenStates
    BY <1>0, <1>1 DEF Intercepts, AppOK, Sound
  <2>2. HandleButton(a, button).app = b /\ HandleButton(a, button).redraw = TRUE
    BY <1>1 DEF HandleButton, HandleIntercepted, Outcome
  <2>3. Sound(hifi, a.now)
    BY <1>0, <2>1, PressSound
  <2>4. hifi.loading => s.loading
    BY <2>1, PressLoads
  <2>5. (focus = NoFocus \/ hifi.page = s.page) /\ focus \in Places
    BY <1>0 DEF NoFocus, Places
  <2> HIDE DEF hifi, focus
  <2>6. HifiSet(a, b, hifi, focus)
    BY <2>1, <2>3, <2>4, <2>5, HifiCarries
  <2> QED
    BY <2>2, <2>6 DEF Answers, HifiSet
<1>2. CASE ~Intercepts(a, button) /\ button = "Select"
  <2>1. HandleButton(a, button) = ActivateFocused(a)
    BY <1>2 DEF HandleButton, Directions
  <2>2. CASE FocusedOn(a) # NoFocus
    <3>1. /\ HandleButton(a, button).redraw = TRUE
          /\ HandleButton(a, button).app = HandleTouch(a, Centre(TargetsOf(a)[a.focus]))
      BY <2>1, <2>2 DEF ActivateFocused, Outcome
    <3> QED
      BY <3>1, TouchCarries DEF Answers
  <2>3. CASE FocusedOn(a) = NoFocus
    BY <2>1, <2>3, SetFocusAnswers DEF ActivateFocused, Places
  <2> QED
    BY <2>2, <2>3
<1>3. CASE ~Intercepts(a, button) /\ button = "Back"
  <2>1. HandleButton(a, button) = GoBack(a) /\ a.active.screen # "HifiControl"
    BY <1>3 DEF HandleButton, Directions, Intercepts
  <2>2. CASE a.active.screen = "Launcher"
    BY <2>1, <2>2, CarriesSelf, QuietAlone DEF GoBack, Outcome, Answers
  <2>3. CASE a.active.screen # "Launcher"
    <3>1. /\ HandleButton(a, button).app = Navigate(a, "Launcher")
          /\ HandleButton(a, button).redraw = TRUE
      BY <2>1, <2>3 DEF GoBack, Outcome
    <3> QED
      BY <2>1, <2>3, <3>1, NavigateCarries DEF ScreenNames, Answers
  <2> QED
    BY <2>2, <2>3
<1>4. CASE ~Intercepts(a, button) /\ button \in Directions
  <2> DEFINE next == FocusStep(TargetsOf(a), a.focus, button)
  <2>1. HandleButton(a, button) = MoveFocus(a, button)
    BY <1>4 DEF HandleButton, Directions
  <2>2. next \in Places
    BY <1>0, <1>4, StepPlace
  <2>3. MoveFocus(a, button) = IF next = NoFocus THEN Outcome(a, FALSE) ELSE SetFocus(a, next)
    BY DEF MoveFocus
  <2> HIDE DEF next
  <2> QED
    BY <2>1, <2>2, <2>3, SetFocusAnswers, CarriesSelf, QuietAlone DEF Outcome, Answers
<1> QED
  BY <1>1, <1>2, <1>3, <1>4 DEF AllButtons

LEMMA NetworkAnswers ==
  ASSUME NEW a, Known(a), NEW network \in AllNetworks, network # a.network
  PROVE  Answers(a, HandleNetwork(a, network))
<1> DEFINE b == [a EXCEPT !.network = network]
<1>1. b = [now |-> a.now, network |-> network, taps |-> a.taps,
           active |-> a.active, focus |-> a.focus]
  BY DEF AppOK, Known
<1>2. HandleNetwork(a, network).app = b /\ HandleNetwork(a, network).redraw
  BY DEF HandleNetwork, Outcome
<1>3. AppOK(b)
  BY <1>2, NetworkFollows DEF Known, Follows
<1> HIDE DEF b
<1>4. Carries(a, b)
  BY <1>1, <1>3 DEF Carries, Known, LauncherTicked, Grows
<1> QED
  BY <1>2, <1>4 DEF Answers

(* A state of the HiFi screen that says the same. *)
Alike(s, u) ==
  /\ u.page = s.page /\ u.status = s.status /\ u.loading = s.loading
  /\ u.artwork = s.artwork /\ u.overlayUntil = s.overlayUntil
  /\ u.pins = s.pins /\ u.pinArt = s.pinArt
  /\ s.artwork \notin {None, s.status.art} =>
       (u.staleUntil = None <=> s.staleUntil = None)

LEMMA AlikeSame ==
  ASSUME NEW s, NEW u, Alike(s, u) PROVE SameHifi(s, u)
<1>1. ArtKind(u) = ArtKind(s)
  BY DEF Alike, ArtKind
<1>2. SamePlaying(s, u)
  BY <1>1 DEF Alike, SamePlaying, BadgeWanted
<1>3. SameTiles(s, u)
  BY DEF Alike, SameTiles, TileOf
<1> QED
  BY <1>2, <1>3 DEF Alike, SameHifi

LEMMA AlikeQuiet ==
  ASSUME NEW a, AppOK(a), a.active.screen = "HifiControl",
         NEW b, AppOK(b), b.active.screen = "HifiControl", b.focus = a.focus,
         Alike(a.active.hifi, b.active.hifi)
  PROVE  Quiet(a, b)
<1>1. b.active.hifi.page = a.active.hifi.page
  BY DEF Alike
<1>2. FocusedOn(b) = FocusedOn(a)
  BY <1>1 DEF FocusedOn, TargetsOf
<1>3. SameShown(a, b)
  BY AlikeSame DEF SameShown
<1> QED
  BY <1>2, <1>3, QuietWhenSame

LEMMA HifiAnswers ==
  ASSUME NEW a, Known(a), a.active.screen = "HifiControl",
         NEW hifi, Sound(hifi, a.now), hifi.loading => a.active.hifi.loading,
         hifi.page = a.active.hifi.page,
         NEW redraw, ~redraw => Alike(a.active.hifi, hifi)
  PROVE  Answers(a, Outcome([a EXCEPT !.active.hifi = hifi], redraw))
<1> DEFINE b == [a EXCEPT !.active.hifi = hifi]
<1>1. HifiSet(a, b, hifi, a.focus)
  BY HifiAloneCarries
<1> HIDE DEF b
<1>2. AppOK(a) /\ AppOK(b)
  BY <1>1 DEF HifiSet, Carries, Known
<1>3. ~redraw => Quiet(a, b)
  BY <1>1, <1>2, AlikeQuiet DEF HifiSet
<1>4. Carries(a, b)
  BY <1>1 DEF HifiSet
<1>5. Outcome(b, redraw).app = b /\ Outcome(b, redraw).redraw = redraw
  BY DEF Outcome
<1>6. Answers(a, Outcome(b, redraw))
  BY <1>3, <1>4, <1>5 DEF Answers
<1> QED
  BY <1>6 DEF b

LEMMA StatusShows ==
  ASSUME NEW s, NEW now \in Nat, Sound(s, now), NEW status
  PROVE  LET u == ApplyStatus(s, status, now)
         IN  /\ u.page = s.page /\ (u.loading => s.loading)
             /\ /\ u.status = s.status
                /\ ~(s.loading /\ HasLiveContent(u.status))
                => Alike(s, u)
<1> DEFINE intro    == PinIntroHolds(s, status, now)
           progress == ProgressBelieved(s, status.elapsed, now)
           playback == StillHeld(s.playbackHeld, status.playback, now)
           volume   == StillHeld(s.volumeHeld, status.volume, now)
           words    == IF intro THEN s.status ELSE status
           next     ==
             [title |-> words.title, art |-> words.art, duration |-> words.duration,
              elapsed  |-> IF progress THEN status.elapsed ELSE s.status.elapsed,
              playback |-> IF playback THEN s.playbackHeld.value ELSE status.playback,
              volume   |-> IF volume THEN s.volumeHeld.value ELSE status.volume]
           a == IF intro THEN s.intro ELSE None
           b == IF progress THEN None ELSE s.progressUntil
           c == IF playback THEN s.playbackHeld ELSE None
           d == IF volume THEN s.volumeHeld ELSE None
           e == ArmStale(s, next, now)
           settled == [s EXCEPT !.intro = a, !.progressUntil = b, !.playbackHeld = c,
                                !.volumeHeld = d, !.staleUntil = e]
           on == s.loading /\ ~HasLiveContent(next)
           later == [settled EXCEPT !.status = next, !.loading = on,
                                    !.lastSecond = Second(now)]
           same == next = s.status /\ (~s.loading \/ ~HasLiveContent(next))
           u == ApplyStatus(s, status, now)
<1>0. s \in ScreenStates
  BY DEF Sound
<1>1. u = IF same THEN settled ELSE later
  <2>1. u = IF same
            THEN [s EXCEPT !.intro = IF intro THEN @ ELSE None,
                           !.progressUntil = IF progress THEN None ELSE @,
                           !.playbackHeld = IF playback THEN @ ELSE None,
                           !.volumeHeld = IF volume THEN @ ELSE None,
                           !.staleUntil = ArmStale(s, next, now)]
            ELSE [[s EXCEPT !.intro = IF intro THEN @ ELSE None,
                            !.progressUntil = IF progress THEN None ELSE @,
                            !.playbackHeld = IF playback THEN @ ELSE None,
                            !.volumeHeld = IF volume THEN @ ELSE None,
                            !.staleUntil = ArmStale(s, next, now)]
                  EXCEPT !.status = next, !.loading = @ /\ ~HasLiveContent(next),
                         !.lastSecond = Second(now)]
    BY DEF ApplyStatus
  <2> HIDE DEF intro, progress, playback, volume, next
  <2> QED
    BY <1>0, <2>1 DEF ScreenStates
<1>2. e # None \/ e = s.staleUntil
  BY ScreenAssumption DEF ArmStale
<1>3. s.artwork \notin {None, s.status.art} => s.staleUntil # None
  BY DEF Sound, Attended
<1> HIDE DEF a, b, c, d, e, next, u
<1>4. /\ settled.page = s.page /\ settled.status = s.status /\ settled.loading = s.loading
      /\ settled.artwork = s.artwork /\ settled.overlayUntil = s.overlayUntil
      /\ settled.pins = s.pins /\ settled.pinArt = s.pinArt /\ settled.staleUntil = e
      /\ DOMAIN settled = DOMAIN s
  BY <1>0 DEF ScreenStates
<1>5. /\ later.page = s.page /\ later.status = next /\ later.loading = on
      /\ later.artwork = s.artwork /\ later.overlayUntil = s.overlayUntil
      /\ later.pins = s.pins /\ later.pinArt = s.pinArt /\ later.staleUntil = e
  <2> HIDE DEF settled, on
  <2> QED
    BY <1>0, <1>4 DEF ScreenStates
<1> HIDE DEF settled, later
<1>6. CASE same
  <2>1. u = settled
    BY <1>1, <1>6
  <2>2. Alike(s, u)
    BY <1>2, <1>3, <1>4, <2>1 DEF Alike
  <2> QED
    BY <1>4, <2>1, <2>2 DEF u
<1>7. CASE ~same
  <2>1. u = later
    BY <1>1, <1>7
  <2>2. ~(u.status = s.status /\ ~(s.loading /\ HasLiveContent(u.status)))
    BY <1>5, <1>7, <2>1
  <2> QED
    BY <1>5, <2>1, <2>2 DEF u
<1> QED
  BY <1>6, <1>7

LEMMA ReportAnswers ==
  ASSUME NEW a, Known(a), a.active.screen = "HifiControl"
  PROVE  /\ \A status \in Statuses : Answers(a, HandleStatus(a, status))
         /\ \A uri \in Uris : Answers(a, HandleArtwork(a, uri))
         /\ \A pins \in [Slots -> Option(Pins)] : Answers(a, HandlePins(a, pins))
         /\ \A slot \in Slots, uri \in Uris : Answers(a, HandlePinArtwork(a, slot, uri))
<1> DEFINE s == a.active.hifi
<1>0. a.now \in Nat /\ Sound(s, a.now) /\ s \in ScreenStates
  BY DEF AppOK, Sound, Known
<1>1. Alike(s, s)
  BY DEF Alike
<1>2. ASSUME NEW status \in Statuses PROVE Answers(a, HandleStatus(a, status))
  <2> DEFINE u == ApplyStatus(s, status, a.now)
             redraw == \/ u.status # s.status
                       \/ s.loading /\ HasLiveContent(u.status)
  <2>1. Sound(u, a.now)
    BY <1>0, ApplyStatusProperty
  <2>2. u.page = s.page /\ (u.loading => s.loading) /\ (~redraw => Alike(s, u))
    BY <1>0, StatusShows
  <2>3. HandleStatus(a, status) = Outcome([a EXCEPT !.active.hifi = u], redraw)
    BY DEF HandleStatus
  <2> HIDE DEF u, redraw
  <2> QED
    BY <2>1, <2>2, <2>3, HifiAnswers
<1>3. ASSUME NEW uri \in Uris PROVE Answers(a, HandleArtwork(a, uri))
  <2> DEFINE u == ApplyArtwork(s, uri)
             redraw == u.artwork # s.artwork
  <2>1. Sound(u, a.now)
    BY <1>0, ApplyArtworkSound
  <2>2. u.page = s.page /\ u.loading = s.loading /\ (~redraw => Alike(s, u))
    <3>1. CASE uri # s.status.art
      BY <1>1, <3>1 DEF ApplyArtwork
    <3>2. CASE uri = s.status.art
      <4>1. u = [s EXCEPT !.artwork = uri, !.staleUntil = None]
        BY <3>2 DEF ApplyArtwork
      <4> HIDE DEF u
      <4>2. /\ u.page = s.page /\ u.status = s.status /\ u.loading = s.loading
            /\ u.artwork = uri /\ u.overlayUntil = s.overlayUntil
            /\ u.pins = s.pins /\ u.pinArt = s.pinArt
        BY <1>0, <4>1 DEF ScreenStates
      <4> QED
        BY <3>2, <4>2 DEF Alike
    <3> QED
      BY <3>1, <3>2
  <2>3. HandleArtwork(a, uri) = Outcome([a EXCEPT !.active.hifi = u], redraw)
    BY DEF HandleArtwork
  <2> HIDE DEF u, redraw
  <2> QED
    BY <2>1, <2>2, <2>3, HifiAnswers
<1>4. ASSUME NEW pins \in [Slots -> Option(Pins)] PROVE Answers(a, HandlePins(a, pins))
  <2> DEFINE u == ApplyPins(s, pins)
             redraw == u # s
  <2>1. Sound(u, a.now)
    BY <1>0, ApplyPinsSound
  <2>2. u.page = s.page /\ u.loading = s.loading
    BY <1>0 DEF ApplyPins, ScreenStates
  <2>3. HandlePins(a, pins) = Outcome([a EXCEPT !.active.hifi = u], redraw)
    BY DEF HandlePins
  <2>4. ~redraw => Alike(s, u)
    BY <1>1
  <2> HIDE DEF u, redraw
  <2> QED
    BY <2>1, <2>2, <2>3, <2>4, HifiAnswers
<1>5. ASSUME NEW slot \in Slots, NEW uri \in Uris
      PROVE  Answers(a, HandlePinArtwork(a, slot, uri))
  <2> DEFINE u == ApplyPinArtwork(s, slot, uri)
             redraw == u # s
  <2>1. Sound(u, a.now)
    BY <1>0, ApplyPinArtworkSound
  <2>2. u.page = s.page /\ u.loading = s.loading
    BY <1>0 DEF ApplyPinArtwork, ScreenStates
  <2>3. HandlePinArtwork(a, slot, uri) = Outcome([a EXCEPT !.active.hifi = u], redraw)
    BY DEF HandlePinArtwork
  <2>4. ~redraw => Alike(s, u)
    BY <1>1
  <2> HIDE DEF u, redraw
  <2> QED
    BY <2>1, <2>2, <2>3, <2>4, HifiAnswers
<1> QED
  BY <1>2, <1>3, <1>4, <1>5

LEMMA TickShows ==
  ASSUME NEW s \in ScreenStates, NEW later
  PROVE  LET u == OnTick(s, later)
         IN  /\ u.loading => s.loading
             /\ /\ ~Lapsed(s.overlayUntil, later) /\ ~Lapsed(s.staleUntil, later)
                /\ ~s.loading /\ u.status = s.status
                => Alike(s, u)
<1> DEFINE v == Cleared(s.overlayUntil, later)
           w == DroppedCover(s, later)
           x == Cleared(s.staleUntil, later)
           y == Cleared(s.progressUntil, later)
           z == IF s.intro # None /\ later >= s.intro.expires THEN None ELSE s.intro
           t == [s EXCEPT !.overlayUntil = v, !.artwork = w, !.staleUntil = x,
                          !.progressUntil = y, !.intro = z]
           u == OnTick(s, later)
<1>1. u = TickPlayback(t, later)
  BY DEF OnTick, ScreenStates
<1>2. ~Lapsed(s.overlayUntil, later) => v = s.overlayUntil
  BY DEF Cleared
<1>3. ~Lapsed(s.staleUntil, later) => x = s.staleUntil /\ w = s.artwork
  BY DEF Cleared, DroppedCover
<1>4. /\ v \in Option(Nat) /\ w \in Option(Uris \cup {NoUri}) /\ x \in Option(Nat)
      /\ y \in Option(Nat) /\ z \in Option(Intros)
  BY DEF ScreenStates, Option, Cleared, DroppedCover
<1> HIDE DEF v, w, x, y, z
<1>5. /\ t.page = s.page /\ t.status = s.status /\ t.loading = s.loading
      /\ t.artwork = w /\ t.overlayUntil = v /\ t.staleUntil = x
      /\ t.pins = s.pins /\ t.pinArt = s.pinArt /\ t.intro = z /\ t.progressUntil = y
      /\ DOMAIN t = DOMAIN s
  BY DEF ScreenStates
<1>6. t \in ScreenStates
  BY <1>4 DEF ScreenStates
<1> HIDE DEF t
<1>7. /\ u.loading => t.loading
      /\ ~t.loading => u.loading = t.loading
      /\ u.page = t.page /\ u.artwork = t.artwork /\ u.overlayUntil = t.overlayUntil
      /\ u.staleUntil = t.staleUntil /\ u.pins = t.pins /\ u.pinArt = t.pinArt
  BY <1>1, <1>6, TickPlaybackLoads
<1> HIDE DEF u
<1>8. /\ ~Lapsed(s.overlayUntil, later) /\ ~Lapsed(s.staleUntil, later)
      /\ ~s.loading /\ u.status = s.status
      => Alike(s, u)
  BY <1>2, <1>3, <1>5, <1>7 DEF Alike
<1> QED
  BY <1>5, <1>7, <1>8 DEF u

LEMMA TickAnswers ==
  ASSUME NEW a, Known(a), NEW later \in Nat, a.now <= later
  PROVE  /\ Answers(a, HandleTick(a, later))
         /\ HandleTick(a, later).app.now = later
<1> DEFINE b == HandleTick(a, later).app
           s == a.active.hifi
           u == b.active.hifi
<1>0. AppOK(a) /\ a.active.screen \in ScreenNames /\ a.focus \in Places
      /\ a.network \in AllNetworks
  BY DEF Known, AppOK, Actives, ScreenNames
<1>1. TickedTo(a, b, later)
  BY <1>0, TickApp
<1>2. HandleTick(a, later).redraw = TickRedraws(a, later)
  BY DEF HandleTick, Outcome
<1> HIDE DEF b
<1>3. /\ AppOK(b) /\ b.now = later /\ b.focus = a.focus /\ b.network = a.network
      /\ b.taps = a.taps /\ b.active.screen = a.active.screen
  BY <1>1 DEF TickedTo
<1>4. CASE a.active.screen = "Launcher"
  <2>1. a.active \in [screen : {"Launcher"}, ticked : Option(Nat)]
    BY <1>0, <1>4 DEF AppOK, Actives
  <2>2. b.active.ticked = IF Connecting(a) THEN Phase(later) ELSE None
    BY <1>1, <1>4, <2>1 DEF TickedTo, LauncherTick
  <2>3. Known(b)
    BY <1>0, <1>3, <2>2 DEF Known, LauncherTicked
  <2>4. Carries(a, b)
    BY <1>0, <1>3, <1>4, <2>3 DEF Carries, Grows
  <2>5. ASSUME ~TickRedraws(a, later) PROVE Quiet(a, b)
    <3>1. Connecting(a) => a.active.ticked = Phase(later)
      BY <1>4, <2>5 DEF TickRedraws, LauncherTicks
    <3>2. Phase(later) \in Nat /\ a.active.ticked \in {None, Phase(a.now)}
      BY <1>4, PanelAssumption DEF Phase, Known, LauncherTicked
    <3>3. Connecting(a) => Phase(later) = Phase(a.now)
      BY <3>1, <3>2, ScreenAssumption
    <3>4. NetShown(b) = NetShown(a)
      BY <1>3, <3>3 DEF NetShown, Connecting
    <3>5. FocusedOn(b) = FocusedOn(a)
      BY <1>3, <1>4 DEF FocusedOn, TargetsOf
    <3> QED
      BY <1>0, <1>3, <1>4, <3>4, <3>5, QuietWhenSame DEF SameShown
  <2> QED
    BY <1>2, <1>3, <2>4, <2>5 DEF Answers, b
<1>5. CASE a.active.screen = "Stopwatch"
  <2>1. b.active = StopwatchTick(a.active, later)
    BY <1>1, <1>5 DEF TickedTo
  <2>2. Known(b)
    BY <1>0, <1>3, <1>5 DEF Known, LauncherTicked
  <2>3. Carries(a, b)
    BY <1>0, <1>3, <1>5, <2>2 DEF Carries, Grows
  <2>4. ASSUME ~TickRedraws(a, later) PROVE Quiet(a, b)
    <3>1. b.active = a.active
      BY <1>5, <2>1, <2>4 DEF TickRedraws
    <3>2. FocusedOn(b) = FocusedOn(a)
      BY <1>3, <3>1 DEF FocusedOn, TargetsOf
    <3> QED
      BY <1>0, <1>3, <1>5, <3>1, <3>2, QuietWhenSame DEF SameShown
  <2> QED
    BY <1>2, <1>3, <2>3, <2>4 DEF Answers, b
<1>6. CASE a.active.screen = "HifiControl"
  <2>1. s \in ScreenStates /\ u = OnTick(s, later)
    BY <1>0, <1>1, <1>6 DEF AppOK, Actives, TickedTo
  <2>2. Known(b)
    BY <1>0, <1>3, <1>6 DEF Known, LauncherTicked
  <2>3. u.loading => s.loading
    BY <2>1, TickShows
  <2>4. Carries(a, b)
    BY <1>0, <1>3, <1>6, <2>2, <2>3 DEF Carries, Grows
  <2>5. ASSUME ~TickRedraws(a, later) PROVE Quiet(a, b)
    <3>1. /\ ~Lapsed(s.overlayUntil, later) /\ ~Lapsed(s.staleUntil, later)
          /\ ~s.loading /\ u.status = s.status
      BY <1>6, <2>1, <2>5 DEF TickRedraws
    <3>2. Alike(s, u)
      BY <2>1, <3>1, TickShows
    <3> QED
      BY <1>0, <1>3, <1>6, <3>2, AlikeQuiet
  <2> QED
    BY <1>2, <1>3, <2>4, <2>5 DEF Answers, b
<1> QED
  BY <1>0, <1>4, <1>5, <1>6 DEF ScreenNames
-----------------------------------------------------------------------------
(* The panels.                                                             *)

(* A target's cache speaks the truth about its panel, whether or not the   *)
(* panel is up to date, and a panel that is says what the app says. *)
TargetOK(t) ==
  /\ IsPanel(panel[t]) /\ IsSession(session[t])
  /\ Honest(panel[t], session[t]) /\ Young(app, session[t])
  /\ Settled(t) => Says(app, panel[t])

PanelInv ==
  /\ IInv /\ Known(app)
  /\ app.now <= world.time /\ app.taps <= world.taps
  /\ pending \subseteq Targets /\ failed \subseteq Targets
  /\ DOMAIN panel = Targets /\ DOMAIN session = Targets
  /\ \A t \in Targets : TargetOK(t)

LEMMA InitPanelInv == Init => PanelInv
<1> SUFFICES ASSUME Init PROVE PanelInv
  OBVIOUS
<1>1. IInv
  BY InitIInv
<1>2. /\ world \in Worlds
      /\ pending = Targets /\ failed = {} /\ session = [t \in Targets |-> NewSession]
      /\ panel = [t \in Targets |-> BlackPanel]
  BY DEF Init
<1>3. PICK name \in ScreenNames :
        app = [now |-> 0, network |-> "Offline", taps |-> 0,
               active |-> NewActive(name, 0), focus |-> NoFocus]
  BY <1>2, WorldType DEF Init
<1>4. Known(app)
  <2>1. name = "Launcher" => app.active.ticked = None
    BY <1>3 DEF NewActive
  <2>2. app.active.screen = name
    BY <1>3 DEF NewActive, ScreenNames
  <2>3. AppOK(app) /\ app.focus = 0
    BY <1>1, <1>3 DEF IInv, NoFocus
  <2> QED
    BY <2>1, <2>2, <2>3 DEF Known, LauncherTicked, Places
<1>5. app.now <= world.time /\ app.taps <= world.taps
  BY <1>2, <1>3, ShellAssumption DEF IsWorld
<1>6. IsSession(NewSession) /\ NewSession.lastScreen = None
  BY FreshCache DEF NewSession, LauncherCache, IsSession
<1>7. ASSUME NEW t \in Targets PROVE TargetOK(t)
  <2>1. panel[t] = BlackPanel /\ session[t] = NewSession /\ ~Settled(t)
    BY <1>2 DEF Settled
  <2>2. NewSession.lastScreen # "HifiControl"
    BY <1>6, NoneApart DEF ScreenNames
  <2> QED
    BY <1>6, <2>1, <2>2, BlackIsPanel DEF TargetOK, Honest, Young
<1> QED
  BY <1>1, <1>2, <1>4, <1>5, <1>7 DEF PanelInv

LEMMA YoungStays ==
  ASSUME NEW a, NEW b, Grows(a, b), NEW s, Young(a, s)
  PROVE  Young(b, s)
BY DEF Grows, Young, Unspoken

(* An event that is handled. *)
LEMMA UpdateKeepsPanels ==
  ASSUME PanelInv, IInv', NEW outcome, Update(outcome), Known(outcome.app),
         Grows(app, outcome.app), ~outcome.redraw => Quiet(app, outcome.app),
         outcome.app.now <= world.time, outcome.app.taps <= world.taps
  PROVE  PanelInv'
<1> DEFINE b == outcome.app
<1>1. /\ app' = b /\ pending' = IF outcome.redraw THEN Targets ELSE pending
      /\ session' = session /\ panel' = panel /\ failed' = failed /\ world' = world
  BY DEF Update
<1>2. Known(app')
  BY <1>1
<1>3. ASSUME NEW t \in Targets PROVE TargetOK(t)'
  <2>1. /\ IsPanel(panel[t]) /\ IsSession(session[t])
        /\ Honest(panel[t], session[t]) /\ Young(app, session[t])
        /\ Settled(t) => Says(app, panel[t])
    BY DEF PanelInv, TargetOK
  <2>2. Young(b, session[t])
    BY <2>1, YoungStays
  <2>3. Settled(t)' => Settled(t) /\ ~outcome.redraw
    BY <1>1 DEF Settled
  <2>4. Settled(t)' => Says(b, panel[t])
    BY <2>1, <2>3 DEF Says, Quiet
  <2> HIDE DEF b
  <2>5. Young(app, session[t])' /\ (Settled(t)' => Says(app, panel[t])')
    BY <1>1, <2>2, <2>4
  <2>6. (IsPanel(panel[t]) /\ IsSession(session[t]) /\ Honest(panel[t], session[t]))'
    BY <1>1, <2>1
  <2> QED
    BY <2>5, <2>6 DEF TargetOK
<1>4. pending' \subseteq Targets /\ failed' \subseteq Targets
  BY <1>1 DEF PanelInv
<1> QED
  BY <1>1, <1>2, <1>3, <1>4 DEF PanelInv

(* A frame, and one that fails. *)
LEMMA FrameKeepsPanels ==
  ASSUME PanelInv, IInv', NEW target \in Targets, Frame(target) \/ FrameFails(target)
  PROVE  PanelInv'
<1> DEFINE steps == RenderSteps(app, panel[target], session[target])
           whole == Final(steps)
           kept == AbandonFrame(steps[1].session, app.active.screen)
<1>1. /\ app' = app /\ world' = world /\ pending' = pending \ {target}
      /\ failed' = failed \ {target} \/ failed' = failed \cup {target}
  BY DEF Frame, FrameFails
<1>2. Known(app) /\ AppOK(app) /\ TargetOK(target)
  BY DEF PanelInv, Known
<1>3. /\ Shows(app, whole.panel, whole.session) /\ IsSession(steps[1].session)
      /\ \A i \in 1..(Len(steps) - 1) : IsPanel(steps[i].panel)
  BY <1>2, RenderShows DEF TargetOK
<1>4. IsSession(kept) /\ kept.lastScreen = None
  BY <1>3, AbandonedKnowsNothing
<1>5. PICK p, s :
        /\ Leaves(target, p, s) /\ IsPanel(p) /\ IsSession(s)
        /\ Honest(p, s) /\ Young(app, s)
        /\ target \notin failed' => Says(app, p)
  <2>1. CASE Frame(target)
    <3>1. Leaves(target, whole.panel, whole.session)
      BY <2>1 DEF Frame, Completes
    <3>2. Says(app, whole.panel)
      BY <1>3 DEF Shows, Says
    <3> HIDE DEF whole
    <3> QED
      BY <1>3, <3>1, <3>2 DEF Shows
  <2>2. CASE FrameFails(target)
    <3>1. PICK i \in 1..(Len(steps) - 1) : Leaves(target, steps[i].panel, kept)
      BY <2>2 DEF FrameFails, StopsAfter
    <3>2. target \in failed'
      BY <2>2 DEF FrameFails
    <3>3. IsPanel(steps[i].panel)
      BY <1>3, <3>1
    <3> HIDE DEF steps, kept
    <3>4. Honest(steps[i].panel, kept) /\ Young(app, kept)
      BY <1>4, NoneApart DEF Honest, Young, ScreenNames
    <3> QED
      BY <1>4, <3>1, <3>2, <3>3, <3>4
  <2> QED
    BY <2>1, <2>2
<1>6. DOMAIN panel = Targets /\ DOMAIN session = Targets
  BY DEF PanelInv
<1>7. /\ panel' = [panel EXCEPT ![target] = p] /\ session' = [session EXCEPT ![target] = s]
  BY <1>5 DEF Leaves
<1>8. ASSUME NEW t \in Targets PROVE TargetOK(t)'
  <2>1. CASE t = target
    <3>1. panel'[t] = p /\ session'[t] = s
      BY <1>6, <1>7, <2>1
    <3>2. Settled(t)' => target \notin failed'
      BY <2>1 DEF Settled
    <3>3. Settled(t)' => Says(app', panel'[t])
      BY <1>1, <1>5, <3>1, <3>2
    <3>4. /\ IsPanel(panel'[t]) /\ IsSession(session'[t])
          /\ Honest(panel'[t], session'[t]) /\ Young(app', session'[t])
      BY <1>1, <1>5, <3>1
    <3> QED
      BY <3>3, <3>4 DEF TargetOK
  <2>2. CASE t # target
    <3>1. panel'[t] = panel[t] /\ session'[t] = session[t]
      BY <1>6, <1>7, <2>2
    <3>2. Settled(t)' => Settled(t)
      BY <1>1, <2>2 DEF Settled
    <3>3. /\ IsPanel(panel[t]) /\ IsSession(session[t])
          /\ Honest(panel[t], session[t]) /\ Young(app, session[t])
          /\ Settled(t) => Says(app, panel[t])
      BY DEF PanelInv, TargetOK
    <3>4. Settled(t)' => Says(app', panel'[t])
      BY <1>1, <3>1, <3>2, <3>3
    <3>5. /\ IsPanel(panel'[t]) /\ IsSession(session'[t])
          /\ Honest(panel'[t], session'[t]) /\ Young(app', session'[t])
      BY <1>1, <3>1, <3>3
    <3> QED
      BY <3>4, <3>5 DEF TargetOK
  <2> QED
    BY <2>1, <2>2
<1>9. pending' \subseteq Targets /\ failed' \subseteq Targets
  BY <1>1 DEF PanelInv
<1>10. Known(app') /\ app'.now <= world'.time /\ app'.taps <= world'.taps
  BY <1>1, <1>2 DEF PanelInv
<1>11. DOMAIN panel' = Targets /\ DOMAIN session' = Targets
  BY <1>6, <1>7
<1> QED
  BY <1>8, <1>9, <1>10, <1>11 DEF PanelInv

(* What an input of the user may rely on. *)
LEMMA TappedKnown ==
  ASSUME PanelInv, app.taps < world.taps
  PROVE  LET a == Tapped(app)
         IN  /\ Known(a) /\ Grows(app, a) /\ Quiet(app, a)
             /\ a.active = app.active /\ a.now = app.now /\ a.taps <= world.taps
<1> DEFINE a == Tapped(app)
<1>1. Known(app) /\ AppOK(app) /\ world \in Worlds /\ app.taps \in Nat
  BY DEF PanelInv, Known, IInv, AppOK
<1>2. /\ AppOK(a) /\ a.active = app.active /\ a.now = app.now /\ a.focus = app.focus
      /\ a.taps = app.taps + 1 /\ Quiet(app, a)
  BY <1>1, TappedSame, TappedQuiet
<1> HIDE DEF a
<1>3. Known(a) /\ Grows(app, a)
  BY <1>1, <1>2 DEF Known, LauncherTicked, Grows
<1>4. a.taps <= world.taps
  BY <1>1, <1>2, WorldType
<1> QED
  BY <1>2, <1>3, <1>4 DEF a

(* An outcome whose handler was one of the above. *)
LEMMA AnswerKeepsPanels ==
  ASSUME PanelInv, IInv', NEW outcome, Update(outcome), Answers(app, outcome),
         outcome.app.now <= world.time
  PROVE  PanelInv'
<1>1. /\ Known(outcome.app) /\ Grows(app, outcome.app)
      /\ outcome.app.taps = app.taps /\ app.taps <= world.taps
      /\ ~outcome.redraw => Quiet(app, outcome.app)
  BY DEF Answers, Carries, PanelInv
<1> QED
  BY <1>1, UpdateKeepsPanels

LEMMA TapKeepsPanels ==
  ASSUME PanelInv, IInv', app.taps < world.taps, NEW outcome, Update(outcome),
         Answers(Tapped(app), outcome), outcome.app.now = app.now
  PROVE  PanelInv'
<1> DEFINE a == Tapped(app)
           b == outcome.app
<1>1. /\ Grows(app, a) /\ Quiet(app, a) /\ a.active = app.active /\ a.taps <= world.taps
  BY TappedKnown
<1>2. Known(b) /\ Grows(a, b) /\ b.taps = a.taps /\ (~outcome.redraw => Quiet(a, b))
  BY DEF Answers, Carries
<1> HIDE DEF a, b
<1>3. Grows(app, b) /\ (~outcome.redraw => Quiet(app, b))
  BY <1>1, <1>2, QuietTwice DEF Grows
<1>4. b.now <= world.time
  BY DEF PanelInv, b
<1> QED
  BY <1>1, <1>2, <1>3, <1>4, UpdateKeepsPanels DEF b

LEMMA StutterKeepsPanels ==
  ASSUME PanelInv, IInv', UNCHANGED vars PROVE PanelInv'
<1>1. /\ app' = app /\ session' = session /\ panel' = panel /\ pending' = pending
      /\ failed' = failed /\ world' = world
  BY DEF vars
<1>2. ASSUME NEW t \in Targets PROVE TargetOK(t)'
  <2>1. TargetOK(t)
    BY DEF PanelInv
  <2> QED
    BY <1>1, <2>1 DEF TargetOK, Settled
<1> QED
  BY <1>1, <1>2 DEF PanelInv

LEMMA NextPanelInv == PanelInv /\ [Next]_vars => PanelInv'
<1> SUFFICES ASSUME PanelInv, [Next]_vars PROVE PanelInv'
  OBVIOUS
<1>0. /\ IInv' /\ Known(app) /\ AppOK(app) /\ world \in Worlds
      /\ app.now <= world.time /\ app.now \in Nat
  BY NextIInv DEF PanelInv, IInv, AppOK
<1>1. CASE Tick
  <2>1. PICK jump \in 1..world.jump :
          app.now + jump <= world.time /\ Update(HandleTick(app, app.now + jump))
    BY <1>1 DEF Tick
  <2> DEFINE outcome == HandleTick(app, app.now + jump)
  <2>2. app.now + jump \in Nat /\ app.now <= app.now + jump
    BY <1>0, <2>1, WorldType
  <2>3. Answers(app, outcome) /\ outcome.app.now = app.now + jump
    BY <1>0, <2>2, TickAnswers
  <2> HIDE DEF outcome
  <2>4. Update(outcome) /\ outcome.app.now <= world.time
    BY <2>1, <2>3 DEF outcome
  <2> QED
    BY <1>0, <2>3, <2>4, AnswerKeepsPanels
<1>2. CASE \E point \in Points : TouchDown(point)
  <2>1. PICK point \in Points : TouchDown(point)
    BY <1>2
  <2> DEFINE a == Tapped(app)
             b == HandleTouch(a, point)
             outcome == Outcome(b, TRUE)
  <2>2. Update(outcome) /\ app.taps < world.taps
    BY <2>1 DEF TouchDown
  <2>3. Known(a) /\ AppOK(a) /\ a.now = app.now
    BY <2>2, TappedKnown DEF Known
  <2>4. Carries(a, b) /\ b.now = a.now
    BY <2>3, TouchCarries, HandleTouchFollows DEF Follows
  <2>5. outcome.app = b /\ outcome.redraw = TRUE
    BY DEF Outcome
  <2>6. Answers(a, outcome) /\ outcome.app.now = app.now
    BY <2>3, <2>4, <2>5 DEF Answers
  <2> HIDE DEF outcome
  <2> QED
    BY <1>0, <2>2, <2>6, TapKeepsPanels
<1>3. CASE \E button \in world.buttons : ButtonPressed(button)
  <2>1. PICK button \in AllButtons : ButtonPressed(button)
    BY <1>0, <1>3, WorldType
  <2> DEFINE a == Tapped(app)
             outcome == HandleButton(a, button)
  <2>2. Update(outcome) /\ app.taps < world.taps
    BY <2>1 DEF ButtonPressed
  <2>3. Known(a) /\ AppOK(a) /\ a.now = app.now
    BY <2>2, TappedKnown DEF Known
  <2>4. Answers(a, outcome) /\ outcome.app.now = a.now
    BY <2>3, ButtonAnswers, ButtonFollows DEF Follows
  <2> HIDE DEF outcome
  <2> QED
    BY <1>0, <2>2, <2>3, <2>4, TapKeepsPanels
<1>4. CASE \E network \in world.networks : NetworkStatus(network)
  <2>1. PICK network \in AllNetworks : NetworkStatus(network)
    BY <1>0, <1>4, WorldType
  <2> DEFINE outcome == HandleNetwork(app, network)
  <2>2. Update(outcome) /\ network # app.network
    BY <2>1 DEF NetworkStatus
  <2>3. Answers(app, outcome) /\ outcome.app.now = app.now
    BY <1>0, <2>2, NetworkAnswers, NetworkFollows DEF Follows
  <2> HIDE DEF outcome
  <2> QED
    BY <1>0, <2>2, <2>3, AnswerKeepsPanels
<1>5. CASE \E status \in world.reports : EventStatus(status)
  <2>1. PICK status \in Statuses : EventStatus(status)
    BY <1>0, <1>5, WorldType
  <2> DEFINE outcome == HandleStatus(app, status)
  <2>2. Update(outcome) /\ app.active.screen = "HifiControl"
    BY <2>1 DEF EventStatus, Hifi
  <2>3. Answers(app, outcome) /\ outcome.app.now = app.now
    BY <1>0, <2>2, ReportAnswers, ReportFollows DEF Follows
  <2> HIDE DEF outcome
  <2> QED
    BY <1>0, <2>2, <2>3, AnswerKeepsPanels
<1>6. CASE \E uri \in world.covers : EventArtwork(uri)
  <2>1. PICK uri \in Uris : EventArtwork(uri)
    BY <1>0, <1>6, WorldType
  <2> DEFINE outcome == HandleArtwork(app, uri)
  <2>2. Update(outcome) /\ app.active.screen = "HifiControl"
    BY <2>1 DEF EventArtwork, Hifi
  <2>3. Answers(app, outcome) /\ outcome.app.now = app.now
    BY <1>0, <2>2, ReportAnswers, ReportFollows DEF Follows
  <2> HIDE DEF outcome
  <2> QED
    BY <1>0, <2>2, <2>3, AnswerKeepsPanels
<1>7. CASE \E pins \in world.pinLists : EventPins(pins)
  <2>1. PICK pins \in [Slots -> Option(Pins)] : EventPins(pins)
    BY <1>0, <1>7, WorldType
  <2> DEFINE outcome == HandlePins(app, pins)
  <2>2. Update(outcome) /\ app.active.screen = "HifiControl"
    BY <2>1 DEF EventPins, Hifi
  <2>3. Answers(app, outcome) /\ outcome.app.now = app.now
    BY <1>0, <2>2, ReportAnswers, ReportFollows DEF Follows
  <2> HIDE DEF outcome
  <2> QED
    BY <1>0, <2>2, <2>3, AnswerKeepsPanels
<1>8. CASE \E cover \in world.pinCovers : EventPinArtwork(cover[1], cover[2])
  <2>1. PICK slot \in Slots, uri \in Uris : EventPinArtwork(slot, uri)
    BY <1>0, <1>8, WorldType
  <2> DEFINE outcome == HandlePinArtwork(app, slot, uri)
  <2>2. Update(outcome) /\ app.active.screen = "HifiControl"
    BY <2>1 DEF EventPinArtwork, Hifi
  <2>3. Answers(app, outcome) /\ outcome.app.now = app.now
    BY <1>0, <2>2, ReportAnswers, ReportFollows DEF Follows
  <2> HIDE DEF outcome
  <2> QED
    BY <1>0, <2>2, <2>3, AnswerKeepsPanels
<1>9. CASE \E target \in Targets : Frame(target) \/ FrameFails(target)
  BY <1>0, <1>9, FrameKeepsPanels
<1>10. CASE UNCHANGED vars
  BY <1>0, <1>10, StutterKeepsPanels
<1> QED
  BY <1>1, <1>2, <1>3, <1>4, <1>5, <1>6, <1>7, <1>8, <1>9, <1>10 DEF Next

LEMMA PanelInvHolds == Spec => []PanelInv
BY InitPanelInv, NextPanelInv, PTL DEF Spec

(* The shape of the state: the clock and the count of touches stay within  *)
(* the world's bounds, the ring is on a control some page has, and every   *)
(* panel shows a whole picture, also after frames that failed part-way.    *)
THEOREM ShellIsTyped == Spec => []TypeOK
<1>1. PanelInv => TypeOK
  <2> SUFFICES ASSUME PanelInv PROVE TypeOK
    OBVIOUS
  <2>1. /\ Known(app) /\ AppOK(app) /\ world \in Worlds
        /\ app.now \in Nat /\ app.taps \in Nat /\ app.network \in AllNetworks
        /\ app.active.screen \in ScreenNames
        /\ app.active.screen = "HifiControl" => app.active.hifi \in ScreenStates
    BY DEF PanelInv, Known, IInv, AppOK, Actives, ScreenNames
  <2>2. app.now \in 0..world.time /\ app.taps \in 0..world.taps
    BY <2>1, WorldType DEF PanelInv
  <2>3. Len(LauncherTargets) = 2
    BY DEF LauncherTargets, VerticalPair
  <2>4. ASSUME NEW t \in Targets PROVE DOMAIN panel[t].picture = Picture
    <3>1. IsPanel(panel[t])
      BY DEF PanelInv, TargetOK
    <3> QED
      BY <3>1 DEF IsPanel, IsPicture
  <2> QED
    BY <2>1, <2>2, <2>3, <2>4 DEF TypeOK, PanelInv, Known, Places, Hifi
<1> QED
  BY <1>1, PanelInvHolds, PTL

(* A panel for which no frame is asked shows what the app says, whatever   *)
(* was drawn, skipped or failed before: what a handler changes without     *)
(* asking does not show, and what a frame skips is on the panel already.   *)
THEOREM PanelsAreTrue == Spec => []PanelIsTrue
<1>1. PanelInv => PanelIsTrue
  BY DEF PanelInv, TargetOK, Says, PanelIsTrue
<1> QED
  BY <1>1, PanelInvHolds, PTL

(* A cover that shows with neither readout nor badge is whole: both are    *)
(* taken off it again. *)
THEOREM CoversAreWhole == Spec => []CoverIsWhole
<1>1. PanelInv => CoverIsWhole
  BY DEF PanelInv, TargetOK, Says, CoverIsWhole, Bare, Hifi
<1> QED
  BY <1>1, PanelInvHolds, PTL

LEMMA ReachesAll ==
  ASSUME NEW targets, NEW n \in 0..4, IsLayout(targets, n), Walks(targets, n)
  PROVE  ReachOf(targets) = [i \in 1..n |-> 1..n]
BY WalkReaches DEF ReachOf, IsLayout

(* From wherever the ring is, Left and Right alone bring it to every       *)
(* control of the page, however many pins there are. *)
THEOREM LeftRightSuffice == Spec => []LeftRightReachAll
<1>1. PanelInv => LeftRightReachAll
  <2> SUFFICES ASSUME PanelInv, FocusedOn(app) # NoFocus
               PROVE  ReachedOn(app)[FocusedOn(app)] = DOMAIN TargetsOf(app)
    BY DEF LeftRightReachAll
  <2>1. AppOK(app) /\ app.active.screen \in ScreenNames
    BY DEF PanelInv, IInv, AppOK, Actives, ScreenNames
  <2>2. app.focus \in DOMAIN TargetsOf(app) /\ FocusedOn(app) = app.focus
    BY DEF FocusedOn
  <2>3. TargetsOf(app) # <<>>
    BY <2>2
  <2>4. PICK n \in 0..4 : IsLayout(TargetsOf(app), n) /\ Walks(TargetsOf(app), n)
    BY <2>1, <2>3, PageLayout
  <2>5. ReachedOn(app) = ReachOf(TargetsOf(app))
    BY <2>1, <2>3 DEF ReachedOn, TargetsOf, LauncherReach, StopwatchReach, TilesReach,
                      ScreenNames
  <2>6. ReachOf(TargetsOf(app)) = [i \in 1..n |-> 1..n]
    BY <2>4, ReachesAll
  <2>7. DOMAIN TargetsOf(app) = 1..n
    BY <2>4 DEF IsLayout
  <2> QED
    BY <2>2, <2>5, <2>6, <2>7
<1> QED
  BY <1>1, PanelInvHolds, PTL
=============================================================================
