-------------------------- MODULE HifiScreenMachine --------------------------
(***************************************************************************)
(* The now-playing screen under every sequence of presses, reports and     *)
(* ticks the app may hand it (App::update of crates/app-core/src/lib.rs    *)
(* with the HiFi screen active, which it never leaves).  Its volume        *)
(* implements Hold.                                                        *)
(***************************************************************************)
EXTENDS HifiScreen

CONSTANT
  Worlds  \* what the runtime may report and the user may do

Controls == {"Left", "Right", "Select", "Up", "Down", "Back", "Tile"}

(* A world is one choice of that, kept throughout a behaviour; it bounds    *)
(* how far apart two ticks may be, the clock and the pins invoked.         *)
IsWorld(w) ==
  /\ DOMAIN w = {"reports", "pinLists", "presses", "jumps", "time", "pins"}
  /\ w.reports \subseteq Statuses
  /\ w.pinLists \subseteq [Slots -> Option(Pins)]
  /\ w.presses \subseteq Controls
  /\ w.jumps \subseteq Nat \ {0}
  /\ w.time \in Nat /\ w.pins \in Nat

ASSUME MachineAssumption == \A w \in Worlds : IsWorld(w)

VARIABLES
  world,
  screen,
  now,        \* App.uptime_ms
  (* what has happened, for the properties *)
  pinned,     \* the pins invoked lately: when last, their words, those first replaced
  pinsDone    \* pins invoked so far

vars == <<world, screen, now, pinned, pinsDone>>

OrphanCover(s) == s.artwork \notin {None, s.status.art}

Init ==
  /\ world \in Worlds
  /\ screen = NewScreen(0)
  /\ now = 0
  /\ pinned = None /\ pinsDone = 0

Tick ==
  /\ \E jump \in world.jumps : now' = now + jump
  /\ now' <= world.time
  /\ screen' = OnTick(screen, now')
  /\ pinned' = IF pinned # None /\ now' >= pinned.since + OptimisticTtl
               THEN None ELSE pinned
  /\ UNCHANGED <<world, pinsDone>>

EventStatus(status) ==
  /\ screen' = ApplyStatus(screen, status, now)
  /\ pinned' = IF pinned # None /\ status.title # pinned.left
               THEN None ELSE pinned
  /\ UNCHANGED <<world, now, pinsDone>>

EventArtwork(uri) ==
  /\ screen' = ApplyArtwork(screen, uri)
  /\ UNCHANGED <<world, now, pinned, pinsDone>>

EventPins(pins) ==
  /\ screen' = ApplyPins(screen, pins)
  /\ UNCHANGED <<world, now, pinned, pinsDone>>

EventPinArtwork(slot, uri) ==
  /\ screen' = ApplyPinArtwork(screen, slot, uri)
  /\ UNCHANGED <<world, now, pinned, pinsDone>>

(* intercept_button: on Now Playing every button acts, on Choices only Back *)
(* does, the rest moving the focus ring.                                   *)
Press(control, effect) ==
  /\ control \in world.presses
  /\ screen.page = "NowPlaying"
  /\ screen' = effect
  /\ UNCHANGED <<world, now, pinned, pinsDone>>

PressLeft == Press("Left", PreviousOrRestart(screen, now))
PressRight == Press("Right", NextTrack(screen, now))
PressSelect == Press("Select", TogglePlayback(screen, now))
PressUp == Press("Up", TurnVolume(screen, VolumeStep, now))
PressDown == Press("Down", TurnVolume(screen, -VolumeStep, now))

PressBack ==
  /\ "Back" \in world.presses
  /\ screen' = TurnPage(screen)
  /\ UNCHANGED <<world, now, pinned, pinsDone>>

(* A tile is tapped, or selected with the ring on it; one without a pin    *)
(* does nothing.                                                           *)
TapTile(slot) ==
  /\ "Tile" \in world.presses
  /\ screen.page = "Choices"
  /\ screen.pins[slot] # None
  /\ pinsDone < world.pins
  /\ pinsDone' = pinsDone + 1
  /\ screen' = InvokePin(screen, slot, now)
  /\ pinned' = [since |-> now, words |-> screen.pins[slot].title,
                left  |-> IF pinned = None THEN screen.status.title
                          ELSE pinned.left]
  /\ UNCHANGED <<world, now>>

Next ==
  \/ Tick
  \/ \E status \in world.reports : EventStatus(status)
  \/ \E uri \in Uris : EventArtwork(uri)
  \/ \E pins \in world.pinLists : EventPins(pins)
  \/ \E slot \in Slots, uri \in Uris : EventPinArtwork(slot, uri)
  \/ PressLeft \/ PressRight \/ PressSelect \/ PressUp \/ PressDown \/ PressBack
  \/ \E slot \in Slots : TapTile(slot)

Spec == Init /\ [][Next]_vars
-----------------------------------------------------------------------------

(* The shape of the state. *)
TypeOK ==
  /\ screen \in ScreenStates
  /\ world \in Worlds
  /\ now \in 0..world.time
  /\ pinned \in Option([since : Nat, words : Titles, left : Titles])
  /\ pinsDone \in 0..world.pins

(* A cover that is not the one the status names has a deadline running, so *)
(* that it cannot stay for good: whichever of the six handlers that touch  *)
(* the cover, its deadline or the status came last, skips and pins among   *)
(* them (apply_status, on_tick, begin_track_change).                       *)
NoOrphanCover == OrphanCover(screen) => screen.staleUntil # None

(* While positions are distrusted, the one shown is our own count since the *)
(* press: no more seconds than have gone by, across pauses, ticks that come *)
(* late and reports of the place left (guard_progress, tick_playback).     *)
GuardedPositionIsOurs ==
  screen.progressUntil # None
    => LET pressed == screen.progressUntil - OptimisticTtl
       IN  screen.status.elapsed <= Second(now) - Second(pressed)

(* A pin stands in for the track it starts: for as long as the device      *)
(* describes nothing but the track that was playing, the pin's words stay  *)
(* on screen (show_pin_while_it_starts, pin_intro_holds).  Said of the     *)
(* first pin: another one tapped while it starts would defend the screen   *)
(* against the first pin's words, not against that track's.                *)
PinStandsIn ==
  pinned # None /\ pinsDone = 1 => screen.status.title = pinned.words

(* The volume is a value optimistically held in the sense of Hold. *)
Volume == INSTANCE Hold WITH
  Value <- 0..VolumeMax, Nothing <- None, Lifetime <- OptimisticTtl,
  shown <- screen.status.volume,
  guess <- IF screen.volumeHeld = None THEN None
           ELSE [value |-> screen.volumeHeld.value,
                 until |-> screen.volumeHeld.expires],
  clock <- now

(* Whatever happens on the screen is, to the volume, a turn of the dial, a *)
(* report that is followed, the passage of time or nothing.                *)
VolumeIsHeld == Volume!Spec
=============================================================================
