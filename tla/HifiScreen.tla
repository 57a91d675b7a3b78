----------------------------- MODULE HifiScreen -----------------------------
(***************************************************************************)
(* State of crates/app-core/src/ui/screens/hifi.rs and the Optimistic      *)
(* values of crates/app-core/src/ui/optimistic.rs: the now-playing screen, *)
(* what it believes of the device's reports and what it defends against    *)
(* them.  The struct is a record and every handler a function of it;       *)
(* HifiScreenMachine and CoverFlow turn them into actions.                 *)
(*                                                                         *)
(* A track's words are its title (artist and album go with it), a cover is *)
(* the uri it was loaded from, and covers are complete.  What only the     *)
(* renderer reads (marquee, pins_dirty, current_ms) is left out.           *)
(***************************************************************************)
EXTENDS HifiStatus

CONSTANTS
  Waiting,  \* the title of HifiStatus::waiting
  VolumeStep, RestartThreshold, ProgressTolerance,
  TicksPerSecond, OptimisticTtl, StaleGrace, LoadingTimeout, VolumeOverlay

(* A value Optimistic holds on to, and the words a pin stands in for. *)
Held(S) == [value : S, expires : Nat]
Intros == [expires : Nat, previous : Titles]

ASSUME ScreenAssumption ==
  /\ Waiting \in Titles \ {NoTitle}
  /\ {VolumeStep, RestartThreshold, ProgressTolerance, StaleGrace,
      LoadingTimeout, VolumeOverlay} \subseteq Nat
  /\ {TicksPerSecond, OptimisticTtl} \subseteq Nat \ {0}
  /\ None \notin Nat \cup Held(0..VolumeMax) \cup Intros

ScreenStates ==
  [page : {"NowPlaying", "Choices"}, status : Statuses,
   artwork : Option(Uris \cup {NoUri}), loading : BOOLEAN, created : Nat,
   lastSecond : Nat, playbackHeld : Option(Held(Playbacks)),
   volumeHeld : Option(Held(0..VolumeMax)), staleUntil : Option(Nat),
   progressUntil : Option(Nat), overlayUntil : Option(Nat),
   intro : Option(Intros), pins : [Slots -> Option(Pins)],
   pinArt : [Slots -> Option(Uris)]]

(* State::new *)
NewScreen(now) ==
  [page |-> "NowPlaying",
   status |-> [title |-> Waiting, art |-> NoUri, playback |-> "Stopped",
               elapsed |-> 0, duration |-> 0, volume |-> 0],
   artwork |-> None, loading |-> TRUE, created |-> now,
   lastSecond |-> now \div TicksPerSecond,
   playbackHeld |-> None, volumeHeld |-> None, staleUntil |-> None,
   progressUntil |-> None, overlayUntil |-> None, intro |-> None,
   pins |-> NoPins, pinArt |-> NoPins]

Second(now) == now \div TicksPerSecond

(* A deadline that has come. *)
Lapsed(until, now) == until # None /\ now >= until

CanPause(playback) == playback \in {"Playing", "Buffering"}
-----------------------------------------------------------------------------
(* Optimistic: hold, and the two halves of reconcile.                      *)

Hold(value, now) == [value |-> value, expires |-> now + OptimisticTtl]

(* Does a held value outrank what the device just said? *)
StillHeld(held, incoming, now) ==
  held # None /\ incoming # held.value /\ now < held.expires
-----------------------------------------------------------------------------
(* Reports from the runtime.                                               *)

(* accept_progress: a position far ahead of ours describes where we were. *)
ProgressBelieved(screen, incoming, now) ==
  \/ screen.progressUntil = None
  \/ Lapsed(screen.progressUntil, now)
  \/ incoming <= screen.status.elapsed + ProgressTolerance

\* Mutated: the device's silence about the pin ends the intro.
PinIntroHoldsUnnamed(screen, incoming, now) ==
  /\ screen.intro # None
  /\ now < screen.intro.expires
  /\ incoming.title = screen.status.title

(* pin_intro_holds: does a report still describe what the pin replaced? *)
PinIntroHolds(screen, incoming, now) ==
  /\ screen.intro # None
  /\ now < screen.intro.expires
  /\ incoming.title = screen.intro.previous

(* The deadline of a cover that is not the one the status names. *)
ArmStale(screen, status, now) ==
  IF screen.artwork \notin {None, status.art}
  THEN now + StaleGrace ELSE screen.staleUntil

ApplyStatus(screen, incoming, now) ==
  LET intro    == PinIntroHolds(screen, incoming, now)
      progress == ProgressBelieved(screen, incoming.elapsed, now)
      playback == StillHeld(screen.playbackHeld, incoming.playback, now)
      volume   == StillHeld(screen.volumeHeld, incoming.volume, now)
      words    == IF intro THEN screen.status ELSE incoming
      status   ==
        [title |-> words.title, art |-> words.art, duration |-> words.duration,
         elapsed  |-> IF progress THEN incoming.elapsed ELSE screen.status.elapsed,
         playback |-> IF playback THEN screen.playbackHeld.value
                                  ELSE incoming.playback,
         volume   |-> IF volume THEN screen.volumeHeld.value ELSE incoming.volume]
      settled  ==
        [screen EXCEPT
           !.intro         = IF intro THEN @ ELSE None,
           !.progressUntil = IF progress THEN None ELSE @,
           !.playbackHeld  = IF playback THEN @ ELSE None,
           !.volumeHeld    = IF volume THEN @ ELSE None,
           !.staleUntil    = ArmStale(screen, status, now)]
  IN  IF status = screen.status /\ (~screen.loading \/ ~HasLiveContent(status))
      THEN settled
      ELSE [settled EXCEPT !.status     = status,
                           !.loading    = @ /\ ~HasLiveContent(status),
                           !.lastSecond = Second(now)]

\* Mutated: a cover is accepted without asking whose it is.
ApplyArtworkBlindly(screen, uri) ==
  [screen EXCEPT !.artwork = uri, !.staleUntil = None]

(* A cover is taken if it is the one the status names. *)
ApplyArtwork(screen, uri) ==
  IF uri # screen.status.art THEN screen
  ELSE [screen EXCEPT !.artwork = uri, !.staleUntil = None]

(* A tile keeps its cover while its pin keeps its id. *)
ApplyPins(screen, pins) ==
  LET Same(slot) == /\ screen.pins[slot] # None /\ pins[slot] # None
                    /\ screen.pins[slot].id = pins[slot].id
  IN  [screen EXCEPT !.pins = pins,
                     !.pinArt = [slot \in Slots |->
                                   IF Same(slot) THEN @[slot] ELSE None]]

ApplyPinArtwork(screen, slot, uri) ==
  IF screen.pins[slot] = None THEN screen
  ELSE IF screen.pins[slot].art # uri THEN screen
  ELSE [screen EXCEPT !.pinArt[slot] = uri]
-----------------------------------------------------------------------------
(* The clock.                                                              *)

(* tick_playback: the position runs by itself, to the end of the track. *)
TickPlayback(screen, now) ==
  LET passed  == Second(now) - screen.lastSecond
      reached == screen.status.elapsed + passed
      end     == screen.status.duration
  IN  IF screen.loading
      THEN [screen EXCEPT !.loading = now - screen.created < LoadingTimeout]
      ELSE IF screen.status.playback # "Playing" \/ end = 0 \/ passed <= 0
      THEN screen
      ELSE [screen EXCEPT
              !.lastSecond = Second(now),
              !.status.elapsed  = IF reached < end THEN reached ELSE end,
              !.status.playback = IF reached < end THEN @ ELSE "Stopped"]

(* A deadline that has come is cleared. *)
Cleared(until, now) == IF Lapsed(until, now) THEN None ELSE until

(* The cover left once its deadline has come: a stale one is dropped. *)
DroppedCover(screen, now) ==
  IF Lapsed(screen.staleUntil, now) /\ screen.artwork # screen.status.art
  THEN None ELSE screen.artwork

OnTick(screen, now) ==
  TickPlayback(
    [screen EXCEPT
       !.overlayUntil  = Cleared(@, now),
       !.artwork       = DroppedCover(screen, now),
       !.staleUntil    = Cleared(@, now),
       !.progressUntil = Cleared(@, now),
       !.intro = IF @ # None /\ now >= screen.intro.expires THEN None ELSE @],
    now)
-----------------------------------------------------------------------------
(* Presses.                                                                *)

BeginTrackChange(screen, now) ==
  [screen EXCEPT !.status.elapsed = 0,
                 !.progressUntil = now + OptimisticTtl,
                 !.staleUntil = IF screen.artwork # None THEN now + StaleGrace ELSE @]

Restart(screen, now) ==
  [screen EXCEPT !.status.elapsed = 0,
                 !.lastSecond = Second(now),
                 !.progressUntil = now + OptimisticTtl]

Restarts(screen) == screen.status.elapsed >= RestartThreshold

PreviousOrRestart(screen, now) ==
  IF Restarts(screen) THEN Restart(screen, now) ELSE BeginTrackChange(screen, now)

NextTrack(screen, now) == BeginTrackChange(screen, now)

\* Mutated: a press towards playing counts the pause as played.
TogglePlaybackCountingPause(screen, now) ==
  LET toggled == IF CanPause(screen.status.playback) THEN "Paused" ELSE "Playing"
  IN  [TickPlayback(screen, now) EXCEPT !.status.playback = toggled,
                                        !.playbackHeld = Hold(toggled, now)]

(* A press towards playing starts our clock afresh; one towards pausing    *)
(* brings it up to date first.                                             *)
TogglePlayback(screen, now) ==
  LET pausing == CanPause(screen.status.playback)
      toggled == IF pausing THEN "Paused" ELSE "Playing"
      timed   == IF pausing THEN TickPlayback(screen, now)
                 ELSE [screen EXCEPT !.lastSecond = Second(now)]
  IN  [timed EXCEPT !.status.playback = toggled,
                    !.playbackHeld = Hold(toggled, now)]

\* Mutated: the dial turns past its end.
NextVolumeUnclamped(screen, delta) == screen.status.volume + delta

(* The level a turn of the dial asks for. *)
NextVolume(screen, delta) ==
  LET wanted == screen.status.volume + delta
  IN  IF wanted < 0 THEN 0 ELSE IF wanted > VolumeMax THEN VolumeMax ELSE wanted

\* Mutated: only the first turn of several is held.
TurnVolumeHeldOnce(screen, delta, now) ==
  LET next   == NextVolume(screen, delta)
      raised == [screen EXCEPT !.overlayUntil = now + VolumeOverlay]
  IN  IF next = screen.status.volume THEN raised
      ELSE [raised EXCEPT !.status.volume = next,
                          !.volumeHeld = IF @ = None THEN Hold(next, now) ELSE @]

(* VolumeDelta: at the rail the press only raises the readout. *)
TurnVolume(screen, delta, now) ==
  LET next   == NextVolume(screen, delta)
      raised == [screen EXCEPT !.overlayUntil = now + VolumeOverlay]
  IN  IF next = screen.status.volume THEN raised
      ELSE [raised EXCEPT !.status.volume = next, !.volumeHeld = Hold(next, now)]

(* InvokePinSlot and show_pin_while_it_starts: the pin's words and cover   *)
(* stand in for the track it will start.                                   *)
InvokePin(screen, slot, now) ==
  LET pin == screen.pins[slot]
  IN  [screen EXCEPT
         !.page = "NowPlaying",
         !.status = [@ EXCEPT !.title = pin.title, !.art = pin.art,
                              !.elapsed = 0, !.duration = 0,
                              !.playback = "Playing"],
         !.artwork = IF screen.pinArt[slot] = pin.art THEN pin.art ELSE None,
         !.staleUntil = None,
         !.playbackHeld = Hold("Playing", now),
         !.intro = [expires |-> now + OptimisticTtl,
                    previous |-> screen.status.title],
         !.progressUntil = now + OptimisticTtl]

(* Back turns the page, either way. *)
TurnPage(screen) ==
  [screen EXCEPT !.page = IF @ = "NowPlaying" THEN "Choices" ELSE "NowPlaying"]
=============================================================================
