---------------------- MODULE HifiScreenMachine_proofs ----------------------
(***************************************************************************)
(* For every sequence of presses, reports and ticks, and for every value   *)
(* of the screen's deadlines: its cover, its position and its volume; and  *)
(* for words and bands of any width, how they scroll.                      *)
(***************************************************************************)
EXTENDS HifiScreenMachine, Methods_proofs, Drawing

(* The screen is sound at every moment. *)
IInv == TypeOK /\ Sound(screen, now)

LEMMA WorldType ==
  ASSUME world \in Worlds
  PROVE  /\ world.reports \subseteq Statuses
         /\ world.pinLists \subseteq [Slots -> Option(Pins)]
         /\ world.jumps \subseteq Nat \ {0}
         /\ world.time \in Nat /\ world.pins \in Nat
BY MachineAssumption DEF IsWorld

LEMMA InitIInv == Init => IInv
<1> SUFFICES ASSUME Init PROVE IInv
  OBVIOUS
<1>1. Sound(screen, now)
  BY NewScreenSound DEF Init
<1>2. TypeOK
  BY <1>1, WorldType DEF Init, TypeOK, Sound, Option
<1> QED
  BY <1>1, <1>2 DEF IInv

(* What a step of each action does to the screen and its volume. *)
LEMMA TickStep ==
  ASSUME IInv, Tick
  PROVE  IInv' /\ KeepsVolume(screen, screen') /\ now <= now' /\ now' \in Nat
<1>1. /\ now \in Nat /\ now' \in Nat /\ now <= now' /\ now' \in 0..world.time
      /\ world' = world /\ pinsDone' = pinsDone
  <2>1. PICK jump \in world.jumps : now' = now + jump
    BY DEF Tick
  <2> QED
    BY <2>1, WorldType DEF IInv, TypeOK, Tick
<1>2. Sound(screen', now') /\ KeepsVolume(screen, screen')
  BY <1>1, OnTickSound DEF IInv, Tick
<1>3. pinned' \in Option([since : Nat, words : Titles, left : Titles])
  BY DEF IInv, TypeOK, Tick, Option
<1> QED
  BY <1>1, <1>2, <1>3 DEF IInv, TypeOK, Sound

LEMMA ScreenStep ==
  ASSUME IInv, Sound(screen', now), UNCHANGED <<world, now>>,
         pinned' \in Option([since : Nat, words : Titles, left : Titles]),
         pinsDone' \in 0..world.pins
  PROVE  IInv'
BY DEF IInv, TypeOK, Sound

LEMMA EventStatusStep ==
  ASSUME IInv, NEW status \in world.reports, EventStatus(status)
  PROVE  /\ IInv' /\ now' = now
         /\ \/ KeepsVolume(screen, screen')
            \/ /\ ~StillHeld(screen.volumeHeld, status.volume, now)
               /\ screen'.status.volume = status.volume /\ screen'.volumeHeld = None
<1>1. now \in Nat /\ status \in Statuses
  BY WorldType DEF IInv, TypeOK
<1>2. /\ Sound(screen', now)
      /\ \/ KeepsVolume(screen, screen')
         \/ /\ ~StillHeld(screen.volumeHeld, status.volume, now)
            /\ screen'.status.volume = status.volume /\ screen'.volumeHeld = None
  BY <1>1, ApplyStatusProperty DEF IInv, EventStatus
<1>3. pinned' \in Option([since : Nat, words : Titles, left : Titles])
  BY DEF IInv, TypeOK, EventStatus, Option
<1> QED
  BY <1>2, <1>3, ScreenStep DEF EventStatus, IInv, TypeOK

LEMMA VolumeStepOf ==
  ASSUME IInv, NEW delta \in Int,
         screen' = TurnVolume(screen, delta, now), UNCHANGED <<world, now, pinned, pinsDone>>
  PROVE  /\ IInv'
         /\ \/ KeepsVolume(screen, screen')
            \/ \E next \in 0..VolumeMax :
                 screen'.status.volume = next /\ screen'.volumeHeld = Hold(next, now)
<1>1. now \in Nat
  BY WorldType DEF IInv, TypeOK
<1>2. /\ Sound(screen', now) /\ NextVolume(screen, delta) \in 0..VolumeMax
      /\ \/ KeepsVolume(screen, screen')
         \/ /\ screen'.status.volume = NextVolume(screen, delta)
            /\ screen'.volumeHeld = Hold(NextVolume(screen, delta), now)
  BY <1>1, TurnVolumeProperty DEF IInv
<1> QED
  BY <1>2, ScreenStep DEF IInv, TypeOK

(* The handlers that leave the volume alone. *)
QuietStep ==
  \/ \E uri \in Uris : EventArtwork(uri)
  \/ \E pins \in world.pinLists : EventPins(pins)
  \/ \E slot \in Slots, uri \in Uris : EventPinArtwork(slot, uri)
  \/ PressLeft \/ PressRight \/ PressSelect \/ PressBack
  \/ \E slot \in Slots : TapTile(slot)

LEMMA QuietStepSound ==
  ASSUME IInv, QuietStep
  PROVE  IInv' /\ KeepsVolume(screen, screen') /\ now' = now
<1>0. now \in Nat /\ Sound(screen, now)
  BY WorldType DEF IInv, TypeOK
<1>1. CASE \E uri \in Uris : EventArtwork(uri)
  <2>1. PICK uri \in Uris : EventArtwork(uri)
    BY <1>1
  <2>2. Sound(screen', now) /\ KeepsVolume(screen, screen')
    BY <1>0, <2>1, ApplyArtworkSound DEF EventArtwork
  <2> QED
    BY <2>1, <2>2, ScreenStep DEF EventArtwork, IInv, TypeOK
<1>2. CASE \E pins \in world.pinLists : EventPins(pins)
  <2>1. PICK pins \in world.pinLists : EventPins(pins)
    BY <1>2
  <2>2. pins \in [Slots -> Option(Pins)]
    BY WorldType DEF IInv, TypeOK
  <2>3. Sound(screen', now) /\ KeepsVolume(screen, screen')
    BY <1>0, <2>1, <2>2, ApplyPinsSound DEF EventPins
  <2> QED
    BY <2>1, <2>3, ScreenStep DEF EventPins, IInv, TypeOK
<1>3. CASE \E slot \in Slots, uri \in Uris : EventPinArtwork(slot, uri)
  <2>1. PICK slot \in Slots, uri \in Uris : EventPinArtwork(slot, uri)
    BY <1>3
  <2>2. Sound(screen', now) /\ KeepsVolume(screen, screen')
    BY <1>0, <2>1, ApplyPinArtworkSound DEF EventPinArtwork
  <2> QED
    BY <2>1, <2>2, ScreenStep DEF EventPinArtwork, IInv, TypeOK
<1>4. CASE PressLeft
  <2>1. Sound(screen', now) /\ KeepsVolume(screen, screen')
    BY <1>0, <1>4, RestartSound, BeginTrackChangeSound
    DEF PressLeft, Press, PreviousOrRestart
  <2> QED
    BY <1>4, <2>1, ScreenStep DEF PressLeft, Press, IInv, TypeOK
<1>5. CASE PressRight
  <2>1. Sound(screen', now) /\ KeepsVolume(screen, screen')
    BY <1>0, <1>5, BeginTrackChangeSound DEF PressRight, Press, NextTrack
  <2> QED
    BY <1>5, <2>1, ScreenStep DEF PressRight, Press, IInv, TypeOK
<1>6. CASE PressSelect
  <2>1. Sound(screen', now) /\ KeepsVolume(screen, screen')
    BY <1>0, <1>6, TogglePlaybackSound DEF PressSelect, Press
  <2> QED
    BY <1>6, <2>1, ScreenStep DEF PressSelect, Press, IInv, TypeOK
<1>7. CASE PressBack
  <2>1. Sound(screen', now) /\ KeepsVolume(screen, screen')
    BY <1>0, <1>7, TurnPageSound DEF PressBack
  <2> QED
    BY <1>7, <2>1, ScreenStep DEF PressBack, IInv, TypeOK
<1>8. CASE \E slot \in Slots : TapTile(slot)
  <2>1. PICK slot \in Slots : TapTile(slot)
    BY <1>8
  <2>2. Sound(screen', now) /\ KeepsVolume(screen, screen')
    BY <1>0, <2>1, InvokePinSound DEF TapTile
  <2>3. screen.status.title \in Titles /\ screen.pins[slot].title \in Titles
    BY <2>1 DEF TapTile, IInv, TypeOK, ScreenStates, Statuses, Pins, Option
  <2>4. pinned' \in Option([since : Nat, words : Titles, left : Titles])
    BY <1>0, <2>1, <2>3 DEF TapTile, IInv, TypeOK, Option
  <2>5. pinsDone' \in 0..world.pins
    BY <2>1, WorldType DEF TapTile, IInv, TypeOK
  <2> QED
    BY <2>1, <2>2, <2>4, <2>5, ScreenStep DEF TapTile
<1> QED
  BY <1>1, <1>2, <1>3, <1>4, <1>5, <1>6, <1>7, <1>8 DEF QuietStep

LEMMA NextIInv == IInv /\ [Next]_vars => IInv'
<1> SUFFICES ASSUME IInv, [Next]_vars PROVE IInv'
  OBVIOUS
<1>1. CASE Tick
  BY <1>1, TickStep
<1>2. CASE \E status \in world.reports : EventStatus(status)
  BY <1>2, EventStatusStep
<1>3. CASE PressUp
  <2>1. VolumeStep \in Int
    BY ScreenAssumption
  <2> QED
    BY <1>3, <2>1, VolumeStepOf DEF PressUp, Press
<1>4. CASE PressDown
  <2>1. -VolumeStep \in Int
    BY ScreenAssumption
  <2> QED
    BY <1>4, <2>1, VolumeStepOf DEF PressDown, Press
<1>5. CASE QuietStep
  BY <1>5, QuietStepSound
<1>6. CASE UNCHANGED vars
  BY <1>6 DEF vars, IInv, TypeOK, Sound
<1> QED
  BY <1>1, <1>2, <1>3, <1>4, <1>5, <1>6 DEF Next, QuietStep

THEOREM IInvHolds == Spec => []IInv
BY InitIInv, NextIInv, PTL DEF Spec
-----------------------------------------------------------------------------

(* The shape of the state. *)
THEOREM TypeCorrect == Spec => []TypeOK
<1>1. IInv => TypeOK
  BY DEF IInv
<1> QED
  BY <1>1, IInvHolds, PTL

(* A cover that is not the one the status names never outlives its         *)
(* deadline by having none (apply_status, on_tick, begin_track_change). *)
THEOREM NoCoverIsOrphan == Spec => []NoOrphanCover
<1>1. IInv => NoOrphanCover
  BY DEF IInv, Sound, Attended, NoOrphanCover, OrphanCover
<1> QED
  BY <1>1, IInvHolds, PTL

(* While positions are distrusted, the one shown is our own count since    *)
(* the press (guard_progress, tick_playback). *)
THEOREM GuardedPositionIsAlwaysOurs == Spec => []GuardedPositionIsOurs
<1>1. IInv => GuardedPositionIsOurs
  BY DEF IInv, Sound, Guarded, GuardedPositionIsOurs
<1> QED
  BY <1>1, IInvHolds, PTL
-----------------------------------------------------------------------------
(* The words of a pin.                                                     *)

(* While the first pin stands in, the screen defends its words for as long *)
(* as it counts as lately invoked, against those it replaced. *)
PinDefended ==
  /\ pinsDone = 0 => pinned = None
  /\ pinned # None /\ pinsDone = 1 =>
       /\ screen.intro = [expires |-> pinned.since + OptimisticTtl, previous |-> pinned.left]
       /\ now < pinned.since + OptimisticTtl
       /\ screen.status.title = pinned.words

KeepsWords(s, r) == r.status.title = s.status.title /\ r.intro = s.intro

LEMMA PressKeepsWords ==
  ASSUME NEW s \in ScreenStates, NEW t, NEW delta
  PROVE  /\ KeepsWords(s, PreviousOrRestart(s, t)) /\ KeepsWords(s, NextTrack(s, t))
         /\ KeepsWords(s, TurnVolume(s, delta, t)) /\ KeepsWords(s, TurnPage(s))
<1>1. KeepsWords(s, BeginTrackChange(s, t)) /\ KeepsWords(s, Restart(s, t))
  BY DEF KeepsWords, BeginTrackChange, Restart, ScreenStates, Statuses
<1>2. KeepsWords(s, TurnVolume(s, delta, t))
  BY DEF KeepsWords, TurnVolume, ScreenStates, Statuses
<1>3. KeepsWords(s, TurnPage(s))
  BY DEF KeepsWords, TurnPage, ScreenStates
<1> QED
  BY <1>1, <1>2, <1>3 DEF PreviousOrRestart, NextTrack

LEMMA TickPlaybackKeepsWords ==
  ASSUME NEW s \in ScreenStates, NEW t
  PROVE  KeepsWords(s, TickPlayback(s, t))
BY DEF KeepsWords, TickPlayback, ScreenStates, Statuses

(* A report against which the intro holds leaves the words. *)
LEMMA AppliedWords ==
  ASSUME NEW s \in ScreenStates, NEW status, NEW t, PinIntroHolds(s, status, t)
  PROVE  KeepsWords(s, ApplyStatus(s, status, t))
BY DEF KeepsWords, ApplyStatus, ScreenStates, Statuses

LEMMA ToggleKeepsWords ==
  ASSUME NEW s \in ScreenStates, NEW t
  PROVE  KeepsWords(s, TogglePlayback(s, t))
<1> DEFINE pausing == CanPause(s.status.playback)
           toggled == IF pausing THEN "Paused" ELSE "Playing"
           held    == Hold(toggled, t)
           timed   == IF pausing THEN TickPlayback(s, t)
                      ELSE [s EXCEPT !.lastSecond = Second(t)]
           r       == TogglePlayback(s, t)
<1>1. r = [timed EXCEPT !.status.playback = toggled, !.playbackHeld = held]
  BY DEF TogglePlayback
<1>2. KeepsWords(s, timed)
  BY TickPlaybackKeepsWords DEF KeepsWords, ScreenStates
<1>3. /\ DOMAIN timed = DOMAIN s /\ DOMAIN timed.status = DOMAIN s.status
      /\ {"status", "intro"} \subseteq DOMAIN s /\ "title" \in DOMAIN s.status
  BY DEF TickPlayback, ScreenStates, Statuses
<1> HIDE DEF timed, held, toggled
<1>4. r.intro = timed.intro /\ r.status.title = timed.status.title
  BY <1>1, <1>3
<1> QED
  BY <1>2, <1>4 DEF KeepsWords

LEMMA DefendedStays ==
  ASSUME PinDefended, KeepsWords(screen, screen'), UNCHANGED <<now, pinned, pinsDone>>
  PROVE  PinDefended'
BY DEF PinDefended, KeepsWords

LEMMA InitDefended == Init => PinDefended
BY DEF Init, PinDefended

(* A tick leaves the words and lets an intro go whose time has come. *)
LEMMA TickKeepsWords ==
  ASSUME NEW s \in ScreenStates, NEW later
  PROVE  LET u == OnTick(s, later)
         IN  /\ u.status.title = s.status.title
             /\ u.intro = IF s.intro # None /\ later >= s.intro.expires
                          THEN None ELSE s.intro
<1> DEFINE v == Cleared(s.overlayUntil, later)
           w == DroppedCover(s, later)
           g == Cleared(s.staleUntil, later)
           h == Cleared(s.progressUntil, later)
           z == IF s.intro # None /\ later >= s.intro.expires THEN None ELSE s.intro
           t == [s EXCEPT !.overlayUntil = v, !.artwork = w, !.staleUntil = g,
                          !.progressUntil = h, !.intro = z]
           u == OnTick(s, later)
<1>1. u = TickPlayback(t, later)
  BY DEF OnTick, ScreenStates
<1>2. /\ v \in Option(Nat) /\ w \in Option(Uris \cup {NoUri}) /\ g \in Option(Nat)
      /\ h \in Option(Nat) /\ z \in Option(Intros)
  BY DEF ScreenStates, Option, Cleared, DroppedCover
<1> HIDE DEF v, w, g, h, z
<1>3. t.status = s.status /\ t.intro = z
  BY DEF ScreenStates
<1>4. t \in ScreenStates
  BY <1>2 DEF ScreenStates
<1> HIDE DEF t
<1>5. KeepsWords(t, u)
  BY <1>1, <1>4, TickPlaybackKeepsWords
<1> HIDE DEF u
<1>6. u.status.title = s.status.title /\ u.intro = z
  BY <1>3, <1>5 DEF KeepsWords
<1> QED
  BY <1>6 DEF u, z

LEMMA TickDefended ==
  ASSUME IInv, PinDefended, Tick
  PROVE  PinDefended'
<1>1. /\ now \in Nat /\ now' \in Nat /\ screen \in ScreenStates
      /\ pinned # None => pinned \in [since : Nat, words : Titles, left : Titles]
  BY WorldType, TickStep DEF IInv, TypeOK, Option
<1>2. /\ pinsDone' = pinsDone /\ screen' = OnTick(screen, now')
      /\ pinned' = IF pinned # None /\ now' >= pinned.since + OptimisticTtl
                   THEN None ELSE pinned
  BY DEF Tick
<1>3. /\ screen'.status.title = screen.status.title
      /\ screen'.intro = IF screen.intro # None /\ now' >= screen.intro.expires
                         THEN None ELSE screen.intro
  BY <1>1, <1>2, TickKeepsWords
<1>4. pinsDone' = 0 => pinned' = None
  BY <1>2 DEF PinDefended
<1>5. ASSUME pinned' # None, pinsDone' = 1
      PROVE  /\ screen'.intro = [expires |-> pinned'.since + OptimisticTtl,
                                 previous |-> pinned'.left]
             /\ now' < pinned'.since + OptimisticTtl
             /\ screen'.status.title = pinned'.words
  <2>1. pinned' = pinned /\ pinned # None /\ pinsDone = 1
    BY <1>2, <1>5
  <2>2. ~(now' >= pinned.since + OptimisticTtl)
    BY <1>2, <1>5
  <2>3. pinned.since \in Nat /\ OptimisticTtl \in Nat
    BY <1>1, <2>1, ScreenAssumption
  <2>4. now' < pinned.since + OptimisticTtl
    BY <1>1, <2>2, <2>3
  <2>5. /\ screen.intro = [expires |-> pinned.since + OptimisticTtl,
                           previous |-> pinned.left]
        /\ screen.status.title = pinned.words
    BY <2>1 DEF PinDefended
  <2>6. screen'.intro = screen.intro
    BY <1>3, <2>2, <2>5
  <2> QED
    BY <1>3, <2>1, <2>4, <2>5, <2>6
<1> QED
  BY <1>4, <1>5 DEF PinDefended

LEMMA StatusDefended ==
  ASSUME IInv, PinDefended, NEW status, EventStatus(status)
  PROVE  PinDefended'
<1> DEFINE intro == PinIntroHolds(screen, status, now)
<1>1. /\ screen \in ScreenStates /\ now \in Nat
      /\ pinned # None => pinned \in [since : Nat, words : Titles, left : Titles]
  BY WorldType DEF IInv, TypeOK, Option
<1>2. /\ now' = now /\ pinsDone' = pinsDone /\ screen' = ApplyStatus(screen, status, now)
      /\ pinned' = IF pinned # None /\ status.title # pinned.left THEN None ELSE pinned
  BY DEF EventStatus
<1>3. SUFFICES ASSUME pinned' # None, pinsDone = 1 PROVE KeepsWords(screen, screen')
  BY <1>2 DEF PinDefended, KeepsWords
<1>4. /\ pinned # None /\ status.title = pinned.left
      /\ screen.intro = [expires |-> pinned.since + OptimisticTtl, previous |-> pinned.left]
      /\ now < pinned.since + OptimisticTtl
  BY <1>2, <1>3 DEF PinDefended
<1>5. screen.intro # None
  <2>1. screen.intro \in Intros
    BY <1>1, <1>4, ScreenAssumption DEF Intros
  <2> QED
    BY <2>1, ScreenAssumption
<1>6. intro
  BY <1>4, <1>5 DEF PinIntroHolds
<1> QED
  BY <1>1, <1>2, <1>6, AppliedWords

(* The first pin tapped: what its intro defends against is what it replaced. *)
LEMMA TapDefended ==
  ASSUME IInv, PinDefended, NEW slot \in Slots, TapTile(slot)
  PROVE  PinDefended'
<1> DEFINE pin == screen.pins[slot]
           words == [screen.status EXCEPT !.title = pin.title, !.art = pin.art,
                                          !.elapsed = 0, !.duration = 0,
                                          !.playback = "Playing"]
           intro == [expires |-> now + OptimisticTtl, previous |-> screen.status.title]
           art == IF screen.pinArt[slot] = pin.art THEN pin.art ELSE None
           held == Hold("Playing", now)
           until == now + OptimisticTtl
<1>1. /\ now \in Nat /\ screen \in ScreenStates /\ pinsDone \in Nat
      /\ OptimisticTtl \in Nat \ {0}
  BY WorldType, ScreenAssumption DEF IInv, TypeOK
<1>2. /\ now' = now /\ pinsDone' = pinsDone + 1
      /\ pinned' = [since |-> now, words |-> pin.title,
                    left |-> IF pinned = None THEN screen.status.title ELSE pinned.left]
      /\ screen' = InvokePin(screen, slot, now)
  BY DEF TapTile
<1>3. words.title = pin.title
  BY <1>1 DEF ScreenStates, Statuses
<1>4. screen' = [screen EXCEPT !.page = "NowPlaying", !.status = words, !.artwork = art,
                              !.staleUntil = None, !.playbackHeld = held,
                              !.intro = intro, !.progressUntil = until]
  BY <1>1, <1>2 DEF InvokePin, ScreenStates
<1> HIDE DEF words, intro, art, held, until
<1>5. screen'.status = words /\ screen'.intro = intro
  BY <1>1, <1>4 DEF ScreenStates
<1>6. pinsDone' # 0
  BY <1>1, <1>2
<1>7. ASSUME pinsDone' = 1 PROVE pinned'.left = screen.status.title
  BY <1>1, <1>2, <1>7 DEF PinDefended
<1>8. now' < pinned'.since + OptimisticTtl
  BY <1>1, <1>2
<1>9. pinned'.since = now /\ pinned'.words = pin.title
  BY <1>2
<1> QED
  BY <1>3, <1>5, <1>6, <1>7, <1>8, <1>9 DEF PinDefended, intro

(* The handlers that neither tap a tile nor report leave the words alone. *)
LEMMA QuietKeepsWords ==
  ASSUME IInv, QuietStep \/ PressUp \/ PressDown,
         \A slot \in Slots : ~TapTile(slot)
  PROVE  /\ KeepsWords(screen, screen')
         /\ UNCHANGED <<now, pinned, pinsDone>>
<1>0. screen \in ScreenStates
  BY DEF IInv, TypeOK
<1>1. CASE \E uri \in Uris : EventArtwork(uri)
  BY <1>0, <1>1 DEF EventArtwork, ApplyArtwork, KeepsWords, ScreenStates
<1>2. CASE \E pins \in world.pinLists : EventPins(pins)
  BY <1>0, <1>2 DEF EventPins, ApplyPins, KeepsWords, ScreenStates
<1>3. CASE \E slot \in Slots, uri \in Uris : EventPinArtwork(slot, uri)
  BY <1>0, <1>3 DEF EventPinArtwork, ApplyPinArtwork, KeepsWords, ScreenStates
<1>4. CASE PressLeft \/ PressRight \/ PressUp \/ PressDown
  BY <1>0, <1>4, PressKeepsWords
  DEF PressLeft, PressRight, PressUp, PressDown, Press
<1>5. CASE PressSelect
  BY <1>0, <1>5, ToggleKeepsWords DEF PressSelect, Press
<1>6. CASE PressBack
  BY <1>0, <1>6, PressKeepsWords DEF PressBack
<1> QED
  BY <1>1, <1>2, <1>3, <1>4, <1>5, <1>6 DEF QuietStep

LEMMA NextDefended == IInv /\ PinDefended /\ [Next]_vars => PinDefended'
<1> SUFFICES ASSUME IInv, PinDefended, [Next]_vars PROVE PinDefended'
  OBVIOUS
<1>1. CASE Tick
  BY <1>1, TickDefended
<1>2. CASE \E status \in world.reports : EventStatus(status)
  BY <1>2, StatusDefended
<1>3. CASE \E slot \in Slots : TapTile(slot)
  BY <1>3, TapDefended
<1>4. CASE /\ QuietStep \/ PressUp \/ PressDown
           /\ \A slot \in Slots : ~TapTile(slot)
  BY <1>4, QuietKeepsWords, DefendedStays
<1>5. CASE UNCHANGED vars
  BY <1>5 DEF vars, PinDefended
<1> QED
  BY <1>1, <1>2, <1>3, <1>4, <1>5 DEF Next, QuietStep

(* A pin stands in for the track it starts: whatever is pressed, loaded or *)
(* dropped meanwhile, its words stay while the device goes on naming the   *)
(* track that was playing (show_pin_while_it_starts, pin_intro_holds).     *)
THEOREM PinsStandIn == Spec => []PinStandsIn
<1>1. PinDefended => PinStandsIn
  BY DEF PinDefended, PinStandsIn
<1> QED
  BY <1>1, InitDefended, NextDefended, IInvHolds, PTL DEF Spec

-----------------------------------------------------------------------------
(* The volume implements Hold.                                             *)

LEMMA VolumeInit == Init => Volume!Init
BY StatusAssumption DEF Init, NewScreen, Volume!Init

(* A level kept is a level and a guess that stay. *)
LEMMA VolumeStays ==
  ASSUME KeepsVolume(screen, screen'), now' = now
  PROVE  UNCHANGED Volume!holdVars
BY DEF KeepsVolume, Volume!holdVars

LEMMA VolumePressed ==
  ASSUME IInv, NEW next \in 0..VolumeMax, now' = now,
         screen'.status.volume = next, screen'.volumeHeld = Hold(next, now)
  PROVE  Volume!Next
<1>1. now \in Nat
  BY WorldType DEF IInv, TypeOK
<1>2. Hold(next, now) \in Held(0..VolumeMax)
  BY <1>1, ScreenAssumption DEF Hold, Held
<1>3. screen'.volumeHeld # None
  BY <1>2, ScreenAssumption
<1>4. Volume!Press(next)
  BY <1>3 DEF Hold, Volume!Press
<1> QED
  BY <1>4 DEF Volume!Next

LEMMA VolumeFollowed ==
  ASSUME IInv, NEW volume \in 0..VolumeMax, now' = now,
         ~StillHeld(screen.volumeHeld, volume, now),
         screen'.status.volume = volume, screen'.volumeHeld = None
  PROVE  Volume!Next
<1>1. now \in Nat /\ screen.volumeHeld \in Option(Held(0..VolumeMax))
  BY WorldType DEF IInv, TypeOK, ScreenStates
<1>2. \/ screen.volumeHeld = None
      \/ screen.volumeHeld # None /\ screen.volumeHeld.value = volume
      \/ screen.volumeHeld # None /\ now >= screen.volumeHeld.expires
  BY <1>1 DEF StillHeld, Option, Held
<1>3. Volume!Follow(volume)
  BY <1>2 DEF Volume!Follow
<1> QED
  BY <1>3 DEF Volume!Next

LEMMA VolumeNext == IInv /\ [Next]_vars => [Volume!Next]_(Volume!holdVars)
<1> SUFFICES ASSUME IInv, [Next]_vars PROVE [Volume!Next]_(Volume!holdVars)
  OBVIOUS
<1>1. CASE Tick
  <2>1. KeepsVolume(screen, screen') /\ now <= now' /\ now' \in Nat
    BY <1>1, TickStep
  <2>2. Volume!Time
    BY <2>1, WorldType DEF KeepsVolume, Volume!Time, IInv, TypeOK
  <2> QED
    BY <2>2 DEF Volume!Next
<1>2. CASE \E status \in world.reports : EventStatus(status)
  <2>1. PICK status \in world.reports : EventStatus(status)
    BY <1>2
  <2>2. status.volume \in 0..VolumeMax
    BY WorldType DEF IInv, TypeOK, Statuses
  <2> QED
    BY <2>1, <2>2, EventStatusStep, VolumeStays, VolumeFollowed
<1>3. ASSUME NEW delta \in Int, screen' = TurnVolume(screen, delta, now),
             UNCHANGED <<world, now, pinned, pinsDone>>
      PROVE  [Volume!Next]_(Volume!holdVars)
  BY <1>3, VolumeStepOf, VolumeStays, VolumePressed
<1>4. CASE PressUp
  <2>1. VolumeStep \in Int
    BY ScreenAssumption
  <2> QED
    BY <1>3, <1>4, <2>1 DEF PressUp, Press
<1>5. CASE PressDown
  <2>1. -VolumeStep \in Int
    BY ScreenAssumption
  <2> QED
    BY <1>3, <1>5, <2>1 DEF PressDown, Press
<1>6. CASE QuietStep
  BY <1>6, QuietStepSound, VolumeStays
<1>7. CASE UNCHANGED vars
  BY <1>7 DEF vars, Volume!holdVars
<1> QED
  BY <1>1, <1>2, <1>4, <1>5, <1>6, <1>7 DEF Next, QuietStep

(* Whatever happens on the screen is, to the volume, a turn of the dial, a *)
(* report that is followed, the passage of time or nothing: the level is   *)
(* a value optimistically held (Optimistic::hold, reconcile). *)
THEOREM VolumeImplementsHold == Spec => VolumeIsHeld
BY VolumeInit, VolumeNext, IInvHolds, PTL DEF Spec, VolumeIsHeld, Volume!Spec
-----------------------------------------------------------------------------
(* The words it scrolls. *)

LEMMA ModNext ==
  ASSUME NEW m \in Nat, NEW c \in Nat \ {0}
  PROVE  /\ m % c \in 0..(c - 1)
         /\ (m + 1) % c = (IF m % c = c - 1 THEN 0 ELSE (m % c) + 1)
<1> DEFINE q == m \div c
           r == m % c
           p == (m + 1) \div c
           s == (m + 1) % c
<1>1. /\ q \in Nat /\ r \in 0..(c - 1) /\ m = c * q + r
      /\ p \in Nat /\ s \in 0..(c - 1) /\ m + 1 = c * p + s
  OBVIOUS
<1> HIDE DEF q, r, p, s
<1>2. c * p - c * q = r + 1 - s /\ c * p \in Int /\ c * q \in Int
  BY <1>1
<1>3. CASE p = q
  <2>1. s = r + 1
    BY <1>1, <1>2, <1>3
  <2> QED
    BY <1>1, <2>1 DEF r, s
<1>4. CASE p = q + 1
  <2>1. c * p = c * q + c
    BY <1>1, <1>4
  <2>2. s = 0 /\ r = c - 1
    BY <1>1, <1>2, <2>1
  <2> QED
    BY <1>1, <2>2 DEF r, s
<1>5. CASE p >= q + 2
  <2>1. c * p >= c * (q + 2) /\ c * (q + 2) = c * q + 2 * c /\ c * (q + 2) \in Int
    BY <1>1, <1>5
  <2> QED
    BY <1>1, <1>2, <2>1
<1>6. CASE p + 1 <= q
  <2>1. c * q >= c * (p + 1) /\ c * (p + 1) = c * p + c /\ c * (p + 1) \in Int
    BY <1>1, <1>6
  <2> QED
    BY <1>1, <1>2, <2>1
<1> QED
  BY <1>1, <1>3, <1>4, <1>5, <1>6

(* Where the words are in the cycle tells their offset. *)
LEMMA OffsetIs ==
  ASSUME NEW o \in Nat \ {0}, NEW m \in Nat, NEW t \in Nat, t = m % Cycle(o)
  PROVE  LET p2 == HoldStart + ScrollTime(o)
             p3 == p2 + HoldEnd
             is == MarqueeOffset(m, o)
         IN  /\ t < HoldStart => is = 0
             /\ t \in HoldStart..(p2 - 1) =>
                  is = Smaller(((t - HoldStart) * Speed) \div 1000, o)
             /\ t \in p2..(p3 - 1) => is = o
             /\ t >= p3 => is = Larger(o - ((t - p3) * Speed) \div 1000, 0)
<1> DEFINE p2 == HoldStart + ScrollTime(o)
           p3 == p2 + HoldEnd
<1>1. ScrollTime(o) \in Nat
  BY DEF ScrollTime, Speed
<1>2. HoldStart = 1000 /\ HoldEnd = 500 /\ p2 \in Nat /\ p3 \in Nat /\ HoldStart <= p2 /\ p2 < p3
  BY <1>1 DEF HoldStart, HoldEnd
<1> HIDE DEF p2, p3
<1>3. MarqueeOffset(m, o) =
        CASE o = 0 \/ t < HoldStart -> 0
          [] o > 0 /\ t \in HoldStart..(p2 - 1) ->
               Smaller(((t - HoldStart) * Speed) \div 1000, o)
          [] o > 0 /\ t \in p2..(p3 - 1) -> o
          [] o > 0 /\ t >= p3 -> Larger(o - ((t - p3) * Speed) \div 1000, 0)
  BY DEF MarqueeOffset, p2, p3
<1>4. ASSUME t < HoldStart PROVE MarqueeOffset(m, o) = 0
  BY <1>2, <1>3, <1>4
<1>5. ASSUME t \in HoldStart..(p2 - 1)
      PROVE  MarqueeOffset(m, o) = Smaller(((t - HoldStart) * Speed) \div 1000, o)
  BY <1>2, <1>3, <1>5
<1>6. ASSUME t \in p2..(p3 - 1) PROVE MarqueeOffset(m, o) = o
  BY <1>2, <1>3, <1>6
<1>7. ASSUME t >= p3
      PROVE  MarqueeOffset(m, o) = Larger(o - ((t - p3) * Speed) \div 1000, 0)
  BY <1>2, <1>3, <1>7
<1> QED
  BY <1>4, <1>5, <1>6, <1>7 DEF p2, p3

LEMMA Glides ==
  ASSUME NEW o \in Nat, NEW m \in Nat
  PROVE  LET was == MarqueeOffset(m, o)
             is  == MarqueeOffset(m + 1, o)
         IN  is \in 0..o /\ Magnitude(is - was) <= 1
<1> DEFINE was == MarqueeOffset(m, o)
           is  == MarqueeOffset(m + 1, o)
<1>1. CASE o = 0
  <2>1. was = 0 /\ is = 0
    BY <1>1 DEF MarqueeOffset
  <2> HIDE DEF was, is
  <2> QED
    BY <1>1, <2>1 DEF Magnitude, was, is
<1>2. CASE o # 0
  <2> DEFINE S  == ScrollTime(o)
             c  == Cycle(o)
             p2 == HoldStart + S
             p3 == p2 + HoldEnd
             t  == m % c
             u  == (m + 1) % c
  <2>1. S \in Nat /\ 30 * S <= 1000 * o /\ 1000 * o < 30 * S + 30
    BY DEF ScrollTime, Speed
  <2> HIDE DEF S
  <2>2. p2 = 1000 + S /\ p3 = 1500 + S /\ c = 1500 + 2 * S /\ c \in Nat \ {0}
    BY <2>1 DEF HoldStart, HoldEnd, Cycle, S
  <2> HIDE DEF c
  <2>3. t \in 0..(c - 1) /\ u = (IF t = c - 1 THEN 0 ELSE t + 1)
    <3>1. c \in Nat \ {0} /\ m \in Nat
      BY <2>2
    <3> QED
      BY <3>1, ModNext, Zenon
  <2>4. t \in Nat /\ u \in Nat
    BY <2>2, <2>3
  <2> DEFINE Offset(n, at) ==
        /\ n < 1000 => at = 0
        /\ n \in 1000..(999 + S) => at = Smaller(((n - 1000) * 30) \div 1000, o)
        /\ n \in (1000 + S)..(1499 + S) => at = o
        /\ n >= 1500 + S => at = Larger(o - ((n - (1500 + S)) * 30) \div 1000, 0)
  <2>5. Offset(t, was) /\ Offset(u, is)
    <3>1. HoldStart = 1000 /\ HoldEnd = 500 /\ Speed = 30
      BY DEF HoldStart, HoldEnd, Speed
    <3>2. p2 - 1 = 999 + S /\ p3 - 1 = 1499 + S /\ p2 = 1000 + S /\ p3 = 1500 + S
      BY <2>1, <2>2
    <3>3. o \in Nat \ {0} /\ m \in Nat /\ m + 1 \in Nat
      BY <1>2
    <3>4. Offset(t, was)
      <4>1. t = m % Cycle(o)
        BY DEF c
      <4> HIDE DEF t
      <4>2. LET q2 == HoldStart + ScrollTime(o)
                q3 == q2 + HoldEnd
            IN  /\ t < HoldStart => was = 0
                /\ t \in HoldStart..(q2 - 1) =>
                     was = Smaller(((t - HoldStart) * Speed) \div 1000, o)
                /\ t \in q2..(q3 - 1) => was = o
                /\ t >= q3 => was = Larger(o - ((t - q3) * Speed) \div 1000, 0)
        BY <2>4, <3>3, <4>1, OffsetIs
      <4> QED
        BY <3>1, <3>2, <4>2 DEF S
    <3>5. Offset(u, is)
      <4>1. u = (m + 1) % Cycle(o)
        BY DEF c
      <4> HIDE DEF u
      <4> DEFINE n == m + 1
      <4>2. n \in Nat /\ u = n % Cycle(o)
        BY <3>3, <4>1
      <4> HIDE DEF n
      <4>3. LET q2 == HoldStart + ScrollTime(o)
                q3 == q2 + HoldEnd
                at == MarqueeOffset(n, o)
            IN  /\ u < HoldStart => at = 0
                /\ u \in HoldStart..(q2 - 1) =>
                     at = Smaller(((u - HoldStart) * Speed) \div 1000, o)
                /\ u \in q2..(q3 - 1) => at = o
                /\ u >= q3 => at = Larger(o - ((u - q3) * Speed) \div 1000, 0)
        BY <2>4, <3>3, <4>2, OffsetIs
      <4>4. MarqueeOffset(n, o) = is
        BY DEF n
      <4> HIDE DEF is
      <4> QED
        BY <3>1, <3>2, <4>3, <4>4 DEF S
    <3> QED
      BY <3>4, <3>5
  <2> HIDE DEF was, is, t, u
  <2> DEFINE up(n) == ((n - 1000) * 30) \div 1000
             down(n) == ((n - (1500 + S)) * 30) \div 1000
  <2>6. \A n \in Nat : n >= 1000 =>
          up(n) \in Nat /\ 1000 * up(n) <= (n - 1000) * 30 /\ (n - 1000) * 30 < 1000 * up(n) + 1000
    OBVIOUS
  <2>7. \A n \in Nat : n >= 1500 + S =>
          /\ down(n) \in Nat /\ 1000 * down(n) <= (n - (1500 + S)) * 30
          /\ (n - (1500 + S)) * 30 < 1000 * down(n) + 1000
    BY <2>1
  <2>8. ASSUME NEW n \in Nat, NEW at, Offset(n, at)
        PROVE  /\ n < 1000 => at = 0
               /\ n \in 1000..(999 + S) =>
                    /\ at \in Nat /\ 1000 * at <= (n - 1000) * 30
                    /\ (n - 1000) * 30 < 1000 * at + 1000
                    /\ at <= o
               /\ n \in (1000 + S)..(1499 + S) => at = o
               /\ n >= 1500 + S /\ n < c =>
                    /\ at \in Nat /\ 1000 * (o - at) <= (n - (1500 + S)) * 30
                    /\ (n - (1500 + S)) * 30 < 1000 * (o - at) + 1000
                    /\ at <= o
    <3>1. ASSUME n \in 1000..(999 + S)
          PROVE  /\ at \in Nat /\ 1000 * at <= (n - 1000) * 30
                 /\ (n - 1000) * 30 < 1000 * at + 1000
                 /\ at <= o
      <4>1. /\ up(n) \in Nat /\ 1000 * up(n) <= (n - 1000) * 30
            /\ (n - 1000) * 30 < 1000 * up(n) + 1000 /\ at = Smaller(up(n), o)
        BY <2>1, <2>6, <2>8, <3>1
      <4> HIDE DEF up
      <4>2. up(n) <= o
        BY <2>1, <3>1, <4>1
      <4> QED
        BY <4>1, <4>2 DEF Smaller
    <3>2. ASSUME n >= 1500 + S, n < c
          PROVE  /\ at \in Nat /\ 1000 * (o - at) <= (n - (1500 + S)) * 30
                 /\ (n - (1500 + S)) * 30 < 1000 * (o - at) + 1000
                 /\ at <= o
      <4>1. /\ down(n) \in Nat /\ 1000 * down(n) <= (n - (1500 + S)) * 30
            /\ (n - (1500 + S)) * 30 < 1000 * down(n) + 1000
            /\ at = Larger(o - down(n), 0)
        BY <2>1, <2>7, <2>8, <3>2
      <4> HIDE DEF down
      <4>2. down(n) <= o
        BY <2>1, <2>2, <3>2, <4>1
      <4> QED
        BY <4>1, <4>2 DEF Larger
    <3> QED
      BY <2>8, <3>1, <3>2
  <2> HIDE DEF Offset
  <2> DEFINE Near(n, at) ==
               /\ n < 1000 => at = 0
               /\ n \in 1000..(999 + S) =>
                    /\ at \in Nat /\ 1000 * at <= (n - 1000) * 30
                    /\ (n - 1000) * 30 < 1000 * at + 1000
                    /\ at <= o
               /\ n \in (1000 + S)..(1499 + S) => at = o
               /\ n >= 1500 + S /\ n < c =>
                    /\ at \in Nat /\ 1000 * (o - at) <= (n - (1500 + S)) * 30
                    /\ (n - (1500 + S)) * 30 < 1000 * (o - at) + 1000
                    /\ at <= o
  <2>9. Near(t, was) /\ Near(u, is)
    BY <2>4, <2>5, <2>8
  <2>10. u < c /\ t < c
    BY <2>2, <2>3, <2>4
  <2>11. is \in 0..o /\ was \in 0..o
    BY <2>1, <2>2, <2>4, <2>9, <2>10
  <2>12. is - was \in {-1, 0, 1}
    <3>1. CASE t = c - 1
      BY <2>1, <2>2, <2>3, <2>4, <2>9, <2>10, <2>11, <3>1
    <3>2. CASE t # c - 1 /\ t < 1000
      BY <2>1, <2>2, <2>3, <2>4, <2>9, <2>10, <2>11, <3>2
    <3>3. CASE t # c - 1 /\ t \in 1000..(999 + S)
      BY <2>1, <2>2, <2>3, <2>4, <2>9, <2>10, <2>11, <3>3
    <3>4. CASE t # c - 1 /\ t \in (1000 + S)..(1499 + S)
      BY <2>1, <2>2, <2>3, <2>4, <2>9, <2>10, <2>11, <3>4
    <3>5. CASE t # c - 1 /\ t >= 1500 + S
      BY <2>1, <2>2, <2>3, <2>4, <2>9, <2>10, <2>11, <3>5
    <3> QED
      BY <2>1, <2>4, <3>1, <3>2, <3>3, <3>4, <3>5
  <2> QED
    BY <2>11, <2>12 DEF Magnitude, was, is
<1> QED
  BY <1>1, <1>2

LEMMA TimeAndJob == DrawingSpec => [](ms \in Nat /\ job \in Jobs)
<1> DEFINE I == ms \in Nat /\ job \in Jobs
<1>1. DrawingInit => I
  BY DEF DrawingInit
<1>2. I /\ [DrawingNext]_drawingVars => I'
  BY DEF DrawingNext, NextPixel, Later, drawingVars
<1> QED
  BY <1>1, <1>2, PTL DEF DrawingSpec

(* Words of any length glide: they move by a pixel at most in a             *)
(* millisecond, from one cycle into the next, and never past either end     *)
(* (compute_marquee_offset). *)
THEOREM WordsAlwaysGlide == DrawingSpec => WordsGlide
<1> DEFINE I == ms \in Nat /\ job \in Jobs
           A == Later => LET was == MarqueeOffset(ms, job.overflow)
                             is  == MarqueeOffset(ms', job.overflow)
                         IN  is \in 0..job.overflow /\ Magnitude(is - was) <= 1
<1>1. I /\ [DrawingNext]_drawingVars => [A]_drawingVars
  <2> SUFFICES ASSUME I, Later
               PROVE  LET was == MarqueeOffset(ms, job.overflow)
                          is  == MarqueeOffset(ms', job.overflow)
                      IN  is \in 0..job.overflow /\ Magnitude(is - was) <= 1
    OBVIOUS
  <2>1. job.kind = "words" /\ ms' = ms + 1
    BY DEF Later
  <2>2. job.overflow \in Nat
    BY <2>1, DrawingAssumption DEF Jobs
  <2> QED
    BY <2>1, <2>2, Glides
<1> QED
  BY <1>1, TimeAndJob, PTL DEF DrawingSpec, WordsGlide
=============================================================================
