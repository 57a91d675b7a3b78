------------------------------- MODULE Panel -------------------------------
(***************************************************************************)
(* What the renderer draws and what it skips: App::render                  *)
(* (crates/app-core/src/ui/render.rs), RenderSession (session.rs), Slot    *)
(* (widget.rs) and the render functions of the three screens with their    *)
(* RenderCaches.                                                           *)
(*                                                                         *)
(* A panel is write-only: what it shows is what was drawn last on each of  *)
(* its regions.  Of the Now Playing picture these are the square the badge *)
(* covers (core, with the readout's number and gauge in it), the rest of   *)
(* the readout (field) and the rest of the picture (rim); Layouts has the  *)
(* rectangles.  On the panel, None is the background.                      *)
(***************************************************************************)
EXTENDS HifiScreen, Layouts

CONSTANTS
  Phases,      \* of a spinner
  Unsung       \* titles whose track has no artist

ArtKinds == {"Spinner", "Buffering", "Artwork", "PlayIcon", "PauseBars"}

(* What a tile may say. *)
TileStates == [label : Titles \cup {"Empty", "Pin"}, id : Nat, active : BOOLEAN,
               art : Uris \cup {NoUri}]

ASSUME PanelAssumption ==
  /\ Phases \in Nat \ {0} /\ Unsung \subseteq Titles
  /\ None \notin {"NowPlaying", "Choices"} \cup ArtKinds \cup TileStates

BadgeSquare == {"core", "number", "gauge"}
Readout == BadgeSquare \cup {"field"}
Picture == Readout \cup {"rim"}

(* A region of the picture: what covers it, the glyphs over that, and the  *)
(* level on display. *)
Blank == [base |-> None, marks |-> {}, level |-> None]

BlackPanel ==
  [picture |-> [r \in Picture |-> Blank], title |-> None, artist |-> None,
   progress |-> None, header |-> FALSE, tiles |-> [slot \in Slots |-> None],
   chrome |-> FALSE, net |-> None, watch |-> None, rings |-> {}]

(* RenderCache of the two screens that have one. *)
NowPlayingCache ==
  [phase |-> None, filled |-> None, duration |-> None, title |-> None,
   artist |-> None, art |-> NoUri, loading |-> FALSE, overlay |-> FALSE,
   value |-> None, percent |-> None, badge |-> FALSE]
ChoicesCache == [header |-> FALSE, tiles |-> [slot \in Slots |-> None]]

HifiCache ==
  [page |-> None, kind |-> None, now |-> NowPlayingCache, choices |-> ChoicesCache]
LauncherCache == [chrome |-> FALSE, net |-> None, phase |-> None]

NewSession ==
  [lastScreen |-> None, lastFocus |-> NoFocus,
   launcher |-> LauncherCache, hifi |-> HifiCache]

Phase(now) == now % Phases
-----------------------------------------------------------------------------
(* RenderSession.                                                          *)

InvalidateScreen(session, name) ==
  LET here == session.lastScreen = name
  IN  [session EXCEPT
         !.launcher   = IF name = "Launcher" THEN LauncherCache ELSE @,
         !.hifi       = IF name = "HifiControl" THEN HifiCache ELSE @,
         !.lastScreen = IF here THEN None ELSE @,
         !.lastFocus  = IF here THEN NoFocus ELSE @]

NeedsClear(session, name, focused) ==
  session.lastScreen # name \/ session.lastFocus # focused

BeginFrame(session, name, focused) ==
  LET kept == IF NeedsClear(session, name, focused)
              THEN InvalidateScreen(session, name) ELSE session
  IN  [kept EXCEPT !.lastScreen = name, !.lastFocus = focused]

\* Mutated: a failed frame's memory of what it drew is kept.
AbandonNothing(session, name) == [session EXCEPT !.lastFocus = NoFocus]

AbandonFrame(session, name) ==
  [InvalidateScreen(session, name) EXCEPT !.lastScreen = None, !.lastFocus = NoFocus]
-----------------------------------------------------------------------------
(* Drawing on a picture.                                                   *)

Cover(picture, regions, base) ==
  [r \in Picture |->
     IF r \in regions THEN [Blank EXCEPT !.base = base] ELSE picture[r]]

Dots(phase) == <<"dots", phase>>
Glyph(name) == <<name, 0>>

(* The dots of one phase cover those of another; glyphs stay. *)
Mark(picture, mark) ==
  [r \in Picture |->
     IF r \notin BadgeSquare THEN picture[r]
     ELSE [picture[r] EXCEPT
             !.marks = {m \in @ : m[1] # mark[1]} \cup {mark}]]

Badge(picture) == Mark(Cover(picture, BadgeSquare, "badge"), Glyph("PauseBars"))

Level(picture, region, level) ==
  [picture EXCEPT ![region] = [base |-> "readout", marks |-> {}, level |-> level]]
-----------------------------------------------------------------------------
(* What the Now Playing page says.                                         *)

(* compute_art_kind *)
ArtKind(screen) ==
  IF screen.loading THEN "Spinner"
  ELSE IF screen.status.playback = "Buffering" THEN "Buffering"
  ELSE IF screen.artwork # None
          /\ (screen.artwork = screen.status.art \/ screen.staleUntil # None)
  THEN "Artwork"
  ELSE IF screen.status.playback = "Playing" THEN "PlayIcon" ELSE "PauseBars"

BadgeWanted(screen) ==
  screen.status.playback = "Paused" /\ ArtKind(screen) = "Artwork"

TitleText(status) == IF status.title = NoTitle THEN "No track" ELSE status.title

ArtistText(status) ==
  IF status.title \notin Unsung THEN status.title
  ELSE IF status.playback \in {"Playing", "Buffering"} THEN "" ELSE "Not playing"

(* progress_filled_px *)
Filled(status) ==
  IF status.duration = 0 THEN 0
  ELSE LET elapsed == IF status.elapsed < status.duration
                      THEN status.elapsed ELSE status.duration
       IN  (ProgressBar.w * elapsed) \div status.duration

(* tile_label, and the picture on the tile. *)
TileOf(screen, slot) ==
  LET pin == screen.pins[slot]
  IN  [label  |-> IF pin = None THEN "Empty"
                  ELSE IF pin.title = NoTitle THEN "Pin" ELSE pin.title,
       id     |-> IF pin = None THEN slot
                  ELSE IF pin.title = NoTitle THEN pin.id ELSE 0,
       active |-> pin # None,
       art    |-> IF screen.pinArt[slot] = None THEN NoUri ELSE screen.pinArt[slot]]

(* What shows of that: a cover only on a tile with a pin. *)
TileShown(tile) == [tile EXCEPT !.art = IF tile.active THEN @ ELSE NoUri]
-----------------------------------------------------------------------------
(* The HiFi page as it is drawn.  A step takes the panel and the cache, d,  *)
(* to what they are after it.                                              *)

(* hifi::render, before it draws the page: another page clears it all. *)
OpenPage(screen, d) ==
  IF d.cache.page = screen.page THEN d
  ELSE [panel |-> BlackPanel, cache |-> [HifiCache EXCEPT !.page = screen.page]]

(* Slot::clear_if_kind_changed *)
ClearSlot(screen, d) ==
  IF d.cache.kind = ArtKind(screen) THEN d
  ELSE [d EXCEPT !.panel.picture = Cover(@, Picture, None)]

HidesReadout(screen, d) == d.cache.now.overlay /\ screen.overlayUntil = None

(* Leaving the spinner that was all there was: the words start afresh. *)
ForgetLoading(cache) ==
  IF ~cache.loading THEN cache
  ELSE [cache EXCEPT !.title = None, !.artist = None, !.filled = None,
                     !.duration = None, !.loading = FALSE]

(* The spinner skips a phase it has drawn, unless its square was wiped. *)
SpinnerOn(picture, cache, kind, wiped, phase) ==
  IF cache.kind = kind /\ ~wiped /\ cache.now.phase = phase THEN picture
  ELSE Mark(picture, Dots(phase))

\* Mutated: a cover already drawn is not restored when the readout goes.
PictureOnKeeping(screen, picture, cache, wiped, phase) ==
  LET kind    == ArtKind(screen)
      painted == cache.now.art = screen.artwork /\ cache.kind = "Artwork"
      again   == cache.kind = kind /\ ~wiped
  IN  CASE kind = "Buffering" -> SpinnerOn(picture, cache, kind, wiped, phase)
        [] kind = "Artwork" ->
             IF painted THEN picture ELSE Cover(picture, Picture, screen.artwork)
        [] kind \in {"PauseBars", "PlayIcon"} ->
             IF again THEN picture ELSE Mark(picture, Glyph(kind))

(* The cover, of which only the readout's part may be missing, or what      *)
(* stands in for one.                                                      *)
PictureOn(screen, picture, cache, wiped, phase) ==
  LET kind    == ArtKind(screen)
      painted == cache.now.art = screen.artwork /\ cache.kind = "Artwork"
      again   == cache.kind = kind /\ ~wiped
  IN  CASE kind = "Buffering" -> SpinnerOn(picture, cache, kind, wiped, phase)
        [] kind = "Artwork" ->
             IF ~painted THEN Cover(picture, Picture, screen.artwork)
             ELSE IF wiped THEN Cover(picture, Readout, screen.artwork)
             ELSE picture
        [] kind \in {"PauseBars", "PlayIcon"} ->
             IF again THEN picture ELSE Mark(picture, Glyph(kind))

(* The picture: a readout that has gone is wiped first, a cover restores   *)
(* itself. *)
DrawPicture(screen, d, phase) ==
  LET kind   == ArtKind(screen)
      wiped  == HidesReadout(screen, d)
      black  == IF wiped /\ kind # "Artwork"
                THEN Cover(d.panel.picture, Readout, None) ELSE d.panel.picture
      shown  == IF ~wiped THEN d.cache.now
                ELSE [d.cache.now EXCEPT !.overlay = FALSE, !.value = None,
                                         !.percent = None]
      turns  == kind \in {"Spinner", "Buffering"}
      cached == IF kind = "Spinner" THEN [shown EXCEPT !.loading = TRUE]
                ELSE ForgetLoading(shown)
  IN  [panel |-> [d.panel EXCEPT !.picture =
         IF kind = "Spinner" THEN SpinnerOn(black, d.cache, kind, wiped, phase)
         ELSE PictureOn(screen, black, d.cache, wiped, phase)],
       cache |-> [d.cache EXCEPT
         !.kind = kind,
         !.now  = [cached EXCEPT
           !.phase = IF turns THEN phase ELSE @,
           !.art   = IF kind = "Artwork" THEN screen.artwork ELSE @]]]

(* The badge over the cover of what is paused, or the cover put back. *)
DrawBadge(screen, d, wiped) ==
  IF BadgeWanted(screen)
  THEN IF d.cache.now.badge /\ ~wiped THEN d
       ELSE [d EXCEPT !.panel.picture = Badge(@), !.cache.now.badge = TRUE]
  ELSE IF ~d.cache.now.badge THEN d
  ELSE [d EXCEPT
          !.panel.picture = Cover(@, BadgeSquare,
            IF ArtKind(screen) = "Artwork" THEN screen.artwork ELSE None),
          !.cache.now.badge = FALSE]

(* The bar and the two bands of text, each drawn when it has changed. *)
DrawWords(screen, d) ==
  LET status == screen.status
      cache  == d.cache.now
      same   == cache.duration = status.duration /\ cache.filled = Filled(status)
      title  == cache.title = TitleText(status)
      artist == cache.artist = ArtistText(status)
  IN  [panel |-> [d.panel EXCEPT
         !.progress = IF same THEN @ ELSE Filled(status),
         !.title    = IF title THEN @ ELSE TitleText(status),
         !.artist   = IF artist THEN @ ELSE ArtistText(status)],
       cache |-> [d.cache EXCEPT
         !.now = [@ EXCEPT !.filled = Filled(status), !.duration = status.duration,
                           !.title = TitleText(status), !.artist = ArtistText(status)]]]

(* The readout over it all: its panel once, its number and its gauge when  *)
(* they change. *)
DrawReadout(screen, d) ==
  LET level == screen.status.volume
      cache == d.cache.now
      panel == IF cache.overlay THEN d.panel.picture
               ELSE Cover(d.panel.picture, Readout, "readout")
      number == IF cache.overlay /\ cache.value = level THEN panel
                ELSE Level(panel, "number", level)
      gauge  == IF cache.overlay /\ cache.percent = level THEN number
                ELSE Level(number, "gauge", level)
  IN  IF screen.overlayUntil = None THEN d
      ELSE [panel |-> [d.panel EXCEPT !.picture = gauge],
            cache |-> [d.cache EXCEPT
              !.now = [@ EXCEPT !.overlay = TRUE, !.value = level, !.percent = level]]]

(* render_choices *)
DrawTiles(screen, d) ==
  [panel |-> [d.panel EXCEPT
     !.header = TRUE,
     !.tiles  = [slot \in Slots |->
                   IF d.cache.choices.tiles[slot] = TileOf(screen, slot) THEN @[slot]
                   ELSE TileShown(TileOf(screen, slot))]],
   cache |-> [d.cache EXCEPT
     !.choices = [header |-> TRUE, tiles |-> [slot \in Slots |-> TileOf(screen, slot)]]]]
=============================================================================
