------------------------------ MODULE Layouts ------------------------------
(***************************************************************************)
(* Where the controls of the three screens lie (layout of launcher.rs,     *)
(* stopwatch.rs and hifi.rs under crates/app-core/src/ui/screens, and      *)
(* geometry.rs), and what a tap on each of them is (their hit_test and     *)
(* focus_targets).  The regions of the Now Playing page nest, which is     *)
(* what Panel draws by.                                                    *)
(***************************************************************************)
EXTENDS Focus

DisplayWidth == 410
DisplayHeight == 502

Display == Rect(0, 0, DisplayWidth, DisplayHeight)

Inside(inner, outer) ==
  /\ outer.x <= inner.x /\ inner.x + inner.w <= outer.x + outer.w
  /\ outer.y <= inner.y /\ inner.y + inner.h <= outer.y + outer.h

Disjoint(a, b) ==
  a.x + a.w <= b.x \/ b.x + b.w <= a.x \/ a.y + a.h <= b.y \/ b.y + b.h <= a.y

VerticalPair(left, top, width, height, gap) ==
  <<Rect(left, top, width, height), Rect(left, top + height + gap, width, height)>>

HorizontalPair(left, top, width, height, gap) ==
  LET each == (width - gap) \div 2
  IN  <<Rect(left, top, each, height), Rect(left + each + gap, top, each, height)>>
-----------------------------------------------------------------------------
(* The launcher: the stopwatch's button over the hifi's. *)
LauncherTargets == VerticalPair(24, 108, DisplayWidth - 48, 140, 20)
LauncherScreens == <<"Stopwatch", "HifiControl">>

(* The stopwatch: start beside stop, below a header of 96 and a gap of 24.  *)
StopwatchTargets == HorizontalPair(24, 20 + 96 + 24, DisplayWidth - 48, 84, 22)
StopwatchActions == <<"Start", "Stop">>

(* choices_layout: tiles of 170 by 210, two in a row. *)
Tile(slot) ==
  Rect(20 + ((slot - 1) % 2) * 200, 56 + ((slot - 1) \div 2) * 222, 170, 210)

-----------------------------------------------------------------------------
(* The Now Playing page. *)
Artwork == Rect(40, 28, 330, 330)
TitleBand == Rect(24, 372, 362, 40)
ArtistBand == Rect(24, 414, 362, 40)
ProgressBar == Rect(40, 470, 330, 6)
OverlayPanel == Rect(84, 140, 242, 106)
OverlayValue == Rect(88, 158, 234, 40)
OverlayTrack == Rect(110, 214, 190, 10)
PauseBadge == Rect(152, 140, 106, 106)
SpinnerSquare == Rect(157, 145, 96, 96)

(* What Panel relies on: the badge and the spinner lie within the readout, *)
(* the readout within the picture, the words and the bar outside of it.    *)
NestedAssumption ==
  /\ \A rect \in {Artwork, TitleBand, ArtistBand, ProgressBar} : Inside(rect, Display)
  /\ Inside(OverlayPanel, Artwork) /\ Inside(PauseBadge, OverlayPanel)
  /\ Inside(SpinnerSquare, PauseBadge)
  /\ Inside(OverlayValue, OverlayPanel) /\ Inside(OverlayTrack, OverlayPanel)
  /\ \A rect \in {TitleBand, ArtistBand, ProgressBar} : Disjoint(rect, Artwork)
  /\ Disjoint(TitleBand, ArtistBand) /\ Disjoint(ArtistBand, ProgressBar)

ASSUME LayoutAssumption == NestedAssumption
=============================================================================
