------------------------------ MODULE Drawing ------------------------------
(***************************************************************************)
(* What the widgets draw by arithmetic: the shapes of components.rs and    *)
(* hifi.rs pixel by pixel (draw_shape_over and rounded_rect_over of        *)
(* aa.rs), and the scrolling of words too long for their band              *)
(* (compute_marquee_offset).                                               *)
(***************************************************************************)
EXTENDS Raster, Layouts

CONSTANTS
  Overflows  \* by how much words are too long for their band

ASSUME DrawingAssumption == Overflows \subseteq Nat

VARIABLES
  job,   \* what is being drawn
  x, y,  \* the pixel that is written
  ms     \* how long the words have been up

drawingVars == <<job, x, y, ms>>
-----------------------------------------------------------------------------
(* The shapes on the screens. *)

At(dx, dy) == [x |-> 205 + dx, y |-> 193 + dy]  \* about the picture's middle

(* draw_spinner_dots, draw_wifi_icon, the circles of the launcher's and the *)
(* stopwatch's network icons (an edge is what its two circles leave),      *)
(* PlayTriangle, draw_panel with what it covers, and the ring about a      *)
(* control (draw_focus_ring). *)
Dot == DrawnCircle(At(23, -23), 18)
WifiDot == DrawnCircle(At(0, 31), 8)
WifiFan ==
  {DrawnArc(At(0, 19), 72, 4, 215, 110), DrawnArc(At(0, 19), 48, 4, 220, 100),
   DrawnArc(At(0, 19), 24, 4, 228, 84)}
NetworkBlocked(diameter) ==
  LET disc == DrawnCircle(At(0, 0), diameter)
  IN  {disc, [disc EXCEPT !.shape = Inset(@, 2)]}
Play == DrawnTriangle(At(-22, -40), At(-22, 40), At(46, 0))
PausePanel == DrawnRounded(PauseBadge, 22)
Ring(rect) == DrawnOutline(Rect(rect.x - 3, rect.y - 3, rect.w + 6, rect.h + 6), 21, 4)

Shapes == {Dot, WifiDot, Play, PausePanel, Ring(StopwatchTargets[1])}
  \cup WifiFan \cup NetworkBlocked(24) \cup NetworkBlocked(22)
-----------------------------------------------------------------------------
(* compute_marquee_offset: hold, scroll, hold, scroll back. *)

HoldStart == 1000
HoldEnd == 500
Speed == 30  \* pixels in 1000 ms

ScrollTime(overflow) == (overflow * 1000) \div Speed
Cycle(overflow) == HoldStart + HoldEnd + 2 * ScrollTime(overflow)

\* Mutated: the way back is counted from the end of the way there.
MarqueeOffsetUnheld(elapsed, overflow) ==
  LET t  == elapsed % Cycle(overflow)
      p2 == HoldStart + ScrollTime(overflow)
      Scrolled(from) == ((t - from) * Speed) \div 1000
  IN  CASE overflow = 0 \/ t < HoldStart   -> 0
        [] overflow > 0 /\ t \in HoldStart..(p2 - 1) ->
             Smaller(Scrolled(HoldStart), overflow)
        [] overflow > 0 /\ t \in p2..(p2 + HoldEnd - 1) -> overflow
        [] overflow > 0 /\ t >= p2 + HoldEnd -> Larger(overflow - Scrolled(p2), 0)

MarqueeOffset(elapsed, overflow) ==
  LET t  == elapsed % Cycle(overflow)
      p2 == HoldStart + ScrollTime(overflow)
      p3 == p2 + HoldEnd
      Scrolled(from) == ((t - from) * Speed) \div 1000
  IN  CASE overflow = 0 \/ t < HoldStart -> 0
        [] overflow > 0 /\ t \in HoldStart..(p2 - 1) ->
             Smaller(Scrolled(HoldStart), overflow)
        [] overflow > 0 /\ t \in p2..(p3 - 1) -> overflow
        [] overflow > 0 /\ t >= p3 -> Larger(overflow - Scrolled(p3), 0)
-----------------------------------------------------------------------------
(* One job: a shape or a band of words. *)

Jobs ==
  {[kind |-> "shape", of |-> drawn, box |-> drawn.bounds] : drawn \in Shapes}
  \cup {[kind |-> "words", overflow |-> overflow] : overflow \in Overflows}

Pixels(j) == j.kind = "shape"

(* A shape is looked at with the pixels about its rectangle. *)
Frame(j) == Rect(j.box.x - 1, j.box.y - 1, j.box.w + 2, j.box.h + 2)

(* What is drawn at a pixel: outside the rectangle that is looked at,       *)
(* nothing (draw_shape_over). *)
Drawn ==
  IF ContainsPoint(job.box, [x |-> x, y |-> y]) THEN Coverage(job.of.shape, x, y) ELSE 0

DrawingInit ==
  /\ job \in Jobs
  /\ x = IF Pixels(job) THEN Frame(job).x ELSE 0
  /\ y = IF Pixels(job) THEN Frame(job).y ELSE 0
  /\ ms = 0

(* The points of a rectangle, row by row. *)
NextPixel ==
  /\ Pixels(job)
  /\ \/ x + 1 < Frame(job).x + Frame(job).w /\ x' = x + 1 /\ y' = y
     \/ /\ x + 1 = Frame(job).x + Frame(job).w
        /\ y + 1 < Frame(job).y + Frame(job).h
        /\ x' = Frame(job).x /\ y' = y + 1
  /\ UNCHANGED <<job, ms>>

(* A millisecond of one cycle and of the beginning of the next. *)
Later ==
  /\ job.kind = "words" /\ ms <= Cycle(job.overflow)
  /\ ms' = ms + 1
  /\ UNCHANGED <<job, x, y>>

DrawingNext == NextPixel \/ Later

DrawingSpec == DrawingInit /\ [][DrawingNext]_drawingVars
-----------------------------------------------------------------------------
(* Each pixel gets what looking at every sample of it would give: the       *)
(* corners alone tell ("no feature can hide between the corners", coverage *)
(* in aa.rs), and no shape reaches beyond the rectangle it is looked for   *)
(* in, so that nothing is cut off (circle_bounds, triangle). *)
DrawnExactly ==
  job.kind = "shape" => Drawn = SampleCount(job.of.shape, x, y)

(* Words move by a pixel at most in a millisecond, never past either end,   *)
(* and from the end of one cycle into the next (compute_marquee_offset). *)
WordsGlide ==
  [][Later => LET was == MarqueeOffset(ms, job.overflow)
                  is  == MarqueeOffset(ms', job.overflow)
              IN  is \in 0..job.overflow /\ Magnitude(is - was) <= 1]_drawingVars
=============================================================================
