------------------------------- MODULE Raster -------------------------------
(***************************************************************************)
(* The anti-aliased shapes of crates/app-core/src/ui/aa.rs: how much of a  *)
(* pixel a shape covers, and the colour that leaves.  Shapes are carried   *)
(* in sample units, eight to a pixel, and a pixel is probed at sixteen     *)
(* points, the odd units in both directions.                               *)
(***************************************************************************)
EXTENDS Focus, FiniteSets

SAMPLES == 4
UNIT == 2 * SAMPLES
FULL == SAMPLES * SAMPLES

Larger(a, b) == IF a < b THEN b ELSE a
Smaller(a, b) == IF a < b THEN a ELSE b
-----------------------------------------------------------------------------
(* Colours: the three channels of Rgb565. *)
Channels == 1..3
Colours == [Channels -> 0..63]

Mix(a, b, coverage) == (a * coverage + b * (FULL - coverage)) \div FULL

(* blend: the shape's colour over what is behind it. *)
Blend(fg, bg, coverage) ==
  IF coverage = 0 THEN bg
  ELSE IF coverage >= FULL THEN fg
  ELSE [c \in Channels |-> Mix(fg[c], bg[c], coverage)]
-----------------------------------------------------------------------------
(* Shapes. *)

RoundedRect(rect, radius) ==
  [kind |-> "rounded", left |-> rect.x * UNIT, top |-> rect.y * UNIT,
   right |-> (rect.x + rect.w) * UNIT, bottom |-> (rect.y + rect.h) * UNIT,
   radius |-> Smaller(radius, Smaller(rect.w, rect.h) \div 2) * UNIT]

Inset(s, amount) ==
  [s EXCEPT !.left = @ + amount * UNIT, !.right = @ - amount * UNIT,
            !.top = @ + amount * UNIT, !.bottom = @ - amount * UNIT,
            !.radius = Larger(@ - amount * UNIT, 0)]

(* How far past the box that the corners are struck from. *)
Past(n, low, high, radius) == Larger(Larger(low + radius - n, n - (high - radius)), 0)

InRounded(s, x, y) ==
  /\ s.left <= x /\ x < s.right /\ s.top <= y /\ y < s.bottom
  /\ LET dx == Past(x, s.left, s.right, s.radius)
         dy == Past(y, s.top, s.bottom, s.radius)
     IN  dx * dx + dy * dy <= s.radius * s.radius

(* RoundedRectRing: the band of an outline. *)
Outline(rect, radius, stroke) ==
  LET outer == RoundedRect(rect, radius)
  IN  [kind |-> "outline", outer |-> outer, inner |-> Inset(outer, stroke)]

(* 1024 times the sine of 0 to 90 degrees. *)
Quarter ==
  <<0, 18, 36, 54, 71, 89, 107, 125, 143, 160, 178, 195, 213, 230, 248, 265, 282, 299,
    316, 333, 350, 367, 384, 400, 416, 433, 449, 465, 481, 496, 512, 527, 543, 558, 573,
    587, 602, 616, 630, 644, 658, 672, 685, 698, 711, 724, 737, 749, 761, 773, 784, 796,
    807, 818, 828, 839, 849, 858, 868, 877, 886, 895, 903, 911, 919, 926, 933, 940, 946,
    952, 958, 963, 968, 973, 977, 981, 984, 987, 990, 993, 995, 996, 998, 999, 1000, 1000,
    1000, 1000, 1000, 1000, 1000>>

Sin(degrees) ==
  LET d == degrees % 360
  IN  CASE d \in 0..90    -> Quarter[d + 1]
        [] d \in 91..180  -> Quarter[180 - d + 1]
        [] d \in 181..270 -> -Quarter[d - 180 + 1]
        [] d \in 271..359 -> -Quarter[360 - d + 1]

Cos(degrees) == Sin(degrees + 90)

\* Mutated: the stroke is laid outside the diameter instead of inside it.
RingSegmentOutward(centre, diameter, stroke, start, sweep) ==
  LET inner == (diameter * UNIT) \div 2
      outer == inner + stroke * UNIT
  IN  [kind |-> "arc", x |-> centre.x * UNIT + UNIT \div 2,
       y |-> centre.y * UNIT + UNIT \div 2,
       outer |-> outer * outer, inner |-> inner * inner,
       start |-> <<Cos(start), Sin(start)>>,
       end |-> <<Cos(start + sweep), Sin(start + sweep)>>,
       reflex |-> Magnitude(sweep) > 180]

(* RingSegment: the part of a ring within a sweep, clockwise on the screen.  *)
RingSegment(centre, diameter, stroke, start, sweep) ==
  LET outer == (diameter * UNIT) \div 2
      inner == Larger(outer - stroke * UNIT, 0)
  IN  [kind |-> "arc", x |-> centre.x * UNIT + UNIT \div 2,
       y |-> centre.y * UNIT + UNIT \div 2,
       outer |-> outer * outer, inner |-> inner * inner,
       start |-> <<Cos(start), Sin(start)>>,
       end |-> <<Cos(start + sweep), Sin(start + sweep)>>,
       reflex |-> Magnitude(sweep) > 180]

InRing(s, x, y) ==
  LET dx == x - s.x
      dy == y - s.y
      distance == dx * dx + dy * dy
      afterStart == s.start[1] * dy - s.start[2] * dx >= 0
      beforeEnd  == s.end[1] * dy - s.end[2] * dx <= 0
  IN  /\ s.inner <= distance /\ distance <= s.outer
      /\ IF s.reflex THEN afterStart \/ beforeEnd ELSE afterStart /\ beforeEnd

Corner(p) == [x |-> p.x * UNIT, y |-> p.y * UNIT]

(* Which side of the way from a to b: the sign tells. *)
SideOf(a, b, x, y) == (b.x - a.x) * (y - a.y) - (b.y - a.y) * (x - a.x)

Triangle(a, b, c) ==
  LET p == <<Corner(a), Corner(b), Corner(c)>>
  IN  [kind |-> "triangle", points |-> p,
       clockwise |-> SideOf(p[1], p[2], p[3].x, p[3].y) < 0]

InTriangle(s, x, y) ==
  \A i \in 1..3 :
    LET side == SideOf(s.points[i], s.points[(i % 3) + 1], x, y)
    IN  IF s.clockwise THEN side <= 0 ELSE side >= 0

Covers(s, x, y) ==
  CASE s.kind = "rounded"  -> InRounded(s, x, y)
    [] s.kind = "outline"  -> InRounded(s.outer, x, y) /\ ~InRounded(s.inner, x, y)
    [] s.kind = "arc"      -> InRing(s, x, y)
    [] s.kind = "triangle" -> InTriangle(s, x, y)
-----------------------------------------------------------------------------
(* A pixel. *)

(* The sixteen points that count. *)
SampleCount(s, x, y) ==
  Cardinality({p \in (0..(SAMPLES - 1)) \X (0..(SAMPLES - 1)) :
                 Covers(s, x * UNIT + 2 * p[1] + 1, y * UNIT + 2 * p[2] + 1)})

\* Mutated: two corners are taken for all four.
CoverageOfDiagonal(s, x, y) ==
  LET first == Covers(s, x * UNIT, y * UNIT)
  IN  IF first = Covers(s, x * UNIT + UNIT - 1, y * UNIT + UNIT - 1)
      THEN IF first THEN FULL ELSE 0
      ELSE SampleCount(s, x, y)

(* coverage: the points are not looked at where the corners agree. *)
Coverage(s, x, y) ==
  LET left  == x * UNIT
      top   == y * UNIT
      first == Covers(s, left, top)
  IN  IF \A dx \in {0, UNIT - 1}, dy \in {0, UNIT - 1} :
           Covers(s, left + dx, top + dy) = first
      THEN IF first THEN FULL ELSE 0
      ELSE SampleCount(s, x, y)
-----------------------------------------------------------------------------
(* What is drawn: a shape, and the rectangle it is looked for in. *)

CircleBounds(centre, diameter) ==
  Rect(centre.x - diameter \div 2, centre.y - diameter \div 2, diameter, diameter)

DrawnRounded(rect, radius) == [shape |-> RoundedRect(rect, radius), bounds |-> rect]
DrawnOutline(rect, radius, stroke) ==
  [shape |-> Outline(rect, radius, stroke), bounds |-> rect]
DrawnCircle(centre, diameter) ==
  DrawnRounded(CircleBounds(centre, diameter), diameter \div 2)
DrawnArc(centre, diameter, stroke, start, sweep) ==
  [shape  |-> RingSegment(centre, diameter, stroke, start, sweep),
   bounds |-> CircleBounds(centre, diameter)]
DrawnTriangle(a, b, c) ==
  LET left   == Smaller(a.x, Smaller(b.x, c.x))
      top    == Smaller(a.y, Smaller(b.y, c.y))
      right  == Larger(a.x, Larger(b.x, c.x)) + 1
      bottom == Larger(a.y, Larger(b.y, c.y)) + 1
  IN  [shape |-> Triangle(a, b, c), bounds |-> Rect(left, top, right - left, bottom - top)]
=============================================================================
