------------------------------- MODULE Focus -------------------------------
(***************************************************************************)
(* The focus ring of crates/app-core/src/ui/focus.rs: where the pad takes  *)
(* it, by the geometry of the controls a screen publishes in reading       *)
(* order, and which control a point is on.                                 *)
(***************************************************************************)
EXTENDS Integers, Sequences

(* Controls are numbered from 1; there is no ring on 0. *)
NoFocus == 0

Rect(left, top, width, height) == [x |-> left, y |-> top, w |-> width, h |-> height]
Rects == [x : Int, y : Int, w : Nat, h : Nat]
Directions == {"Up", "Down", "Left", "Right"}

(* Where a rectangle is pressed, and where the ring takes it to be. *)
Centre(rect) == [x |-> rect.x + rect.w \div 2, y |-> rect.y + rect.h \div 2]

ContainsPoint(rect, point) ==
  /\ rect.x <= point.x /\ point.x < rect.x + rect.w
  /\ rect.y <= point.y /\ point.y < rect.y + rect.h

Magnitude(n) == IF n < 0 THEN -n ELSE n

(* How far `to' lies ahead of `from', and how far off to the side. *)
Along(from, to, direction) ==
  CASE direction = "Up"    -> from.y - to.y
    [] direction = "Down"  -> to.y - from.y
    [] direction = "Left"  -> from.x - to.x
    [] direction = "Right" -> to.x - from.x

Across(from, to, direction) ==
  IF direction \in {"Up", "Down"} THEN Magnitude(to.x - from.x)
  ELSE Magnitude(to.y - from.y)

Cost(from, to, direction) ==
  Along(from, to, direction) + 3 * Across(from, to, direction)

CostOf(targets, current, i, direction) ==
  Cost(Centre(targets[current]), Centre(targets[i]), direction)

(* The controls that lie ahead. *)
Ahead(targets, current, direction) ==
  {i \in DOMAIN targets \ {current} :
     Along(Centre(targets[current]), Centre(targets[i]), direction) > 0}

(* The cheapest of them, the first of equals. *)
Nearest(targets, current, direction) ==
  CHOOSE i \in Ahead(targets, current, direction) :
    \A j \in Ahead(targets, current, direction) :
      \/ CostOf(targets, current, i, direction) < CostOf(targets, current, j, direction)
      \/ /\ CostOf(targets, current, i, direction) = CostOf(targets, current, j, direction)
         /\ i <= j

\* Mutated: past the end of a row there is nothing.
NextInOrderNone(targets, current, direction) == NoFocus

\* Mutated: the end of the list is not looked for.
NextInOrderUnbounded(targets, current, direction) ==
  IF direction = "Right" THEN current + 1 ELSE current - 1

(* Past the end of a row the ring goes on in reading order. *)
NextInOrder(targets, current, direction) ==
  IF direction = "Right" /\ current < Len(targets) THEN current + 1
  ELSE IF direction = "Left" /\ current > 1 THEN current - 1
  ELSE NoFocus

(* step *)
FocusStep(targets, focus, direction) ==
  IF targets = <<>> THEN NoFocus
  ELSE IF focus \notin DOMAIN targets THEN 1
  ELSE IF Ahead(targets, focus, direction) # {}
  THEN Nearest(targets, focus, direction)
  ELSE NextInOrder(targets, focus, direction)

(* hit: the first control under a point. *)
FocusHit(targets, point) ==
  LET under == {i \in DOMAIN targets : ContainsPoint(targets[i], point)}
  IN  IF under = {} THEN NoFocus
      ELSE CHOOSE i \in under : \A j \in under : i <= j
-----------------------------------------------------------------------------
(* A set of controls that a pad with these directions does not leave, and   *)
(* the controls it brings the ring to from one of them: those in every such *)
(* set that has it. *)
Closed(targets, controls, directions) ==
  \A i \in controls, direction \in directions :
    FocusStep(targets, i, direction) \in controls \cup {NoFocus}

Reached(targets, from, directions) ==
  {j \in DOMAIN targets :
     \A controls \in SUBSET DOMAIN targets :
       from \in controls /\ Closed(targets, controls, directions) => j \in controls}
=============================================================================
