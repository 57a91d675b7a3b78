-------------------------------- MODULE Hold --------------------------------
(***************************************************************************)
(* What an optimistic value promises, wherever the program keeps one: the  *)
(* queue position after a skip (crates/app-runtime/src/playlist.rs), the   *)
(* playback state and the volume after a press                             *)
(* (crates/app-core/src/ui/optimistic.rs).                                 *)
(*                                                                         *)
(* A press shows a value at once and remembers it as a guess.  Reports     *)
(* from the device then either agree with the guess, which ends it, or     *)
(* disagree.  A disagreeing report is ignored until the guess has expired; *)
(* the first one that comes in after that is believed and ends the guess.  *)
(* Nothing else ends a guess, and while it lasts the value shown is the    *)
(* guessed one.                                                            *)
(***************************************************************************)
EXTENDS Naturals

CONSTANTS
  Value,    \* what can be guessed and reported
  Nothing,  \* "no guess"; also the value shown before the first report
  Lifetime  \* how long a guess is defended

VARIABLES
  shown,  \* the value on display
  guess,  \* the outstanding guess, or Nothing
  clock

holdVars == <<shown, guess, clock>>

Guess == [value: Value, until: Nat]

Init ==
  /\ shown \in Value \cup {Nothing}
  /\ guess = Nothing
  /\ clock = 0

(* The user presses: v is shown before anybody confirmed it. *)
Press(v) ==
  /\ shown' = v
  /\ guess' = [value |-> v, until |-> clock + Lifetime]
  /\ UNCHANGED clock

(* A report that the display follows, because nothing is guessed, because  *)
(* it agrees, or because the guess has had its time.                       *)
Follow(v) ==
  /\ \/ guess = Nothing
     \/ guess.value = v
     \/ clock >= guess.until
  /\ shown' = v
  /\ guess' = Nothing
  /\ UNCHANGED clock

Time ==
  /\ clock' \in Nat
  /\ clock' >= clock
  /\ UNCHANGED <<shown, guess>>

Next ==
  \/ \E v \in Value : Press(v) \/ Follow(v)
  \/ Time

Spec == Init /\ [][Next]_holdVars
=============================================================================
