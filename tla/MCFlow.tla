------------------------------- MODULE MCFlow -------------------------------
(* Small instances of CoverFlow for TLC. *)
EXTENDS CoverFlow

Track(title, art) == [title |-> title, art |-> art, duration |-> 0]

(* Three tracks, two of them of one album. *)
MCQueue == <<Track("t1", "u1"), Track("t2", "u2"), Track("t3", "u1")>>

(* Two tracks, the second without a cover. *)
MCShortQueue == <<Track("t1", "u1"), Track("t2", NoUri)>>

(* One skip, and the device moves once by itself; nothing is lost. *)
Skipping ==
  [queue |-> MCQueue, pinList |-> NoPins, pinStarts |-> [slot \in Slots |-> 1],
   controls |-> {"Right"}, prompt |-> TRUE, patient |-> TRUE,
   skipsFail |-> FALSE, presses |-> 1, moves |-> 1, failures |-> 0, time |-> 1]

(* Skips and pins; one command, load or connection is lost. *)
Pressing ==
  [Skipping EXCEPT
     !.queue = MCShortQueue,
     !.pinList = [slot \in Slots |-> [id |-> slot, title |-> "p1", art |-> "u3"]],
     !.controls = {"Right", "Back", "Tile"},
     !.presses = 2, !.moves = 0, !.failures = 1]

(* The same of a pause. *)
Pausing == [Pressing EXCEPT !.controls = {"Select"}, !.presses = 1]

(* A skip, of tracks without covers, that may fail, or be shown too late,   *)
(* or fall where a connection ends. *)
Failing ==
  [Pressing EXCEPT
     !.queue = <<Track("t1", NoUri), Track("t2", NoUri)>>, !.pinList = NoPins,
     !.controls = {"Left"}, !.prompt = FALSE, !.skipsFail = TRUE, !.presses = 1]

MCWorlds == {Skipping, Pressing, Pausing, Failing}
===============================================================================
