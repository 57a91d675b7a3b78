------------------------------- MODULE MCSkip -------------------------------
(* Small instances of SkipSession for TLC. *)
EXTENDS SkipSession

MCMetadataOf == [id \in TrackIds |-> id + 10]
MCMetadata == {id + 10 : id \in TrackIds}
MCDeviceQueue == <<1, 2, 3>>

(* A user who waits, a device that does what it is told, one thing lost. *)
Settled ==
  [coalesces |-> TRUE, skipsFail |-> FALSE, lateAnswers |-> FALSE,
   prompt |-> TRUE, patient |-> TRUE, directions |-> Steps,
   presses |-> 2, moves |-> 0, losses |-> 1, time |-> 1]

(* Three skips forward, faster than the device. *)
Hurried ==
  [Settled EXCEPT !.coalesces = FALSE, !.patient = FALSE,
                  !.directions = {"Forward"}, !.presses = 3, !.losses = 0]

(* One skip, when everything that may go wrong does. *)
Hostile ==
  [Settled EXCEPT !.skipsFail = TRUE, !.lateAnswers = TRUE, !.prompt = FALSE,
                  !.patient = FALSE, !.presses = 1]

(* No skip: the device moves by itself. *)
Followed ==
  [Settled EXCEPT !.patient = FALSE, !.prompt = FALSE,
                  !.presses = 0, !.moves = 1, !.time = 0]

MCSkips == {Settled, Hurried, Hostile}
MCFollowed == {Followed}
=============================================================================
