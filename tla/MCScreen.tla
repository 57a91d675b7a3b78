------------------------------- MODULE MCScreen -------------------------------
(* Small instances of HifiScreenMachine for TLC. *)
EXTENDS HifiScreenMachine

Track(title, art, playback, elapsed) ==
  [title |-> title, art |-> art, playback |-> playback, elapsed |-> elapsed,
   duration |-> 6, volume |-> 0]

(* One track at every position, playing or paused, and at every level. *)
MCPressReports ==
  {Track("t1", NoUri, playback, e) :
     playback \in {"Playing", "Paused"}, e \in {0, 3, 6}}
  \cup {[Track("t1", NoUri, "Playing", 0) EXCEPT !.volume = v] : v \in 0..VolumeMax}

(* Two tracks with a cover each and one without; the one that was playing  *)
(* when a pin was pressed may be at rest. *)
MCTrackReports ==
  {Track("t1", "u1", "Playing", 0), Track("t2", "u2", "Playing", 0),
   Track("t3", NoUri, "Playing", 0), Track("t1", "u1", "Paused", 0)}

MCPinLists ==
  {[slot \in Slots |-> IF slot = 1 THEN [id |-> 1, title |-> "p1", art |-> "u2"]
                       ELSE [id |-> 2, title |-> "p2", art |-> NoUri]]}

(* Every button that acts on the track that plays, at half seconds. *)
Pressing ==
  [reports |-> MCPressReports, pinLists |-> {NoPins},
   presses |-> {"Left", "Right", "Select", "Up", "Down"},
   jumps |-> {1, 2}, time |-> 8, pins |-> 0]

(* Tracks, pins and covers come and go, at whole seconds. *)
Changing ==
  [reports |-> MCTrackReports, pinLists |-> MCPinLists,
   presses |-> {"Left", "Right", "Back", "Tile"},
   jumps |-> {2}, time |-> 10, pins |-> 2]

MCWorlds == {Pressing, Changing}
===============================================================================
