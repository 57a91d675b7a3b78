------------------------------- MODULE MCApp -------------------------------
(* Small instances of AppShell for TLC. *)
EXTENDS AppShell

Track(title, art, playback) ==
  [title |-> title, art |-> art, playback |-> playback, elapsed |-> 0,
   duration |-> 6, volume |-> 0]

(* Two tracks, at rest or not, one of them with a cover or without. *)
MCReports ==
  {Track("t1", "u1", "Playing"), Track("t1", "u1", "Paused"),
   Track("t2", "u2", "Playing"), Track("t2", NoUri, "Paused"),
   Track("t1", "u1", "Buffering")}

MCPinLists ==
  {[slot \in Slots |-> IF slot = 3 THEN [id |-> 1, title |-> "p1", art |-> "u1"]
                       ELSE None]}

(* Everywhere with the pad and the finger, while the network comes up and  *)
(* the pins arrive. *)
Wandering ==
  [first |-> {"Launcher", "HifiControl"},
   buttons |-> {"Down", "Right", "Select", "Back"},
   networks |-> {"Connecting", "Online"}, reports |-> {}, covers |-> {"u1"},
   pinLists |-> MCPinLists, pinCovers |-> {<<3, "u1">>, <<3, "u2">>},
   time |-> 3, jump |-> 2, taps |-> 4, failures |-> 0]

(* The Now Playing page: tracks and covers come and go, the volume is      *)
(* turned once, and a frame fails. *)
Watching ==
  [first |-> {"HifiControl"}, buttons |-> {"Up"}, networks |-> {},
   reports |-> MCReports, covers |-> Uris, pinLists |-> {}, pinCovers |-> {},
   time |-> 3, jump |-> 1, taps |-> 1, failures |-> 1]

MCWorlds == {Wandering, Watching}
=============================================================================
