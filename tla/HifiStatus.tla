----------------------------- MODULE HifiStatus -----------------------------
(***************************************************************************)
(* What the runtime and the screen tell each other: HifiStatus, HifiPins   *)
(* and PlaybackState of crates/app-core/src/lib.rs.  A track's words are   *)
(* its title (artist and album go with it) and a cover is the uri it was   *)
(* loaded from.                                                            *)
(***************************************************************************)
EXTENDS Integers, Optional

CONSTANTS
  Titles,     \* titles a status may have, NoTitle (empty) among them
  NoTitle,
  Uris,       \* cover uris
  NoUri,      \* the empty uri
  Slots,      \* the slots of HifiPins
  VolumeMax   \* HIFI_VOLUME_MAX

ASSUME StatusAssumption ==
  /\ NoTitle \in Titles
  /\ NoUri \notin Uris /\ None \notin Uris \cup {NoUri}
  /\ VolumeMax \in Nat

Playbacks == {"Playing", "Paused", "Stopped", "Buffering", "Unknown"}

Statuses == [title : Titles, art : Uris \cup {NoUri}, playback : Playbacks,
             elapsed : Nat, duration : Nat, volume : 0..VolumeMax]

Pins == [id : Nat, title : Titles, art : Uris \cup {NoUri}]

NoPins == [slot \in Slots |-> None]

(* has_live_content of the screen, status_has_live_content of the runtime. *)
HasLiveContent(status) ==
  \/ status.title # NoTitle
  \/ status.duration > 0 \/ status.elapsed > 0 \/ status.volume > 0
  \/ status.playback # "Unknown"
=============================================================================
