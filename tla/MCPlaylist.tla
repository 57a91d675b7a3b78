----------------------------- MODULE MCPlaylist -----------------------------
(* Small instances of PlaylistMachine for TLC. *)
EXTENDS PlaylistMachine

(* A queue, the same reordered and longer than the ceiling, a duplicate,   *)
(* two tracks, a single one, none.                                         *)
MCQueues ==
  {<<1, 2, 3>>, <<3, 1, 2, 3>>, <<1, 2, 1>>, <<2, 3>>, <<2>>, <<>>}

MCMetadataOf == [id \in TrackIds |-> id + 10]
MCMetadata == {id + 10 : id \in TrackIds}
=============================================================================
