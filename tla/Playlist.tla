------------------------------ MODULE Playlist ------------------------------
(***************************************************************************)
(* PlaylistState of crates/app-runtime/src/playlist.rs: the queue the      *)
(* device reported, the position in it, the few tracks whose metadata is   *)
(* cached, and the outstanding guess about where a skip is heading.  The   *)
(* struct is a record and every method a function of it; the modules that  *)
(* own a playlist (PlaylistMachine, SkipSession) turn them into actions.   *)
(*                                                                         *)
(* Track ids are numbers only to be compared; a track's metadata (title,   *)
(* artist, album, art uri, duration) is one member of Metadata.            *)
(***************************************************************************)
EXTENDS Naturals, Sequences, SequencesExt, Optional

CONSTANTS
  TrackIds,        \* what Ds/Playlist:Id can report
  Metadata,        \* what ReadList can describe
  MaxQueueTracks,  \* MAX_QUEUE_TRACKS
  TrackCacheLen,   \* TRACK_CACHE_LEN
  PredictionTtl    \* PREDICTION_TTL_MS

Predictions == [target: TrackIds, expires: Nat]

ASSUME PlaylistAssumption ==
  /\ None \notin TrackIds
  /\ None \notin Metadata
  /\ None \notin Predictions
  /\ MaxQueueTracks \in Nat
  /\ TrackCacheLen \in Nat \ {0}
  /\ PredictionTtl \in Nat

Steps == {"Forward", "Backward"}

CacheEntries == [id: TrackIds, metadata: Metadata]

PlaylistStates ==
  [ids: Seq(TrackIds), current: TrackIds \cup {None},
   repeat: BOOLEAN, shuffle: BOOLEAN,
   cache: Seq(CacheEntries), prediction: Predictions \cup {None}]

EmptyPlaylist ==
  [ids |-> <<>>, current |-> None, repeat |-> FALSE, shuffle |-> FALSE,
   cache |-> <<>>, prediction |-> None]

\* Mutated: the ceiling is forgotten.
SetIdsUncapped(p, ids) == [p EXCEPT !.ids = ids]

(* Replaces the queue; what exceeds the ceiling is dropped, and the cache  *)
(* survives because it is keyed by id.                                     *)
SetIds(p, ids) ==
  [p EXCEPT !.ids = SubSeq(ids, 1, IF Len(ids) < MaxQueueTracks
                                   THEN Len(ids) ELSE MaxQueueTracks)]

(* The first place the current id has in the queue, 0 when it has none. *)
CurrentIndex(p) == SelectInSeq(p.ids, LAMBDA id : id = p.current)

\* Mutated: going back from the first track wraps one short of the last.
NeighbourIndexShort(p, step) ==
  LET i == CurrentIndex(p)
      n == Len(p.ids)
  IN  IF p.shuffle \/ i = 0 THEN 0
      ELSE CASE step = "Forward"  /\ i < n             -> i + 1
             [] step = "Forward"  /\ i = n /\ p.repeat -> 1
             [] step = "Backward" /\ i > 1             -> i - 1
             [] step = "Backward" /\ i = 1 /\ p.repeat /\ n > 1 -> n - 1
             [] OTHER                                  -> 0

(* Where a step leads: to the adjacent place, or round the end when the    *)
(* device repeats the queue; 0 when that cannot be said.                   *)
NeighbourIndex(p, step) ==
  LET i == CurrentIndex(p)
      n == Len(p.ids)
  IN  IF p.shuffle \/ i = 0 THEN 0
      ELSE CASE step = "Forward"  /\ i < n             -> i + 1
             [] step = "Forward"  /\ i = n /\ p.repeat -> 1
             [] step = "Backward" /\ i > 1             -> i - 1
             [] step = "Backward" /\ i = 1 /\ p.repeat -> n
             [] OTHER                                  -> 0

NeighbourId(p, step) ==
  LET i == NeighbourIndex(p, step)
  IN  IF i = 0 THEN None ELSE p.ids[i]

(* The first cache entry of an id, 0 when there is none. *)
CacheIndex(p, id) == SelectInSeq(p.cache, LAMBDA entry : entry.id = id)

Cached(p, id) ==
  LET i == CacheIndex(p, id)
  IN  IF i = 0 THEN None ELSE p.cache[i].metadata

\* Mutated: a track that is both neighbours is listed twice.
IdsNeedingMetadataTwice(p) ==
  LET Lacking(id) == id # None /\ CacheIndex(p, id) = 0
  IN  SelectSeq(<<NeighbourId(p, "Forward"), NeighbourId(p, "Backward")>>,
                Lacking)

(* The neighbours without metadata, forward first, each once. *)
IdsNeedingMetadata(p) ==
  LET forward  == NeighbourId(p, "Forward")
      backward == NeighbourId(p, "Backward")
      Lacking(id) == id # None /\ CacheIndex(p, id) = 0
  IN  (IF Lacking(forward) THEN <<forward>> ELSE <<>>) \o
      (IF Lacking(backward) /\ backward # forward THEN <<backward>> ELSE <<>>)

\* Mutated: the newest entry makes room.
CacheTrackEvictsNewest(p, id, metadata) ==
  LET i     == CacheIndex(p, id)
      entry == [id |-> id, metadata |-> metadata]
  IN  [p EXCEPT !.cache =
         IF i # 0 THEN [@ EXCEPT ![i] = entry]
         ELSE IF Len(@) >= TrackCacheLen THEN [@ EXCEPT ![Len(@)] = entry]
         ELSE Append(@, entry)]

(* Stores metadata: in place when the id is cached, else at the end, the   *)
(* oldest entry making room.                                               *)
CacheTrack(p, id, metadata) ==
  LET i     == CacheIndex(p, id)
      entry == [id |-> id, metadata |-> metadata]
      kept  == IF Len(p.cache) >= TrackCacheLen THEN Tail(p.cache) ELSE p.cache
  IN  [p EXCEPT !.cache = IF i # 0 THEN [p.cache EXCEPT ![i] = entry]
                          ELSE Append(kept, entry)]

(* Whether a skip can be shown ahead of the device.  parse_track_list_entry*)
(* never yields empty metadata, so is_empty needs no case of its own.      *)
CanPredict(p, step) ==
  LET target == NeighbourId(p, step)
  IN  target # None /\ CacheIndex(p, target) # 0

Predict(p, step, now) ==
  LET target == NeighbourId(p, step)
  IN  [p EXCEPT !.current = target,
                !.prediction = [target  |-> target,
                                expires |-> now + PredictionTtl]]

(* reconcile: how an id the device reports bears on the guess. *)
Verdict(p, id, now) ==
  IF p.prediction = None THEN "Idle"
  ELSE IF id = p.prediction.target THEN "Confirmed"
  ELSE IF now >= p.prediction.expires THEN "Expired"
  ELSE "Holding"

\* Mutated: the position follows every report, held guess or not.
ReportedIdUnheld(p, id, now) ==
  [p EXCEPT !.current = id,
            !.prediction = IF Verdict(p, id, now) = "Holding" THEN @ ELSE None]

\* Mutated: a report that disagrees ends the guess at once.
ReportedIdImpatient(p, id, now) == [p EXCEPT !.current = id, !.prediction = None]

\* Mutated: agreement does not end the guess.
ReportedIdUnconfirmed(p, id, now) ==
  CASE Verdict(p, id, now) = "Holding" -> p
    [] Verdict(p, id, now) = "Confirmed" -> [p EXCEPT !.current = id]
    [] OTHER -> [p EXCEPT !.current = id, !.prediction = None]

(* reconcile and set_current_id, as apply_playlist_variable calls them for *)
(* a reported id: a held guess swallows it.                                *)
ReportedId(p, id, now) ==
  IF Verdict(p, id, now) = "Holding" THEN p
  ELSE [p EXCEPT !.current = id, !.prediction = None]
=============================================================================
