--------------------------- MODULE PlaylistMachine ---------------------------
(***************************************************************************)
(* One PlaylistState under every sequence of the calls LpecSession makes   *)
(* on it: the four Ds/Playlist variables, a prefetch of the neighbours and *)
(* a predicted skip.  It implements Hold: the queue position is a value    *)
(* that is defended from the press until the device agrees or time is up.  *)
(***************************************************************************)
EXTENDS Playlist

CONSTANTS
  Queues,    \* the queues the device may report (a set of sequences of ids)
  MetadataOf, \* what ReadList says of an id
  MaxMoves,  \* bound on the calls that move the queue or the position
  MaxTime    \* bound on the clock

ASSUME MachineAssumption ==
  /\ Queues \subseteq Seq(TrackIds)
  /\ MetadataOf \in [TrackIds -> Metadata]
  /\ MaxMoves \in Nat
  /\ MaxTime \in Nat

VARIABLES
  playlist,
  now,     \* the session's clock, now_ms
  wanted,  \* what the prefetch under way has still to read
  moves    \* calls that moved the queue or the position so far

vars == <<playlist, now, wanted, moves>>

Init ==
  /\ playlist = EmptyPlaylist
  /\ now = 0
  /\ wanted = <<>>
  /\ moves = 0

(* Counts a call that may move the queue or the position, up to MaxMoves. *)
Move ==
  /\ moves < MaxMoves
  /\ moves' = moves + 1

(* poll takes the clock, so it stands still during a prefetch. *)
Tick ==
  /\ wanted = <<>>
  /\ now < MaxTime
  /\ now' = now + 1
  /\ UNCHANGED <<playlist, wanted, moves>>

(* The variables of a Ds/Playlist event.  They also arrive while a ReadList *)
(* of the prefetch waits for its answer.                                   *)
EventIdArray(ids) ==
  /\ Move
  /\ playlist' = SetIds(playlist, ids)
  /\ UNCHANGED <<now, wanted>>

EventRepeat(on) ==
  /\ Move
  /\ playlist' = [playlist EXCEPT !.repeat = on]
  /\ UNCHANGED <<now, wanted>>

EventShuffle(on) ==
  /\ Move
  /\ playlist' = [playlist EXCEPT !.shuffle = on]
  /\ UNCHANGED <<now, wanted>>

EventId(id) ==
  /\ Move
  /\ playlist' = ReportedId(playlist, id, now)
  /\ UNCHANGED <<now, wanted>>

(* predict_skip, when there is something to show. *)
PredictSkip(step) ==
  /\ wanted = <<>>
  /\ Move
  /\ CanPredict(playlist, step)
  /\ playlist' = Predict(playlist, step, now)
  /\ UNCHANGED <<now, wanted>>

(* prefetch_neighbours decides once what it wants, then reads one id after *)
(* the other.                                                              *)
BeginPrefetch ==
  /\ wanted = <<>>
  /\ wanted' = IdsNeedingMetadata(playlist)
  /\ UNCHANGED <<playlist, now, moves>>

(* ReadList answers with metadata, which is stored whatever has become of  *)
(* the queue meanwhile.                                                    *)
Fetch ==
  /\ wanted # <<>>
  /\ playlist' = CacheTrack(playlist, Head(wanted), MetadataOf[Head(wanted)])
  /\ wanted' = Tail(wanted)
  /\ UNCHANGED <<now, moves>>

(* The answer describes nothing (the next id is tried) or the action fails *)
(* (the round ends).                                                       *)
FetchNothing ==
  /\ wanted # <<>>
  /\ wanted' \in {Tail(wanted), <<>>}
  /\ UNCHANGED <<playlist, now, moves>>

Next ==
  \/ Tick
  \/ \E ids \in Queues : EventIdArray(ids)
  \/ \E on \in BOOLEAN : EventRepeat(on) \/ EventShuffle(on)
  \/ \E id \in TrackIds : EventId(id)
  \/ \E step \in Steps : PredictSkip(step)
  \/ BeginPrefetch
  \/ Fetch
  \/ FetchNothing

(* status() prefetches on every poll while a neighbour lacks metadata, and *)
(* a device that keeps being asked keeps answering now and then.           *)
Fairness == WF_vars(BeginPrefetch) /\ SF_vars(Fetch)

Spec == Init /\ [][Next]_vars /\ Fairness

-----------------------------------------------------------------------------

(* The shape of the state, the queue and the cache within their ceilings. *)
TypeOK ==
  /\ playlist \in PlaylistStates
  /\ Len(playlist.ids) <= MaxQueueTracks
  /\ Len(playlist.cache) <= TrackCacheLen
  /\ now \in Nat
  /\ wanted \in Seq(TrackIds)
  /\ Len(wanted) <= 2
  /\ moves \in 0..MaxMoves

(* While a guess is held, the position is the guessed one: no report the   *)
(* device still owes about the track skipped away from, and no change of   *)
(* the queue, moves it back (reconcile, apply_playlist_variable).          *)
PositionIsTheGuess ==
  playlist.prediction # None => playlist.current = playlist.prediction.target

(* A prefetch reads what it does not have: no track twice in one round     *)
(* (the neighbours of a short repeating queue are one track), none that is *)
(* cached already, and so no id ever has two entries of which the older    *)
(* would shadow the newer (ids_needing_metadata, cache_track).             *)
NoReadIsWasted ==
  /\ IsInjective(wanted)
  /\ \A i \in DOMAIN wanted : CacheIndex(playlist, wanted[i]) = 0
  /\ \A i, j \in DOMAIN playlist.cache :
       playlist.cache[i].id = playlist.cache[j].id => i = j

(* Skipping there and back returns to the track left, wherever in the queue *)
(* and across the ends of a repeating one, as long as the queue lists no   *)
(* track twice (neighbour_id, for the device's own Next and Previous).     *)
ThereAndBack ==
  \A step \in Steps :
    LET there == NeighbourId(playlist, step)
        back  == IF step = "Forward" THEN "Backward" ELSE "Forward"
    IN  IsInjective(playlist.ids) /\ there # None
          => NeighbourId([playlist EXCEPT !.current = there], back)
               = playlist.current

(* Once the queue and the position rest, the prefetch settles: both        *)
(* neighbours stay cached, the fetch of one never evicting the other in    *)
(* turn for ever (cache_track evicts the oldest entry).                    *)
NeighboursSettle == <>[](IdsNeedingMetadata(playlist) = <<>>)

(* The position is a value optimistically held in the sense of Hold. *)
Position == INSTANCE Hold WITH
  Value <- TrackIds, Nothing <- None, Lifetime <- PredictionTtl,
  shown <- playlist.current,
  guess <- IF playlist.prediction = None THEN None
           ELSE [value |-> playlist.prediction.target,
                 until |-> playlist.prediction.expires],
  clock <- now

(* Every call on the playlist is a press, a report that is followed, a     *)
(* passage of time or nothing, as seen on its position and its guess.      *)
PositionIsHeld == Position!Spec
=============================================================================
