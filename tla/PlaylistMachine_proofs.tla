----------------------- MODULE PlaylistMachine_proofs -----------------------
(***************************************************************************)
(* For every queue, cache size and prediction lifetime: the invariants of  *)
(* PlaylistMachine, and that the queue position is a value optimistically  *)
(* held in the sense of Hold.                                              *)
(***************************************************************************)
EXTENDS PlaylistMachine, Methods_proofs

(* The inductive invariant is NoReadIsWasted with the shape of the state:  *)
(* a fetched track is stored under an id that no entry has, and no later   *)
(* id of the round is the one just stored.                                 *)
IInv == TypeOK /\ PositionIsTheGuess /\ NoReadIsWasted

(* What a rest of the round, a prefix dropped, keeps of it. *)
LEMMA RestOfTheRound ==
  ASSUME NEW s \in Seq(TrackIds), IsInjective(s), s # <<>>
  PROVE  /\ Head(s) \in TrackIds
         /\ Tail(s) \in Seq(TrackIds)
         /\ Len(Tail(s)) = Len(s) - 1
         /\ IsInjective(Tail(s))
         /\ \A i \in DOMAIN Tail(s) : /\ i + 1 \in DOMAIN s
                                      /\ Tail(s)[i] = s[i + 1]
                                      /\ Tail(s)[i] # Head(s)
<1>1. /\ Head(s) \in TrackIds /\ Tail(s) \in Seq(TrackIds)
      /\ Len(Tail(s)) = Len(s) - 1 /\ Head(s) = s[1]
      /\ Len(s) \in Nat /\ Len(s) >= 1
      /\ DOMAIN s = 1..Len(s) /\ DOMAIN Tail(s) = 1..(Len(s) - 1)
      /\ \A i \in 1..(Len(s) - 1) : Tail(s)[i] = s[i + 1]
  BY HeadTailProperties, LenProperties, EmptySeq
<1>2. \A i, j \in 1..Len(s) : s[i] = s[j] => i = j
  BY <1>1 DEF IsInjective
<1>3. \A i \in 1..(Len(s) - 1) : i + 1 \in 1..Len(s) /\ s[i + 1] # s[1]
  BY <1>1, <1>2
<1>4. IsInjective(Tail(s))
  <2> SUFFICES ASSUME NEW i \in 1..(Len(s) - 1), NEW j \in 1..(Len(s) - 1),
                      Tail(s)[i] = Tail(s)[j]
               PROVE  i = j
    BY <1>1 DEF IsInjective
  <2>1. s[i + 1] = s[j + 1] /\ i + 1 \in 1..Len(s) /\ j + 1 \in 1..Len(s)
    BY <1>1
  <2>2. i + 1 = j + 1
    BY <1>2, <2>1
  <2> QED
    BY <2>2
<1> QED
  BY <1>1, <1>3, <1>4

(* CacheIndex depends on the cache alone. *)
LEMMA SameCache ==
  ASSUME NEW p, NEW q, p.cache = q.cache, NEW id
  PROVE  CacheIndex(p, id) = CacheIndex(q, id)
BY DEF CacheIndex

(* It holds of a playlist that has heard nothing (PlaylistState::default). *)
LEMMA InitIInv == Init => IInv
<1> SUFFICES ASSUME Init PROVE IInv
  OBVIOUS
<1>1. EmptyPlaylist \in PlaylistStates
  BY DEF EmptyPlaylist, PlaylistStates
<1>2. /\ EmptyPlaylist.ids = <<>> /\ EmptyPlaylist.cache = <<>>
      /\ EmptyPlaylist.prediction = None
  BY DEF EmptyPlaylist
<1>3. TypeOK
  BY <1>1, <1>2, PlaylistAssumption, MachineAssumption DEF Init, TypeOK
<1>4. PositionIsTheGuess
  BY <1>2 DEF Init, PositionIsTheGuess
<1>5. NoReadIsWasted
  BY <1>2 DEF Init, NoReadIsWasted, IsInjective
<1> QED
  BY <1>3, <1>4, <1>5 DEF IInv

(* What the steps that leave cache and round alone have to show. *)
LEMMA NothingRead ==
  ASSUME NoReadIsWasted, wanted' = wanted, playlist'.cache = playlist.cache
  PROVE  NoReadIsWasted'
<1>1. \A id : CacheIndex(playlist', id) = CacheIndex(playlist, id)
  BY SameCache
<1> QED
  BY <1>1 DEF NoReadIsWasted

(* Every call on the playlist keeps it. *)
LEMMA StepIInv == IInv /\ [Next]_vars => IInv'
<1> SUFFICES ASSUME IInv, [Next]_vars PROVE IInv'
  OBVIOUS
<1> USE DEF IInv
<1>1. CASE Tick
  <2>1. NoReadIsWasted'
    BY <1>1, NothingRead DEF Tick
  <2> QED
    BY <1>1, <2>1 DEF Tick, TypeOK, PositionIsTheGuess
<1>2. CASE \E ids \in Queues : EventIdArray(ids)
  <2>1. PICK ids \in Queues : EventIdArray(ids)
    BY <1>2
  <2>2. ids \in Seq(TrackIds)
    BY MachineAssumption
  <2>3. /\ playlist' \in PlaylistStates /\ Len(playlist'.ids) <= MaxQueueTracks
        /\ playlist'.current = playlist.current
        /\ playlist'.cache = playlist.cache
        /\ playlist'.prediction = playlist.prediction
    BY <2>1, <2>2, SetIdsProperty DEF EventIdArray, TypeOK
  <2>4. NoReadIsWasted'
    BY <2>1, <2>3, NothingRead DEF EventIdArray
  <2>5. TypeOK'
    BY <2>1, <2>3, MachineAssumption DEF EventIdArray, Move, TypeOK
  <2> QED
    BY <2>3, <2>4, <2>5 DEF PositionIsTheGuess
<1>3. CASE \E on \in BOOLEAN : EventRepeat(on) \/ EventShuffle(on)
  <2>1. PICK on \in BOOLEAN : EventRepeat(on) \/ EventShuffle(on)
    BY <1>3
  <2>2. /\ playlist' \in PlaylistStates /\ playlist'.ids = playlist.ids
        /\ playlist'.current = playlist.current
        /\ playlist'.cache = playlist.cache
        /\ playlist'.prediction = playlist.prediction
    BY <2>1 DEF EventRepeat, EventShuffle, TypeOK, PlaylistStates
  <2>3. Move /\ now' = now /\ wanted' = wanted
    BY <2>1 DEF EventRepeat, EventShuffle
  <2>4. NoReadIsWasted'
    BY <2>2, <2>3, NothingRead
  <2>5. TypeOK'
    BY <2>2, <2>3, MachineAssumption DEF Move, TypeOK
  <2> QED
    BY <2>2, <2>4, <2>5 DEF PositionIsTheGuess
<1>4. CASE \E id \in TrackIds : EventId(id)
  <2>1. PICK id \in TrackIds : EventId(id)
    BY <1>4
  <2>2. playlist' = ReportedId(playlist, id, now)
    BY <2>1 DEF EventId
  <2>3. /\ playlist' \in PlaylistStates /\ playlist'.ids = playlist.ids
        /\ playlist'.cache = playlist.cache
    BY <2>2, ReportedIdProperty DEF TypeOK
  <2>4. playlist' = playlist \/ playlist'.prediction = None
    BY <2>2 DEF ReportedId, TypeOK, PlaylistStates
  <2>5. NoReadIsWasted'
    BY <2>1, <2>3, NothingRead DEF EventId
  <2>6. TypeOK'
    BY <2>1, <2>3, MachineAssumption DEF EventId, Move, TypeOK
  <2> QED
    BY <2>4, <2>5, <2>6 DEF PositionIsTheGuess
<1>5. CASE \E step \in Steps : PredictSkip(step)
  <2>1. PICK step \in Steps : PredictSkip(step)
    BY <1>5
  <2>2. /\ playlist' \in PlaylistStates /\ playlist'.ids = playlist.ids
        /\ playlist'.cache = playlist.cache
        /\ playlist'.prediction = [target |-> playlist'.current,
                                   expires |-> now + PredictionTtl]
    BY <2>1, PredictProperty DEF PredictSkip, TypeOK
  <2>3. NoReadIsWasted'
    BY <2>1, <2>2, NothingRead DEF PredictSkip
  <2>4. TypeOK'
    BY <2>1, <2>2, MachineAssumption DEF PredictSkip, Move, TypeOK
  <2> QED
    BY <2>2, <2>3, <2>4 DEF PositionIsTheGuess
<1>6. CASE BeginPrefetch
  <2>1. /\ wanted' \in Seq(TrackIds) /\ Len(wanted') \in 0..2
        /\ IsInjective(wanted')
        /\ \A i \in DOMAIN wanted' : CacheIndex(playlist, wanted'[i]) = 0
    BY <1>6, IdsNeedingMetadataProperty DEF BeginPrefetch, TypeOK
  <2>2. TypeOK'
    BY <1>6, <2>1 DEF BeginPrefetch, TypeOK
  <2>3. NoReadIsWasted'
    BY <1>6, <2>1 DEF BeginPrefetch, NoReadIsWasted
  <2> QED
    BY <1>6, <2>2, <2>3 DEF BeginPrefetch, PositionIsTheGuess
<1>7. CASE Fetch
  <2>1. /\ Head(wanted) \in TrackIds /\ Tail(wanted) \in Seq(TrackIds)
        /\ Len(Tail(wanted)) = Len(wanted) - 1 /\ IsInjective(Tail(wanted))
        /\ \A i \in DOMAIN Tail(wanted) :
             /\ i + 1 \in DOMAIN wanted
             /\ Tail(wanted)[i] = wanted[i + 1]
             /\ Tail(wanted)[i] # Head(wanted)
    BY <1>7, RestOfTheRound DEF Fetch, TypeOK, NoReadIsWasted
  <2>2. MetadataOf[Head(wanted)] \in Metadata
    BY <2>1, MachineAssumption
  <2>3. /\ playlist' \in PlaylistStates /\ Len(playlist'.cache) <= TrackCacheLen
        /\ playlist'.ids = playlist.ids /\ playlist'.current = playlist.current
        /\ playlist'.prediction = playlist.prediction
        /\ \A i, j \in DOMAIN playlist'.cache :
             playlist'.cache[i].id = playlist'.cache[j].id => i = j
        /\ \A other : other # Head(wanted) /\ CacheIndex(playlist, other) = 0
                         => CacheIndex(playlist', other) = 0
    BY <1>7, <2>1, <2>2, CacheTrackProperty DEF Fetch, TypeOK, NoReadIsWasted
  <2>4. wanted' = Tail(wanted) /\ now' = now /\ moves' = moves
    BY <1>7 DEF Fetch
  <2>5. TypeOK'
    BY <2>1, <2>3, <2>4 DEF TypeOK
  <2>6. \A i \in DOMAIN Tail(wanted) : CacheIndex(playlist, Tail(wanted)[i]) = 0
    BY <2>1 DEF NoReadIsWasted
  <2>7. NoReadIsWasted'
    BY <2>1, <2>3, <2>4, <2>6 DEF NoReadIsWasted
  <2> QED
    BY <2>3, <2>5, <2>7 DEF PositionIsTheGuess
<1>8. CASE FetchNothing
  <2>1. /\ Tail(wanted) \in Seq(TrackIds)
        /\ Len(Tail(wanted)) = Len(wanted) - 1 /\ IsInjective(Tail(wanted))
        /\ \A i \in DOMAIN Tail(wanted) : /\ i + 1 \in DOMAIN wanted
                                          /\ Tail(wanted)[i] = wanted[i + 1]
    BY <1>8, RestOfTheRound DEF FetchNothing, TypeOK, NoReadIsWasted
  <2>2. playlist' = playlist /\ now' = now /\ moves' = moves
    BY <1>8 DEF FetchNothing
  <2>3. CASE wanted' = Tail(wanted)
    <3>1. \A i \in DOMAIN Tail(wanted) : CacheIndex(playlist, Tail(wanted)[i]) = 0
      BY <2>1 DEF NoReadIsWasted
    <3>2. TypeOK'
      BY <2>1, <2>2, <2>3 DEF TypeOK
    <3>3. NoReadIsWasted'
      BY <2>1, <2>2, <2>3, <3>1 DEF NoReadIsWasted
    <3> QED
      BY <2>2, <3>2, <3>3 DEF PositionIsTheGuess
  <2>4. CASE wanted' = <<>>
    <3>1. TypeOK'
      BY <2>2, <2>4 DEF TypeOK
    <3>2. NoReadIsWasted'
      BY <2>2, <2>4 DEF NoReadIsWasted, IsInjective
    <3> QED
      BY <2>2, <3>1, <3>2 DEF PositionIsTheGuess
  <2> QED
    BY <1>8, <2>3, <2>4 DEF FetchNothing
<1>9. CASE UNCHANGED vars
  BY <1>9 DEF vars, TypeOK, PositionIsTheGuess, NoReadIsWasted
<1> QED
  BY <1>1, <1>2, <1>3, <1>4, <1>5, <1>6, <1>7, <1>8, <1>9 DEF Next

(* It is an invariant of the playlist, for every queue, ceiling and lifetime. *)
THEOREM IInvHolds == Spec => []IInv
  BY InitIInv, StepIInv, PTL DEF Spec

(* The queue never exceeds its ceiling nor the cache its own, and the state *)
(* keeps its shape, whatever the device reports (set_ids, cache_track).     *)
THEOREM TypeCorrect == Spec => []TypeOK
  BY IInvHolds, PTL DEF IInv

(* While a guess is held the position is the guessed one (reconcile,       *)
(* set_current_id, predict).                                               *)
THEOREM PositionIsAlwaysTheGuess == Spec => []PositionIsTheGuess
  BY IInvHolds, PTL DEF IInv

(* No round of the prefetch reads a track twice or one it has, and no id   *)
(* has two cache entries (ids_needing_metadata, cache_track).              *)
THEOREM NoReadIsEverWasted == Spec => []NoReadIsWasted
  BY IInvHolds, PTL DEF IInv

(* Skipping there and back returns, in a queue of any length (neighbour_id). *)
THEOREM ThereAndAlwaysBack == Spec => []ThereAndBack
<1>1. TypeOK => ThereAndBack
  <2> SUFFICES ASSUME TypeOK, NEW step \in Steps, IsInjective(playlist.ids),
                      NeighbourId(playlist, step) # None
               PROVE  NeighbourId(
                        [playlist EXCEPT !.current = NeighbourId(playlist, step)],
                        IF step = "Forward" THEN "Backward" ELSE "Forward")
                      = playlist.current
    BY DEF ThereAndBack
  <2>1. PICK back \in Steps :
          back # step /\ back = IF step = "Forward" THEN "Backward" ELSE "Forward"
    BY DEF Steps
  <2>2. playlist \in PlaylistStates
    BY DEF TypeOK
  <2> QED
    BY <2>1, <2>2, ThereAndBackAgain
<1> QED
  BY <1>1, TypeCorrect, PTL

(* The queue position implements an optimistic value: a press, a report    *)
(* that is followed, or the passage of time, and nothing else, changes it  *)
(* or ends its guess (predict, reconcile, apply_playlist_variable).        *)
THEOREM PositionImplementsHold == Spec => PositionIsHeld
<1>1. Init => Position!Init
  BY DEF Init, EmptyPlaylist, Position!Init
<1>2. TypeOK /\ [Next]_vars => [Position!Next]_Position!holdVars
  <2> SUFFICES ASSUME TypeOK, [Next]_vars
               PROVE  Position!Next \/ UNCHANGED Position!holdVars
    OBVIOUS
  <2> USE DEF Position!holdVars
  <2>0. playlist \in PlaylistStates /\ now \in Nat
    BY DEF TypeOK
  <2>1. CASE Tick
    <3>1. Position!Time
      BY <2>0, <2>1 DEF Tick, Position!Time
    <3> QED
      BY <3>1 DEF Position!Next
  <2>2. CASE \E ids \in Queues : EventIdArray(ids)
    <3>1. PICK ids \in Queues : EventIdArray(ids)
      BY <2>2
    <3>2. playlist'.current = playlist.current /\ playlist'.prediction = playlist.prediction
      BY <2>0, <3>1, MachineAssumption, SetIdsProperty DEF EventIdArray
    <3> QED
      BY <3>1, <3>2 DEF EventIdArray
  <2>3. CASE \E on \in BOOLEAN : EventRepeat(on) \/ EventShuffle(on)
    BY <2>0, <2>3 DEF EventRepeat, EventShuffle, PlaylistStates
  <2>4. CASE \E id \in TrackIds : EventId(id)
    <3>1. PICK id \in TrackIds : EventId(id)
      BY <2>4
    <3>2. playlist' = ReportedId(playlist, id, now) /\ now' = now
      BY <3>1 DEF EventId
    <3>3. CASE Verdict(playlist, id, now) = "Holding"
      BY <3>2, <3>3 DEF ReportedId
    <3>4. CASE Verdict(playlist, id, now) # "Holding"
      <4>1. playlist'.current = id /\ playlist'.prediction = None
        BY <2>0, <3>2, <3>4 DEF ReportedId, PlaylistStates
      <4>2. \/ playlist.prediction = None
            \/ playlist.prediction.target = id
            \/ now >= playlist.prediction.expires
        BY <3>4 DEF Verdict
      <4>3. Position!Follow(id)
        BY <3>2, <4>1, <4>2 DEF Position!Follow
      <4> QED
        BY <4>3 DEF Position!Next
    <3> QED
      BY <3>3, <3>4
  <2>5. CASE \E step \in Steps : PredictSkip(step)
    <3>1. PICK step \in Steps : PredictSkip(step)
      BY <2>5
    <3>2. /\ playlist'.current \in TrackIds
          /\ playlist'.prediction = [target |-> playlist'.current,
                                     expires |-> now + PredictionTtl]
          /\ playlist' \in PlaylistStates /\ now' = now
      BY <2>0, <3>1, PredictProperty DEF PredictSkip
    <3>3. playlist'.prediction # None
      BY <2>0, <3>2, PlaylistAssumption DEF Predictions
    <3>4. Position!Press(playlist'.current)
      BY <3>2, <3>3 DEF Position!Press
    <3> QED
      BY <3>2, <3>4 DEF Position!Next
  <2>6. CASE BeginPrefetch \/ FetchNothing \/ UNCHANGED vars
    BY <2>6 DEF BeginPrefetch, FetchNothing, vars
  <2>7. CASE Fetch
    <3>1. CacheTrack(playlist, Head(wanted), MetadataOf[Head(wanted)]).current
            = playlist.current
          /\ CacheTrack(playlist, Head(wanted), MetadataOf[Head(wanted)]).prediction
            = playlist.prediction
      BY <2>0 DEF CacheTrack, PlaylistStates
    <3> QED
      BY <2>7, <3>1 DEF Fetch
  <2> QED
    BY <2>1, <2>2, <2>3, <2>4, <2>5, <2>6, <2>7 DEF Next
<1> QED
  BY <1>1, <1>2, TypeCorrect, PTL DEF Spec, PositionIsHeld, Position!Spec
=============================================================================
