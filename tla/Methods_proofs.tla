--------------------------- MODULE Methods_proofs ---------------------------
(***************************************************************************)
(* What the methods of the two structs of state return and keep.           *)
(*                                                                         *)
(* PlaylistState: the ceilings of queue and cache, places in the queue,    *)
(* the round of a prefetch.                                                *)
(*                                                                         *)
(* The now-playing screen's State: its shape, the deadline of a cover that *)
(* is not the status's, the clock that counts the position, and the volume *)
(* it holds.                                                               *)
(***************************************************************************)
EXTENDS Playlist, HifiScreen, SequenceTheorems, WellFoundedInduction, TLAPS


(* The smallest of a set of numbers is in it and below all of it. *)
LEMMA MinOfNumbers ==
  ASSUME NEW T \in SUBSET Nat, T # {}
  PROVE  /\ Min(T) \in T
         /\ \A y \in T : Min(T) <= y
<1>1. PICK x \in T : \A y \in T : <<y, x>> \notin OpToRel(<, Nat)
  BY NatLessThanWellFounded, WFMin, Zenon
<1>2. \A y \in T : ~(y < x)
  BY <1>1, Zenon DEF OpToRel
<1>3. \A y \in T : x <= y
  BY <1>2
<1> QED
  BY <1>3 DEF Min

(* The current place: where the current id is first, or 0 when it is nowhere. *)
LEMMA CurrentIndexProperty ==
  ASSUME NEW p \in PlaylistStates
  PROVE  /\ CurrentIndex(p) \in 0..Len(p.ids)
         /\ CurrentIndex(p) # 0 => p.ids[CurrentIndex(p)] = p.current
         /\ CurrentIndex(p) = 0 => \A i \in 1..Len(p.ids) : p.ids[i] # p.current
<1> DEFINE I == {i \in 1..Len(p.ids) : p.ids[i] = p.current}
<1>1. CurrentIndex(p) = IF I # {} THEN Min(I) ELSE 0
  BY DEF CurrentIndex, SelectInSeq
<1>2. Len(p.ids) \in Nat
  BY DEF PlaylistStates
<1>3. CASE I = {}
  BY <1>1, <1>2, <1>3
<1>4. CASE I # {}
  <2>1. I \in SUBSET Nat
    BY <1>2
  <2>2. Min(I) \in I
    <3> HIDE DEF I
    <3> QED BY <2>1, <1>4, MinOfNumbers
  <2> QED
    BY <1>1, <1>2, <1>4, <2>2
<1> QED
  BY <1>3, <1>4

(* The place of an id in the cache, or 0 when it has none. *)
LEMMA CacheIndexProperty ==
  ASSUME NEW p \in PlaylistStates, NEW id
  PROVE  /\ CacheIndex(p, id) \in 0..Len(p.cache)
         /\ CacheIndex(p, id) # 0 => p.cache[CacheIndex(p, id)].id = id
         /\ CacheIndex(p, id) = 0 => \A i \in 1..Len(p.cache) : p.cache[i].id # id
<1> DEFINE I == {i \in 1..Len(p.cache) : p.cache[i].id = id}
<1>1. CacheIndex(p, id) = IF I # {} THEN Min(I) ELSE 0
  BY DEF CacheIndex, SelectInSeq
<1>2. Len(p.cache) \in Nat
  BY DEF PlaylistStates
<1>3. CASE I = {}
  BY <1>1, <1>2, <1>3
<1>4. CASE I # {}
  <2>1. I \in SUBSET Nat
    BY <1>2
  <2>2. Min(I) \in I
    <3> HIDE DEF I
    <3> QED BY <2>1, <1>4, MinOfNumbers
  <2> QED
    BY <1>1, <1>2, <1>4, <2>2
<1> QED
  BY <1>3, <1>4

(* A step leads to a place in the queue or nowhere. *)
LEMMA NeighbourIndexProperty ==
  ASSUME NEW p \in PlaylistStates, NEW step \in Steps
  PROVE  NeighbourIndex(p, step) \in 0..Len(p.ids)
<1>1. CurrentIndex(p) \in 0..Len(p.ids) /\ Len(p.ids) \in Nat
  BY CurrentIndexProperty DEF PlaylistStates
<1>2. CASE p.shuffle \/ CurrentIndex(p) = 0
  <2>1. NeighbourIndex(p, step) = 0
    BY <1>2, Zenon DEF NeighbourIndex
  <2> QED
    BY <1>1, <2>1
<1>3. CASE ~p.shuffle /\ CurrentIndex(p) # 0 /\ step = "Forward"
  BY <1>1, <1>3 DEF NeighbourIndex
<1>4. CASE ~p.shuffle /\ CurrentIndex(p) # 0 /\ step = "Backward"
  BY <1>1, <1>4 DEF NeighbourIndex
<1> QED
  BY <1>2, <1>3, <1>4 DEF Steps

(* A neighbour is a track of the queue. *)
LEMMA NeighbourIdType ==
  ASSUME NEW p \in PlaylistStates, NEW step \in Steps
  PROVE  NeighbourId(p, step) \in TrackIds \cup {None}
<1>1. NeighbourIndex(p, step) \in 0..Len(p.ids)
  BY NeighbourIndexProperty
<1>2. p.ids \in Seq(TrackIds)
  BY DEF PlaylistStates
<1>3. CASE NeighbourIndex(p, step) = 0
  BY <1>3 DEF NeighbourId
<1>4. CASE NeighbourIndex(p, step) # 0
  <2>1. p.ids[NeighbourIndex(p, step)] \in TrackIds
    BY <1>1, <1>2, <1>4, ElementOfSeq
  <2> QED
    BY <2>1 DEF NeighbourId
<1> QED
  BY <1>3, <1>4

(* Lists of one element and of none, put together. *)
LEMMA Concatenated ==
  ASSUME NEW a, NEW b
  PROVE  /\ <<a>> \o <<b>> = <<a, b>>
         /\ <<a>> \o <<>> = <<a>>
         /\ <<>> \o <<a>> = <<a>>
<1> DEFINE S == {a, b}
<1>1. <<a>> \in Seq(S) /\ <<b>> \in Seq(S) /\ <<a, b>> \in Seq(S)
  OBVIOUS
<1>2. <<a>> \o <<b>> \in Seq(S) /\ Len(<<a>> \o <<b>>) = 2
  BY <1>1, ConcatProperties
<1>3. (<<a>> \o <<b>>)[1] = a /\ (<<a>> \o <<b>>)[2] = b
  BY <1>1, ConcatProperties
<1>4. <<a>> \o <<b>> = <<a, b>>
  <2> DEFINE s == <<a>> \o <<b>>
             t == <<a, b>>
  <2>1. s \in Seq(S) /\ t \in Seq(S) /\ Len(s) = Len(t)
    BY <1>1, <1>2
  <2>2. \A i \in 1..Len(s) : s[i] = t[i]
    BY <1>2, <1>3
  <2>3. s = t
    <3> HIDE DEF s, t
    <3> QED BY <2>1, <2>2, SeqEqual
  <2> QED
    BY <2>3
<1> QED
  BY <1>1, <1>4, ConcatEmptySeq

(* What a prefetch wants: at most two tracks, each once, none of them cached. *)
LEMMA IdsNeedingMetadataProperty ==
  ASSUME NEW p \in PlaylistStates
  PROVE  LET ids == IdsNeedingMetadata(p)
         IN  /\ ids \in Seq(TrackIds)
             /\ Len(ids) \in 0..2
             /\ IsInjective(ids)
             /\ \A i \in DOMAIN ids : CacheIndex(p, ids[i]) = 0
<1> DEFINE forward  == NeighbourId(p, "Forward")
           backward == NeighbourId(p, "Backward")
           Lacking(id) == id # None /\ CacheIndex(p, id) = 0
<1>1. forward \in TrackIds \cup {None} /\ backward \in TrackIds \cup {None}
  BY NeighbourIdType DEF Steps
<1>2. IdsNeedingMetadata(p)
        = (IF Lacking(forward) THEN <<forward>> ELSE <<>>) \o
          (IF Lacking(backward) /\ backward # forward THEN <<backward>> ELSE <<>>)
  BY DEF IdsNeedingMetadata
<1> HIDE DEF forward, backward
<1>3. CASE Lacking(forward) /\ Lacking(backward) /\ backward # forward
  <2>1. IdsNeedingMetadata(p) = <<forward>> \o <<backward>>
    BY <1>2, <1>3
  <2>2. <<forward>> \o <<backward>> = <<forward, backward>>
    BY Concatenated
  <2>3. IdsNeedingMetadata(p) = <<forward, backward>>
    BY <2>1, <2>2
  <2>4. forward \in TrackIds /\ backward \in TrackIds
    BY <1>1, <1>3
  <2>5. DOMAIN <<forward, backward>> = {1, 2}
    OBVIOUS
  <2>6. IsInjective(<<forward, backward>>)
    BY <1>3, <2>5 DEF IsInjective
  <2> QED
    BY <1>3, <2>3, <2>4, <2>5, <2>6
<1>4. CASE Lacking(forward) /\ ~(Lacking(backward) /\ backward # forward)
  <2>1. IdsNeedingMetadata(p) = <<forward>> \o <<>>
    BY <1>2, <1>4
  <2>2. <<forward>> \o <<>> = <<forward>>
    BY Concatenated
  <2> QED
    BY <1>1, <1>4, <2>1, <2>2 DEF IsInjective
<1>5. CASE ~Lacking(forward) /\ Lacking(backward) /\ backward # forward
  <2>1. IdsNeedingMetadata(p) = <<>> \o <<backward>>
    BY <1>2, <1>5
  <2>2. <<>> \o <<backward>> = <<backward>>
    BY Concatenated
  <2> QED
    BY <1>1, <1>5, <2>1, <2>2 DEF IsInjective
<1>6. CASE ~Lacking(forward) /\ ~(Lacking(backward) /\ backward # forward)
  <2>1. IdsNeedingMetadata(p) = <<>>
    BY <1>2, <1>6
  <2> QED
    BY <2>1 DEF IsInjective
<1> QED
  BY <1>3, <1>4, <1>5, <1>6

(* Replacing the queue keeps the shape and the ceiling. *)
LEMMA SetIdsProperty ==
  ASSUME NEW p \in PlaylistStates, NEW ids \in Seq(TrackIds)
  PROVE  /\ SetIds(p, ids) \in PlaylistStates
         /\ Len(SetIds(p, ids).ids) <= MaxQueueTracks
         /\ SetIds(p, ids).current = p.current
         /\ SetIds(p, ids).cache = p.cache
         /\ SetIds(p, ids).prediction = p.prediction
<1> DEFINE n == IF Len(ids) < MaxQueueTracks THEN Len(ids) ELSE MaxQueueTracks
<1>1. n \in Nat /\ n <= Len(ids) /\ n <= MaxQueueTracks
  BY PlaylistAssumption
<1>2. \A i \in 1..n : ids[i] \in TrackIds
  BY <1>1, ElementOfSeq
<1>3. SubSeq(ids, 1, n) \in Seq(TrackIds) /\ Len(SubSeq(ids, 1, n)) = n
  BY <1>1, <1>2, SubSeqProperties
<1>4. SetIds(p, ids) = [p EXCEPT !.ids = SubSeq(ids, 1, n)]
  BY DEF SetIds
<1> QED
  BY <1>1, <1>3, <1>4 DEF PlaylistStates

(* A reported id keeps the shape, and moves only the position and the guess. *)
LEMMA ReportedIdProperty ==
  ASSUME NEW p \in PlaylistStates, NEW id \in TrackIds, NEW now \in Nat
  PROVE  /\ ReportedId(p, id, now) \in PlaylistStates
         /\ ReportedId(p, id, now).ids = p.ids
         /\ ReportedId(p, id, now).cache = p.cache
  BY DEF ReportedId, PlaylistStates

(* A prediction keeps the shape, heads for a neighbour, and touches neither *)
(* the queue nor the cache.                                                 *)
LEMMA PredictProperty ==
  ASSUME NEW p \in PlaylistStates, NEW step \in Steps, NEW now \in Nat,
         CanPredict(p, step)
  PROVE  /\ Predict(p, step, now) \in PlaylistStates
         /\ Predict(p, step, now).ids = p.ids
         /\ Predict(p, step, now).cache = p.cache
         /\ Predict(p, step, now).current \in TrackIds
         /\ Predict(p, step, now).prediction
              = [target |-> Predict(p, step, now).current,
                 expires |-> now + PredictionTtl]
<1>1. NeighbourId(p, step) \in TrackIds
  BY NeighbourIdType DEF CanPredict
<1>2. [target |-> NeighbourId(p, step), expires |-> now + PredictionTtl]
        \in Predictions
  BY <1>1, PlaylistAssumption DEF Predictions
<1> QED
  BY <1>1, <1>2 DEF Predict, PlaylistStates

(* In a queue without repetitions the current place is where the current    *)
(* track is.                                                                *)
LEMMA CurrentIndexOf ==
  ASSUME NEW p \in PlaylistStates, IsInjective(p.ids),
         NEW i \in 1..Len(p.ids), p.ids[i] = p.current
  PROVE  CurrentIndex(p) = i
<1>1. CurrentIndex(p) # 0
  BY CurrentIndexProperty
<1>2. CurrentIndex(p) \in 1..Len(p.ids)
  BY <1>1, CurrentIndexProperty
<1>3. p.ids[CurrentIndex(p)] = p.current
  BY <1>1, CurrentIndexProperty
<1>4. DOMAIN p.ids = 1..Len(p.ids)
  BY LenProperties DEF PlaylistStates
<1> QED
  BY <1>2, <1>3, <1>4 DEF IsInjective

(* A step and a step back end where they began. *)
LEMMA ThereAndBackAgain ==
  ASSUME NEW p \in PlaylistStates, IsInjective(p.ids),
         NEW step \in Steps, NEW back \in Steps, back # step,
         NeighbourId(p, step) # None
  PROVE  NeighbourId([p EXCEPT !.current = NeighbourId(p, step)], back) = p.current
<1> DEFINE n == Len(p.ids)
           i == CurrentIndex(p)
           j == NeighbourIndex(p, step)
           q == [p EXCEPT !.current = NeighbourId(p, step)]
<1>1. n \in Nat /\ i \in 0..n /\ j \in 0..n
  BY CurrentIndexProperty, NeighbourIndexProperty DEF PlaylistStates
<1>2. j # 0 /\ NeighbourId(p, step) = p.ids[j]
  BY DEF NeighbourId
<1>3. ~p.shuffle /\ i # 0
  BY <1>2 DEF NeighbourIndex
<1>4. p.ids[i] = p.current
  BY <1>3, CurrentIndexProperty
<1>5. q \in PlaylistStates /\ q.ids = p.ids /\ q.current = p.ids[j]
      /\ q.shuffle = p.shuffle /\ q.repeat = p.repeat
  BY <1>2, NeighbourIdType DEF PlaylistStates
<1>6. CurrentIndex(q) = j
  <2>1. IsInjective(q.ids) /\ j \in 1..Len(q.ids) /\ q.ids[j] = q.current
    BY <1>1, <1>2, <1>5
  <2> HIDE DEF q, j
  <2> QED BY <1>5, <2>1, CurrentIndexOf
<1>7. NeighbourIndex(q, back) = i
  <2> HIDE DEF q
  <2>1. CASE step = "Forward" /\ i < n
    <3>1. j = i + 1
      BY <1>1, <1>3, <2>1 DEF NeighbourIndex
    <3> QED
      BY <1>1, <1>3, <1>5, <1>6, <2>1, <3>1 DEF NeighbourIndex, Steps
  <2>2. CASE step = "Forward" /\ ~(i < n)
    <3>1. i = n /\ p.repeat /\ j = 1
      BY <1>1, <1>2, <1>3, <2>2 DEF NeighbourIndex
    <3> QED
      BY <1>1, <1>3, <1>5, <1>6, <2>2, <3>1 DEF NeighbourIndex, Steps
  <2>3. CASE step = "Backward" /\ i > 1
    <3>1. j = i - 1
      BY <1>1, <1>3, <2>3 DEF NeighbourIndex
    <3> QED
      BY <1>1, <1>3, <1>5, <1>6, <2>3, <3>1 DEF NeighbourIndex, Steps
  <2>4. CASE step = "Backward" /\ ~(i > 1)
    <3>1. i = 1 /\ p.repeat /\ j = n
      BY <1>1, <1>2, <1>3, <2>4 DEF NeighbourIndex
    <3> QED
      BY <1>1, <1>3, <1>5, <1>6, <2>4, <3>1 DEF NeighbourIndex, Steps
  <2> QED
    BY <2>1, <2>2, <2>3, <2>4 DEF Steps
<1> QED
  BY <1>3, <1>4, <1>5, <1>7 DEF NeighbourId

(* Storing a track's metadata keeps the shape and the ceiling, gives no id a *)
(* second entry, and makes nothing else known.                              *)
LEMMA CacheTrackProperty ==
  ASSUME NEW p \in PlaylistStates, Len(p.cache) <= TrackCacheLen,
         \A i, j \in DOMAIN p.cache : p.cache[i].id = p.cache[j].id => i = j,
         NEW id \in TrackIds, NEW metadata \in Metadata
  PROVE  LET q == CacheTrack(p, id, metadata)
         IN  /\ q \in PlaylistStates
             /\ Len(q.cache) <= TrackCacheLen
             /\ q.ids = p.ids /\ q.current = p.current
             /\ q.prediction = p.prediction
             /\ \A i, j \in DOMAIN q.cache : q.cache[i].id = q.cache[j].id => i = j
             /\ \A other : other # id /\ CacheIndex(p, other) = 0
                             => CacheIndex(q, other) = 0
<1> DEFINE q == CacheTrack(p, id, metadata)
           at == CacheIndex(p, id)
           entry == [id |-> id, metadata |-> metadata]
           n == Len(p.cache)
           kept == IF n >= TrackCacheLen THEN Tail(p.cache) ELSE p.cache
<1>1. p.cache \in Seq(CacheEntries) /\ n \in Nat /\ DOMAIN p.cache = 1..n
      /\ entry \in CacheEntries /\ TrackCacheLen \in Nat \ {0}
  BY LenProperties, PlaylistAssumption DEF PlaylistStates, CacheEntries
<1>2. \A r \in PlaylistStates :
        (\A other : other # id /\ CacheIndex(p, other) = 0
                    => \A i \in 1..Len(r.cache) : r.cache[i].id # other)
        => \A other : other # id /\ CacheIndex(p, other) = 0
                    => CacheIndex(r, other) = 0
  <2> SUFFICES ASSUME NEW r \in PlaylistStates, NEW other,
                      \A i \in 1..Len(r.cache) : r.cache[i].id # other
               PROVE  CacheIndex(r, other) = 0
    OBVIOUS
  <2>1. CacheIndex(r, other) \in 0..Len(r.cache) /\ Len(r.cache) \in Nat
    BY CacheIndexProperty DEF PlaylistStates
  <2> QED
    BY <2>1, CacheIndexProperty
<1>3. \A other : CacheIndex(p, other) = 0 => \A i \in 1..n : p.cache[i].id # other
  BY CacheIndexProperty
<1>4. CASE at # 0
  <2> DEFINE c == [p.cache EXCEPT ![at] = entry]
  <2>1. at \in 1..n /\ p.cache[at].id = id
    BY <1>1, <1>4, CacheIndexProperty
  <2>2. /\ c \in Seq(CacheEntries) /\ Len(c) = n
        /\ \A j \in 1..n : c[j] = IF j = at THEN entry ELSE p.cache[j]
    BY <1>1, <2>1, ExceptSeq
  <2>3. q = [p EXCEPT !.cache = c]
    BY <1>4 DEF CacheTrack
  <2>4. DOMAIN c = 1..n
    BY <2>2, LenProperties
  <2>5. \A j \in 1..n : c[j].id = p.cache[j].id
    BY <2>1, <2>2
  <2> HIDE DEF c
  <2>6. q \in PlaylistStates /\ q.cache = c /\ q.ids = p.ids
        /\ q.current = p.current /\ q.prediction = p.prediction
    BY <2>2, <2>3 DEF PlaylistStates
  <2> QED
    BY <1>1, <1>2, <1>3, <2>2, <2>4, <2>5, <2>6
<1>5. CASE at = 0
  <2> DEFINE c == Append(kept, entry)
             d == IF n >= TrackCacheLen THEN 1 ELSE 0
  <2>1. kept \in Seq(CacheEntries) /\ Len(kept) = n - d
        /\ \A i \in 1..(n - d) : kept[i] = p.cache[i + d]
    <3>1. CASE n >= TrackCacheLen
      <4>1. p.cache # <<>>
        BY <1>1, <3>1
      <4> QED
        BY <1>1, <3>1, <4>1, HeadTailProperties
    <3>2. CASE ~(n >= TrackCacheLen)
      BY <1>1, <3>2
    <3> QED
      BY <3>1, <3>2
  <2>2. d \in {0, 1} /\ d <= n /\ n - d + 1 <= TrackCacheLen /\ n - d \in Nat
    BY <1>1
  <2> HIDE DEF kept, d
  <2>3. /\ c \in Seq(CacheEntries) /\ Len(c) = n - d + 1
        /\ \A i \in 1..(n - d) : c[i] = p.cache[i + d]
        /\ c[n - d + 1] = entry
    BY <1>1, <2>1, <2>2, AppendProperties
  <2>4. q = [p EXCEPT !.cache = c]
    BY <1>5 DEF CacheTrack, kept
  <2>5. DOMAIN c = 1..(n - d + 1)
    BY <2>3, LenProperties
  <2> HIDE DEF c
  <2>6. q \in PlaylistStates /\ q.cache = c /\ q.ids = p.ids
        /\ q.current = p.current /\ q.prediction = p.prediction
    BY <2>3, <2>4 DEF PlaylistStates
  <2>7. \A i \in 1..n : p.cache[i].id # id
    BY <1>3, <1>5
  <2>8. /\ \A i \in 1..(n - d) : i + d \in 1..n /\ c[i].id = p.cache[i + d].id
        /\ c[n - d + 1].id = id
    BY <1>1, <2>2, <2>3
  <2>9. \A i, j \in DOMAIN c : c[i].id = c[j].id => i = j
    <3> SUFFICES ASSUME NEW i \in 1..(n - d + 1), NEW j \in 1..(n - d + 1),
                        c[i].id = c[j].id
                 PROVE  i = j
      BY <2>5
    <3>1. CASE i \in 1..(n - d) /\ j \in 1..(n - d)
      <4>1. p.cache[i + d].id = p.cache[j + d].id
            /\ i + d \in DOMAIN p.cache /\ j + d \in DOMAIN p.cache
        BY <1>1, <2>8, <3>1
      <4>2. i + d = j + d
        BY <4>1
      <4> QED
        BY <2>2, <4>2
    <3>2. CASE i = n - d + 1 /\ j \in 1..(n - d)
      <4>1. c[i].id = id
        BY <2>8, <3>2
      <4>2. c[j].id # id
        BY <2>7, <2>8, <3>2
      <4> QED
        BY <4>1, <4>2
    <3>3. CASE i \in 1..(n - d) /\ j = n - d + 1
      <4>1. c[j].id = id
        BY <2>8, <3>3
      <4>2. c[i].id # id
        BY <2>7, <2>8, <3>3
      <4> QED
        BY <4>1, <4>2
    <3>4. CASE i = n - d + 1 /\ j = n - d + 1
      BY <3>4
    <3> QED
      BY <2>2, <3>1, <3>2, <3>3, <3>4
  <2>10. \A other : other # id /\ CacheIndex(p, other) = 0
                     => \A i \in 1..Len(c) : c[i].id # other
    <3> SUFFICES ASSUME NEW other, other # id, CacheIndex(p, other) = 0,
                        NEW i \in 1..(n - d + 1)
                 PROVE  c[i].id # other
      BY <2>3
    <3>1. CASE i \in 1..(n - d)
      BY <1>3, <2>8, <3>1
    <3>2. CASE i = n - d + 1
      BY <2>8, <3>2
    <3> QED
      BY <2>2, <3>1, <3>2
  <2> QED
    BY <1>2, <2>2, <2>3, <2>6, <2>9, <2>10
<1> QED
  BY <1>4, <1>5
-----------------------------------------------------------------------------
(* The screen. *)

(* A cover that is not the one the status names has a deadline. *)
Attended(s) == s.artwork \notin {None, s.status.art} => s.staleUntil # None

(* While a track plays its position is counted from this second. *)
InTime(s, now) ==
  s.status.playback = "Playing" /\ s.status.duration # 0 /\ ~s.loading
    => s.lastSecond = Second(now)

(* Before the first report there is no track to play. *)
Untold(s) == s.loading => s.status.duration = 0

(* The level held is the level shown. *)
VolumeKept(s) == s.volumeHeld # None => s.status.volume = s.volumeHeld.value

(* A guarded position is no more than the seconds since the press. *)
Guarded(s, now) ==
  s.progressUntil # None =>
    /\ s.progressUntil - OptimisticTtl \in 0..now
    /\ s.status.elapsed <= Second(now) - Second(s.progressUntil - OptimisticTtl)

Sound(s, now) ==
  /\ s \in ScreenStates
  /\ Attended(s) /\ InTime(s, now) /\ Untold(s) /\ VolumeKept(s) /\ Guarded(s, now)
(* A handler other than the dial's and the reports' leaves the volume. *)
KeepsVolume(s, r) ==
  r.status.volume = s.status.volume /\ r.volumeHeld = s.volumeHeld
-----------------------------------------------------------------------------
(* Seconds.                                                                *)

LEMMA SecondType ==
  ASSUME NEW now \in Nat PROVE Second(now) \in Nat
BY ScreenAssumption DEF Second

(* Time does not run backwards in seconds either. *)
LEMMA SecondsGrow ==
  ASSUME NEW a \in Nat, NEW b \in Nat, a <= b
  PROVE  Second(a) <= Second(b)
<1> DEFINE T == TicksPerSecond
<1>1. T \in Nat \ {0}
  BY ScreenAssumption
<1> HIDE DEF T
<1>2. /\ a \div T \in Nat /\ b \div T \in Nat
      /\ T * (a \div T) <= a
      /\ b < T * ((b \div T) + 1)
  BY <1>1
<1> DEFINE qa == a \div T
           qb == b \div T
<1>3. qa \in Nat /\ qb \in Nat /\ T * qa <= a /\ b < T * (qb + 1)
  BY <1>2
<1> HIDE DEF qa, qb
<1>4. ASSUME qb + 1 <= qa PROVE FALSE
  <2>1. T * (qb + 1) <= T * qa
    BY <1>1, <1>3, <1>4
  <2>2. T * (qb + 1) \in Nat /\ T * qa \in Nat
    BY <1>1, <1>3
  <2> QED
    BY <1>3, <2>1, <2>2
<1>5. qa <= qb
  BY <1>3, <1>4
<1> QED
  BY <1>5 DEF Second, qa, qb, T

LEMMA JustGuarded ==
  ASSUME NEW now \in Nat, NEW r,
         r.progressUntil = now + OptimisticTtl, r.status.elapsed = 0
  PROVE  Guarded(r, now)
<1>1. r.progressUntil - OptimisticTtl = now
  BY ScreenAssumption
<1>2. Second(now) \in Nat
  BY SecondType
<1> QED
  BY <1>1, <1>2 DEF Guarded

LEMMA NewScreenSound ==
  ASSUME NEW now \in Nat PROVE Sound(NewScreen(now), now)
<1> DEFINE s == NewScreen(now)
<1>1. Second(now) \in Nat
  BY SecondType
<1>2. s.status \in Statuses
  BY StatusAssumption, ScreenAssumption DEF NewScreen, Statuses, Playbacks
<1>3. /\ s.artwork = None /\ s.loading = TRUE /\ s.volumeHeld = None
      /\ s.progressUntil = None /\ s.status.duration = 0
  BY DEF NewScreen
<1>4. s \in ScreenStates
  BY <1>1, <1>2, StatusAssumption
  DEF NewScreen, ScreenStates, Second, Option, NoPins
<1> QED
  BY <1>3, <1>4 DEF Sound, Attended, InTime, Untold, VolumeKept, Guarded
-----------------------------------------------------------------------------
(* Presses.                                                                *)

LEMMA BeginTrackChangeSound ==
  ASSUME NEW now \in Nat, NEW s, Sound(s, now)
  PROVE  Sound(BeginTrackChange(s, now), now) /\ KeepsVolume(s, BeginTrackChange(s, now))
<1> DEFINE r == BeginTrackChange(s, now)
<1> USE ScreenAssumption, StatusAssumption
<1>1. r \in ScreenStates
  <2>1. s \in ScreenStates /\ s.status \in Statuses
    BY DEF Sound, ScreenStates
  <2>2. [s.status EXCEPT !.elapsed = 0] \in Statuses
    BY <2>1 DEF Statuses
  <2>3. /\ (IF s.artwork # None THEN now + StaleGrace ELSE s.staleUntil) \in Option(Nat)
        /\ now + OptimisticTtl \in Option(Nat)
    BY <2>1 DEF Option, ScreenStates
  <2> QED
    BY <2>1, <2>2, <2>3 DEF BeginTrackChange, ScreenStates
<1>2. /\ r.artwork = s.artwork /\ r.status = [s.status EXCEPT !.elapsed = 0]
      /\ r.staleUntil = (IF s.artwork # None THEN now + StaleGrace ELSE s.staleUntil)
      /\ r.loading = s.loading /\ r.lastSecond = s.lastSecond
      /\ r.volumeHeld = s.volumeHeld
      /\ r.progressUntil = now + OptimisticTtl
  BY DEF BeginTrackChange, Sound, ScreenStates
<1>3. /\ r.status.art = s.status.art /\ r.status.elapsed = 0
      /\ r.status.playback = s.status.playback /\ r.status.volume = s.status.volume
      /\ r.status.duration = s.status.duration
  BY <1>2 DEF Sound, ScreenStates, Statuses
<1>4. Attended(r)
  BY <1>2, <1>3 DEF Attended, Sound
<1>5. InTime(r, now) /\ Untold(r) /\ VolumeKept(r)
  BY <1>2, <1>3 DEF Sound, InTime, Untold, VolumeKept
<1>6. Guarded(r, now)
  BY <1>2, <1>3, JustGuarded
<1> QED
  BY <1>1, <1>2, <1>3, <1>4, <1>5, <1>6 DEF Sound, KeepsVolume

LEMMA RestartSound ==
  ASSUME NEW now \in Nat, NEW s, Sound(s, now)
  PROVE  Sound(Restart(s, now), now) /\ KeepsVolume(s, Restart(s, now))
<1> DEFINE r == Restart(s, now)
<1>0. s \in ScreenStates /\ s.status \in Statuses /\ Second(now) \in Nat
  BY SecondType DEF Sound, ScreenStates
<1>1. r \in ScreenStates
  <2>1. [s.status EXCEPT !.elapsed = 0] \in Statuses
    BY <1>0 DEF Statuses
  <2>2. now + OptimisticTtl \in Option(Nat)
    BY ScreenAssumption DEF Option
  <2> QED
    BY <1>0, <2>1, <2>2 DEF Restart, ScreenStates
<1>2. /\ r.artwork = s.artwork /\ r.staleUntil = s.staleUntil
      /\ r.loading = s.loading /\ r.lastSecond = Second(now)
      /\ r.volumeHeld = s.volumeHeld
      /\ r.progressUntil = now + OptimisticTtl
      /\ r.status.art = s.status.art /\ r.status.elapsed = 0
      /\ r.status.playback = s.status.playback /\ r.status.volume = s.status.volume
      /\ r.status.duration = s.status.duration
  BY <1>0 DEF Restart, ScreenStates, Statuses
<1>3. Attended(r) /\ InTime(r, now) /\ Untold(r) /\ VolumeKept(r)
  BY <1>2 DEF Sound, Attended, InTime, Untold, VolumeKept
<1>4. Guarded(r, now)
  BY <1>2, JustGuarded
<1> QED
  BY <1>1, <1>2, <1>3, <1>4 DEF Sound, KeepsVolume

(* In the second the clock has counted to, a track that plays has nothing  *)
(* to catch up with; one that does not stays where it is. *)
LEMMA TickPlaybackInTime ==
  ASSUME NEW now \in Nat, NEW s, Sound(s, now)
  PROVE  /\ TickPlayback(s, now) \in ScreenStates
         /\ \/ TickPlayback(s, now) = s
            \/ \E on \in BOOLEAN :
                 /\ TickPlayback(s, now) = [s EXCEPT !.loading = on]
                 /\ on => s.loading
                 /\ s.loading
<1>0. s \in ScreenStates /\ s.status \in Statuses
  BY DEF Sound, ScreenStates
<1>1. CASE s.loading
  <2> DEFINE on == now - s.created < LoadingTimeout
  <2>1. TickPlayback(s, now) = [s EXCEPT !.loading = on]
    BY <1>1 DEF TickPlayback
  <2>2. on \in BOOLEAN
    OBVIOUS
  <2>3. [s EXCEPT !.loading = on] \in ScreenStates
    BY <1>0, <2>2 DEF ScreenStates
  <2> QED
    BY <1>1, <2>1, <2>2, <2>3
<1>2. CASE ~s.loading
  <2>1. s.lastSecond \in Nat /\ Second(now) \in Nat
    BY <1>0, SecondType DEF ScreenStates
  <2>2. \/ s.status.playback # "Playing" \/ s.status.duration = 0
        \/ Second(now) - s.lastSecond <= 0
    BY <1>2, <2>1 DEF Sound, InTime
  <2> QED
    BY <1>0, <1>2, <2>2 DEF TickPlayback
<1> QED
  BY <1>1, <1>2

LEMMA TogglePlaybackSound ==
  ASSUME NEW now \in Nat, NEW s, Sound(s, now)
  PROVE  Sound(TogglePlayback(s, now), now) /\ KeepsVolume(s, TogglePlayback(s, now))
<1> DEFINE pausing == CanPause(s.status.playback)
           toggled == IF pausing THEN "Paused" ELSE "Playing"
           timed   == IF pausing THEN TickPlayback(s, now)
                      ELSE [s EXCEPT !.lastSecond = Second(now)]
           r       == TogglePlayback(s, now)
<1>0. s \in ScreenStates /\ s.status \in Statuses /\ Second(now) \in Nat
  BY SecondType DEF Sound, ScreenStates
<1>1. r = [timed EXCEPT !.status.playback = toggled, !.playbackHeld = Hold(toggled, now)]
  BY DEF TogglePlayback
<1>2. /\ timed \in ScreenStates
      /\ timed.artwork = s.artwork /\ timed.status = s.status
      /\ timed.staleUntil = s.staleUntil /\ timed.volumeHeld = s.volumeHeld
      /\ timed.progressUntil = s.progressUntil
      /\ timed.loading => s.loading
      /\ ~pausing => timed.lastSecond = Second(now) /\ timed.loading = s.loading
  <2>1. CASE pausing
    BY <1>0, <2>1, TickPlaybackInTime DEF ScreenStates
  <2>2. CASE ~pausing
    BY <1>0, <2>2 DEF ScreenStates
  <2> QED
    BY <2>1, <2>2
<1> HIDE DEF timed
<1>3. Hold(toggled, now) \in Option(Held(Playbacks))
  BY ScreenAssumption DEF Hold, Held, Option, Playbacks
<1>4. toggled \in Playbacks
  BY DEF Playbacks
<1>5. [timed.status EXCEPT !.playback = toggled] \in Statuses
  BY <1>0, <1>2, <1>4 DEF Statuses
<1> HIDE DEF toggled
<1>6. r \in ScreenStates
  BY <1>1, <1>2, <1>3, <1>5 DEF ScreenStates
<1>7. /\ r.artwork = s.artwork /\ r.staleUntil = s.staleUntil
      /\ r.loading = timed.loading /\ r.lastSecond = timed.lastSecond
      /\ r.volumeHeld = s.volumeHeld /\ r.progressUntil = s.progressUntil
      /\ r.status = [s.status EXCEPT !.playback = toggled]
  BY <1>1, <1>2 DEF ScreenStates
<1>8. /\ r.status.art = s.status.art /\ r.status.elapsed = s.status.elapsed
      /\ r.status.playback = toggled /\ r.status.volume = s.status.volume
      /\ r.status.duration = s.status.duration
  BY <1>0, <1>7 DEF Statuses
<1>9. InTime(r, now)
  BY <1>2, <1>7, <1>8 DEF InTime, toggled
<1>10. Attended(r) /\ Untold(r) /\ VolumeKept(r) /\ Guarded(r, now)
  BY <1>2, <1>7, <1>8 DEF Sound, Attended, Untold, VolumeKept, Guarded
<1> QED
  BY <1>6, <1>7, <1>8, <1>9, <1>10 DEF Sound, KeepsVolume

(* A turn of the dial, and what it does to the level. *)
LEMMA TurnVolumeProperty ==
  ASSUME NEW now \in Nat, NEW s, Sound(s, now), NEW delta \in Int
  PROVE  LET r == TurnVolume(s, delta, now)
             next == NextVolume(s, delta)
         IN  /\ Sound(r, now)
             /\ next \in 0..VolumeMax
             /\ \/ KeepsVolume(s, r)
                \/ r.status.volume = next /\ r.volumeHeld = Hold(next, now)
<1> DEFINE next   == NextVolume(s, delta)
           raised == [s EXCEPT !.overlayUntil = now + VolumeOverlay]
           r      == TurnVolume(s, delta, now)
<1>0. s \in ScreenStates /\ s.status \in Statuses /\ s.status.volume \in 0..VolumeMax
  BY DEF Sound, ScreenStates, Statuses
<1>1. next \in 0..VolumeMax
  BY <1>0, StatusAssumption DEF NextVolume
<1>2. raised \in ScreenStates
  <2>1. now + VolumeOverlay \in Option(Nat)
    BY ScreenAssumption DEF Option
  <2> QED
    BY <1>0, <2>1 DEF ScreenStates
<1>3. /\ raised.artwork = s.artwork /\ raised.status = s.status
      /\ raised.staleUntil = s.staleUntil /\ raised.volumeHeld = s.volumeHeld
      /\ raised.progressUntil = s.progressUntil
      /\ raised.loading = s.loading /\ raised.lastSecond = s.lastSecond
  BY <1>0 DEF ScreenStates
<1>4. r = IF next = s.status.volume THEN raised
          ELSE [raised EXCEPT !.status.volume = next, !.volumeHeld = Hold(next, now)]
  BY DEF TurnVolume
<1> HIDE DEF next, raised
<1>5. CASE next = s.status.volume
  BY <1>1, <1>2, <1>3, <1>4, <1>5
  DEF Sound, Attended, InTime, Untold, VolumeKept, Guarded, KeepsVolume, next
<1>6. CASE next # s.status.volume
  <2>1. [raised.status EXCEPT !.volume = next] \in Statuses
    BY <1>0, <1>1, <1>3 DEF Statuses
  <2>2. Hold(next, now) \in Held(0..VolumeMax) /\ Hold(next, now).value = next
    BY <1>1, ScreenAssumption DEF Hold, Held
  <2>3. Hold(next, now) \in Option(Held(0..VolumeMax))
    BY <2>2 DEF Option
  <2>4. r \in ScreenStates
    BY <1>2, <1>3, <1>4, <1>6, <2>1, <2>3 DEF ScreenStates
  <2>5. /\ r.artwork = s.artwork /\ r.staleUntil = s.staleUntil
        /\ r.volumeHeld = Hold(next, now) /\ r.progressUntil = s.progressUntil
        /\ r.loading = s.loading /\ r.lastSecond = s.lastSecond
        /\ r.status = [s.status EXCEPT !.volume = next]
    BY <1>2, <1>3, <1>4, <1>6 DEF ScreenStates
  <2>6. /\ r.status.art = s.status.art /\ r.status.elapsed = s.status.elapsed
        /\ r.status.playback = s.status.playback /\ r.status.volume = next
        /\ r.status.duration = s.status.duration
    BY <1>0, <2>5 DEF Statuses
  <2>7. Sound(r, now)
    BY <2>2, <2>4, <2>5, <2>6
    DEF Sound, Attended, InTime, Untold, VolumeKept, Guarded
  <2> QED
    BY <1>1, <2>5, <2>6, <2>7 DEF next
<1> QED
  BY <1>5, <1>6

LEMMA InvokePinSound ==
  ASSUME NEW now \in Nat, NEW s, Sound(s, now), NEW slot \in Slots, s.pins[slot] # None
  PROVE  Sound(InvokePin(s, slot, now), now) /\ KeepsVolume(s, InvokePin(s, slot, now))
<1> DEFINE pin == s.pins[slot]
           shown == [s.status EXCEPT !.title = pin.title, !.art = pin.art,
                                     !.elapsed = 0, !.duration = 0, !.playback = "Playing"]
           cover == IF s.pinArt[slot] = pin.art THEN pin.art ELSE None
           r == InvokePin(s, slot, now)
<1>0. /\ s \in ScreenStates /\ s.status \in Statuses
      /\ pin \in Pins
  BY DEF Sound, ScreenStates, Option
<1>1. /\ pin.title \in Titles /\ pin.art \in Uris \cup {NoUri}
  BY <1>0 DEF Pins
<1>2. /\ shown \in Statuses
      /\ shown.art = pin.art /\ shown.elapsed = 0 /\ shown.duration = 0
      /\ shown.volume = s.status.volume
  BY <1>0, <1>1 DEF Statuses, Playbacks
<1>3. cover \in Option(Uris \cup {NoUri}) /\ cover \in {None, pin.art}
  BY <1>1 DEF Option
<1>4. Hold("Playing", now) \in Option(Held(Playbacks))
  BY ScreenAssumption DEF Hold, Held, Option, Playbacks
<1>5. /\ now + OptimisticTtl \in Option(Nat)
      /\ [expires |-> now + OptimisticTtl, previous |-> s.status.title] \in Option(Intros)
  BY <1>0, ScreenAssumption DEF Option, Intros, Statuses
<1>6. None \in Option(Nat)
  BY DEF Option
<1>7. r = [s EXCEPT !.page = "NowPlaying", !.status = shown, !.artwork = cover,
             !.staleUntil = None, !.playbackHeld = Hold("Playing", now),
             !.intro = [expires |-> now + OptimisticTtl, previous |-> s.status.title],
             !.progressUntil = now + OptimisticTtl]
  BY DEF InvokePin
<1> HIDE DEF shown, cover, pin, r
<1>8. r \in ScreenStates
  BY <1>0, <1>2, <1>3, <1>4, <1>5, <1>6, <1>7 DEF ScreenStates
<1>9. /\ r.artwork = cover /\ r.status = shown /\ r.staleUntil = None
      /\ r.volumeHeld = s.volumeHeld /\ r.progressUntil = now + OptimisticTtl
      /\ r.loading = s.loading
  BY <1>0, <1>7 DEF ScreenStates
<1>10. Attended(r) /\ InTime(r, now) /\ Untold(r) /\ VolumeKept(r)
  BY <1>2, <1>3, <1>9 DEF Sound, Attended, InTime, Untold, VolumeKept
<1>11. Guarded(r, now)
  BY <1>2, <1>9, JustGuarded
<1> QED
  BY <1>2, <1>8, <1>9, <1>10, <1>11 DEF Sound, KeepsVolume, r

LEMMA TurnPageSound ==
  ASSUME NEW now \in Nat, NEW s, Sound(s, now)
  PROVE  Sound(TurnPage(s), now) /\ KeepsVolume(s, TurnPage(s))
<1>1. s \in ScreenStates /\ TurnPage(s) \in ScreenStates
  BY DEF Sound, TurnPage, ScreenStates
<1>2. LET r == TurnPage(s)
      IN  /\ r.artwork = s.artwork /\ r.status = s.status /\ r.staleUntil = s.staleUntil
          /\ r.volumeHeld = s.volumeHeld /\ r.progressUntil = s.progressUntil
          /\ r.loading = s.loading /\ r.lastSecond = s.lastSecond
  BY <1>1 DEF TurnPage, ScreenStates
<1> QED
  BY <1>1, <1>2 DEF Sound, Attended, InTime, Untold, VolumeKept, Guarded, KeepsVolume
-----------------------------------------------------------------------------
(* Reports.                                                                *)

(* What a report does to the level: it is followed, or the press outranks  *)
(* it and nothing changes. *)
LEMMA ApplyStatusProperty ==
  ASSUME NEW now \in Nat, NEW s, Sound(s, now), NEW incoming \in Statuses
  PROVE  LET r == ApplyStatus(s, incoming, now)
         IN  /\ Sound(r, now)
             /\ \/ KeepsVolume(s, r)
                \/ /\ ~StillHeld(s.volumeHeld, incoming.volume, now)
                   /\ r.status.volume = incoming.volume /\ r.volumeHeld = None
<1> DEFINE intro    == PinIntroHolds(s, incoming, now)
           progress == ProgressBelieved(s, incoming.elapsed, now)
           playback == StillHeld(s.playbackHeld, incoming.playback, now)
           volume   == StillHeld(s.volumeHeld, incoming.volume, now)
           words    == IF intro THEN s.status ELSE incoming
           status   ==
             [title |-> words.title, art |-> words.art, duration |-> words.duration,
              elapsed  |-> IF progress THEN incoming.elapsed ELSE s.status.elapsed,
              playback |-> IF playback THEN s.playbackHeld.value ELSE incoming.playback,
              volume   |-> IF volume THEN s.volumeHeld.value ELSE incoming.volume]
           settled  ==
             [s EXCEPT !.intro         = IF intro THEN @ ELSE None,
                       !.progressUntil = IF progress THEN None ELSE @,
                       !.playbackHeld  = IF playback THEN @ ELSE None,
                       !.volumeHeld    = IF volume THEN @ ELSE None,
                       !.staleUntil    = ArmStale(s, status, now)]
           r == ApplyStatus(s, incoming, now)
<1>0. s \in ScreenStates /\ s.status \in Statuses
  BY DEF Sound, ScreenStates
<1>1. status \in Statuses
  <2>1. words \in Statuses
    BY <1>0
  <2>2. playback => s.playbackHeld.value \in Playbacks
    BY <1>0 DEF StillHeld, ScreenStates, Option, Held
  <2>3. volume => s.volumeHeld.value \in 0..VolumeMax
    BY <1>0 DEF StillHeld, ScreenStates, Option, Held
  <2> HIDE DEF words, playback, volume, progress
  <2> QED
    BY <1>0, <2>1, <2>2, <2>3 DEF Statuses
<1>2. ArmStale(s, status, now) \in Option(Nat)
  <2>1. now + StaleGrace \in Nat /\ s.staleUntil \in Option(Nat)
    BY <1>0, ScreenAssumption DEF ScreenStates
  <2> QED
    BY <2>1 DEF ArmStale, Option
<1>3. r = IF status = s.status /\ (~s.loading \/ ~HasLiveContent(status))
          THEN settled
          ELSE [settled EXCEPT !.status     = status,
                               !.loading    = @ /\ ~HasLiveContent(status),
                               !.lastSecond = Second(now)]
  BY DEF ApplyStatus
<1>4. /\ status.elapsed = (IF progress THEN incoming.elapsed ELSE s.status.elapsed)
      /\ status.volume = (IF volume THEN s.volumeHeld.value ELSE incoming.volume)
  OBVIOUS
<1>5. HasLiveContent(status) \in BOOLEAN /\ (~HasLiveContent(status) => status.duration = 0)
  <2> HIDE DEF status
  <2> QED
    BY <1>1 DEF HasLiveContent, Statuses
<1> HIDE DEF status, intro, progress, playback, volume
<1>6. settled \in ScreenStates
  <2>1. /\ (IF intro THEN s.intro ELSE None) \in Option(Intros)
        /\ (IF progress THEN None ELSE s.progressUntil) \in Option(Nat)
        /\ (IF playback THEN s.playbackHeld ELSE None) \in Option(Held(Playbacks))
        /\ (IF volume THEN s.volumeHeld ELSE None) \in Option(Held(0..VolumeMax))
    BY <1>0 DEF ScreenStates, Option
  <2> QED
    BY <1>0, <1>2, <2>1 DEF ScreenStates
<1>7. /\ settled.artwork = s.artwork /\ settled.status = s.status
      /\ settled.staleUntil = ArmStale(s, status, now)
      /\ settled.volumeHeld = (IF volume THEN s.volumeHeld ELSE None)
      /\ settled.progressUntil = (IF progress THEN None ELSE s.progressUntil)
      /\ settled.loading = s.loading /\ settled.lastSecond = s.lastSecond
      /\ s.loading \in BOOLEAN
  BY <1>0 DEF ScreenStates
<1> HIDE DEF settled, r
<1>8. /\ r.artwork = s.artwork /\ r.status = status
      /\ r.staleUntil = ArmStale(s, status, now)
      /\ r.volumeHeld = (IF volume THEN s.volumeHeld ELSE None)
      /\ r.progressUntil = (IF progress THEN None ELSE s.progressUntil)
      /\ r.loading => s.loading /\ ~HasLiveContent(status)
      /\ \/ r.lastSecond = Second(now)
         \/ status = s.status /\ r.lastSecond = s.lastSecond /\ r.loading = s.loading
      /\ r \in ScreenStates
  <2>1. CASE status = s.status /\ (~s.loading \/ ~HasLiveContent(status))
    <3>1. r = settled
      BY <1>3, <2>1
    <3> QED
      BY <1>6, <1>7, <2>1, <3>1
  <2>2. CASE ~(status = s.status /\ (~s.loading \/ ~HasLiveContent(status)))
    <3> DEFINE on == settled.loading /\ ~HasLiveContent(status)
    <3>1. r = [settled EXCEPT !.status = status, !.loading = on, !.lastSecond = Second(now)]
      BY <1>3, <2>2
    <3>2. on \in BOOLEAN /\ Second(now) \in Nat
      BY SecondType
    <3>3. on => s.loading /\ ~HasLiveContent(status)
      BY <1>7
    <3> HIDE DEF on
    <3> QED
      BY <1>1, <1>6, <1>7, <3>1, <3>2, <3>3 DEF ScreenStates
  <2> QED
    BY <2>1, <2>2
<1>9. Attended(r)
  BY <1>0, <1>2, <1>8, ScreenAssumption DEF Attended, ArmStale
<1>10. InTime(r, now) /\ Untold(r)
  BY <1>5, <1>8 DEF Sound, InTime, Untold
<1>11. VolumeKept(r)
  BY <1>4, <1>8 DEF VolumeKept
<1>12. Guarded(r, now)
  BY <1>4, <1>8 DEF Sound, Guarded
<1>13. volume => r.status.volume = s.status.volume /\ r.volumeHeld = s.volumeHeld
  BY <1>4, <1>8 DEF Sound, VolumeKept, volume, StillHeld
<1>14. ~volume => r.status.volume = incoming.volume /\ r.volumeHeld = None
  BY <1>4, <1>8
<1> QED
  BY <1>8, <1>9, <1>10, <1>11, <1>12, <1>13, <1>14 DEF Sound, KeepsVolume, r, volume

LEMMA ApplyArtworkSound ==
  ASSUME NEW now \in Nat, NEW s, Sound(s, now), NEW uri \in Uris
  PROVE  Sound(ApplyArtwork(s, uri), now) /\ KeepsVolume(s, ApplyArtwork(s, uri))
<1> DEFINE r == ApplyArtwork(s, uri)
<1>0. s \in ScreenStates
  BY DEF Sound
<1>1. CASE uri # s.status.art
  BY <1>1 DEF ApplyArtwork, KeepsVolume
<1>2. CASE uri = s.status.art
  <2>1. r = [s EXCEPT !.artwork = uri, !.staleUntil = None]
    BY <1>2 DEF ApplyArtwork
  <2>2. r \in ScreenStates
    BY <1>0, <2>1 DEF ScreenStates, Option
  <2>3. /\ r.artwork = uri /\ r.status = s.status
        /\ r.volumeHeld = s.volumeHeld /\ r.progressUntil = s.progressUntil
        /\ r.loading = s.loading /\ r.lastSecond = s.lastSecond
    BY <1>0, <2>1 DEF ScreenStates
  <2> QED
    BY <1>2, <2>2, <2>3 DEF Sound, Attended, InTime, Untold, VolumeKept, Guarded, KeepsVolume
<1> QED
  BY <1>1, <1>2

(* A handler that touches none of these is harmless: the pins and their    *)
(* covers are apart from the rest. *)
LEMMA Harmless ==
  ASSUME NEW now \in Nat, NEW s, Sound(s, now), NEW r, r \in ScreenStates,
         r.artwork = s.artwork, r.status = s.status, r.staleUntil = s.staleUntil,
         r.volumeHeld = s.volumeHeld, r.progressUntil = s.progressUntil,
         r.loading = s.loading, r.lastSecond = s.lastSecond
  PROVE  Sound(r, now)
BY DEF Sound, Attended, InTime, Untold, VolumeKept, Guarded

LEMMA ApplyPinsSound ==
  ASSUME NEW now \in Nat, NEW s, Sound(s, now), NEW pins \in [Slots -> Option(Pins)]
  PROVE  Sound(ApplyPins(s, pins), now) /\ KeepsVolume(s, ApplyPins(s, pins))
<1> DEFINE Same(slot) == /\ s.pins[slot] # None /\ pins[slot] # None
                         /\ s.pins[slot].id = pins[slot].id
           art == [slot \in Slots |-> IF Same(slot) THEN s.pinArt[slot] ELSE None]
<1>1. art \in [Slots -> Option(Uris)]
  BY DEF Sound, ScreenStates, Option
<1>2. ApplyPins(s, pins) = [s EXCEPT !.pins = pins, !.pinArt = art]
  BY DEF Sound, ScreenStates, ApplyPins
<1> HIDE DEF art
<1> DEFINE r == ApplyPins(s, pins)
<1>3. /\ r \in ScreenStates
      /\ r.artwork = s.artwork /\ r.status = s.status /\ r.staleUntil = s.staleUntil
      /\ r.volumeHeld = s.volumeHeld /\ r.progressUntil = s.progressUntil
      /\ r.loading = s.loading /\ r.lastSecond = s.lastSecond
  BY <1>1, <1>2 DEF Sound, ScreenStates
<1> HIDE DEF r
<1>4. Sound(r, now)
  BY <1>3, Harmless
<1> QED
  BY <1>3, <1>4 DEF r, KeepsVolume

LEMMA ApplyPinArtworkSound ==
  ASSUME NEW now \in Nat, NEW s, Sound(s, now), NEW slot \in Slots, NEW uri \in Uris
  PROVE  Sound(ApplyPinArtwork(s, slot, uri), now) /\ KeepsVolume(s, ApplyPinArtwork(s, slot, uri))
<1> DEFINE art == [s.pinArt EXCEPT ![slot] = uri]
<1>1. art \in [Slots -> Option(Uris)] /\ s.pins \in [Slots -> Option(Pins)]
  BY DEF Sound, ScreenStates, Option
<1>2. \/ ApplyPinArtwork(s, slot, uri) = s
      \/ ApplyPinArtwork(s, slot, uri) = [s EXCEPT !.pins = s.pins, !.pinArt = art]
  BY DEF Sound, ScreenStates, ApplyPinArtwork
<1> HIDE DEF art
<1> DEFINE r == ApplyPinArtwork(s, slot, uri)
<1>3. /\ r \in ScreenStates
      /\ r.artwork = s.artwork /\ r.status = s.status /\ r.staleUntil = s.staleUntil
      /\ r.volumeHeld = s.volumeHeld /\ r.progressUntil = s.progressUntil
      /\ r.loading = s.loading /\ r.lastSecond = s.lastSecond
  <2>1. CASE r = s
    BY <2>1 DEF Sound
  <2>2. CASE r = [s EXCEPT !.pins = s.pins, !.pinArt = art]
    BY <1>1, <2>2 DEF Sound, ScreenStates
  <2> QED
    BY <1>2, <2>1, <2>2
<1> HIDE DEF r
<1>4. Sound(r, now)
  BY <1>3, Harmless
<1> QED
  BY <1>3, <1>4 DEF r, KeepsVolume
-----------------------------------------------------------------------------
(* The clock.                                                              *)

LEMMA OnTickSound ==
  ASSUME NEW now \in Nat, NEW later \in Nat, now <= later, NEW s, Sound(s, now)
  PROVE  LET r == OnTick(s, later)
         IN  Sound(r, later) /\ KeepsVolume(s, r)
<1> DEFINE intro == IF s.intro # None /\ later >= s.intro.expires THEN None ELSE s.intro
           t == [s EXCEPT !.overlayUntil  = Cleared(s.overlayUntil, later),
                          !.artwork       = DroppedCover(s, later),
                          !.staleUntil    = Cleared(s.staleUntil, later),
                          !.progressUntil = Cleared(s.progressUntil, later),
                          !.intro         = intro]
           r == OnTick(s, later)
<1> SUFFICES /\ Sound(r, later)
             /\ r.status.volume = s.status.volume /\ r.volumeHeld = s.volumeHeld
  BY DEF KeepsVolume
<1>0. s \in ScreenStates /\ s.status \in Statuses
  BY DEF Sound, ScreenStates
<1>1. r = TickPlayback(t, later)
  BY <1>0 DEF OnTick, ScreenStates
<1>2. /\ Cleared(s.overlayUntil, later) \in {None, s.overlayUntil}
      /\ Cleared(s.progressUntil, later) \in {None, s.progressUntil}
      /\ Cleared(s.staleUntil, later) =
           (IF Lapsed(s.staleUntil, later) THEN None ELSE s.staleUntil)
      /\ DroppedCover(s, later) =
           (IF Lapsed(s.staleUntil, later) /\ s.artwork # s.status.art
            THEN None ELSE s.artwork)
      /\ intro \in {None, s.intro}
  BY DEF Cleared, DroppedCover
<1> HIDE DEF intro
<1>3. t \in ScreenStates
  <2>1. /\ Cleared(s.overlayUntil, later) \in Option(Nat)
        /\ Cleared(s.progressUntil, later) \in Option(Nat)
        /\ Cleared(s.staleUntil, later) \in Option(Nat)
        /\ DroppedCover(s, later) \in Option(Uris \cup {NoUri})
        /\ intro \in Option(Intros)
    BY <1>0, <1>2 DEF ScreenStates, Option
  <2> QED
    BY <1>0, <2>1 DEF ScreenStates
<1>4. /\ t.artwork = DroppedCover(s, later) /\ t.status = s.status
      /\ t.staleUntil = Cleared(s.staleUntil, later)
      /\ t.progressUntil \in {None, s.progressUntil}
      /\ t.volumeHeld = s.volumeHeld
      /\ t.loading = s.loading /\ t.lastSecond = s.lastSecond
  BY <1>0, <1>2 DEF ScreenStates
<1> HIDE DEF t, r
<1>5. Attended(t)
  BY <1>2, <1>4 DEF Sound, Attended
<1>6. /\ Second(now) \in Nat /\ Second(later) \in Nat /\ Second(now) <= Second(later)
      /\ t.lastSecond \in Nat /\ t.status \in Statuses
      /\ t.status.elapsed \in Nat /\ t.status.duration \in Nat
      /\ t.status.playback \in Playbacks
  BY <1>3, SecondType, SecondsGrow DEF ScreenStates, Statuses
<1>7. Guarded(t, now)
  BY <1>4 DEF Sound, Guarded
<1>8. Guarded(t, later)
  <2> SUFFICES ASSUME t.progressUntil # None
               PROVE  /\ t.progressUntil - OptimisticTtl \in 0..later
                      /\ t.status.elapsed
                           <= Second(later) - Second(t.progressUntil - OptimisticTtl)
    BY DEF Guarded
  <2> DEFINE press == t.progressUntil - OptimisticTtl
  <2>1. press \in 0..now /\ t.status.elapsed <= Second(now) - Second(press)
    BY <1>7 DEF Guarded
  <2>2. press \in Nat /\ press \in 0..later
    BY <2>1
  <2> HIDE DEF press
  <2>3. Second(press) \in Nat
    BY <2>2, SecondType
  <2>4. t.status.elapsed <= Second(later) - Second(press)
    BY <1>6, <2>1, <2>3
  <2> QED
    BY <2>2, <2>4 DEF press
<1>9. CASE t.loading
  <2> DEFINE on == later - t.created < LoadingTimeout
  <2>1. r = [t EXCEPT !.loading = on]
    BY <1>1, <1>9 DEF TickPlayback
  <2>2. on \in BOOLEAN
    OBVIOUS
  <2> HIDE DEF on
  <2>3. /\ r \in ScreenStates
        /\ r.artwork = t.artwork /\ r.status = t.status /\ r.staleUntil = t.staleUntil
        /\ r.volumeHeld = t.volumeHeld /\ r.progressUntil = t.progressUntil
        /\ r.lastSecond = t.lastSecond
    BY <1>3, <2>1, <2>2 DEF ScreenStates
  <2>4. r.status.duration = 0
    BY <1>4, <1>9, <2>3 DEF Sound, Untold
  <2> QED
    BY <1>4, <1>5, <1>8, <2>3, <2>4
    DEF Sound, Attended, InTime, Untold, VolumeKept, Guarded
<1> DEFINE passed == Second(later) - t.lastSecond
           end    == t.status.duration
           halts  == t.status.playback # "Playing" \/ end = 0 \/ passed <= 0
<1>10. CASE ~t.loading /\ halts
  <2>1. r = t
    BY <1>1, <1>10 DEF TickPlayback
  <2>2. InTime(t, later)
    <3> SUFFICES ASSUME t.status.playback = "Playing", end # 0
                 PROVE  t.lastSecond = Second(later)
      BY DEF InTime
    <3>1. passed <= 0
      BY <1>10
    <3>2. t.lastSecond = Second(now)
      BY <1>4, <1>10 DEF Sound, InTime
    <3> QED
      BY <1>6, <3>1, <3>2
  <2>3. Untold(t) /\ VolumeKept(t)
    BY <1>4 DEF Sound, Untold, VolumeKept
  <2> QED
    BY <1>3, <1>4, <1>5, <1>8, <2>1, <2>2, <2>3 DEF Sound
<1>11. CASE ~t.loading /\ ~halts
  <2> DEFINE reached == t.status.elapsed + passed
             elapsed == IF reached < end THEN reached ELSE end
             playback == IF reached < end THEN t.status.playback ELSE "Stopped"
  <2>1. r = [t EXCEPT !.lastSecond = Second(later), !.status.elapsed = elapsed,
                      !.status.playback = playback]
    <3>1. r = [t EXCEPT !.lastSecond = Second(later), !.status.elapsed = elapsed,
                 !.status.playback = IF reached < end THEN @ ELSE "Stopped"]
      BY <1>1, <1>11 DEF TickPlayback
    <3> HIDE DEF reached, elapsed
    <3> QED
      BY <1>3, <3>1 DEF ScreenStates
  <2>2. t.lastSecond = Second(now)
    BY <1>4, <1>11 DEF Sound, InTime
  <2>3. elapsed \in Nat /\ elapsed <= t.status.elapsed + (Second(later) - Second(now))
    BY <1>6, <1>11, <2>2
  <2>4. playback \in Playbacks
    BY <1>6 DEF Playbacks
  <2> HIDE DEF elapsed, playback
  <2>5. [t.status EXCEPT !.elapsed = elapsed, !.playback = playback] \in Statuses
    BY <1>6, <2>3, <2>4 DEF Statuses
  <2>6. /\ r \in ScreenStates
        /\ r.artwork = t.artwork /\ r.staleUntil = t.staleUntil
        /\ r.volumeHeld = t.volumeHeld /\ r.progressUntil = t.progressUntil
        /\ r.lastSecond = Second(later) /\ r.loading = t.loading
        /\ r.status = [t.status EXCEPT !.elapsed = elapsed, !.playback = playback]
    BY <1>3, <1>6, <2>1, <2>5 DEF ScreenStates
  <2>7. /\ r.status.art = t.status.art /\ r.status.volume = t.status.volume
        /\ r.status.elapsed = elapsed /\ r.status.duration = t.status.duration
    BY <1>6, <2>6 DEF Statuses
  <2>8. Guarded(r, later)
    <3> SUFFICES ASSUME r.progressUntil # None
                 PROVE  /\ r.progressUntil - OptimisticTtl \in 0..later
                        /\ r.status.elapsed
                             <= Second(later) - Second(r.progressUntil - OptimisticTtl)
      BY DEF Guarded
    <3> DEFINE press == t.progressUntil - OptimisticTtl
    <3>1. press \in 0..now /\ t.status.elapsed <= Second(now) - Second(press)
      BY <1>7, <2>6 DEF Guarded
    <3>2. press \in 0..later /\ press \in Nat
      BY <3>1
    <3> HIDE DEF press
    <3>3. Second(press) \in Nat
      BY <3>2, SecondType
    <3>4. elapsed <= Second(later) - Second(press)
      BY <1>6, <2>3, <3>1, <3>3
    <3> QED
      BY <2>6, <2>7, <3>2, <3>4 DEF press
  <2>9. Attended(r) /\ InTime(r, later) /\ Untold(r) /\ VolumeKept(r)
    BY <1>4, <1>5, <1>11, <2>6, <2>7
    DEF Sound, Attended, InTime, Untold, VolumeKept
  <2> QED
    BY <1>4, <2>6, <2>7, <2>8, <2>9 DEF Sound
<1> QED
  BY <1>9, <1>10, <1>11
=============================================================================
