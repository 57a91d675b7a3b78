------------------------ MODULE SkipSession_proofs ------------------------
(***************************************************************************)
(* For every queue, every world and every interleaving of the threads, the *)
(* device and the network: the background session keeps its shape, is      *)
(* never deaf without a way to find out, keeps the picture of a skip it    *)
(* shows, files no answer under another track, and agrees with the device  *)
(* when all has been said and read.                                        *)
(***************************************************************************)
EXTENDS SkipSession, Methods_proofs

(* The cache keeps its ceiling, and one entry for an id. *)
CacheKept(p) ==
  /\ Len(p.cache) <= TrackCacheLen
  /\ \A i, j \in DOMAIN p.cache : p.cache[i].id = p.cache[j].id => i = j

Shape == TypeOK /\ CacheKept(playlist)
-----------------------------------------------------------------------------
(* The wire.                                                               *)

LEMMA LineSent ==
  ASSUME wire \in Seq(Lines), NEW line \in Lines, wire' = Append(wire, line)
  PROVE  /\ wire' \in Seq(Lines) /\ Len(wire) \in Nat
         /\ DOMAIN wire = 1..Len(wire) /\ DOMAIN wire' = 1..(Len(wire) + 1)
         /\ \A i \in 1..Len(wire) : wire'[i] = wire[i]
         /\ wire'[Len(wire) + 1] = line
BY AppendProperties, LenProperties

LEMMA LineRead ==
  ASSUME wire \in Seq(Lines), wire # <<>>, wire' = Tail(wire)
  PROVE  /\ wire' \in Seq(Lines) /\ Len(wire) \in Nat \ {0}
         /\ DOMAIN wire = 1..Len(wire) /\ DOMAIN wire' = 1..(Len(wire) - 1)
         /\ \A i \in 1..(Len(wire) - 1) : wire'[i] = wire[i + 1]
         /\ Head(wire) = wire[1] /\ Head(wire) \in Lines
<1>1. Len(wire) \in Nat \ {0} /\ DOMAIN wire = 1..Len(wire)
  BY LenProperties, EmptySeq
<1>2. /\ wire' \in Seq(Lines) /\ Len(wire') = Len(wire) - 1
      /\ \A i \in 1..(Len(wire) - 1) : wire'[i] = wire[i + 1]
      /\ Head(wire) = wire[1] /\ Head(wire) \in Lines
  BY <1>1, HeadTailProperties
<1> QED
  BY <1>1, <1>2, LenProperties

(* The device hangs up: some of the lines, then the end of file. *)
LEMMA LinesCut ==
  ASSUME wire \in Seq(Lines), NEW n \in 0..Len(wire),
         wire' = Append(SubSeq(wire, 1, n), [kind |-> "Eof"])
  PROVE  /\ wire' \in Seq(Lines) /\ Len(wire) \in Nat
         /\ DOMAIN wire = 1..Len(wire) /\ DOMAIN wire' = 1..(n + 1)
         /\ \A i \in 1..n : wire'[i] = wire[i]
         /\ wire'[n + 1] = [kind |-> "Eof"]
<1> DEFINE kept == SubSeq(wire, 1, n)
<1>1. Len(wire) \in Nat /\ DOMAIN wire = 1..Len(wire)
  BY LenProperties
<1>2. /\ kept \in Seq(Lines) /\ Len(kept) = n
      /\ \A i \in 1..n : kept[i] = wire[i]
  BY <1>1, SubSeqProperties
<1>3. [kind |-> "Eof"] \in Lines
  BY DEF Lines
<1> HIDE DEF kept
<1>4. wire' = Append(kept, [kind |-> "Eof"])
  BY DEF kept
<1> QED
  BY <1>1, <1>2, <1>3, <1>4, AppendProperties, LenProperties

LEMMA QueueGrows ==
  ASSUME NEW S, NEW q \in Seq(S), NEW e \in S
  PROVE  Append(q, e) \in Seq(S) /\ Append(q, e) # <<>>
BY AppendProperties, EmptySeq

LEMMA QueueShrinks ==
  ASSUME NEW S, NEW q \in Seq(S), q # <<>>
  PROVE  Head(q) \in S /\ Tail(q) \in Seq(S) /\ Tail(q) # q
<1>1. Len(q) \in Nat \ {0}
  BY LenProperties, EmptySeq
<1>2. Head(q) \in S /\ Tail(q) \in Seq(S) /\ Len(Tail(q)) = Len(q) - 1
  BY HeadTailProperties
<1> DEFINE rest == Tail(q)
<1>3. rest \in Seq(S) /\ Len(rest) = Len(q) - 1
  BY <1>2
<1> HIDE DEF rest
<1>4. rest # q
  BY <1>1, <1>3
<1> QED
  BY <1>2, <1>4 DEF rest

LEMMA AskType ==
  ASSUME asked \in Seq(TrackIds), NEW id \in TrackIds, Ask(id)
  PROVE  asked' \in Seq(TrackIds)
BY QueueGrows DEF Ask
-----------------------------------------------------------------------------
(* The shape of the state.                                                 *)

LEMMA NotToldType ==
  NotTold \in [queue : BOOLEAN, id : TrackIds \cup {None},
               meta : TrackIds \cup {None}]
BY DEF NotTold

LEMMA EmptyPlaylistType == EmptyPlaylist \in PlaylistStates
<1>1. <<>> \in Seq(TrackIds) /\ <<>> \in Seq(CacheEntries)
  BY EmptySeq
<1> QED
  BY <1>1 DEF EmptyPlaylist, PlaylistStates

LEMMA InitShape == Init => Shape
<1> SUFFICES ASSUME Init PROVE Shape
  OBVIOUS
<1>1. playing \in TrackIds
  BY SkipAssumption DEF Init, Range
<1>2. CacheKept(EmptyPlaylist)
  BY PlaylistAssumption DEF EmptyPlaylist, CacheKept
<1>3. /\ <<>> \in Seq(Lines) /\ <<>> \in Seq(TrackIds) /\ <<>> \in Seq(Steps)
  BY EmptySeq
<1>4. /\ told \in [queue : BOOLEAN, id : TrackIds \cup {None},
                    meta : TrackIds \cup {None}]
      /\ playlist \in PlaylistStates /\ CacheKept(playlist)
  BY <1>2, NotToldType, EmptyPlaylistType DEF Init
<1>5. /\ {clock, presses, moves, losses} \subseteq Nat /\ now \in Nat
      /\ (phase = "awaiting") <=> (wanted # <<>>)
      /\ phase \in {"idle", "polling", "awaiting"}
  BY DEF Init
<1>6. /\ wire \in Seq(Lines) /\ asked \in Seq(TrackIds) /\ wanted \in Seq(TrackIds)
      /\ keys \in Seq(Steps) /\ inbox \in Seq(Steps)
  BY <1>3 DEF Init
<1>7. /\ listener \in BOOLEAN /\ subscribed \in BOOLEAN /\ world \in Worlds
      /\ sending \in Steps \cup {None} /\ track \in Metadata \cup {None}
  BY DEF Init
<1> QED
  BY <1>1, <1>4, <1>5, <1>6, <1>7 DEF Shape, TypeOK

(* Where a skip takes the device is a track. *)
LEMMA DeviceNeighbourType ==
  ASSUME playing \in TrackIds, NEW step \in Steps
  PROVE  DeviceNeighbour(step) \in TrackIds
<1> DEFINE at == [EmptyPlaylist EXCEPT !.ids = DeviceQueue, !.current = playing,
                                       !.repeat = DeviceRepeat]
<1>1. at \in PlaylistStates
  BY SkipAssumption, EmptyPlaylistType DEF PlaylistStates
<1> HIDE DEF at
<1>2. NeighbourId(at, step) \in TrackIds \cup {None}
  BY <1>1, NeighbourIdType
<1> QED
  BY <1>2 DEF DeviceNeighbour, NeighbourOf, at

LEMMA SessionReads ==
  ASSUME Shape, NEW line \in Lines, HandleMessage(line)
  PROVE  /\ playlist' \in PlaylistStates /\ CacheKept(playlist')
         /\ playlist'.cache = playlist.cache
         /\ track' \in Metadata \cup {None} /\ subscribed' \in BOOLEAN
<1>0. playlist \in PlaylistStates /\ now \in Nat /\ track \in Metadata \cup {None}
      /\ subscribed \in BOOLEAN /\ CacheKept(playlist)
  BY DEF Shape, TypeOK
<1>1. CASE HandleId(line)
  <2>1. line.id \in TrackIds
    BY <1>1 DEF HandleId, Lines
  <2>2. playlist' \in PlaylistStates /\ playlist'.cache = playlist.cache
    BY <1>0, <1>1, <2>1, ReportedIdProperty DEF HandleId
  <2> QED
    BY <1>0, <1>1, <2>2 DEF HandleId, CacheKept
<1>2. CASE HandleQueue(line)
  <2> DEFINE q == SetIds(playlist, DeviceQueue)
  <2>1. q \in PlaylistStates /\ q.cache = playlist.cache
    BY <1>0, SkipAssumption, SetIdsProperty
  <2> HIDE DEF q
  <2>2. playlist' = [q EXCEPT !.repeat = DeviceRepeat]
    BY <1>2 DEF HandleQueue, q
  <2>3. playlist' \in PlaylistStates /\ playlist'.cache = playlist.cache
    BY <2>1, <2>2, SkipAssumption DEF PlaylistStates
  <2> QED
    BY <1>0, <1>2, <2>3 DEF HandleQueue, CacheKept
<1>3. CASE HandleMetatext(line)
  <2>1. line.id \in TrackIds
    BY <1>3 DEF HandleMetatext, Lines
  <2> QED
    BY <1>0, <1>3, <2>1, SkipAssumption DEF HandleMetatext
<1>4. CASE HandleByeBye(line)
  BY <1>0, <1>4 DEF HandleByeBye
<1> QED
  BY <1>1, <1>2, <1>3, <1>4 DEF HandleMessage

LEMMA NextWantedType ==
  ASSUME Shape, phase = "awaiting", NextWanted
  PROVE  /\ wanted' \in Seq(TrackIds) /\ asked' \in Seq(TrackIds)
         /\ phase' \in {"idle", "awaiting"}
         /\ (phase' = "awaiting") <=> (wanted' # <<>>)
         /\ wanted \in Seq(TrackIds) /\ Len(wanted) \in Nat \ {0}
         /\ Len(wanted) > 1 => wanted'[1] = wanted[2] /\ wanted[2] \in TrackIds
         /\ wanted' # <<>> <=> Len(wanted) > 1
<1>1. wanted \in Seq(TrackIds) /\ wanted # <<>> /\ asked \in Seq(TrackIds)
  BY DEF Shape, TypeOK
<1>2. Len(wanted) \in Nat \ {0}
  BY <1>1, LenProperties, EmptySeq
<1>3. /\ Tail(wanted) \in Seq(TrackIds) /\ Len(Tail(wanted)) = Len(wanted) - 1
      /\ \A i \in 1..(Len(wanted) - 1) : Tail(wanted)[i] = wanted[i + 1]
  BY <1>1, <1>2, HeadTailProperties
<1>4. Tail(wanted) # <<>> <=> Len(wanted) > 1
  <2> DEFINE rest == Tail(wanted)
  <2>1. rest \in Seq(TrackIds) /\ Len(rest) = Len(wanted) - 1
    BY <1>3
  <2> HIDE DEF rest
  <2>2. rest = <<>> <=> Len(rest) = 0
    BY <2>1, EmptySeq
  <2>3. ASSUME rest # <<>> PROVE Len(wanted) > 1
    BY <1>2, <2>1, <2>2, <2>3
  <2>4. ASSUME Len(wanted) > 1 PROVE rest # <<>>
    BY <1>2, <2>1, <2>2, <2>4
  <2> QED
    BY <2>3, <2>4 DEF rest
<1>5. Len(wanted) > 1 => Tail(wanted)[1] = wanted[2] /\ wanted[2] \in TrackIds
  BY <1>1, <1>2, <1>3, ElementOfSeq
<1>6. asked' \in Seq(TrackIds)
  BY <1>1, <1>5, AskType DEF NextWanted
<1> QED
  BY <1>1, <1>2, <1>3, <1>4, <1>5, <1>6 DEF NextWanted

(* The variables apart from the session's and the connection's. *)
Outside == <<device, command, inbox, world, clock, presses, moves, losses>>

LEMMA StepShape == Shape /\ [Next]_vars => Shape'
<1> SUFFICES ASSUME Shape, [Next]_vars PROVE Shape'
  OBVIOUS
<1> USE DEF Shape
<1>0. /\ wire \in Seq(Lines) /\ asked \in Seq(TrackIds) /\ playing \in TrackIds
      /\ keys \in Seq(Steps) /\ inbox \in Seq(Steps) /\ playlist \in PlaylistStates
      /\ wanted \in Seq(TrackIds) /\ now \in Nat
      /\ clock \in Nat /\ presses \in Nat /\ moves \in Nat /\ losses \in Nat
      /\ CacheKept(playlist) /\ world \in WorldTypes
  BY SkipAssumption DEF TypeOK
<1>1. CASE Tick
  BY <1>0, <1>1 DEF Tick, TypeOK, device, connection, command, session
<1>2. CASE \E step \in world.directions : Press(step)
  <2>1. PICK step \in world.directions : Press(step)
    BY <1>2
  <2>2. step \in Steps
    BY <1>0 DEF WorldTypes
  <2>3. keys' \in Seq(Steps)
    BY <1>0, <2>1, <2>2, QueueGrows DEF Press
  <2> QED
    BY <1>0, <2>1, <2>3 DEF Press, TypeOK, device, connection, session
<1>3. CASE DeviceMoves
  <2>1. playing' \in TrackIds
    BY <1>3, SkipAssumption DEF DeviceMoves, Range
  <2> QED
    BY <1>0, <1>3, <2>1 DEF DeviceMoves, TypeOK, connection, command, session
<1>4. CASE AnnounceQueue
  <2>1. [kind |-> "Queue"] \in Lines
    BY DEF Lines
  <2>2. wire' \in Seq(Lines)
    BY <1>0, <1>4, <2>1, LineSent DEF AnnounceQueue
  <2> QED
    BY <1>0, <1>4, <2>2 DEF AnnounceQueue, TypeOK, command, session, bounds
<1>5. CASE AnnounceId
  <2>1. [kind |-> "Id", id |-> playing] \in Lines
    BY <1>0 DEF Lines
  <2>2. wire' \in Seq(Lines)
    BY <1>0, <1>5, <2>1, LineSent DEF AnnounceId
  <2> QED
    BY <1>0, <1>5, <2>2 DEF AnnounceId, TypeOK, command, session, bounds
<1>6. CASE AnnounceTrack
  <2>1. [kind |-> "Metatext", id |-> playing] \in Lines
    BY <1>0 DEF Lines
  <2>2. wire' \in Seq(Lines)
    BY <1>0, <1>6, <2>1, LineSent DEF AnnounceTrack
  <2> QED
    BY <1>0, <1>6, <2>2 DEF AnnounceTrack, TypeOK, command, session, bounds
<1>7. CASE Answer
  <2>1. Head(asked) \in TrackIds /\ asked' \in Seq(TrackIds)
    BY <1>0, <1>7, QueueShrinks DEF Answer
  <2>2. [kind |-> "Response", id |-> Head(asked)] \in Lines
    BY <2>1 DEF Lines
  <2>3. wire' \in Seq(Lines)
    BY <1>0, <1>7, <2>2, LineSent DEF Answer
  <2> QED
    BY <1>0, <1>7, <2>1, <2>3 DEF Answer, TypeOK, device, command, session, bounds
<1>8. CASE AnswerNothing
  <2>1. asked' \in Seq(TrackIds)
    BY <1>0, <1>8, QueueShrinks DEF AnswerNothing
  <2>2. [kind |-> "Nothing"] \in Lines
    BY DEF Lines
  <2>3. wire' \in Seq(Lines)
    BY <1>0, <1>8, <2>2, LineSent DEF AnswerNothing
  <2> QED
    BY <1>0, <1>8, <2>1, <2>3 DEF AnswerNothing, TypeOK, device, command, session
<1>9. CASE DeviceSaysByeBye
  <2>1. [kind |-> "ByeBye"] \in Lines
    BY DEF Lines
  <2>2. wire' \in Seq(Lines)
    BY <1>0, <1>9, <2>1, LineSent DEF DeviceSaysByeBye
  <2>3. /\ told' \in [queue : BOOLEAN, id : TrackIds \cup {None},
                      meta : TrackIds \cup {None}]
        /\ listener' \in BOOLEAN
    BY <1>9, NotToldType DEF DeviceSaysByeBye
  <2> QED
    BY <1>0, <1>9, <2>2, <2>3 DEF DeviceSaysByeBye, TypeOK, command, session
<1>10. CASE DeviceHangsUp
  <2>1. wire' \in Seq(Lines)
    BY <1>0, <1>10, LinesCut DEF DeviceHangsUp
  <2>2. asked' \in Seq(TrackIds)
    BY <1>10, EmptySeq DEF DeviceHangsUp
  <2>3. /\ told' \in [queue : BOOLEAN, id : TrackIds \cup {None},
                      meta : TrackIds \cup {None}]
        /\ listener' \in BOOLEAN
    BY <1>10, NotToldType DEF DeviceHangsUp
  <2> QED
    BY <1>0, <1>10, <2>1, <2>2, <2>3 DEF DeviceHangsUp, TypeOK, command, session
<1>11. CASE TakeKey
  <2>1. Head(keys) \in Steps /\ keys' \in Seq(Steps)
    BY <1>0, <1>11, QueueShrinks DEF TakeKey
  <2>2. inbox' \in Seq(Steps)
    BY <1>0, <1>11, <2>1, QueueGrows DEF TakeKey
  <2> QED
    BY <1>0, <1>11, <2>1, <2>2 DEF TakeKey, TypeOK, device, connection, session, bounds
<1>12. CASE SkipDone
  <2>1. playing' \in TrackIds
    BY <1>0, <1>12, DeviceNeighbourType DEF SkipDone, TypeOK
  <2> QED
    BY <1>0, <1>12, <2>1 DEF SkipDone, TypeOK, connection, session, bounds
<1>13. CASE SkipFails
  BY <1>0, <1>13 DEF SkipFails, TypeOK, device, connection, session, bounds
<1>14. CASE ShowSkip
  <2>1. Head(inbox) \in Steps /\ inbox' \in Seq(Steps)
    BY <1>0, <1>14, QueueShrinks DEF ShowSkip
  <2>2. now' \in Nat
    BY <1>0, <1>14 DEF ShowSkip
  <2>3. CASE PredictSkip(Head(inbox))
    <3> DEFINE id == NeighbourId(playlist, Head(inbox))
               i == CacheIndex(playlist, id)
    <3>1. playlist' \in PlaylistStates /\ playlist'.cache = playlist.cache
      BY <1>0, <2>1, <2>2, <2>3, PredictProperty DEF PredictSkip
    <3>2. i # 0 /\ i \in 0..Len(playlist.cache)
      BY <1>0, <2>3, CacheIndexProperty DEF PredictSkip, CanPredict
    <3>3. playlist.cache \in Seq(CacheEntries) /\ Len(playlist.cache) \in Nat
      BY <1>0 DEF PlaylistStates
    <3>4. track' = playlist.cache[i].metadata
      BY <2>3, <3>2 DEF PredictSkip, Cached
    <3> HIDE DEF i
    <3>5. playlist.cache[i] \in CacheEntries
      BY <3>2, <3>3, ElementOfSeq
    <3>6. track' \in Metadata
      BY <3>4, <3>5 DEF CacheEntries
    <3> QED
      BY <1>0, <1>14, <2>1, <2>2, <3>1, <3>6
      DEF ShowSkip, TypeOK, CacheKept, device, connection, command, bounds
  <2>4. CASE ClearTrack
    BY <1>0, <1>14, <2>1, <2>2, <2>4
    DEF ShowSkip, ClearTrack, TypeOK, CacheKept, device, connection, command, bounds
  <2> QED
    BY <1>14, <2>3, <2>4 DEF ShowSkip
<1>15. CASE BeginPoll
  <2>1. /\ told' \in [queue : BOOLEAN, id : TrackIds \cup {None},
                      meta : TrackIds \cup {None}]
        /\ listener' \in BOOLEAN
    BY <1>15, NotToldType DEF BeginPoll, TypeOK, Closed
  <2> QED
    BY <1>0, <1>15, <2>1 DEF BeginPoll, TypeOK, connection, command, bounds
<1>16. CASE ReadEvent
  <2>1. wire' \in Seq(Lines) /\ Head(wire) \in Lines
    BY <1>0, <1>16, LineRead DEF ReadEvent
  <2>2. /\ playlist' \in PlaylistStates /\ CacheKept(playlist')
        /\ track' \in Metadata \cup {None} /\ subscribed' \in BOOLEAN
    BY <1>16, <2>1, SessionReads DEF ReadEvent
  <2> QED
    BY <1>0, <1>16, <2>1, <2>2 DEF ReadEvent, TypeOK, device, command, bounds
<1>17. CASE PollPassesAnswer
  <2>1. wire' \in Seq(Lines)
    BY <1>0, <1>17, LineRead DEF PollPassesAnswer
  <2> QED
    BY <1>0, <1>17, <2>1 DEF PollPassesAnswer, TypeOK, device, command, session, bounds
<1>18. CASE PollMeetsEof
  <2>1. wire' \in Seq(Lines)
    BY <1>18, EmptySeq DEF PollMeetsEof
  <2> QED
    BY <1>0, <1>18, <2>1 DEF PollMeetsEof, TypeOK, device, command, bounds
<1>19. CASE PollEnds
  <2> DEFINE ids == IdsNeedingMetadata(playlist)
  <2>1. ids \in Seq(TrackIds)
    BY <1>0, IdsNeedingMetadataProperty
  <2> HIDE DEF ids
  <2>2. /\ wanted' = ids
        /\ phase' = IF ids = <<>> THEN "idle" ELSE "awaiting"
        /\ IF ids = <<>> THEN UNCHANGED asked ELSE Ask(Head(ids))
    BY <1>19 DEF PollEnds, ids
  <2>3. asked' \in Seq(TrackIds)
    BY <1>0, <2>1, <2>2, QueueShrinks, AskType
  <2> QED
    BY <1>0, <1>19, <2>1, <2>2, <2>3 DEF PollEnds, TypeOK, device, command, bounds
<1>20. CASE PrefetchReadsAnswer
  <2>1. wire' \in Seq(Lines) /\ Head(wire) \in Lines
    BY <1>0, <1>20, LineRead DEF PrefetchReadsAnswer
  <2>2. Head(wire).id \in TrackIds /\ MetadataOf[Head(wire).id] \in Metadata
    BY <1>20, <2>1, SkipAssumption DEF PrefetchReadsAnswer, Lines
  <2>3. Head(wanted) \in TrackIds
    BY <1>0, <1>20, QueueShrinks DEF PrefetchReadsAnswer, TypeOK
  <2>4. playlist' \in PlaylistStates /\ CacheKept(playlist')
    BY <1>0, <1>20, <2>2, <2>3, CacheTrackProperty DEF PrefetchReadsAnswer, CacheKept
  <2>5. /\ wanted' \in Seq(TrackIds) /\ asked' \in Seq(TrackIds)
        /\ phase' \in {"idle", "awaiting"}
        /\ (phase' = "awaiting") <=> (wanted' # <<>>)
    BY <1>20, NextWantedType DEF PrefetchReadsAnswer
  <2> QED
    BY <1>0, <1>20, <2>1, <2>4, <2>5
    DEF PrefetchReadsAnswer, TypeOK, device, command, bounds
<1>21. CASE PrefetchReadsNothing
  <2>1. wire' \in Seq(Lines)
    BY <1>0, <1>21, LineRead DEF PrefetchReadsNothing
  <2>2. /\ wanted' \in Seq(TrackIds) /\ asked' \in Seq(TrackIds)
        /\ phase' \in {"idle", "awaiting"}
        /\ (phase' = "awaiting") <=> (wanted' # <<>>)
    <3>1. CASE NextWanted
      BY <1>21, <3>1, NextWantedType DEF PrefetchReadsNothing
    <3>2. CASE wanted' = <<>> /\ phase' = "idle" /\ UNCHANGED asked
      BY <1>0, <3>2, EmptySeq
    <3> QED
      BY <1>21, <3>1, <3>2 DEF PrefetchReadsNothing
  <2> QED
    BY <1>0, <1>21, <2>1, <2>2
    DEF PrefetchReadsNothing, TypeOK, device, command, bounds
<1>22. CASE PrefetchFails
  BY <1>0, <1>22 DEF PrefetchFails, TypeOK, device, connection, command
<1>23. CASE UNCHANGED vars
  BY <1>0, <1>23 DEF vars, TypeOK, device, connection, command, session, bounds
<1> QED
  BY <1>1, <1>2, <1>3, <1>4, <1>5, <1>6, <1>7, <1>8, <1>9, <1>10, <1>11, <1>12,
     <1>13, <1>14, <1>15, <1>16, <1>17, <1>18, <1>19, <1>20, <1>21, <1>22, <1>23
  DEF Next, Device, CommandThread, Background

(* The shape of the state. *)
THEOREM TypeCorrect == Spec => []TypeOK
<1>1. Shape => TypeOK
  BY DEF Shape
<1> QED
  BY <1>1, InitShape, StepShape, PTL DEF Spec
-----------------------------------------------------------------------------
(* The connection.                                                         *)

(* The end of file is the last line there is: a closed connection brings   *)
(* nothing more, and nobody on it is told or asked anything. *)
Connected ==
  /\ NeverDeaf
  /\ Closed => ~listener /\ asked = <<>>
  /\ \A i \in DOMAIN wire : wire[i].kind = "Eof" => i = Len(wire)

LEMMA InitConnected == Init => Connected
BY EmptySeq DEF Init, Connected, NeverDeaf, Closed

(* A line is sent on an open connection. *)
LEMMA SentConnected ==
  ASSUME Shape, Connected, ~Closed,
         NEW line \in Lines, line.kind # "Eof", wire' = Append(wire, line),
         subscribed' = subscribed, listener' = listener \/ line.kind = "ByeBye"
  PROVE  Connected'
<1>1. /\ DOMAIN wire = 1..Len(wire) /\ DOMAIN wire' = 1..(Len(wire) + 1)
      /\ \A i \in 1..Len(wire) : wire'[i] = wire[i]
      /\ wire'[Len(wire) + 1] = line
      /\ Len(wire) \in Nat
  BY LineSent DEF Shape, TypeOK
<1>2. \A i \in DOMAIN wire' : wire'[i].kind # "Eof"
  BY <1>1 DEF Closed
<1>3. NeverDeaf'
  <2> SUFFICES ASSUME subscribed', ~listener'
               PROVE  \E i \in DOMAIN wire' : wire'[i].kind \in {"ByeBye", "Eof"}
    BY DEF NeverDeaf
  <2>1. CASE line.kind = "ByeBye"
    BY <1>1, <2>1
  <2>2. CASE line.kind # "ByeBye"
    <3>1. PICK i \in DOMAIN wire : wire[i].kind \in {"ByeBye", "Eof"}
      BY <2>2 DEF Connected, NeverDeaf
    <3>2. i \in DOMAIN wire' /\ wire'[i] = wire[i]
      BY <1>1
    <3> QED
      BY <3>1, <3>2
  <2> QED
    BY <2>1, <2>2
<1> QED
  BY <1>2, <1>3 DEF Connected, Closed

(* A line is read that is not the end of file; the end of the subscription *)
(* is not read in vain. *)
LEMMA ReadConnected ==
  ASSUME Shape, Connected, wire # <<>>, wire' = Tail(wire), Head(wire).kind # "Eof",
         listener' = listener, subscribed' => subscribed /\ Head(wire).kind # "ByeBye",
         Closed => asked' = asked
  PROVE  Connected'
<1>1. /\ DOMAIN wire = 1..Len(wire) /\ DOMAIN wire' = 1..(Len(wire) - 1)
      /\ \A i \in 1..(Len(wire) - 1) : wire'[i] = wire[i + 1]
      /\ Len(wire) \in Nat \ {0} /\ Head(wire) = wire[1]
      /\ wire' \in Seq(Lines)
  BY LineRead DEF Shape, TypeOK
<1>2. Closed' => Closed
  BY <1>1 DEF Closed
<1>3. NeverDeaf'
  <2> SUFFICES ASSUME subscribed', ~listener'
               PROVE  \E i \in DOMAIN wire' : wire'[i].kind \in {"ByeBye", "Eof"}
    BY DEF NeverDeaf
  <2>1. PICK i \in DOMAIN wire : wire[i].kind \in {"ByeBye", "Eof"}
    BY DEF Connected, NeverDeaf
  <2>2. i # 1
    BY <1>1, <2>1
  <2>3. i - 1 \in DOMAIN wire' /\ wire'[i - 1] = wire[i]
    BY <1>1, <2>2
  <2> QED
    BY <2>1, <2>3
<1>4. \A i \in DOMAIN wire' : wire'[i].kind = "Eof" => i = Len(wire')
  <2> SUFFICES ASSUME NEW i \in DOMAIN wire', wire'[i].kind = "Eof"
               PROVE  i = Len(wire')
    OBVIOUS
  <2>1. i + 1 \in DOMAIN wire /\ wire[i + 1].kind = "Eof"
    BY <1>1
  <2>2. i + 1 = Len(wire) /\ Len(wire') = Len(wire) - 1
    BY <1>1, <2>1, LenProperties DEF Connected
  <2> QED
    BY <1>1, <2>2
<1> QED
  BY <1>2, <1>3, <1>4 DEF Connected

LEMMA SameConnected ==
  ASSUME Connected, UNCHANGED <<wire, listener, subscribed>>, Closed => asked' = asked
  PROVE  Connected'
BY DEF Connected, NeverDeaf, Closed

LEMMA NextWantedClosed ==
  ASSUME NextWanted, Closed PROVE asked' = asked
BY DEF NextWanted, Ask

LEMMA StepConnected == Shape /\ Connected /\ [Next]_vars => Connected'
<1> SUFFICES ASSUME Shape, Connected, [Next]_vars PROVE Connected'
  OBVIOUS
<1>1. CASE Tick \/ (\E step \in world.directions : Press(step)) \/ DeviceMoves
           \/ CommandThread \/ ShowSkip \/ PrefetchFails \/ UNCHANGED vars
  BY <1>1, SameConnected
  DEF Tick, Press, DeviceMoves, CommandThread, TakeKey, SkipDone, SkipFails, ShowSkip,
      PrefetchFails, vars, device, connection, command, session, bounds
<1>2. CASE AnnounceQueue
  <2>1. [kind |-> "Queue"] \in Lines /\ ~Closed /\ subscribed' = subscribed
    BY <1>2 DEF AnnounceQueue, Lines, Connected, session
  <2> QED
    BY <1>2, <2>1, SentConnected DEF AnnounceQueue
<1>3. CASE AnnounceId
  <2>1. [kind |-> "Id", id |-> playing] \in Lines /\ ~Closed /\ subscribed' = subscribed
    BY <1>3 DEF AnnounceId, Lines, Connected, session, Shape, TypeOK
  <2> QED
    BY <1>3, <2>1, SentConnected DEF AnnounceId
<1>4. CASE AnnounceTrack
  <2>1. [kind |-> "Metatext", id |-> playing] \in Lines /\ ~Closed /\ subscribed' = subscribed
    BY <1>4 DEF AnnounceTrack, Lines, Connected, session, Shape, TypeOK
  <2> QED
    BY <1>4, <2>1, SentConnected DEF AnnounceTrack
<1>5. CASE Answer
  <2>1. Head(asked) \in TrackIds
    BY <1>5, QueueShrinks DEF Answer, Shape, TypeOK
  <2>2. [kind |-> "Response", id |-> Head(asked)] \in Lines
    BY <2>1 DEF Lines
  <2>3. ~Closed /\ subscribed' = subscribed /\ listener' = listener
    BY <1>5 DEF Answer, Connected, session, device
  <2> QED
    BY <1>5, <2>2, <2>3, SentConnected DEF Answer
<1>6. CASE AnswerNothing
  <2>1. [kind |-> "Nothing"] \in Lines
    BY DEF Lines
  <2>2. ~Closed /\ subscribed' = subscribed /\ listener' = listener
    BY <1>6 DEF AnswerNothing, Connected, session, device
  <2> QED
    BY <1>6, <2>1, <2>2, SentConnected DEF AnswerNothing
<1>7. CASE DeviceSaysByeBye
  <2>1. [kind |-> "ByeBye"] \in Lines
    BY DEF Lines
  <2>2. ~Closed /\ subscribed' = subscribed /\ listener' = FALSE
    BY <1>7 DEF DeviceSaysByeBye, Connected, session
  <2>3. /\ DOMAIN wire = 1..Len(wire) /\ DOMAIN wire' = 1..(Len(wire) + 1)
        /\ \A i \in 1..Len(wire) : wire'[i] = wire[i]
        /\ wire'[Len(wire) + 1] = [kind |-> "ByeBye"]
        /\ Len(wire) \in Nat
    BY <1>7, <2>1, LineSent DEF DeviceSaysByeBye, Shape, TypeOK
  <2>4. Len(wire) + 1 \in DOMAIN wire' /\ wire'[Len(wire) + 1].kind = "ByeBye"
    BY <2>3
  <2>5. \A i \in DOMAIN wire' : wire'[i].kind # "Eof"
    BY <2>2, <2>3 DEF Closed
  <2> QED
    BY <2>4, <2>5 DEF Connected, NeverDeaf, Closed
<1>8. CASE DeviceHangsUp
  <2>1. PICK n \in 0..Len(wire) :
          wire' = Append(SubSeq(wire, 1, n), [kind |-> "Eof"])
    BY <1>8 DEF DeviceHangsUp
  <2>2. /\ wire' \in Seq(Lines) /\ Len(wire) \in Nat
        /\ DOMAIN wire = 1..Len(wire) /\ DOMAIN wire' = 1..(n + 1)
        /\ \A i \in 1..n : wire'[i] = wire[i]
        /\ wire'[n + 1] = [kind |-> "Eof"]
    BY <2>1, LinesCut DEF Shape, TypeOK
  <2>3. n + 1 \in DOMAIN wire' /\ Len(wire') = n + 1 /\ wire'[n + 1].kind = "Eof"
    BY <2>2, LenProperties
  <2>4. \A i \in 1..n : wire'[i].kind # "Eof"
    <3> SUFFICES ASSUME NEW i \in 1..n PROVE wire'[i].kind # "Eof"
      OBVIOUS
    <3>1. i \in DOMAIN wire /\ wire'[i] = wire[i]
      BY <2>1, <2>2
    <3>2. \A j \in DOMAIN wire : wire[j].kind # "Eof"
      BY <1>8 DEF DeviceHangsUp, Closed
    <3> QED
      BY <3>1, <3>2
  <2>5. \A i \in DOMAIN wire' : wire'[i].kind = "Eof" => i = Len(wire')
    BY <2>2, <2>3, <2>4
  <2> QED
    BY <1>8, <2>3, <2>5 DEF DeviceHangsUp, Connected, NeverDeaf
<1>9. CASE BeginPoll
  BY <1>9 DEF BeginPoll, Connected, NeverDeaf, Closed, connection
<1>10. CASE ReadEvent
  <2>1. Head(wire).kind # "Eof" /\ (subscribed' => subscribed /\ Head(wire).kind # "ByeBye")
    BY <1>10 DEF ReadEvent, HandleMessage, HandleId, HandleQueue, HandleMetatext,
                 HandleByeBye
  <2> QED
    BY <1>10, <2>1, ReadConnected DEF ReadEvent, device
<1>11. CASE PollPassesAnswer
  BY <1>11, ReadConnected DEF PollPassesAnswer, device, session
<1>12. CASE PollMeetsEof
  BY <1>12, EmptySeq DEF PollMeetsEof, Connected, NeverDeaf, Closed
<1>13. CASE PollEnds
  <2>1. Closed => asked' = asked
    BY <1>13 DEF PollEnds, Ask
  <2> QED
    BY <1>13, <2>1, SameConnected DEF PollEnds, device
<1>14. CASE PrefetchReadsAnswer
  BY <1>14, ReadConnected, NextWantedClosed DEF PrefetchReadsAnswer, device
<1>15. CASE PrefetchReadsNothing
  BY <1>15, ReadConnected, NextWantedClosed DEF PrefetchReadsNothing, device
<1> QED
  BY <1>1, <1>2, <1>3, <1>4, <1>5, <1>6, <1>7, <1>8, <1>9, <1>10, <1>11, <1>12,
     <1>13, <1>14, <1>15
  DEF Next, Device, Background

(* A session that believes itself subscribed is heard by the device, or    *)
(* has yet to read that it no longer is (ensure_subscribed, the resets of  *)
(* status()). *)
THEOREM NeverEverDeaf == Spec => []NeverDeaf
<1>1. Connected => NeverDeaf
  BY DEF Connected
<1> QED
  BY <1>1, InitShape, StepShape, InitConnected, StepConnected, PTL DEF Spec
-----------------------------------------------------------------------------
(* The cache.                                                              *)

IsAnswer(line) == line.kind \in {"Response", "Nothing"}

NoAnswers == \A i \in DOMAIN wire : ~IsAnswer(wire[i])

(* While the session waits there is one answer to come, on its way to the  *)
(* device or back from it, and it is the one waited for. *)
OneAnswer ==
  /\ phase # "awaiting" => asked = <<>> /\ NoAnswers
  /\ asked # <<>> => Len(asked) = 1 /\ Head(asked) = Head(wanted) /\ NoAnswers
  /\ \A i \in DOMAIN wire : wire[i].kind = "Response" => wire[i].id = Head(wanted)
  /\ \A i, j \in DOMAIN wire : IsAnswer(wire[i]) /\ IsAnswer(wire[j]) => i = j

CacheTrue ==
  \A i \in DOMAIN playlist.cache :
    playlist.cache[i].metadata = MetadataOf[playlist.cache[i].id]

Answering == ~world.lateAnswers => OneAnswer /\ CacheTrue

LEMMA InitAnswering == Init => Answering
BY EmptySeq DEF Init, Answering, OneAnswer, NoAnswers, CacheTrue, EmptyPlaylist

(* Nothing is asked, nothing arrives or leaves that is an answer. *)
LEMMA SameAnswer ==
  ASSUME OneAnswer, UNCHANGED <<wire, asked, wanted>>,
         phase' = "awaiting" <=> phase = "awaiting"
  PROVE  OneAnswer'
BY DEF OneAnswer, NoAnswers

LEMMA OtherLineSent ==
  ASSUME Shape, OneAnswer, NEW line \in Lines, ~IsAnswer(line),
         wire' = Append(wire, line), UNCHANGED <<asked, wanted, phase>>
  PROVE  OneAnswer'
<1>1. /\ DOMAIN wire = 1..Len(wire) /\ DOMAIN wire' = 1..(Len(wire) + 1)
      /\ \A i \in 1..Len(wire) : wire'[i] = wire[i]
      /\ wire'[Len(wire) + 1] = line
      /\ Len(wire) \in Nat
  BY LineSent DEF Shape, TypeOK
<1>2. \A i \in DOMAIN wire' : IsAnswer(wire'[i]) => i \in DOMAIN wire /\ wire'[i] = wire[i]
  BY <1>1
<1>3. \A i \in DOMAIN wire' : wire'[i].kind = "Response" => IsAnswer(wire'[i])
  BY DEF IsAnswer
<1> QED
  BY <1>2, <1>3 DEF OneAnswer, NoAnswers

LEMMA OtherLineRead ==
  ASSUME Shape, OneAnswer, wire # <<>>, wire' = Tail(wire),
         UNCHANGED <<asked, wanted, phase>>
  PROVE  OneAnswer'
<1>1. /\ DOMAIN wire = 1..Len(wire) /\ DOMAIN wire' = 1..(Len(wire) - 1)
      /\ \A i \in 1..(Len(wire) - 1) : wire'[i] = wire[i + 1]
      /\ Len(wire) \in Nat \ {0}
  BY LineRead DEF Shape, TypeOK
<1>2. \A i \in DOMAIN wire' : i \in Int /\ i + 1 \in DOMAIN wire /\ wire'[i] = wire[i + 1]
  BY <1>1
<1>3. \A i, j \in DOMAIN wire' : i + 1 = j + 1 => i = j
  BY <1>2
<1> QED
  BY <1>2, <1>3 DEF OneAnswer, NoAnswers

(* The answer is read: there is no other, and at most one more is asked for. *)
LEMMA AnswerRead ==
  ASSUME Shape, OneAnswer, wire # <<>>, wire' = Tail(wire), IsAnswer(Head(wire))
  PROVE  NoAnswers' /\ asked = <<>>
<1>1. /\ DOMAIN wire = 1..Len(wire) /\ DOMAIN wire' = 1..(Len(wire) - 1)
      /\ \A i \in 1..(Len(wire) - 1) : wire'[i] = wire[i + 1]
      /\ Len(wire) \in Nat \ {0} /\ Head(wire) = wire[1]
  BY LineRead DEF Shape, TypeOK
<1>2. 1 \in DOMAIN wire /\ IsAnswer(wire[1])
  BY <1>1
<1>3. \A i \in DOMAIN wire' : i + 1 \in DOMAIN wire /\ i + 1 # 1 /\ wire'[i] = wire[i + 1]
  BY <1>1
<1>4. NoAnswers'
  BY <1>2, <1>3 DEF NoAnswers, OneAnswer
<1> QED
  BY <1>2, <1>4 DEF NoAnswers, OneAnswer

LEMMA AskedOne ==
  ASSUME asked = <<>>, NoAnswers', NEW id \in TrackIds, Ask(id),
         phase' = "awaiting", wanted' # <<>>, Head(wanted') = id
  PROVE  OneAnswer'
<1>1. asked' = asked \/ asked' = Append(asked, id)
  BY DEF Ask
<1>2. Append(<<>>, id) = <<id>> /\ Len(<<id>>) = 1 /\ Head(<<id>>) = id
  OBVIOUS
<1>3. asked' # <<>> => Len(asked') = 1 /\ Head(asked') = Head(wanted')
  BY <1>1, <1>2
<1> QED
  BY <1>3 DEF OneAnswer, NoAnswers, IsAnswer

LEMMA AskedNone ==
  ASSUME asked' = <<>>, NoAnswers', phase' # "awaiting"
  PROVE  OneAnswer'
BY DEF OneAnswer, NoAnswers, IsAnswer

LEMMA NextWantedAnswer ==
  ASSUME Shape, phase = "awaiting", asked = <<>>, NoAnswers', NextWanted
  PROVE  OneAnswer'
<1>1. /\ wanted' \in Seq(TrackIds) /\ Len(wanted) \in Nat \ {0}
      /\ Len(wanted) > 1 => wanted'[1] = wanted[2] /\ wanted[2] \in TrackIds
      /\ wanted' # <<>> <=> Len(wanted) > 1
  BY NextWantedType
<1>2. CASE Len(wanted) > 1
  <2>1. Head(wanted') = wanted[2] /\ wanted' # <<>> /\ wanted[2] \in TrackIds
    BY <1>1, <1>2
  <2>2. Ask(wanted[2]) /\ phase' = "awaiting"
    BY <1>2 DEF NextWanted
  <2> QED
    BY <2>1, <2>2, AskedOne
<1>3. CASE ~(Len(wanted) > 1)
  BY <1>3, AskedNone DEF NextWanted
<1> QED
  BY <1>2, <1>3

(* Storing an entry leaves the others as they are. *)
LEMMA CacheTrackEntries ==
  ASSUME NEW p \in PlaylistStates, NEW id \in TrackIds, NEW metadata \in Metadata
  PROVE  \A i \in DOMAIN CacheTrack(p, id, metadata).cache :
           LET e == CacheTrack(p, id, metadata).cache[i]
           IN  \/ e.id = id /\ e.metadata = metadata
               \/ \E j \in DOMAIN p.cache : e = p.cache[j]
<1> DEFINE at == CacheIndex(p, id)
           n == Len(p.cache)
           entry == [id |-> id, metadata |-> metadata]
           kept == IF n >= TrackCacheLen THEN Tail(p.cache) ELSE p.cache
           c == CacheTrack(p, id, metadata).cache
<1>1. /\ p.cache \in Seq(CacheEntries) /\ n \in Nat /\ DOMAIN p.cache = 1..n
      /\ entry \in CacheEntries /\ TrackCacheLen \in Nat \ {0}
      /\ entry.id = id /\ entry.metadata = metadata
  BY LenProperties, PlaylistAssumption DEF PlaylistStates, CacheEntries
<1>2. c = IF at # 0 THEN [p.cache EXCEPT ![at] = entry] ELSE Append(kept, entry)
  BY DEF CacheTrack, PlaylistStates
<1>3. \A i \in DOMAIN c : c[i] = entry \/ \E j \in DOMAIN p.cache : c[i] = p.cache[j]
  <2>1. CASE at # 0
    BY <1>2, <2>1
  <2>2. CASE at = 0
    <3>1. kept \in Seq(CacheEntries) /\ Len(kept) \in Nat
          /\ \A i \in 1..Len(kept) : \E j \in DOMAIN p.cache : kept[i] = p.cache[j]
      <4>1. CASE n >= TrackCacheLen
        <5>1. p.cache # <<>>
          BY <1>1, <4>1, EmptySeq
        <5>2. /\ Tail(p.cache) \in Seq(CacheEntries) /\ Len(Tail(p.cache)) = n - 1
              /\ \A i \in 1..(n - 1) : Tail(p.cache)[i] = p.cache[i + 1]
          BY <1>1, <5>1, HeadTailProperties
        <5>3. \A i \in 1..(n - 1) : i + 1 \in DOMAIN p.cache
          BY <1>1
        <5> QED
          BY <1>1, <4>1, <5>2, <5>3
      <4>2. CASE ~(n >= TrackCacheLen)
        BY <1>1, <4>2
      <4> QED
        BY <4>1, <4>2
    <3> HIDE DEF kept, entry, c
    <3>2. c = Append(kept, entry)
      BY <1>2, <2>2
    <3>3. /\ DOMAIN c = 1..(Len(kept) + 1)
          /\ \A i \in 1..Len(kept) : c[i] = kept[i]
          /\ c[Len(kept) + 1] = entry
      BY <1>1, <3>1, <3>2, AppendProperties, LenProperties
    <3> QED
      BY <3>1, <3>3
  <2> QED
    BY <2>1, <2>2
<1> HIDE DEF c, entry
<1> QED
  BY <1>1, <1>3 DEF c

LEMMA StepOneAnswer ==
  ASSUME Shape, Connected, OneAnswer, ~world.lateAnswers, [Next]_vars
  PROVE  OneAnswer'
<1>1. CASE Tick \/ (\E step \in world.directions : Press(step)) \/ DeviceMoves
           \/ CommandThread \/ ShowSkip \/ UNCHANGED vars
  BY <1>1, SameAnswer
  DEF Tick, Press, DeviceMoves, CommandThread, TakeKey, SkipDone, SkipFails, ShowSkip,
      vars, device, connection, command, session, bounds
<1>2. CASE AnnounceQueue
  <2>1. [kind |-> "Queue"] \in Lines /\ ~IsAnswer([kind |-> "Queue"])
    BY DEF Lines, IsAnswer
  <2> QED
    BY <1>2, <2>1, OtherLineSent DEF AnnounceQueue, session
<1>3. CASE AnnounceId
  <2>1. /\ [kind |-> "Id", id |-> playing] \in Lines
        /\ ~IsAnswer([kind |-> "Id", id |-> playing])
    BY DEF Lines, IsAnswer, Shape, TypeOK
  <2> QED
    BY <1>3, <2>1, OtherLineSent DEF AnnounceId, session
<1>4. CASE AnnounceTrack
  <2>1. /\ [kind |-> "Metatext", id |-> playing] \in Lines
        /\ ~IsAnswer([kind |-> "Metatext", id |-> playing])
    BY DEF Lines, IsAnswer, Shape, TypeOK
  <2> QED
    BY <1>4, <2>1, OtherLineSent DEF AnnounceTrack, session
<1>5. CASE DeviceSaysByeBye
  <2>1. [kind |-> "ByeBye"] \in Lines /\ ~IsAnswer([kind |-> "ByeBye"])
    BY DEF Lines, IsAnswer
  <2> QED
    BY <1>5, <2>1, OtherLineSent DEF DeviceSaysByeBye, session
<1>6. ASSUME NEW line \in Lines, asked # <<>>, asked' = Tail(asked),
             wire' = Append(wire, line), UNCHANGED <<wanted, phase>>,
             line.kind = "Response" => line.id = Head(asked)
      PROVE  OneAnswer'
  <2>1. /\ Len(asked) = 1 /\ Head(asked) = Head(wanted) /\ NoAnswers
        /\ phase = "awaiting" /\ asked \in Seq(TrackIds)
    BY <1>6 DEF OneAnswer, Shape, TypeOK
  <2>2. asked' = <<>>
    <3> DEFINE rest == Tail(asked)
    <3>1. rest \in Seq(TrackIds) /\ Len(rest) = 0
      BY <1>6, <2>1, HeadTailProperties
    <3> HIDE DEF rest
    <3>2. rest = <<>>
      BY <3>1, EmptySeq
    <3> QED
      BY <1>6, <3>2 DEF rest
  <2>3. /\ DOMAIN wire = 1..Len(wire) /\ DOMAIN wire' = 1..(Len(wire) + 1)
        /\ \A i \in 1..Len(wire) : wire'[i] = wire[i]
        /\ wire'[Len(wire) + 1] = line
        /\ Len(wire) \in Nat
    BY <1>6, LineSent DEF Shape, TypeOK
  <2>4. \A i \in DOMAIN wire' : IsAnswer(wire'[i]) => i = Len(wire) + 1
    BY <2>1, <2>3 DEF NoAnswers
  <2>5. \A i \in DOMAIN wire' : wire'[i].kind = "Response" => wire'[i].id = Head(wanted)
    BY <1>6, <2>1, <2>3, <2>4 DEF IsAnswer
  <2> QED
    BY <1>6, <2>1, <2>2, <2>4, <2>5 DEF OneAnswer
<1>7. CASE Answer
  <2>1. Head(asked) \in TrackIds
    BY <1>7, QueueShrinks DEF Answer, Shape, TypeOK
  <2>2. [kind |-> "Response", id |-> Head(asked)] \in Lines
    BY <2>1 DEF Lines
  <2> QED
    BY <1>6, <1>7, <2>2 DEF Answer, session
<1>8. CASE AnswerNothing
  <2>1. [kind |-> "Nothing"] \in Lines
    BY DEF Lines
  <2> QED
    BY <1>6, <1>8, <2>1 DEF AnswerNothing, session
<1>9. CASE DeviceHangsUp
  <2>1. PICK n \in 0..Len(wire) :
          wire' = Append(SubSeq(wire, 1, n), [kind |-> "Eof"])
    BY <1>9 DEF DeviceHangsUp
  <2>2. /\ Len(wire) \in Nat
        /\ DOMAIN wire = 1..Len(wire) /\ DOMAIN wire' = 1..(n + 1)
        /\ \A i \in 1..n : wire'[i] = wire[i]
        /\ wire'[n + 1] = [kind |-> "Eof"]
    BY <2>1, LinesCut DEF Shape, TypeOK
  <2>3. \A i \in DOMAIN wire' : IsAnswer(wire'[i]) => i \in DOMAIN wire /\ wire'[i] = wire[i]
    <3> SUFFICES ASSUME NEW i \in 1..(n + 1), IsAnswer(wire'[i])
                 PROVE  i \in DOMAIN wire /\ wire'[i] = wire[i]
      BY <2>2
    <3>1. i # n + 1
      BY <2>2 DEF IsAnswer
    <3>2. i \in 1..n
      BY <3>1
    <3> QED
      BY <2>1, <2>2, <3>2
  <2>4. \A i \in DOMAIN wire' : wire'[i].kind = "Response" => IsAnswer(wire'[i])
    BY DEF IsAnswer
  <2>5. asked' = <<>> /\ UNCHANGED <<phase, wanted>>
    BY <1>9 DEF DeviceHangsUp, session
  <2> QED
    BY <2>3, <2>4, <2>5 DEF OneAnswer, NoAnswers
<1>10. CASE BeginPoll
  BY <1>10, SameAnswer DEF BeginPoll, connection
<1>11. CASE ReadEvent
  BY <1>11, OtherLineRead DEF ReadEvent
<1>12. CASE PollPassesAnswer
  BY <1>12, OtherLineRead DEF PollPassesAnswer, session
<1>13. CASE PollMeetsEof
  <2>1. NoAnswers' /\ asked' = <<>> /\ phase' # "awaiting"
    BY <1>13 DEF PollMeetsEof, NoAnswers, OneAnswer
  <2> QED
    BY <2>1, AskedNone
<1>14. CASE PollEnds
  <2> DEFINE ids == IdsNeedingMetadata(playlist)
  <2>1. ids \in Seq(TrackIds)
    BY IdsNeedingMetadataProperty DEF Shape, TypeOK
  <2> HIDE DEF ids
  <2>2. /\ wanted' = ids
        /\ phase' = IF ids = <<>> THEN "idle" ELSE "awaiting"
        /\ IF ids = <<>> THEN UNCHANGED asked ELSE Ask(Head(ids))
    BY <1>14 DEF PollEnds, ids
  <2>3. asked = <<>> /\ NoAnswers'
    BY <1>14 DEF PollEnds, OneAnswer, NoAnswers
  <2>4. CASE ids = <<>>
    BY <2>2, <2>3, <2>4, AskedNone
  <2>5. CASE ids # <<>>
    <3>1. Head(ids) \in TrackIds
      BY <2>1, <2>5, QueueShrinks
    <3> QED
      BY <2>2, <2>3, <2>5, <3>1, AskedOne
  <2> QED
    BY <2>4, <2>5
<1>15. CASE PrefetchReadsAnswer
  <2>1. NoAnswers' /\ asked = <<>>
    BY <1>15, AnswerRead DEF PrefetchReadsAnswer, IsAnswer
  <2> QED
    BY <1>15, <2>1, NextWantedAnswer DEF PrefetchReadsAnswer
<1>16. CASE PrefetchReadsNothing
  <2>1. NoAnswers' /\ asked = <<>>
    BY <1>16, AnswerRead DEF PrefetchReadsNothing, IsAnswer
  <2>2. CASE NextWanted
    BY <1>16, <2>1, <2>2, NextWantedAnswer DEF PrefetchReadsNothing
  <2>3. CASE wanted' = <<>> /\ phase' = "idle" /\ UNCHANGED asked
    BY <2>1, <2>3, AskedNone
  <2> QED
    BY <1>16, <2>2, <2>3 DEF PrefetchReadsNothing
<1>17. CASE PrefetchFails
  <2>1. wire # <<>> /\ Head(wire).kind = "Eof" /\ UNCHANGED <<wire, asked>> /\ phase' = "idle"
    BY <1>17 DEF PrefetchFails, connection
  <2>2. /\ Len(wire) \in Nat \ {0} /\ DOMAIN wire = 1..Len(wire) /\ Head(wire) = wire[1]
    <3>1. wire \in Seq(Lines)
      BY DEF Shape, TypeOK
    <3>2. Len(wire) \in Nat \ {0} /\ DOMAIN wire = 1..Len(wire)
      BY <2>1, <3>1, LenProperties, EmptySeq
    <3> QED
      BY <2>1, <3>1, <3>2, HeadTailProperties
  <2>3. 1 \in DOMAIN wire /\ wire[1].kind = "Eof"
    BY <2>1, <2>2
  <2>4. 1 = Len(wire) /\ asked = <<>>
    BY <2>3 DEF Connected, Closed
  <2>5. NoAnswers
    <3>1. DOMAIN wire = 1..1
      BY <2>2, <2>4
    <3>2. \A i \in 1..1 : i = 1
      OBVIOUS
    <3> QED
      BY <2>3, <3>1, <3>2 DEF NoAnswers, IsAnswer
  <2>6. NoAnswers'
    BY <2>1, <2>5 DEF NoAnswers
  <2> QED
    BY <2>1, <2>4, <2>6, AskedNone
<1> QED
  BY <1>1, <1>2, <1>3, <1>4, <1>5, <1>7, <1>8, <1>9, <1>10, <1>11, <1>12,
     <1>13, <1>14, <1>15, <1>16, <1>17
  DEF Next, Device, Background

LEMMA StepCache ==
  ASSUME Shape, OneAnswer, CacheTrue, [Next]_vars
  PROVE  CacheTrue'
<1>1. CASE PrefetchReadsAnswer
  <2>1. Head(wire) \in Lines /\ wire # <<>> /\ Head(wire) = wire[1] /\ 1 \in DOMAIN wire
    <3>1. wire \in Seq(Lines) /\ wire # <<>>
      BY <1>1 DEF PrefetchReadsAnswer, Shape, TypeOK
    <3>2. Len(wire) \in Nat \ {0} /\ DOMAIN wire = 1..Len(wire)
      BY <3>1, LenProperties, EmptySeq
    <3>3. Head(wire) \in Lines /\ Head(wire) = wire[1]
      BY <3>1, <3>2, HeadTailProperties
    <3>4. 1 \in DOMAIN wire
      BY <3>2
    <3> QED
      BY <3>1, <3>3, <3>4
  <2>2. Head(wire).kind = "Response" /\ Head(wire).id = Head(wanted)
    BY <1>1, <2>1 DEF PrefetchReadsAnswer, OneAnswer
  <2>3. Head(wanted) \in TrackIds
    BY <2>1, <2>2 DEF Lines
  <2> DEFINE id == Head(wanted)
  <2>4. MetadataOf[id] \in Metadata
    BY <2>3, SkipAssumption
  <2>5. playlist' = CacheTrack(playlist, id, MetadataOf[id]) /\ playlist \in PlaylistStates
    BY <1>1, <2>2 DEF PrefetchReadsAnswer, Shape, TypeOK
  <2> HIDE DEF id
  <2>6. id \in TrackIds
    BY <2>3 DEF id
  <2>7. \A i \in DOMAIN playlist'.cache :
          \/ playlist'.cache[i].id = id /\ playlist'.cache[i].metadata = MetadataOf[id]
          \/ \E j \in DOMAIN playlist.cache : playlist'.cache[i] = playlist.cache[j]
    BY <2>4, <2>5, <2>6, CacheTrackEntries
  <2> QED
    BY <2>7 DEF CacheTrue
<1>2. CASE ReadEvent
  <2>1. Head(wire) \in Lines
    BY <1>2, LineRead DEF ReadEvent, Shape, TypeOK
  <2>2. playlist'.cache = playlist.cache
    BY <1>2, <2>1, SessionReads DEF ReadEvent
  <2> QED
    BY <2>2 DEF CacheTrue
<1>3. CASE ShowSkip
  <2>1. Head(inbox) \in Steps
    BY <1>3, QueueShrinks DEF ShowSkip, Shape, TypeOK
  <2>2. now' \in Nat /\ playlist \in PlaylistStates
    BY <1>3 DEF ShowSkip, Shape, TypeOK
  <2>3. playlist'.cache = playlist.cache
    <3>1. CASE PredictSkip(Head(inbox))
      BY <2>1, <2>2, <3>1, PredictProperty DEF PredictSkip
    <3>2. CASE ClearTrack
      BY <3>2 DEF ClearTrack
    <3> QED
      BY <1>3, <3>1, <3>2 DEF ShowSkip
  <2> QED
    BY <2>3 DEF CacheTrue
<1>4. CASE playlist' = playlist
  BY <1>4 DEF CacheTrue
<1> QED
  BY <1>1, <1>2, <1>3, <1>4
  DEF Next, Device, CommandThread, Background, Tick, Press, DeviceMoves,
      AnnounceQueue, AnnounceId, AnnounceTrack, Answer, AnswerNothing,
      DeviceSaysByeBye, DeviceHangsUp, TakeKey, SkipDone, SkipFails, BeginPoll,
      PollPassesAnswer, PollMeetsEof, PollEnds, PrefetchReadsNothing,
      PrefetchFails, session, vars

(* Which world it is does not change. *)
LEMMA SameWorld == [Next]_vars => world' = world
BY DEF Next, Device, CommandThread, Background, Tick, Press, DeviceMoves,
       AnnounceQueue, AnnounceId, AnnounceTrack, Answer, AnswerNothing,
       DeviceSaysByeBye, DeviceHangsUp, TakeKey, SkipDone, SkipFails, ShowSkip,
       BeginPoll, ReadEvent, PollPassesAnswer, PollMeetsEof, PollEnds,
       PrefetchReadsAnswer, PrefetchReadsNothing, PrefetchFails, bounds, vars

LEMMA StepAnswering == Shape /\ Connected /\ Answering /\ [Next]_vars => Answering'
BY StepOneAnswer, StepCache, SameWorld DEF Answering

(* No answer is filed under another id, across queue changes, lost          *)
(* connections and failed reads, as long as none comes after the wait for  *)
(* it (read_track_metadata). *)
THEOREM CacheIsAlwaysTrue == Spec => []CacheIsTrue
<1>1. Answering => CacheIsTrue
  BY DEF Answering, CacheTrue, CacheIsTrue
<1> QED
  BY <1>1, InitShape, StepShape, InitConnected, StepConnected,
     InitAnswering, StepAnswering, PTL DEF Spec
-----------------------------------------------------------------------------
(* The words of a skip.                                                    *)

Whole ==
  playlist.prediction # None => track \in {None, MetadataOf[playlist.current]}

(* What is cached is the description of the track guessed. *)
LEMMA PredictedWhole ==
  ASSUME playlist \in PlaylistStates, CacheTrue, NEW step \in Steps, PredictSkip(step)
  PROVE  track' = MetadataOf[playlist'.current]
<1> DEFINE id == NeighbourId(playlist, step)
           i == CacheIndex(playlist, id)
<1>1. i # 0 /\ i \in 0..Len(playlist.cache) /\ playlist.cache[i].id = id
  BY CacheIndexProperty DEF PredictSkip, CanPredict
<1>2. track' = playlist.cache[i].metadata
  BY <1>1 DEF PredictSkip, Cached
<1>3. i \in DOMAIN playlist.cache
  BY <1>1, LenProperties DEF PlaylistStates
<1>4. playlist'.current = id
  BY DEF PredictSkip, Predict, PlaylistStates
<1> QED
  BY <1>1, <1>2, <1>3, <1>4 DEF CacheTrue

(* A line of the device leaves guess, position and words alone, or ends    *)
(* the guess.                                                              *)
LEMMA MessageWhole ==
  ASSUME Shape, Whole, NEW line \in Lines, HandleMessage(line)
  PROVE  Whole'
<1>0. playlist \in PlaylistStates
  BY DEF Shape, TypeOK
<1>1. CASE HandleId(line)
  <2>1. playlist'.prediction = None \/ playlist' = playlist
    BY <1>0, <1>1 DEF HandleId, ReportedId, PlaylistStates
  <2> QED
    BY <1>1, <2>1 DEF HandleId, Whole
<1>2. CASE HandleQueue(line)
  <2>1. /\ playlist'.prediction = playlist.prediction
        /\ playlist'.current = playlist.current
    BY <1>0, <1>2 DEF HandleQueue, SetIds, PlaylistStates
  <2> QED
    BY <1>2, <2>1 DEF HandleQueue, Whole
<1>3. CASE HandleMetatext(line)
  BY <1>3 DEF HandleMetatext, Whole
<1>4. CASE HandleByeBye(line)
  BY <1>4 DEF HandleByeBye, Whole
<1> QED
  BY <1>1, <1>2, <1>3, <1>4 DEF HandleMessage

LEMMA StepWhole == Shape /\ CacheTrue /\ Whole /\ [Next]_vars => Whole'
<1> SUFFICES ASSUME Shape, CacheTrue, Whole, [Next]_vars PROVE Whole'
  OBVIOUS
<1>0. playlist \in PlaylistStates
  BY DEF Shape, TypeOK
<1>1. CASE ShowSkip
  <2>1. Head(inbox) \in Steps
    BY <1>1, QueueShrinks DEF ShowSkip, Shape, TypeOK
  <2>2. CASE PredictSkip(Head(inbox))
    BY <1>0, <2>1, <2>2, PredictedWhole DEF Whole
  <2>3. CASE ClearTrack
    BY <2>3 DEF ClearTrack, Whole
  <2> QED
    BY <1>1, <2>2, <2>3 DEF ShowSkip
<1>2. CASE ReadEvent
  <2>1. Head(wire) \in Lines
    BY <1>2, LineRead DEF ReadEvent, Shape, TypeOK
  <2> QED
    BY <1>2, <2>1, MessageWhole DEF ReadEvent
<1>3. CASE PrefetchReadsAnswer
  <2>1. /\ playlist'.prediction = playlist.prediction
        /\ playlist'.current = playlist.current
    BY <1>0, <1>3 DEF PrefetchReadsAnswer, CacheTrack, PlaylistStates
  <2> QED
    BY <1>3, <2>1 DEF PrefetchReadsAnswer, Whole
<1>4. CASE UNCHANGED <<playlist, track>>
  BY <1>4 DEF Whole
<1> QED
  BY <1>1, <1>2, <1>3, <1>4
  DEF Next, Device, CommandThread, Background, Tick, Press, DeviceMoves,
      AnnounceQueue, AnnounceId, AnnounceTrack, Answer, AnswerNothing,
      DeviceSaysByeBye, DeviceHangsUp, TakeKey, SkipDone, SkipFails, BeginPoll,
      PollPassesAnswer, PollMeetsEof, PollEnds, PrefetchReadsNothing,
      PrefetchFails, session, vars

(* While a guess is held, position and words are of one track, or the      *)
(* words have been cleared: for every queue, any order of lines and any    *)
(* number of skips in a row, as long as no answer comes after the wait for *)
(* it (predict_skip, handle_message's is_track_scoped, report_id).         *)
THEOREM HeldGuessIsAlwaysWhole == Spec => []HeldGuessIsWhole
<1> DEFINE WholeUnlessLate == ~world.lateAnswers => Whole
<1>1. Init => WholeUnlessLate
  BY DEF Init, EmptyPlaylist, Whole
<1>2. Shape /\ Answering /\ WholeUnlessLate /\ [Next]_vars => WholeUnlessLate'
  BY StepWhole, SameWorld DEF Answering
<1>3. WholeUnlessLate => HeldGuessIsWhole
  BY DEF Whole, HeldGuessIsWhole
<1> QED
  BY <1>1, <1>2, <1>3, InitShape, StepShape, InitConnected, StepConnected,
     InitAnswering, StepAnswering, PTL DEF Spec
-----------------------------------------------------------------------------
(* Agreement with the device.                                              *)

(* What the lines on a connection say of the device, kind by kind. *)
Says(w, kind) == \E i \in DOMAIN w : w[i].kind = kind
SaysOf(w, kind, id) == \E i \in DOMAIN w : w[i].kind = kind /\ w[i].id = id
OnlySays(w, kind, id) == \A i \in DOMAIN w : w[i].kind = kind => w[i].id = id

(* The last of a kind says it of id. *)
LastSays(w, kind, id) ==
  \A i \in DOMAIN w : w[i].kind = kind =>
    w[i].id = id \/ \E j \in DOMAIN w : j > i /\ w[j].kind = kind

(* Each track of which Id tells is followed by the next, up to id. *)
Chained(w, step, id) ==
  \A i \in DOMAIN w : w[i].kind = "Id" =>
    \/ w[i].id = id
    \/ \E j \in DOMAIN w : /\ j > i /\ w[j].kind = "Id"
                           /\ w[j].id = NeighbourOf(w[i].id, step)

(* Id tells of a track, and of another one after it. *)
SaysEarly(w, id) ==
  \E i, j \in DOMAIN w : /\ i < j /\ w[i].kind = "Id" /\ w[j].kind = "Id"
                         /\ w[i].id = id

(* After each Id a description comes, or after each but the last. *)
Described(w) ==
  \A i \in DOMAIN w : w[i].kind = "Id" =>
    \E j \in DOMAIN w : j > i /\ w[j].kind = "Metatext"

DescribedBetween(w) ==
  \A i, k \in DOMAIN w : i < k /\ w[i].kind = "Id" /\ w[k].kind = "Id" =>
    \E j \in DOMAIN w : j > i /\ w[j].kind = "Metatext"

(* A skip is shown that the device has not taken yet. *)
Ahead == sending # None /\ inbox = <<>>

(* Where the device will be once it has taken the skips shown. *)
Target == IF Ahead THEN NeighbourOf(playing, sending) ELSE playing

Guessing == playlist.prediction # None

(* In every world: the device is somewhere in its queue, tells only those  *)
(* who listen, and keeps a connection on which nothing can be lost. *)
Linked ==
  /\ playing \in Range(DeviceQueue)
  /\ ~listener => told = NotTold
  /\ world.losses = 0 =>
       subscribed = listener /\ ~Says(wire, "Eof") /\ ~Says(wire, "ByeBye")

(* The queue is the device's as far as the session holds it, and a guess   *)
(* is where the session is. *)
Queued ==
  /\ Guessing => playlist.prediction.target = playlist.current
  /\ playlist.ids # <<>> =>
       /\ playlist.ids = SetIds(EmptyPlaylist, DeviceQueue).ids
       /\ playlist.repeat = DeviceRepeat
  /\ ~playlist.shuffle

(* What was announced last is the last to be read. *)
Heard ==
  /\ told.id # None => LastSays(wire, "Id", told.id)
  /\ told.meta # None => LastSays(wire, "Metatext", told.meta)
  /\ told.id # None /\ ~Guessing =>
       playlist.current = told.id \/ Says(wire, "Id")

(* Nobody skips. *)
Untouched ==
  /\ keys = <<>> /\ sending = None /\ inbox = <<>> /\ ~Guessing
  /\ told.meta # None /\ ~Says(wire, "Metatext") => track = MetadataOf[told.meta]

(* One command at a time, shown before it is taken. *)
InTurn ==
  /\ keys \in Seq(world.directions)
  /\ sending # None => sending \in world.directions
  /\ inbox # <<>> => sending # None /\ inbox = <<sending>>

(* The user waits for one skip to settle before the next. *)
Patient ==
  /\ keys # <<>> => Len(keys) = 1 /\ sending = None
  /\ keys # <<>> \/ sending # None =>
       /\ told.id \in {None, playing} /\ OnlySays(wire, "Id", playing)
       /\ told.meta \in {None, playing}
  /\ keys # <<>> \/ inbox # <<>> => ~Guessing /\ playlist.current = playing
  /\ Guessing =>
       /\ playlist.current = Target /\ track = MetadataOf[Target]
       /\ Ahead \/ told.id # playing \/ SaysOf(wire, "Id", playing)
  /\ ~Guessing /\ ~Ahead /\ told.meta = playing /\ ~Says(wire, "Metatext") =>
       track = MetadataOf[playing]

(* The track shown is one the device will yet tell of, but not the last. *)
Early ==
  LET id == playlist.current
  IN  \/ SaysEarly(wire, id)
      \/ SaysOf(wire, "Id", id) /\ (told.id # playing \/ Ahead)
      \/ told.id # playing /\ id = playing /\ Ahead

(* The user skips faster than the device, one way: what the device has     *)
(* announced and what it will trail the guess by whole steps. *)
Trailing(step) ==
  /\ told.id = None => ~Says(wire, "Id") /\ ~Guessing
                       /\ playlist.current = None
  /\ told.id \notin {None, playing} => playing = NeighbourOf(told.id, step)
  /\ told.id # None => Chained(wire, step, told.id)
  /\ told.id # None /\ ~Guessing =>
       \/ playlist.current = told.id
       \/ Says(wire, "Id") /\ playlist.current = None
       \/ SaysOf(wire, "Id", NeighbourOf(playlist.current, step))
  /\ Guessing =>
       \/ SaysOf(wire, "Id", playlist.current)
       \/ told.id # playing /\ playlist.current = playing
       \/ Ahead /\ playlist.current = NeighbourOf(playing, step)

(* And the description of the last of those tracks will not be passed over *)
(* while another is shown. *)
Showing ==
  /\ told.meta = playing => DescribedBetween(wire)
  /\ told.meta = playing /\ told.id # playing => Described(wire)
  /\ Guessing => track = MetadataOf[playlist.current] \/ Early
  /\ ~Guessing /\ ~Ahead /\ told.meta = playing /\ ~Says(wire, "Metatext") =>
       track = MetadataOf[playing]

Hurried == \E step \in Steps :
             world.directions = {step} /\ Trailing(step) /\ Showing

Agreeing ==
  /\ Linked /\ Queued /\ Heard
  /\ world.presses = 0 => Untouched
  /\ Orderly /\ world.presses # 0 =>
       /\ InTurn
       /\ world.patient => Patient
       /\ ~world.patient => Hurried
-----------------------------------------------------------------------------
(* What is said on the connection, line by line.                           *)

LEMMA SentSays ==
  ASSUME wire \in Seq(Lines), NEW line \in Lines, wire' = Append(wire, line)
  PROVE  /\ \A kind : Says(wire', kind) <=> Says(wire, kind) \/ line.kind = kind
         /\ \A kind, id : SaysOf(wire', kind, id)
                            <=> SaysOf(wire, kind, id) \/ (line.kind = kind /\ line.id = id)
         /\ \A kind, id : /\ OnlySays(wire, kind, id)
                          /\ line.kind = kind => line.id = id
                          => OnlySays(wire', kind, id)
<1>1. /\ Len(wire) \in Nat /\ DOMAIN wire = 1..Len(wire)
      /\ DOMAIN wire' = 1..(Len(wire) + 1)
      /\ \A i \in 1..Len(wire) : wire'[i] = wire[i]
      /\ wire'[Len(wire) + 1] = line
  BY LineSent
<1>2. \A i \in DOMAIN wire : i \in DOMAIN wire' /\ wire'[i] = wire[i]
  BY <1>1
<1>3. \A i \in DOMAIN wire' : i \in DOMAIN wire \/ i = Len(wire) + 1
  BY <1>1
<1>4. Len(wire) + 1 \in DOMAIN wire'
  BY <1>1
<1>5. ASSUME NEW kind
      PROVE  Says(wire', kind) <=> Says(wire, kind) \/ line.kind = kind
  BY <1>1, <1>2, <1>3, <1>4 DEF Says
<1>6. ASSUME NEW kind, NEW id
      PROVE  SaysOf(wire', kind, id)
               <=> SaysOf(wire, kind, id) \/ (line.kind = kind /\ line.id = id)
  BY <1>1, <1>2, <1>3, <1>4 DEF SaysOf
<1>7. ASSUME NEW kind, NEW id, OnlySays(wire, kind, id), line.kind = kind => line.id = id
      PROVE  OnlySays(wire', kind, id)
  BY <1>1, <1>2, <1>3, <1>7 DEF OnlySays
<1> QED
  BY <1>5, <1>6, <1>7

LEMMA SentLast ==
  ASSUME wire \in Seq(Lines), NEW line \in Lines, wire' = Append(wire, line)
  PROVE  /\ \A kind, id : LastSays(wire, kind, id) /\ line.kind # kind
                            => LastSays(wire', kind, id)
         /\ \A kind : line.kind = kind => LastSays(wire', kind, line.id)
<1>1. /\ Len(wire) \in Nat /\ DOMAIN wire = 1..Len(wire)
      /\ DOMAIN wire' = 1..(Len(wire) + 1)
      /\ \A i \in 1..Len(wire) : wire'[i] = wire[i]
      /\ wire'[Len(wire) + 1] = line
  BY LineSent
<1>2. \A i \in DOMAIN wire : i \in DOMAIN wire' /\ wire'[i] = wire[i]
  BY <1>1
<1>3. \A i \in DOMAIN wire' : i \in DOMAIN wire \/ i = Len(wire) + 1
  BY <1>1
<1>4. ASSUME NEW kind, NEW id, LastSays(wire, kind, id), line.kind # kind
      PROVE  LastSays(wire', kind, id)
  <2> SUFFICES ASSUME NEW i \in DOMAIN wire', wire'[i].kind = kind, wire'[i].id # id
               PROVE  \E j \in DOMAIN wire' : j > i /\ wire'[j].kind = kind
    BY DEF LastSays
  <2>1. i \in DOMAIN wire /\ wire[i].kind = kind /\ wire[i].id # id
    BY <1>1, <1>2, <1>3, <1>4
  <2>2. PICK j \in DOMAIN wire : j > i /\ wire[j].kind = kind
    BY <1>4, <2>1 DEF LastSays
  <2> QED
    BY <1>2, <2>2
<1>5. ASSUME NEW kind, line.kind = kind PROVE LastSays(wire', kind, line.id)
  <2> SUFFICES ASSUME NEW i \in DOMAIN wire', wire'[i].kind = kind, wire'[i].id # line.id
               PROVE  \E j \in DOMAIN wire' : j > i /\ wire'[j].kind = kind
    BY DEF LastSays
  <2>1. i # Len(wire) + 1 /\ i \in 1..Len(wire)
    BY <1>1, <1>3
  <2>2. Len(wire) + 1 \in DOMAIN wire' /\ Len(wire) + 1 > i
    BY <1>1, <2>1
  <2> QED
    BY <1>1, <1>5, <2>2
<1> QED
  BY <1>4, <1>5

LEMMA SentChained ==
  ASSUME wire \in Seq(Lines), NEW line \in Lines, wire' = Append(wire, line),
         NEW step
  PROVE  /\ \A id : Chained(wire, step, id) /\ line.kind # "Id"
                      => Chained(wire', step, id)
         /\ \A id : /\ Chained(wire, step, id) /\ line.kind = "Id"
                    /\ line.id = NeighbourOf(id, step)
                    => Chained(wire', step, line.id)
         /\ ~Says(wire, "Id") /\ line.kind = "Id" => Chained(wire', step, line.id)
<1>1. /\ Len(wire) \in Nat /\ DOMAIN wire = 1..Len(wire)
      /\ DOMAIN wire' = 1..(Len(wire) + 1)
      /\ \A i \in 1..Len(wire) : wire'[i] = wire[i]
      /\ wire'[Len(wire) + 1] = line
  BY LineSent
<1>2. \A i \in DOMAIN wire : i \in DOMAIN wire' /\ wire'[i] = wire[i]
  BY <1>1
<1>3. \A i \in DOMAIN wire' : i \in DOMAIN wire \/ i = Len(wire) + 1
  BY <1>1
<1>4. ASSUME NEW id, Chained(wire, step, id), line.kind # "Id"
      PROVE  Chained(wire', step, id)
  <2> SUFFICES ASSUME NEW i \in DOMAIN wire', wire'[i].kind = "Id", wire'[i].id # id
               PROVE  \E j \in DOMAIN wire' :
                        /\ j > i /\ wire'[j].kind = "Id"
                        /\ wire'[j].id = NeighbourOf(wire'[i].id, step)
    BY DEF Chained
  <2>1. i \in DOMAIN wire /\ wire[i].kind = "Id" /\ wire[i].id # id
    BY <1>1, <1>2, <1>3, <1>4
  <2>2. PICK j \in DOMAIN wire : /\ j > i /\ wire[j].kind = "Id"
                                 /\ wire[j].id = NeighbourOf(wire[i].id, step)
    BY <1>4, <2>1 DEF Chained
  <2> QED
    BY <1>2, <2>1, <2>2
<1>5. ASSUME NEW id, Chained(wire, step, id), line.kind = "Id",
             line.id = NeighbourOf(id, step)
      PROVE  Chained(wire', step, line.id)
  <2> SUFFICES ASSUME NEW i \in DOMAIN wire', wire'[i].kind = "Id", wire'[i].id # line.id
               PROVE  \E j \in DOMAIN wire' :
                        /\ j > i /\ wire'[j].kind = "Id"
                        /\ wire'[j].id = NeighbourOf(wire'[i].id, step)
    BY DEF Chained
  <2>1. i \in DOMAIN wire /\ wire[i].kind = "Id" /\ wire[i] = wire'[i] /\ i \in 1..Len(wire)
    BY <1>1, <1>2, <1>3
  <2>2. CASE wire[i].id = id
    <3>1. Len(wire) + 1 \in DOMAIN wire' /\ Len(wire) + 1 > i
      BY <1>1, <2>1
    <3> QED
      BY <1>1, <1>5, <2>1, <2>2, <3>1
  <2>3. CASE wire[i].id # id
    <3>1. PICK j \in DOMAIN wire : /\ j > i /\ wire[j].kind = "Id"
                                   /\ wire[j].id = NeighbourOf(wire[i].id, step)
      BY <1>5, <2>1, <2>3 DEF Chained
    <3> QED
      BY <1>2, <2>1, <3>1
  <2> QED
    BY <2>2, <2>3
<1>6. ASSUME ~Says(wire, "Id"), line.kind = "Id" PROVE Chained(wire', step, line.id)
  BY <1>1, <1>2, <1>3, <1>6 DEF Says, Chained
<1> QED
  BY <1>4, <1>5, <1>6

LEMMA SentDescribed ==
  ASSUME wire \in Seq(Lines), NEW line \in Lines, wire' = Append(wire, line)
  PROVE  /\ \A id : SaysEarly(wire, id) => SaysEarly(wire', id)
         /\ \A id : SaysOf(wire, "Id", id) /\ line.kind = "Id" => SaysEarly(wire', id)
         /\ Described(wire) /\ line.kind # "Id" => Described(wire')
         /\ line.kind = "Metatext" => Described(wire') /\ DescribedBetween(wire')
         /\ DescribedBetween(wire) /\ line.kind # "Id" => DescribedBetween(wire')
         /\ Described(wire) => DescribedBetween(wire')
<1>1. /\ Len(wire) \in Nat /\ DOMAIN wire = 1..Len(wire)
      /\ DOMAIN wire' = 1..(Len(wire) + 1)
      /\ \A i \in 1..Len(wire) : wire'[i] = wire[i]
      /\ wire'[Len(wire) + 1] = line
  BY LineSent
<1>2. \A i \in DOMAIN wire : i \in DOMAIN wire' /\ wire'[i] = wire[i]
  BY <1>1
<1>3. \A i \in DOMAIN wire' : i \in DOMAIN wire \/ i = Len(wire) + 1
  BY <1>1
<1>4. /\ Len(wire) + 1 \in DOMAIN wire'
      /\ \A i \in DOMAIN wire : i < Len(wire) + 1
      /\ \A i \in DOMAIN wire' : ~(i > Len(wire) + 1)
  BY <1>1
<1>5. ASSUME NEW id, SaysEarly(wire, id) PROVE SaysEarly(wire', id)
  BY <1>2, <1>5 DEF SaysEarly
<1>6. ASSUME NEW id, SaysOf(wire, "Id", id), line.kind = "Id" PROVE SaysEarly(wire', id)
  BY <1>1, <1>2, <1>4, <1>6 DEF SaysOf, SaysEarly
<1>7. ASSUME Described(wire), line.kind # "Id" PROVE Described(wire')
  <2> SUFFICES ASSUME NEW i \in DOMAIN wire', wire'[i].kind = "Id"
               PROVE  \E j \in DOMAIN wire' : j > i /\ wire'[j].kind = "Metatext"
    BY DEF Described
  <2>1. i \in DOMAIN wire /\ wire[i].kind = "Id"
    BY <1>1, <1>2, <1>3, <1>7
  <2>2. PICK j \in DOMAIN wire : j > i /\ wire[j].kind = "Metatext"
    BY <1>7, <2>1 DEF Described
  <2> QED
    BY <1>2, <2>2
<1>8. ASSUME line.kind = "Metatext" PROVE Described(wire')
  <2> SUFFICES ASSUME NEW i \in DOMAIN wire', wire'[i].kind = "Id"
               PROVE  \E j \in DOMAIN wire' : j > i /\ wire'[j].kind = "Metatext"
    BY DEF Described
  <2>1. Len(wire) + 1 > i
    BY <1>1, <1>3, <1>4, <1>8
  <2> QED
    BY <1>1, <1>4, <1>8, <2>1
<1>9. Described(wire') => DescribedBetween(wire')
  BY DEF Described, DescribedBetween
<1>10. ASSUME DescribedBetween(wire), line.kind # "Id" PROVE DescribedBetween(wire')
  <2> SUFFICES ASSUME NEW i \in DOMAIN wire', NEW k \in DOMAIN wire', i < k,
                      wire'[i].kind = "Id", wire'[k].kind = "Id"
               PROVE  \E j \in DOMAIN wire' : j > i /\ wire'[j].kind = "Metatext"
    BY DEF DescribedBetween
  <2>1. i \in DOMAIN wire /\ k \in DOMAIN wire
    BY <1>1, <1>3, <1>10
  <2>2. wire[i].kind = "Id" /\ wire[k].kind = "Id"
    BY <1>2, <2>1
  <2>3. PICK j \in DOMAIN wire : j > i /\ wire[j].kind = "Metatext"
    BY <1>10, <2>1, <2>2 DEF DescribedBetween
  <2> QED
    BY <1>2, <2>3
<1>11. ASSUME Described(wire) PROVE DescribedBetween(wire')
  <2> SUFFICES ASSUME NEW i \in DOMAIN wire', NEW k \in DOMAIN wire', i < k,
                      wire'[i].kind = "Id"
               PROVE  \E j \in DOMAIN wire' : j > i /\ wire'[j].kind = "Metatext"
    BY DEF DescribedBetween
  <2>1. i \in DOMAIN wire
    BY <1>1, <1>3, <1>4
  <2>2. wire[i].kind = "Id"
    BY <1>2, <2>1
  <2>3. PICK j \in DOMAIN wire : j > i /\ wire[j].kind = "Metatext"
    BY <1>11, <2>1, <2>2 DEF Described
  <2> QED
    BY <1>2, <2>3
<1> QED
  BY <1>5, <1>6, <1>7, <1>8, <1>9, <1>10, <1>11

LEMMA ReadSays ==
  ASSUME wire \in Seq(Lines), wire # <<>>, wire' = Tail(wire), NEW kind
  PROVE  /\ Says(wire', kind) => Says(wire, kind)
         /\ Says(wire, kind) /\ Head(wire).kind # kind => Says(wire', kind)
         /\ Head(wire).kind = kind => Says(wire, kind)
         /\ \A id : SaysOf(wire, kind, id)
                    => \/ SaysOf(wire', kind, id)
                       \/ Head(wire).kind = kind /\ Head(wire).id = id
         /\ \A id : OnlySays(wire, kind, id)
                    => /\ OnlySays(wire', kind, id)
                       /\ Head(wire).kind = kind => Head(wire).id = id
         /\ \A id : LastSays(wire, kind, id)
                    => /\ LastSays(wire', kind, id)
                       /\ Head(wire).kind = kind =>
                            Head(wire).id = id \/ Says(wire', kind)
<1>1. /\ Len(wire) \in Nat \ {0} /\ DOMAIN wire = 1..Len(wire)
      /\ DOMAIN wire' = 1..(Len(wire) - 1)
      /\ \A i \in 1..(Len(wire) - 1) : wire'[i] = wire[i + 1]
      /\ Head(wire) = wire[1]
  BY LineRead
<1>2. \A i \in DOMAIN wire' : /\ i \in Nat /\ i + 1 \in DOMAIN wire
                              /\ wire'[i] = wire[i + 1]
  BY <1>1
<1>3. \A i \in DOMAIN wire : \/ i = 1
                             \/ /\ i - 1 \in DOMAIN wire' /\ i \in Nat
                                /\ wire'[i - 1] = wire[i]
  BY <1>1
<1>4. 1 \in DOMAIN wire
  BY <1>1
<1>5. ASSUME NEW id, SaysOf(wire, kind, id)
      PROVE  SaysOf(wire', kind, id) \/ (Head(wire).kind = kind /\ Head(wire).id = id)
  BY <1>1, <1>3, <1>5 DEF SaysOf
<1>6. ASSUME NEW id, OnlySays(wire, kind, id)
      PROVE  /\ OnlySays(wire', kind, id)
             /\ Head(wire).kind = kind => Head(wire).id = id
  BY <1>1, <1>2, <1>4, <1>6 DEF OnlySays
<1>7. ASSUME NEW id, LastSays(wire, kind, id)
      PROVE  LastSays(wire', kind, id)
  <2> SUFFICES ASSUME NEW i \in DOMAIN wire', wire'[i].kind = kind, wire'[i].id # id
               PROVE  \E j \in DOMAIN wire' : j > i /\ wire'[j].kind = kind
    BY DEF LastSays
  <2>1. i \in Nat /\ i + 1 \in DOMAIN wire /\ wire[i + 1].kind = kind /\ wire[i + 1].id # id
    BY <1>2
  <2>2. PICK j \in DOMAIN wire : j > i + 1 /\ wire[j].kind = kind
    BY <1>7, <2>1 DEF LastSays
  <2>3. j # 1
    BY <2>1, <2>2
  <2>4. j - 1 \in DOMAIN wire' /\ wire'[j - 1] = wire[j] /\ j \in Nat
    BY <1>3, <2>3
  <2>5. j - 1 > i
    BY <2>1, <2>2, <2>4
  <2> QED
    BY <2>2, <2>4, <2>5
<1>8. ASSUME NEW id, LastSays(wire, kind, id), Head(wire).kind = kind, Head(wire).id # id
      PROVE  Says(wire', kind)
  <2>1. PICK j \in DOMAIN wire : j > 1 /\ wire[j].kind = kind
    BY <1>1, <1>4, <1>8 DEF LastSays
  <2>2. j - 1 \in DOMAIN wire' /\ wire'[j - 1] = wire[j]
    BY <1>3, <2>1
  <2> QED
    BY <2>1, <2>2 DEF Says
<1>9. Says(wire', kind) => Says(wire, kind)
  BY <1>2 DEF Says
<1>10. Says(wire, kind) /\ Head(wire).kind # kind => Says(wire', kind)
  BY <1>1, <1>3 DEF Says
<1>11. Head(wire).kind = kind => Says(wire, kind)
  BY <1>1, <1>4 DEF Says
<1> QED
  BY <1>5, <1>6, <1>7, <1>8, <1>9, <1>10, <1>11

LEMMA ReadChained ==
  ASSUME wire \in Seq(Lines), wire # <<>>, wire' = Tail(wire),
         NEW step, NEW id, Chained(wire, step, id)
  PROVE  /\ Chained(wire', step, id)
         /\ Head(wire).kind = "Id" =>
              Head(wire).id = id \/ SaysOf(wire', "Id", NeighbourOf(Head(wire).id, step))
<1>1. /\ Len(wire) \in Nat \ {0} /\ DOMAIN wire = 1..Len(wire)
      /\ DOMAIN wire' = 1..(Len(wire) - 1)
      /\ \A i \in 1..(Len(wire) - 1) : wire'[i] = wire[i + 1]
      /\ Head(wire) = wire[1]
  BY LineRead
<1>2. \A i \in DOMAIN wire' : /\ i \in Nat /\ i + 1 \in DOMAIN wire
                              /\ wire'[i] = wire[i + 1]
  BY <1>1
<1>3. \A i \in DOMAIN wire : \/ i = 1
                             \/ /\ i - 1 \in DOMAIN wire' /\ i \in Nat
                                /\ wire'[i - 1] = wire[i]
  BY <1>1
<1>4. Chained(wire', step, id)
  <2> SUFFICES ASSUME NEW i \in DOMAIN wire', wire'[i].kind = "Id", wire'[i].id # id
               PROVE  \E j \in DOMAIN wire' :
                        /\ j > i /\ wire'[j].kind = "Id"
                        /\ wire'[j].id = NeighbourOf(wire'[i].id, step)
    BY DEF Chained
  <2>1. /\ i \in Nat /\ i + 1 \in DOMAIN wire /\ wire[i + 1].kind = "Id"
        /\ wire[i + 1].id # id /\ wire[i + 1] = wire'[i]
    BY <1>2
  <2>2. PICK j \in DOMAIN wire : /\ j > i + 1 /\ wire[j].kind = "Id"
                                 /\ wire[j].id = NeighbourOf(wire[i + 1].id, step)
    BY <2>1 DEF Chained
  <2>3. j # 1
    BY <2>1, <2>2
  <2>4. j - 1 \in DOMAIN wire' /\ wire'[j - 1] = wire[j] /\ j \in Nat
    BY <1>3, <2>3
  <2>5. j - 1 > i
    BY <2>1, <2>2, <2>4
  <2> QED
    BY <2>1, <2>2, <2>4, <2>5
<1>5. ASSUME Head(wire).kind = "Id", Head(wire).id # id
      PROVE  SaysOf(wire', "Id", NeighbourOf(Head(wire).id, step))
  <2>1. PICK j \in DOMAIN wire : /\ j > 1 /\ wire[j].kind = "Id"
                                 /\ wire[j].id = NeighbourOf(wire[1].id, step)
    BY <1>1, <1>5 DEF Chained
  <2>2. j - 1 \in DOMAIN wire' /\ wire'[j - 1] = wire[j]
    BY <1>3, <2>1
  <2> QED
    BY <1>1, <2>1, <2>2 DEF SaysOf
<1> QED
  BY <1>4, <1>5

LEMMA ReadEarly ==
  ASSUME wire \in Seq(Lines), wire # <<>>, wire' = Tail(wire), NEW id,
         SaysEarly(wire, id)
  PROVE  /\ Says(wire', "Id")
         /\ \/ SaysEarly(wire', id)
            \/ Head(wire).kind = "Id" /\ Head(wire).id = id
<1>1. /\ Len(wire) \in Nat \ {0} /\ DOMAIN wire = 1..Len(wire)
      /\ DOMAIN wire' = 1..(Len(wire) - 1)
      /\ \A i \in 1..(Len(wire) - 1) : wire'[i] = wire[i + 1]
      /\ Head(wire) = wire[1]
  BY LineRead
<1>2. PICK i \in DOMAIN wire, j \in DOMAIN wire :
        i < j /\ wire[i].kind = "Id" /\ wire[j].kind = "Id" /\ wire[i].id = id
  BY DEF SaysEarly
<1>3. /\ i \in 1..Len(wire) /\ j \in 2..Len(wire)
      /\ j - 1 \in DOMAIN wire' /\ wire'[j - 1] = wire[j]
  BY <1>1, <1>2
<1>4. Says(wire', "Id")
  BY <1>2, <1>3 DEF Says
<1>5. CASE i = 1
  BY <1>1, <1>2, <1>4, <1>5
<1>6. CASE i # 1
  <2>1. i - 1 \in DOMAIN wire' /\ wire'[i - 1] = wire[i] /\ i - 1 < j - 1
    BY <1>1, <1>2, <1>3, <1>6
  <2> QED
    BY <1>2, <1>3, <1>4, <2>1 DEF SaysEarly
<1> QED
  BY <1>5, <1>6

LEMMA ReadDescribed ==
  ASSUME wire \in Seq(Lines), wire # <<>>, wire' = Tail(wire)
  PROVE  /\ Described(wire)
            => /\ Described(wire')
               /\ Head(wire).kind = "Id" => Says(wire', "Metatext")
         /\ DescribedBetween(wire)
            => /\ DescribedBetween(wire')
               /\ Head(wire).kind = "Id" /\ Says(wire', "Id") => Says(wire', "Metatext")
<1>1. /\ Len(wire) \in Nat \ {0} /\ DOMAIN wire = 1..Len(wire)
      /\ DOMAIN wire' = 1..(Len(wire) - 1)
      /\ \A i \in 1..(Len(wire) - 1) : wire'[i] = wire[i + 1]
      /\ Head(wire) = wire[1]
  BY LineRead
<1>2. \A i \in DOMAIN wire' : /\ i \in Nat /\ i + 1 \in DOMAIN wire
                              /\ wire'[i] = wire[i + 1]
  BY <1>1
<1>3. \A i \in DOMAIN wire : \A j \in DOMAIN wire :
        j > i => /\ j - 1 \in DOMAIN wire' /\ j \in Nat
                 /\ wire'[j - 1] = wire[j]
  BY <1>1
<1>4. 1 \in DOMAIN wire
  BY <1>1
<1>5. ASSUME Described(wire) PROVE Described(wire')
  <2> SUFFICES ASSUME NEW i \in DOMAIN wire', wire'[i].kind = "Id"
               PROVE  \E j \in DOMAIN wire' : j > i /\ wire'[j].kind = "Metatext"
    BY DEF Described
  <2>1. i \in Nat /\ i + 1 \in DOMAIN wire /\ wire[i + 1].kind = "Id"
    BY <1>2
  <2>2. PICK j \in DOMAIN wire : j > i + 1 /\ wire[j].kind = "Metatext"
    BY <1>5, <2>1 DEF Described
  <2>3. j - 1 \in DOMAIN wire' /\ wire'[j - 1] = wire[j] /\ j \in Nat
    BY <1>3, <2>1, <2>2
  <2>4. j - 1 > i
    BY <2>1, <2>2, <2>3
  <2> QED
    BY <2>2, <2>3, <2>4
<1>6. ASSUME Described(wire), Head(wire).kind = "Id" PROVE Says(wire', "Metatext")
  <2>1. PICK j \in DOMAIN wire : j > 1 /\ wire[j].kind = "Metatext"
    BY <1>1, <1>4, <1>6 DEF Described
  <2> QED
    BY <1>3, <1>4, <2>1 DEF Says
<1>7. ASSUME DescribedBetween(wire) PROVE DescribedBetween(wire')
  <2> SUFFICES ASSUME NEW i \in DOMAIN wire', NEW k \in DOMAIN wire', i < k,
                      wire'[i].kind = "Id", wire'[k].kind = "Id"
               PROVE  \E j \in DOMAIN wire' : j > i /\ wire'[j].kind = "Metatext"
    BY DEF DescribedBetween
  <2>1. /\ i \in Nat /\ i + 1 \in DOMAIN wire /\ wire[i + 1].kind = "Id"
        /\ k \in Nat /\ k + 1 \in DOMAIN wire /\ wire[k + 1].kind = "Id"
    BY <1>2
  <2>2. i + 1 < k + 1 /\ i \in Nat
    BY <2>1
  <2>3. PICK j \in DOMAIN wire : j > i + 1 /\ wire[j].kind = "Metatext"
    BY <1>7, <2>1, <2>2 DEF DescribedBetween
  <2>4. j - 1 \in DOMAIN wire' /\ wire'[j - 1] = wire[j] /\ j \in Nat
    BY <1>3, <2>1, <2>3
  <2>5. i \in Nat /\ j \in Nat /\ j > i + 1
    BY <2>2, <2>3, <2>4
  <2>6. j - 1 > i
    BY <2>5
  <2> QED
    BY <2>3, <2>4, <2>6
<1>8. ASSUME DescribedBetween(wire), Head(wire).kind = "Id", Says(wire', "Id")
      PROVE  Says(wire', "Metatext")
  <2>1. PICK k \in DOMAIN wire' : wire'[k].kind = "Id"
    BY <1>8 DEF Says
  <2>2. k + 1 \in DOMAIN wire /\ wire[k + 1].kind = "Id" /\ 1 < k + 1
    BY <1>1, <1>2, <2>1
  <2>3. PICK j \in DOMAIN wire : j > 1 /\ wire[j].kind = "Metatext"
    BY <1>1, <1>4, <1>8, <2>2 DEF DescribedBetween
  <2> QED
    BY <1>3, <1>4, <2>3 DEF Says
<1> QED
  BY <1>5, <1>6, <1>7, <1>8

(* The connection is closed in the middle of what was said. *)
LEMMA CutSays ==
  ASSUME wire \in Seq(Lines), NEW n \in 0..Len(wire),
         wire' = Append(SubSeq(wire, 1, n), [kind |-> "Eof"]),
         NEW kind, kind # "Eof", NEW id, OnlySays(wire, kind, id)
  PROVE  OnlySays(wire', kind, id)
<1>1. /\ Len(wire) \in Nat
      /\ DOMAIN wire = 1..Len(wire) /\ DOMAIN wire' = 1..(n + 1)
      /\ \A i \in 1..n : wire'[i] = wire[i]
      /\ wire'[n + 1] = [kind |-> "Eof"]
  BY LinesCut
<1>2. \A i \in DOMAIN wire' : i = n + 1 \/ i \in 1..n
  BY <1>1
<1>3. \A i \in 1..n : i \in DOMAIN wire
  BY <1>1
<1> QED
  BY <1>1, <1>2, <1>3 DEF OnlySays

LEMMA NothingSaid ==
  ASSUME NEW w, w = <<>>, NEW kind
  PROVE  /\ ~Says(w, kind)
         /\ \A id : /\ ~SaysOf(w, kind, id) /\ OnlySays(w, kind, id)
                    /\ LastSays(w, kind, id)
BY EmptySeq DEF Says, SaysOf, OnlySays, LastSays

-----------------------------------------------------------------------------
(* The queue, and the tracks next to one.                                  *)

LEMMA SameNeighbour ==
  ASSUME NEW p, NEW q, NEW step, p.ids = q.ids, p.current = q.current,
         p.repeat = q.repeat, p.shuffle = q.shuffle
  PROVE  NeighbourId(p, step) = NeighbourId(q, step)
<1>1. CurrentIndex(p) = CurrentIndex(q)
  BY DEF CurrentIndex
<1>2. NeighbourIndex(p, step) = NeighbourIndex(q, step)
  BY <1>1 DEF NeighbourIndex
<1> QED
  BY <1>2 DEF NeighbourId

LEMMA NeighbourOfProperty ==
  ASSUME NEW id \in TrackIds, NEW step \in Steps
  PROVE  NeighbourOf(id, step) \in Range(DeviceQueue) \cup {None}
<1> DEFINE at == [EmptyPlaylist EXCEPT !.ids = DeviceQueue, !.current = id,
                                       !.repeat = DeviceRepeat]
<1>1. at \in PlaylistStates /\ at.ids = DeviceQueue
  BY SkipAssumption, EmptyPlaylistType DEF PlaylistStates
<1> HIDE DEF at
<1>2. NeighbourIndex(at, step) \in 0..Len(DeviceQueue)
  BY <1>1, NeighbourIndexProperty
<1>3. NeighbourOf(id, step) = IF NeighbourIndex(at, step) = 0 THEN None
                              ELSE DeviceQueue[NeighbourIndex(at, step)]
  BY <1>1 DEF NeighbourOf, NeighbourId, at
<1>4. Len(DeviceQueue) \in Nat /\ DOMAIN DeviceQueue = 1..Len(DeviceQueue)
  BY SkipAssumption, LenProperties
<1> QED
  BY <1>2, <1>3, <1>4 DEF Range

LEMMA QueueTracks == Range(DeviceQueue) \subseteq TrackIds /\ None \notin TrackIds
BY SkipAssumption, PlaylistAssumption DEF Range

LEMMA QueueOf ==
  ASSUME NEW p \in PlaylistStates
  PROVE  SetIds(p, DeviceQueue).ids = SetIds(EmptyPlaylist, DeviceQueue).ids
BY EmptyPlaylistType DEF SetIds, PlaylistStates

LEMMA WholeQueue ==
  ASSUME Len(DeviceQueue) <= MaxQueueTracks
  PROVE  SetIds(EmptyPlaylist, DeviceQueue).ids = DeviceQueue
<1> DEFINE n == IF Len(DeviceQueue) < MaxQueueTracks
                THEN Len(DeviceQueue) ELSE MaxQueueTracks
<1>1. Len(DeviceQueue) \in Nat /\ MaxQueueTracks \in Nat /\ DeviceQueue \in Seq(TrackIds)
  BY SkipAssumption, PlaylistAssumption, LenProperties
<1>2. n = Len(DeviceQueue)
  BY <1>1
<1>3. SetIds(EmptyPlaylist, DeviceQueue).ids = SubSeq(DeviceQueue, 1, n)
  BY EmptyPlaylistType DEF SetIds, PlaylistStates
<1> HIDE DEF n
<1>4. SubSeq(DeviceQueue, 1, Len(DeviceQueue)) = DeviceQueue
  BY <1>1, SubSeqFull
<1> QED
  BY <1>2, <1>3, <1>4

(* A guess can be made only from a place in the queue. *)
LEMMA GuessedFrom ==
  ASSUME NEW p \in PlaylistStates, NEW step \in Steps, CanPredict(p, step)
  PROVE  p.current \in TrackIds /\ p.ids # <<>>
<1>1. NeighbourIndex(p, step) # 0
  BY DEF CanPredict, NeighbourId
<1>2. CurrentIndex(p) # 0
  BY <1>1 DEF NeighbourIndex
<1>3. CurrentIndex(p) \in 1..Len(p.ids) /\ p.ids[CurrentIndex(p)] = p.current
  BY <1>2, CurrentIndexProperty
<1>4. p.ids \in Seq(TrackIds) /\ Len(p.ids) \in Nat
  BY DEF PlaylistStates
<1>5. p.current \in TrackIds
  BY <1>3, <1>4, ElementOfSeq
<1>6. Len(p.ids) # 0
  BY <1>3, <1>4
<1> QED
  BY <1>4, <1>5, <1>6, EmptySeq

(* The session guesses the track a skip takes the device to. *)
LEMMA Guessed ==
  ASSUME Shape, Queued, CacheTrue, Len(DeviceQueue) <= MaxQueueTracks,
         NEW step \in Steps, PredictSkip(step), now' \in Nat
  PROVE  LET id == NeighbourOf(playlist.current, step)
         IN  /\ playlist.current \in TrackIds
             /\ playlist'.current = id /\ id \in TrackIds
             /\ Guessing' /\ playlist'.prediction.target = id
             /\ playlist'.ids = playlist.ids /\ playlist'.repeat = playlist.repeat
             /\ playlist'.shuffle = playlist.shuffle
             /\ track' = MetadataOf[id]
<1> DEFINE p == playlist
           id == NeighbourId(p, step)
           at == [EmptyPlaylist EXCEPT !.ids = DeviceQueue, !.current = p.current,
                                       !.repeat = DeviceRepeat]
<1>1. p \in PlaylistStates /\ CanPredict(p, step)
  BY DEF Shape, TypeOK, PredictSkip
<1>2. p.current \in TrackIds /\ p.ids # <<>>
  BY <1>1, GuessedFrom
<1>3. p.ids = DeviceQueue /\ p.repeat = DeviceRepeat /\ p.shuffle = FALSE
  BY <1>1, <1>2, WholeQueue DEF Queued, PlaylistStates
<1>4. id = NeighbourOf(p.current, step)
  <2>1. /\ at.ids = DeviceQueue /\ at.current = p.current /\ at.repeat = DeviceRepeat
        /\ at.shuffle = FALSE
    BY DEF EmptyPlaylist
  <2>2. /\ p.ids = at.ids /\ p.current = at.current /\ p.repeat = at.repeat
        /\ p.shuffle = at.shuffle
    BY <1>3, <2>1
  <2> HIDE DEF at, p
  <2>3. NeighbourId(p, step) = NeighbourId(at, step)
    BY <2>2, SameNeighbour
  <2> QED
    BY <2>3 DEF NeighbourOf, at, p
<1>5. id \in TrackIds
  BY <1>1, NeighbourIdType DEF CanPredict
<1>6. /\ playlist'.current = id /\ playlist'.prediction = [target |-> id, expires |-> now' + PredictionTtl]
      /\ playlist'.ids = p.ids /\ playlist'.repeat = p.repeat /\ playlist'.shuffle = p.shuffle
  BY <1>1 DEF PredictSkip, Predict, PlaylistStates
<1>7. playlist'.prediction # None
  BY <1>5, <1>6, PlaylistAssumption DEF Predictions
<1>8. track' = MetadataOf[id]
  <2> DEFINE i == CacheIndex(p, id)
  <2>1. i # 0 /\ i \in 0..Len(p.cache) /\ p.cache[i].id = id
    BY <1>1, CacheIndexProperty DEF CanPredict
  <2>2. track' = p.cache[i].metadata
    BY <2>1 DEF PredictSkip, Cached
  <2>3. i \in DOMAIN p.cache
    BY <1>1, <2>1, LenProperties DEF PlaylistStates
  <2> QED
    BY <2>1, <2>2, <2>3 DEF CacheTrue
<1> HIDE DEF id, p
<1>9. playlist'.prediction.target = id
  BY <1>6
<1> QED
  BY <1>2, <1>4, <1>5, <1>6, <1>7, <1>8, <1>9 DEF Guessing, p

(* An id reported: it is passed over, or it is where the session is. *)
LEMMA Reported ==
  ASSUME Shape, NEW id \in TrackIds, playlist' = ReportedId(playlist, id, now)
  PROVE  /\ playlist'.ids = playlist.ids /\ playlist'.repeat = playlist.repeat
         /\ playlist'.shuffle = playlist.shuffle
         /\ \/ /\ Guessing /\ id # playlist.prediction.target
               /\ playlist'.current = playlist.current
               /\ playlist'.prediction = playlist.prediction
            \/ playlist'.current = id /\ ~Guessing'
<1>1. playlist \in PlaylistStates
  BY DEF Shape, TypeOK
<1>2. CASE Verdict(playlist, id, now) = "Holding"
  BY <1>2 DEF ReportedId, Verdict, Guessing
<1>3. CASE Verdict(playlist, id, now) # "Holding"
  BY <1>1, <1>3 DEF ReportedId, PlaylistStates, Guessing
<1> QED
  BY <1>2, <1>3

-----------------------------------------------------------------------------
(* What a step leaves as it was.                                           *)

(* All that is said of the device's track still is. *)
SameTalk ==
  /\ \A kind \in {"Id", "Metatext"} :
       /\ Says(wire', kind) <=> Says(wire, kind)
       /\ \A id : /\ SaysOf(wire, kind, id) => SaysOf(wire', kind, id)
                  /\ OnlySays(wire, kind, id) => OnlySays(wire', kind, id)
                  /\ LastSays(wire, kind, id) => LastSays(wire', kind, id)
  /\ \A step, id : Chained(wire, step, id) => Chained(wire', step, id)
  /\ \A id : SaysEarly(wire, id) => SaysEarly(wire', id)
  /\ Described(wire) => Described(wire')
  /\ DescribedBetween(wire) => DescribedBetween(wire')

SameShown ==
  /\ UNCHANGED track
  /\ playlist'.current = playlist.current
  /\ playlist'.prediction = playlist.prediction

(* Nothing is said of the track, shown or skipped. *)
Aside ==
  /\ SameTalk /\ SameShown
  /\ told'.id = told.id /\ told'.meta = told.meta
  /\ UNCHANGED <<playing, keys, sending, inbox>>

(* The subscription is gone, or new. *)
Forgotten ==
  /\ told' = NotTold /\ world.losses # 0
  /\ \A kind \in {"Id", "Metatext"} : \A id :
       OnlySays(wire, kind, id) => OnlySays(wire', kind, id)
  /\ SameShown /\ UNCHANGED <<playing, keys, sending, inbox>>

LEMMA OtherSent ==
  ASSUME wire \in Seq(Lines), NEW line \in Lines, wire' = Append(wire, line),
         line.kind \notin {"Id", "Metatext"}
  PROVE  SameTalk
<1>1. \A kind \in {"Id", "Metatext"} :
        /\ Says(wire', kind) <=> Says(wire, kind)
        /\ \A id : /\ SaysOf(wire, kind, id) => SaysOf(wire', kind, id)
                   /\ OnlySays(wire, kind, id) => OnlySays(wire', kind, id)
  BY SentSays
<1>2. \A kind \in {"Id", "Metatext"} : \A id :
        LastSays(wire, kind, id) => LastSays(wire', kind, id)
  BY SentLast
<1>3. \A step, id : Chained(wire, step, id) => Chained(wire', step, id)
  BY SentChained
<1>4. /\ \A id : SaysEarly(wire, id) => SaysEarly(wire', id)
      /\ Described(wire) => Described(wire')
      /\ DescribedBetween(wire) => DescribedBetween(wire')
  BY SentDescribed
<1> QED
  BY <1>1, <1>2, <1>3, <1>4 DEF SameTalk

LEMMA OtherRead ==
  ASSUME wire \in Seq(Lines), wire # <<>>, wire' = Tail(wire),
         Head(wire).kind \notin {"Id", "Metatext"}
  PROVE  SameTalk
<1>1. ASSUME NEW kind \in {"Id", "Metatext"}
      PROVE  /\ Says(wire', kind) <=> Says(wire, kind)
             /\ \A id : /\ SaysOf(wire, kind, id) => SaysOf(wire', kind, id)
                        /\ OnlySays(wire, kind, id) => OnlySays(wire', kind, id)
                        /\ LastSays(wire, kind, id) => LastSays(wire', kind, id)
  <2>1. Head(wire).kind # kind
    BY <1>1
  <2> QED
    BY <2>1, ReadSays
<1>2. \A step, id : Chained(wire, step, id) => Chained(wire', step, id)
  BY ReadChained
<1>3. \A id : SaysEarly(wire, id) => SaysEarly(wire', id)
  BY ReadEarly
<1>4. /\ Described(wire) => Described(wire')
      /\ DescribedBetween(wire) => DescribedBetween(wire')
  BY ReadDescribed
<1> QED
  BY <1>1, <1>2, <1>3, <1>4 DEF SameTalk

LEMMA SameWire == wire' = wire => SameTalk
BY DEF SameTalk

LEMMA SaidOf ==
  ASSUME NEW w, NEW kind, NEW id, SaysOf(w, kind, id)
  PROVE  Says(w, kind)
BY DEF Says, SaysOf

(* A closed connection is one on which Eof is said. *)
LEMMA ClosedSays == Closed <=> Says(wire, "Eof")
BY DEF Closed, Says


(* A step of the session, the device or the user, by what it leaves alone. *)
LEMMA KindsOfStep ==
  ASSUME Shape, Connected, Linked, [Next]_vars
  PROVE  \/ Aside
         \/ Forgotten
         \/ \E step \in world.directions : Press(step)
         \/ DeviceMoves
         \/ AnnounceId \/ AnnounceTrack
         \/ CommandThread
         \/ ShowSkip
         \/ ReadEvent /\ HandleId(Head(wire))
         \/ ReadEvent /\ HandleMetatext(Head(wire))
<1> USE DEF device, connection, command, session, bounds
<1>0. wire \in Seq(Lines) /\ world.losses \in Nat /\ losses \in Nat /\ asked \in Seq(TrackIds)
  BY SkipAssumption DEF Shape, TypeOK, WorldTypes
<1>1. CASE Tick
  BY <1>1, SameWire DEF Tick, Aside, SameShown
<1>2. CASE AnnounceQueue
  <2>1. [kind |-> "Queue"] \in Lines
    BY DEF Lines
  <2>2. SameTalk
    BY <1>0, <1>2, <2>1, OtherSent DEF AnnounceQueue
  <2>3. told'.id = told.id /\ told'.meta = told.meta
    BY <1>2 DEF AnnounceQueue, Shape, TypeOK
  <2> QED
    BY <1>2, <2>2, <2>3 DEF AnnounceQueue, Aside, SameShown
<1>3. CASE Answer
  <2>1. Head(asked) \in TrackIds
    BY <1>0, <1>3, QueueShrinks DEF Answer
  <2>2. [kind |-> "Response", id |-> Head(asked)] \in Lines
    BY <2>1 DEF Lines
  <2>3. SameTalk
    BY <1>0, <1>3, <2>2, OtherSent DEF Answer
  <2> QED
    BY <1>3, <2>3 DEF Answer, Aside, SameShown
<1>4. CASE AnswerNothing
  <2>1. [kind |-> "Nothing"] \in Lines
    BY DEF Lines
  <2>2. SameTalk
    BY <1>0, <1>4, <2>1, OtherSent DEF AnswerNothing
  <2> QED
    BY <1>4, <2>2 DEF AnswerNothing, Aside, SameShown
<1>5. CASE DeviceSaysByeBye
  <2>1. [kind |-> "ByeBye"] \in Lines
    BY DEF Lines
  <2>2. SameTalk
    BY <1>0, <1>5, <2>1, OtherSent DEF DeviceSaysByeBye
  <2>3. world.losses # 0
    BY <1>0, <1>5 DEF DeviceSaysByeBye
  <2> QED
    BY <1>5, <2>2, <2>3 DEF DeviceSaysByeBye, Forgotten, SameShown, SameTalk
<1>6. CASE DeviceHangsUp
  <2>1. PICK n \in 0..Len(wire) :
          wire' = Append(SubSeq(wire, 1, n), [kind |-> "Eof"])
    BY <1>6 DEF DeviceHangsUp
  <2>2. \A kind \in {"Id", "Metatext"} : \A id :
          OnlySays(wire, kind, id) => OnlySays(wire', kind, id)
    BY <1>0, <2>1, CutSays
  <2>3. world.losses # 0
    BY <1>0, <1>6 DEF DeviceHangsUp
  <2> QED
    BY <1>6, <2>2, <2>3 DEF DeviceHangsUp, Forgotten, SameShown
<1>7. CASE BeginPoll
  <2>1. CASE subscribed
    BY <1>7, <2>1, SameWire DEF BeginPoll, Aside, SameShown
  <2>2. CASE ~subscribed /\ world.losses = 0
    <3>1. told = NotTold
      BY <2>2 DEF Linked
    <3> QED
      BY <1>7, <2>2, <3>1, SameWire DEF BeginPoll, Aside, SameShown
  <2>3. CASE ~subscribed /\ world.losses # 0
    BY <1>7, <2>3, SameWire DEF BeginPoll, Forgotten, SameShown
  <2> QED
    BY <2>1, <2>2, <2>3
<1>8. CASE ReadEvent
  <2>1. wire # <<>> /\ wire' = Tail(wire)
    BY <1>8 DEF ReadEvent
  <2>2. CASE HandleQueue(Head(wire))
    <3>1. SameTalk
      BY <1>0, <2>1, <2>2, OtherRead DEF HandleQueue
    <3>2. playlist'.current = playlist.current /\ playlist'.prediction = playlist.prediction
      BY <2>2 DEF HandleQueue, SetIds, Shape, TypeOK, PlaylistStates
    <3> QED
      BY <1>8, <2>2, <3>1, <3>2 DEF ReadEvent, HandleQueue, Aside, SameShown
  <2>3. CASE HandleByeBye(Head(wire))
    <3>1. SameTalk
      BY <1>0, <2>1, <2>3, OtherRead DEF HandleByeBye
    <3> QED
      BY <1>8, <2>3, <3>1 DEF ReadEvent, HandleByeBye, Aside, SameShown
  <2> QED
    BY <1>8, <2>2, <2>3 DEF ReadEvent, HandleMessage
<1>9. CASE PollPassesAnswer
  <2>1. SameTalk
    BY <1>0, <1>9, OtherRead DEF PollPassesAnswer
  <2> QED
    BY <1>9, <2>1 DEF PollPassesAnswer, Aside, SameShown
<1>10. CASE PollMeetsEof
  <2>1. 1 \in DOMAIN wire /\ wire[1].kind = "Eof"
    BY <1>0, <1>10, LineRead DEF PollMeetsEof
  <2>2. Closed
    BY <2>1 DEF Closed
  <2>3. told = NotTold /\ world.losses # 0
    BY <2>2, ClosedSays DEF Connected, Linked
  <2>4. \A kind \in {"Id", "Metatext"} : \A id : OnlySays(wire', kind, id)
    BY <1>10, NothingSaid DEF PollMeetsEof
  <2> QED
    BY <1>10, <2>3, <2>4 DEF PollMeetsEof, Forgotten, SameShown
<1>11. CASE PollEnds
  BY <1>11, SameWire DEF PollEnds, Aside, SameShown
<1>12. CASE PrefetchReadsAnswer
  <2>1. SameTalk
    BY <1>0, <1>12, OtherRead DEF PrefetchReadsAnswer
  <2>2. playlist'.current = playlist.current /\ playlist'.prediction = playlist.prediction
    BY <1>12 DEF PrefetchReadsAnswer, CacheTrack, Shape, TypeOK, PlaylistStates
  <2> QED
    BY <1>12, <2>1, <2>2 DEF PrefetchReadsAnswer, Aside, SameShown
<1>13. CASE PrefetchReadsNothing
  <2>1. SameTalk
    BY <1>0, <1>13, OtherRead DEF PrefetchReadsNothing
  <2> QED
    BY <1>13, <2>1 DEF PrefetchReadsNothing, Aside, SameShown
<1>14. CASE PrefetchFails
  BY <1>14, SameWire DEF PrefetchFails, Aside, SameShown
<1>15. CASE UNCHANGED vars
  BY <1>15, SameWire DEF vars, Aside, SameShown
<1> QED
  BY <1>1, <1>2, <1>3, <1>4, <1>5, <1>6, <1>7, <1>8, <1>9, <1>10, <1>11, <1>12,
     <1>13, <1>14, <1>15
  DEF Next, Device, Background

-----------------------------------------------------------------------------
(* The connection and the queue, in every world.                           *)

LEMMA DeviceStays ==
  ASSUME playing \in Range(DeviceQueue), NEW step \in Steps
  PROVE  DeviceNeighbour(step) \in Range(DeviceQueue)
BY QueueTracks, NeighbourOfProperty DEF DeviceNeighbour

LEMMA InitLinked == Init => Linked
BY NothingSaid DEF Init, Linked

LEMMA StepLinked == Shape /\ Linked /\ [Next]_vars => Linked'
<1> SUFFICES ASSUME Shape, Linked, [Next]_vars PROVE Linked'
  OBVIOUS
<1> USE DEF device, connection, command, session, bounds
<1>0. wire \in Seq(Lines) /\ world.losses \in Nat /\ losses \in Nat /\ asked \in Seq(TrackIds)
  BY SkipAssumption DEF Shape, TypeOK, WorldTypes
<1>1. playing' \in Range(DeviceQueue)
  <2>1. CASE DeviceMoves
    BY <2>1 DEF DeviceMoves
  <2>2. CASE SkipDone
    BY <2>2, DeviceStays DEF SkipDone, Linked, Shape, TypeOK
  <2>3. CASE playing' = playing
    BY <2>3 DEF Linked
  <2> QED
    BY <2>1, <2>2, <2>3
    DEF Next, Device, CommandThread, Background, Tick, Press, AnnounceQueue,
        AnnounceId, AnnounceTrack, Answer, AnswerNothing, DeviceSaysByeBye,
        DeviceHangsUp, TakeKey, SkipFails, ShowSkip, BeginPoll, ReadEvent,
        PollPassesAnswer, PollMeetsEof, PollEnds, PrefetchReadsAnswer,
        PrefetchReadsNothing, PrefetchFails, vars
<1>2. ~listener' => told' = NotTold
  <2>1. CASE AnnounceQueue \/ AnnounceId \/ AnnounceTrack
    BY <2>1 DEF AnnounceQueue, AnnounceId, AnnounceTrack
  <2>2. CASE DeviceSaysByeBye \/ DeviceHangsUp \/ BeginPoll
    BY <2>2 DEF DeviceSaysByeBye, DeviceHangsUp, BeginPoll, Linked
  <2>3. CASE UNCHANGED <<listener, told>>
    BY <2>3 DEF Linked
  <2> QED
    BY <2>1, <2>2, <2>3
    DEF Next, Device, CommandThread, Background, Tick, Press, DeviceMoves, Answer,
        AnswerNothing, TakeKey, SkipDone, SkipFails, ShowSkip, ReadEvent,
        PollPassesAnswer, PollMeetsEof, PollEnds, PrefetchReadsAnswer,
        PrefetchReadsNothing, PrefetchFails, vars
<1>3. ASSUME world'.losses = 0
      PROVE  subscribed' = listener' /\ ~Says(wire', "Eof") /\ ~Says(wire', "ByeBye")
  <2>1. /\ world.losses = 0 /\ ~Says(wire, "Eof") /\ ~Says(wire, "ByeBye")
        /\ subscribed = listener /\ ~Closed
    BY <1>3, SameWorld, ClosedSays DEF Linked
  <2>2. ~DeviceSaysByeBye /\ ~DeviceHangsUp /\ ~AnswerNothing
    BY <1>0, <2>1 DEF DeviceSaysByeBye, DeviceHangsUp, AnswerNothing
  <2>3. ASSUME NEW line \in Lines, line.kind \notin {"Eof", "ByeBye"},
               wire' = Append(wire, line), UNCHANGED <<subscribed, listener>>
        PROVE  subscribed' = listener' /\ ~Says(wire', "Eof") /\ ~Says(wire', "ByeBye")
    BY <1>0, <2>1, <2>3, SentSays
  <2>4. ASSUME wire # <<>>, wire' = Tail(wire), UNCHANGED <<subscribed, listener>>
        PROVE  subscribed' = listener' /\ ~Says(wire', "Eof") /\ ~Says(wire', "ByeBye")
    BY <1>0, <2>1, <2>4, ReadSays
  <2>5. CASE AnnounceQueue
    <3>1. [kind |-> "Queue"] \in Lines
      BY DEF Lines
    <3> QED
      BY <2>3, <2>5, <3>1 DEF AnnounceQueue
  <2>6. CASE AnnounceId
    <3>1. [kind |-> "Id", id |-> playing] \in Lines
      BY DEF Lines, Shape, TypeOK
    <3> QED
      BY <2>3, <2>6, <3>1 DEF AnnounceId
  <2>7. CASE AnnounceTrack
    <3>1. [kind |-> "Metatext", id |-> playing] \in Lines
      BY DEF Lines, Shape, TypeOK
    <3> QED
      BY <2>3, <2>7, <3>1 DEF AnnounceTrack
  <2>8. CASE Answer
    <3>1. Head(asked) \in TrackIds
      BY <1>0, <2>8, QueueShrinks DEF Answer
    <3>2. [kind |-> "Response", id |-> Head(asked)] \in Lines
      BY <3>1 DEF Lines
    <3> QED
      BY <2>3, <2>8, <3>2 DEF Answer
  <2>9. CASE BeginPoll
    BY <2>1, <2>9 DEF BeginPoll
  <2>10. CASE ReadEvent
    <3>1. wire # <<>> /\ wire' = Tail(wire) /\ HandleMessage(Head(wire)) /\ listener' = listener
      BY <2>10 DEF ReadEvent
    <3>2. Head(wire).kind # "ByeBye"
      BY <1>0, <2>1, <3>1, ReadSays
    <3>3. subscribed' = subscribed
      BY <3>1, <3>2 DEF HandleMessage, HandleId, HandleQueue, HandleMetatext, HandleByeBye
    <3> QED
      BY <2>4, <3>1, <3>3
  <2>11. CASE PollPassesAnswer
    BY <2>4, <2>11 DEF PollPassesAnswer
  <2>12. CASE PollMeetsEof
    <3>1. Says(wire, "Eof")
      BY <1>0, <2>12, ReadSays, LineRead DEF PollMeetsEof, Says
    <3> QED
      BY <2>1, <3>1
  <2>13. CASE PrefetchReadsAnswer
    BY <2>4, <2>13 DEF PrefetchReadsAnswer
  <2>14. CASE PrefetchReadsNothing
    BY <2>4, <2>14 DEF PrefetchReadsNothing
  <2>15. CASE UNCHANGED <<wire, subscribed, listener>>
    BY <2>1, <2>15
  <2> QED
    BY <2>2, <2>5, <2>6, <2>7, <2>8, <2>9, <2>10, <2>11, <2>12, <2>13, <2>14, <2>15
    DEF Next, Device, CommandThread, Background, Tick, Press, DeviceMoves, TakeKey,
        SkipDone, SkipFails, ShowSkip, PollEnds, PrefetchFails, vars
<1> QED
  BY <1>1, <1>2, <1>3 DEF Linked

LEMMA InitQueued == Init => Queued
BY DEF Init, Queued, Guessing, EmptyPlaylist

(* A guess shown is one held. *)
LEMMA Shown ==
  ASSUME Shape, NEW step \in Steps, PredictSkip(step), now' \in Nat
  PROVE  /\ Guessing' /\ playlist'.prediction.target = playlist'.current
         /\ playlist'.ids = playlist.ids /\ playlist'.repeat = playlist.repeat
         /\ playlist'.shuffle = playlist.shuffle
<1> DEFINE id == NeighbourId(playlist, step)
<1>1. playlist \in PlaylistStates /\ CanPredict(playlist, step)
  BY DEF Shape, TypeOK, PredictSkip
<1>2. id \in TrackIds
  BY <1>1, NeighbourIdType DEF CanPredict
<1>3. /\ playlist'.current = id
      /\ playlist'.prediction = [target |-> id, expires |-> now' + PredictionTtl]
      /\ playlist'.ids = playlist.ids /\ playlist'.repeat = playlist.repeat
      /\ playlist'.shuffle = playlist.shuffle
  BY <1>1 DEF PredictSkip, Predict, PlaylistStates
<1>4. now' + PredictionTtl \in Nat
  <2>1. PICK later \in Nat : later = now'
    OBVIOUS
  <2>2. later + PredictionTtl \in Nat
    BY PlaylistAssumption
  <2> QED
    BY <2>1, <2>2
<1> HIDE DEF id
<1>5. playlist'.prediction \in Predictions
  BY <1>2, <1>3, <1>4 DEF Predictions
<1>6. playlist'.prediction # None
  BY <1>5, PlaylistAssumption
<1> QED
  BY <1>3, <1>6 DEF Guessing

LEMMA StepQueued == Shape /\ Queued /\ [Next]_vars => Queued'
<1> SUFFICES ASSUME Shape, Queued, [Next]_vars PROVE Queued'
  OBVIOUS
<1> USE DEF device, connection, command, session, bounds
<1>0. /\ playlist \in PlaylistStates /\ inbox \in Seq(Steps) /\ now \in Nat /\ clock \in Nat
      /\ wire \in Seq(Lines)
  BY DEF Shape, TypeOK
<1>1. CASE ShowSkip
  <2>1. Head(inbox) \in Steps /\ now' \in Nat
    BY <1>0, <1>1, QueueShrinks DEF ShowSkip
  <2>2. CASE PredictSkip(Head(inbox))
    BY <2>1, <2>2, Shown DEF Queued
  <2>3. CASE ClearTrack
    BY <2>3 DEF ClearTrack, Queued, Guessing
  <2> QED
    BY <1>1, <2>2, <2>3 DEF ShowSkip
<1>2. CASE ReadEvent
  <2>1. Head(wire) \in Lines /\ HandleMessage(Head(wire))
    BY <1>0, <1>2, LineRead DEF ReadEvent
  <2>2. CASE HandleId(Head(wire))
    <3>1. Head(wire).id \in TrackIds
      BY <2>1, <2>2 DEF HandleId, Lines
    <3> QED
      BY <2>2, <3>1, Reported DEF HandleId, Queued, Guessing
  <2>3. CASE HandleQueue(Head(wire))
    <3> DEFINE q == SetIds(playlist, DeviceQueue)
    <3>1. /\ q \in PlaylistStates /\ q.prediction = playlist.prediction
          /\ q.current = playlist.current /\ q.shuffle = playlist.shuffle
          /\ q.ids = SetIds(EmptyPlaylist, DeviceQueue).ids
      <4>1. q \in PlaylistStates
        BY <1>0, SkipAssumption, SetIdsProperty
      <4>2. q.ids = SetIds(EmptyPlaylist, DeviceQueue).ids
        BY <1>0, QueueOf
      <4>3. /\ q.prediction = playlist.prediction
            /\ q.current = playlist.current /\ q.shuffle = playlist.shuffle
        BY <1>0 DEF SetIds, PlaylistStates
      <4> QED
        BY <4>1, <4>2, <4>3
    <3> HIDE DEF q
    <3>2. playlist' = [q EXCEPT !.repeat = DeviceRepeat]
      BY <2>3 DEF HandleQueue, q
    <3>3. /\ playlist'.prediction = playlist.prediction
          /\ playlist'.current = playlist.current /\ playlist'.shuffle = playlist.shuffle
          /\ playlist'.ids = SetIds(EmptyPlaylist, DeviceQueue).ids
          /\ playlist'.repeat = DeviceRepeat
      BY <3>1, <3>2 DEF PlaylistStates
    <3> QED
      BY <3>3 DEF Queued, Guessing
  <2>4. CASE HandleMetatext(Head(wire)) \/ HandleByeBye(Head(wire))
    BY <2>4 DEF HandleMetatext, HandleByeBye, Queued, Guessing
  <2> QED
    BY <2>1, <2>2, <2>3, <2>4 DEF HandleMessage
<1>3. CASE PrefetchReadsAnswer
  <2>1. /\ playlist'.prediction = playlist.prediction
        /\ playlist'.current = playlist.current /\ playlist'.shuffle = playlist.shuffle
        /\ playlist'.ids = playlist.ids /\ playlist'.repeat = playlist.repeat
    BY <1>0, <1>3 DEF PrefetchReadsAnswer, CacheTrack, PlaylistStates
  <2> QED
    BY <2>1 DEF Queued, Guessing
<1>4. CASE playlist' = playlist
  BY <1>4 DEF Queued, Guessing
<1> QED
  BY <1>1, <1>2, <1>3, <1>4
  DEF Next, Device, CommandThread, Background, Tick, Press, DeviceMoves, AnnounceQueue,
      AnnounceId, AnnounceTrack, Answer, AnswerNothing, DeviceSaysByeBye,
      DeviceHangsUp, TakeKey, SkipDone, SkipFails, BeginPoll, PollPassesAnswer,
      PollMeetsEof, PollEnds, PrefetchReadsNothing, PrefetchFails, vars

LEMMA InitHeard == Init => Heard
BY DEF Init, Heard, NotTold

LEMMA StepHeard ==
  ASSUME Shape, Connected, Linked, Queued, Heard, [Next]_vars
  PROVE  Heard'
<1> USE DEF device, connection, command, session, bounds
<1>0. /\ wire \in Seq(Lines) /\ inbox \in Seq(Steps) /\ now \in Nat /\ clock \in Nat
      /\ playing \in TrackIds
      /\ told \in [queue : BOOLEAN, id : TrackIds \cup {None},
                   meta : TrackIds \cup {None}]
  BY DEF Shape, TypeOK
<1>1. CASE Aside
  BY <1>1 DEF Aside, SameTalk, SameShown, Heard, Guessing
<1>2. CASE Forgotten
  BY <1>2 DEF Forgotten, NotTold, Heard
<1>3. CASE UNCHANGED <<wire, told, playlist>>
  BY <1>3 DEF Heard, Guessing
<1>4. CASE AnnounceId
  <2> DEFINE line == [kind |-> "Id", id |-> playing]
  <2>1. line \in Lines /\ line.kind = "Id" /\ line.id = playing
    BY <1>0 DEF Lines
  <2> HIDE DEF line
  <2>2. wire' = Append(wire, line) /\ told'.id = playing /\ told'.meta = told.meta
        /\ playlist' = playlist
    BY <1>0, <1>4 DEF AnnounceId, line
  <2>3. LastSays(wire', "Id", playing)
    BY <1>0, <2>1, <2>2, SentLast
  <2>4. told.meta # None => LastSays(wire', "Metatext", told.meta)
    BY <1>0, <2>1, <2>2, SentLast DEF Heard
  <2>5. Says(wire', "Id")
    BY <1>0, <2>1, <2>2, SentSays
  <2> QED
    BY <2>2, <2>3, <2>4, <2>5 DEF Heard
<1>5. CASE AnnounceTrack
  <2> DEFINE line == [kind |-> "Metatext", id |-> playing]
  <2>1. line \in Lines /\ line.kind = "Metatext" /\ line.id = playing
    BY <1>0 DEF Lines
  <2> HIDE DEF line
  <2>2. wire' = Append(wire, line) /\ told'.meta = playing /\ told'.id = told.id
        /\ playlist' = playlist
    BY <1>0, <1>5 DEF AnnounceTrack, line
  <2>3. LastSays(wire', "Metatext", playing)
    BY <1>0, <2>1, <2>2, SentLast
  <2>4. told.id # None => LastSays(wire', "Id", told.id)
    BY <1>0, <2>1, <2>2, SentLast DEF Heard
  <2>5. Says(wire, "Id") => Says(wire', "Id")
    BY <1>0, <2>1, <2>2, SentSays
  <2> QED
    BY <2>2, <2>3, <2>4, <2>5 DEF Heard, Guessing
<1>6. CASE ShowSkip
  <2>1. Head(inbox) \in Steps /\ now' \in Nat /\ wire' = wire /\ told' = told
    BY <1>0, <1>6, QueueShrinks DEF ShowSkip
  <2>2. CASE PredictSkip(Head(inbox))
    BY <2>1, <2>2, Shown DEF Heard
  <2>3. CASE ClearTrack
    BY <2>1, <2>3 DEF ClearTrack, Heard, Guessing
  <2> QED
    BY <1>6, <2>2, <2>3 DEF ShowSkip
<1>7. ASSUME ReadEvent
      PROVE  /\ wire # <<>> /\ wire' = Tail(wire) /\ told' = told /\ Head(wire) \in Lines
             /\ told.id # None => LastSays(wire', "Id", told.id)
             /\ told.meta # None => LastSays(wire', "Metatext", told.meta)
  <2>1. wire # <<>> /\ wire' = Tail(wire) /\ told' = told /\ Head(wire) \in Lines
    BY <1>0, <1>7, LineRead DEF ReadEvent
  <2> QED
    BY <1>0, <2>1, ReadSays DEF Heard
<1>8. CASE ReadEvent /\ HandleId(Head(wire))
  <2>1. Head(wire).id \in TrackIds /\ Head(wire).kind = "Id"
    BY <1>7, <1>8 DEF HandleId, Lines
  <2>2. told.id # None => Head(wire).id = told.id \/ Says(wire', "Id")
    BY <1>0, <1>7, <1>8, <2>1, ReadSays DEF Heard
  <2>3. Guessing' \/ playlist'.current = Head(wire).id
    BY <1>8, <2>1, Reported DEF HandleId, Guessing
  <2> QED
    BY <1>7, <1>8, <2>2, <2>3 DEF Heard
<1>9. CASE ReadEvent /\ HandleMetatext(Head(wire))
  <2>1. Head(wire).kind # "Id" /\ playlist' = playlist
    BY <1>9 DEF HandleMetatext
  <2>2. Says(wire, "Id") => Says(wire', "Id")
    BY <1>0, <1>7, <1>9, <2>1, ReadSays
  <2> QED
    BY <1>7, <1>9, <2>1, <2>2 DEF Heard, Guessing
<1> QED
  BY <1>1, <1>2, <1>3, <1>4, <1>5, <1>6, <1>8, <1>9, KindsOfStep
  DEF Press, DeviceMoves, CommandThread, TakeKey, SkipDone, SkipFails

(* Where nobody skips, the words are those of the last description. *)
LEMMA InitUntouched == Init => Untouched
BY DEF Init, Untouched, NotTold, Guessing, EmptyPlaylist

LEMMA StepUntouched ==
  ASSUME Shape, Connected, Linked, Heard, Untouched, world.presses = 0, [Next]_vars
  PROVE  Untouched'
<1> USE DEF device, connection, command, session, bounds
<1>0. wire \in Seq(Lines) /\ presses \in Nat /\ playing \in TrackIds
      /\ told \in [queue : BOOLEAN, id : TrackIds \cup {None},
                   meta : TrackIds \cup {None}]
  BY DEF Shape, TypeOK
<1>1. CASE Aside
  BY <1>1 DEF Aside, SameTalk, SameShown, Untouched, Guessing
<1>2. CASE Forgotten
  BY <1>2 DEF Forgotten, NotTold, SameShown, Untouched, Guessing
<1>3. ~CommandThread /\ ~ShowSkip /\ \A step : ~Press(step)
  <2>1. ~(presses < world.presses)
    BY <1>0
  <2> QED
    BY <2>1 DEF Untouched, CommandThread, TakeKey, SkipDone, SkipFails, ShowSkip, Press
<1>4. CASE DeviceMoves
  BY <1>4 DEF DeviceMoves, Untouched, Guessing
<1>5. CASE AnnounceId
  <2> DEFINE line == [kind |-> "Id", id |-> playing]
  <2>1. line \in Lines /\ line.kind = "Id"
    BY <1>0 DEF Lines
  <2> HIDE DEF line
  <2>2. wire' = Append(wire, line) /\ told'.meta = told.meta
    BY <1>0, <1>5 DEF AnnounceId, line
  <2>3. Says(wire, "Metatext") => Says(wire', "Metatext")
    BY <1>0, <2>1, <2>2, SentSays
  <2> QED
    BY <1>5, <2>2, <2>3 DEF AnnounceId, Untouched, Guessing
<1>6. CASE AnnounceTrack
  <2> DEFINE line == [kind |-> "Metatext", id |-> playing]
  <2>1. line \in Lines /\ line.kind = "Metatext"
    BY <1>0 DEF Lines
  <2> HIDE DEF line
  <2>2. wire' = Append(wire, line)
    BY <1>0, <1>6 DEF AnnounceTrack, line
  <2>3. Says(wire', "Metatext")
    BY <1>0, <2>1, <2>2, SentSays
  <2> QED
    BY <1>6, <2>3 DEF AnnounceTrack, Untouched, Guessing
<1>7. ASSUME ReadEvent
      PROVE  /\ wire # <<>> /\ wire' = Tail(wire) /\ told' = told /\ Head(wire) \in Lines
             /\ UNCHANGED <<keys, sending, inbox>>
  BY <1>0, <1>7, LineRead DEF ReadEvent
<1>8. CASE ReadEvent /\ HandleId(Head(wire))
  <2>1. Head(wire).id \in TrackIds /\ Head(wire).kind = "Id"
    BY <1>7, <1>8 DEF HandleId, Lines
  <2>2. ~Guessing' /\ track' = track
    BY <1>8, <2>1, Reported DEF HandleId, Untouched
  <2>3. Says(wire, "Metatext") => Says(wire', "Metatext")
    BY <1>0, <1>7, <1>8, <2>1, ReadSays
  <2> QED
    BY <1>7, <1>8, <2>2, <2>3 DEF Untouched
<1>9. CASE ReadEvent /\ HandleMetatext(Head(wire))
  <2>1. /\ Head(wire).kind = "Metatext" /\ playlist' = playlist
        /\ track' = MetadataOf[Head(wire).id]
    BY <1>9 DEF HandleMetatext, Untouched, Guessing
  <2>2. told.meta # None => Head(wire).id = told.meta \/ Says(wire', "Metatext")
    BY <1>0, <1>7, <1>9, <2>1, ReadSays DEF Heard
  <2> QED
    BY <1>7, <1>9, <2>1, <2>2 DEF Untouched, Guessing
<1> QED
  BY <1>1, <1>2, <1>3, <1>4, <1>5, <1>6, <1>8, <1>9, KindsOfStep

-----------------------------------------------------------------------------
(* Skips that can be followed.                                             *)

(* Somebody skips, and each skip can be followed. *)
Following == Orderly /\ world.presses # 0

LEMMA WhatFollows ==
  ASSUME Shape, Linked, Following
  PROVE  /\ world.prompt /\ ~world.skipsFail /\ world.moves = 0
         /\ Len(DeviceQueue) <= MaxQueueTracks
         /\ world.directions \subseteq Steps
         /\ \A step \in world.directions :
              /\ NeighbourOf(playing, step) \notin {None, playing}
              /\ DeviceNeighbour(step) = NeighbourOf(playing, step)
         /\ ~world.patient =>
              /\ ~world.coalesces /\ world.losses = 0
              /\ \E step \in Steps : world.directions = {step}
<1>1. world.directions \subseteq Steps
  BY SkipAssumption DEF Shape, TypeOK, WorldTypes
<1>2. Followable
  BY DEF Following, Orderly
<1>3. ASSUME NEW step \in world.directions
      PROVE  /\ NeighbourOf(playing, step) \notin {None, playing}
             /\ DeviceNeighbour(step) = NeighbourOf(playing, step)
  BY <1>2 DEF Followable, Linked, DeviceNeighbour
<1> QED
  BY <1>1, <1>2, <1>3 DEF Following, Orderly, Followable

LEMMA SameFollowing == [Next]_vars => (Following' <=> Following)
<1> SUFFICES ASSUME [Next]_vars PROVE Following' <=> Following
  OBVIOUS
<1>1. world' = world
  BY SameWorld
<1>2. Followable' <=> Followable
  BY <1>1 DEF Followable, NeighbourOf
<1> QED
  BY <1>1, <1>2 DEF Following, Orderly

(* What the command thread has sent is what the session has to show. *)
LEMMA InitInTurn == Init => InTurn
BY EmptySeq DEF Init, InTurn

LEMMA StepInTurn ==
  ASSUME Shape, Connected, Linked, Following, InTurn, [Next]_vars
  PROVE  InTurn'
<1> USE DEF device, connection, command, session, bounds
<1>0. world' = world /\ inbox \in Seq(Steps)
  BY SameWorld DEF Shape, TypeOK
<1>1. CASE \E step \in world.directions : Press(step)
  BY <1>0, <1>1, QueueGrows DEF Press, InTurn
<1>2. CASE TakeKey
  <2>1. Head(keys) \in world.directions /\ keys' \in Seq(world.directions)
    BY <1>2, QueueShrinks DEF TakeKey, InTurn
  <2>2. inbox = <<>> /\ sending' = Head(keys)
    BY <1>2 DEF TakeKey, InTurn
  <2>3. inbox' = <<Head(keys)>>
    BY <1>2, <2>2 DEF TakeKey
  <2>4. sending' # None
    BY <2>1, <2>2, WhatFollows, SkipAssumption
  <2> QED
    BY <1>0, <2>1, <2>2, <2>3, <2>4 DEF InTurn
<1>3. CASE SkipDone
  <2>1. inbox = <<>> /\ inbox' = inbox /\ keys' = keys /\ sending' = None
    BY <1>3, WhatFollows DEF SkipDone
  <2> QED
    BY <1>0, <2>1 DEF InTurn
<1>4. CASE SkipFails
  BY <1>4, WhatFollows DEF SkipFails
<1>5. CASE ShowSkip
  <2>1. inbox = <<sending>> /\ inbox' = Tail(inbox) /\ UNCHANGED <<keys, sending>>
    BY <1>5 DEF ShowSkip, InTurn
  <2>2. inbox' = <<>>
    BY <2>1
  <2> QED
    BY <1>0, <2>1, <2>2 DEF InTurn
<1>6. CASE UNCHANGED <<keys, sending, inbox>>
  BY <1>0, <1>6 DEF InTurn
<1> QED
  BY <1>1, <1>2, <1>3, <1>4, <1>5, <1>6, KindsOfStep
  DEF CommandThread, Aside, Forgotten, DeviceMoves, AnnounceId, AnnounceTrack, ReadEvent

-----------------------------------------------------------------------------
(* A user who waits.                                                       *)

LEMMA OneTaken ==
  ASSUME NEW S, NEW q \in Seq(S), Len(q) = 1
  PROVE  Tail(q) = <<>>
<1> DEFINE rest == Tail(q)
<1>1. q # <<>>
  BY EmptySeq
<1>2. rest \in Seq(S) /\ Len(rest) = 0
  BY <1>1, HeadTailProperties
<1> HIDE DEF rest
<1>3. rest = <<>>
  BY <1>2, EmptySeq
<1> QED
  BY <1>3 DEF rest

LEMMA InitPatient == Init => Patient
<1> SUFFICES ASSUME Init PROVE Patient
  OBVIOUS
<1>1. /\ keys = <<>> /\ inbox = <<>> /\ sending = None /\ told.meta = None
      /\ ~Guessing
  BY DEF Init, NotTold, EmptyPlaylist, Guessing
<1>2. playing # None
  BY QueueTracks DEF Init
<1> QED
  BY <1>1, <1>2 DEF Patient

LEMMA StepPatient ==
  ASSUME Shape, Connected, Answering, Linked, Queued, Heard, Following, InTurn,
         world.patient, Patient, [Next]_vars
  PROVE  Patient'
<1> USE DEF device, connection, command, session, bounds
<1>0. /\ wire \in Seq(Lines) /\ playing \in TrackIds /\ None \notin TrackIds
      /\ inbox \in Seq(Steps) /\ now \in Nat /\ clock \in Nat
      /\ told \in [queue : BOOLEAN, id : TrackIds \cup {None},
                   meta : TrackIds \cup {None}]
  BY QueueTracks DEF Shape, TypeOK
<1>1. CASE Aside
  <2>1. /\ SameTalk /\ UNCHANGED <<playing, keys, sending, inbox, track>>
        /\ told'.id = told.id /\ told'.meta = told.meta
        /\ playlist'.current = playlist.current /\ (Guessing' <=> Guessing)
        /\ (Ahead' <=> Ahead) /\ Target' = Target
    BY <1>1 DEF Aside, SameShown, Guessing, Ahead, Target
  <2> QED
    BY <2>1 DEF SameTalk, Patient
<1>2. CASE Forgotten
  <2>1. /\ UNCHANGED <<playing, keys, sending, inbox, track>>
        /\ told'.id = None /\ told'.meta = None
        /\ playlist'.current = playlist.current /\ (Guessing' <=> Guessing)
        /\ (Ahead' <=> Ahead) /\ Target' = Target
        /\ OnlySays(wire, "Id", playing) => OnlySays(wire', "Id", playing)
    BY <1>2 DEF Forgotten, SameShown, Guessing, Ahead, Target, NotTold
  <2> QED
    BY <1>0, <2>1 DEF Patient
<1>3. CASE \E step \in world.directions : Press(step)
  <2>1. PICK step \in world.directions : Press(step)
    BY <1>3
  <2>2. Quiet /\ keys' = Append(<<>>, step)
        /\ UNCHANGED <<playing, told, wire, sending, inbox, playlist, track>>
    BY <2>1 DEF Press, Quiet
  <2>3. /\ keys = <<>> /\ sending = None /\ inbox = <<>> /\ wire = <<>>
        /\ told.id = playing /\ told.meta = playing
    BY <2>2 DEF Quiet, Announced
  <2>4. keys' = <<step>> /\ Len(keys') = 1
    BY <2>2
  <2>5. ~Ahead /\ ~SaysOf(wire, "Id", playing) /\ OnlySays(wire, "Id", playing)
        /\ ~Says(wire, "Id") /\ ~Says(wire, "Metatext")
    BY <2>3, NothingSaid DEF Ahead
  <2>6. ~Guessing
    BY <2>3, <2>5 DEF Patient
  <2>7. playlist.current = playing
    BY <1>0, <2>3, <2>5, <2>6 DEF Heard
  <2>8. track = MetadataOf[playing]
    BY <2>3, <2>5, <2>6 DEF Patient
  <2>9. ~Guessing' /\ ~Ahead'
    BY <2>2, <2>5, <2>6 DEF Guessing, Ahead
  <2> QED
    BY <2>2, <2>3, <2>4, <2>5, <2>7, <2>8, <2>9 DEF Patient
<1>4. ~DeviceMoves
  <2>1. world.moves = 0 /\ moves \in Nat
    BY WhatFollows DEF Shape, TypeOK
  <2> QED
    BY <2>1 DEF DeviceMoves
<1>5. CASE AnnounceId
  <2> DEFINE line == [kind |-> "Id", id |-> playing]
  <2>1. line \in Lines /\ line.kind = "Id" /\ line.id = playing
    BY <1>0 DEF Lines
  <2> HIDE DEF line
  <2>2. /\ wire' = Append(wire, line) /\ told'.id = playing /\ told'.meta = told.meta
        /\ UNCHANGED <<playing, keys, sending, inbox, playlist, track>>
    BY <1>0, <1>5 DEF AnnounceId, line
  <2>3. /\ OnlySays(wire, "Id", playing) => OnlySays(wire', "Id", playing)
        /\ SaysOf(wire', "Id", playing)
        /\ Says(wire, "Metatext") => Says(wire', "Metatext")
    BY <1>0, <2>1, <2>2, SentSays
  <2>4. (Guessing' <=> Guessing) /\ (Ahead' <=> Ahead) /\ Target' = Target
    BY <2>2 DEF Guessing, Ahead, Target
  <2> QED
    BY <2>2, <2>3, <2>4 DEF Patient
<1>6. CASE AnnounceTrack
  <2> DEFINE line == [kind |-> "Metatext", id |-> playing]
  <2>1. line \in Lines /\ line.kind = "Metatext" /\ line.id = playing
    BY <1>0 DEF Lines
  <2> HIDE DEF line
  <2>2. /\ wire' = Append(wire, line) /\ told'.id = told.id /\ told'.meta = playing
        /\ UNCHANGED <<playing, keys, sending, inbox, playlist, track>>
    BY <1>0, <1>6 DEF AnnounceTrack, line
  <2>3. /\ OnlySays(wire, "Id", playing) => OnlySays(wire', "Id", playing)
        /\ SaysOf(wire, "Id", playing) => SaysOf(wire', "Id", playing)
        /\ Says(wire', "Metatext")
    BY <1>0, <2>1, <2>2, SentSays
  <2>4. (Guessing' <=> Guessing) /\ (Ahead' <=> Ahead) /\ Target' = Target
    BY <2>2 DEF Guessing, Ahead, Target
  <2> QED
    BY <2>2, <2>3, <2>4 DEF Patient
<1>7. CASE TakeKey
  <2>1. /\ sending = None /\ keys # <<>> /\ Len(keys) = 1
        /\ keys' = Tail(keys) /\ keys \in Seq(world.directions)
        /\ inbox' = Append(inbox, Head(keys))
        /\ UNCHANGED <<playing, told, wire, playlist, track>>
    BY <1>7 DEF TakeKey, Patient, InTurn
  <2>2. keys' = <<>>
    BY <2>1, OneTaken
  <2>3. inbox' # <<>>
    <3>1. Head(keys) \in Steps
      BY <1>7, QueueShrinks DEF TakeKey, Shape, TypeOK
    <3> QED
      BY <1>0, <2>1, <3>1, QueueGrows
  <2>4. ~Ahead /\ ~Ahead' /\ (Guessing' <=> Guessing)
    BY <2>1, <2>3 DEF Ahead, Guessing
  <2> QED
    BY <2>1, <2>2, <2>4 DEF Patient
<1>8. CASE SkipDone
  <2>1. /\ sending # None /\ inbox = <<>> /\ sending \in world.directions
        /\ playing' = NeighbourOf(playing, sending) /\ sending' = None
        /\ UNCHANGED <<told, wire, keys, inbox, playlist, track>>
    BY <1>8, WhatFollows DEF SkipDone, InTurn
  <2>2. playing' \notin {None, playing}
    BY <2>1, WhatFollows
  <2>3. keys = <<>> /\ told.id \in {None, playing} /\ told.meta \in {None, playing}
    BY <2>1 DEF Patient
  <2>4. /\ Ahead /\ ~Ahead' /\ (Guessing' <=> Guessing)
        /\ Target' = playing' /\ Target = playing'
    BY <2>1 DEF Ahead, Guessing, Target
  <2> QED
    BY <2>1, <2>2, <2>3, <2>4 DEF Patient
<1>9. ~SkipFails
  BY WhatFollows DEF SkipFails
<1>10. CASE ShowSkip
  <2>1. /\ inbox # <<>> /\ inbox = <<sending>> /\ sending \in world.directions
        /\ inbox' = Tail(inbox) /\ now' \in Nat /\ sending # None
        /\ UNCHANGED <<playing, told, wire, keys, sending>>
    BY <1>0, <1>10 DEF ShowSkip, InTurn
  <2>2. inbox' = <<>> /\ Head(inbox) = sending /\ sending \in Steps
    BY <2>1, WhatFollows
  <2>3. Ahead' /\ Target' = NeighbourOf(playing, sending)
    BY <2>1, <2>2 DEF Ahead, Target
  <2>4. keys = <<>> /\ ~Guessing /\ playlist.current = playing
    BY <2>1 DEF Patient
  <2>5. CASE PredictSkip(sending)
    <3>1. CacheTrue
      BY DEF Following, Orderly, Answering
    <3>2. /\ playlist'.current = NeighbourOf(playing, sending) /\ Guessing'
          /\ track' = MetadataOf[NeighbourOf(playing, sending)]
      BY <2>1, <2>2, <2>4, <2>5, <3>1, WhatFollows, Guessed
    <3> QED
      BY <2>1, <2>2, <2>3, <2>4, <3>2 DEF Patient
  <2>6. CASE ClearTrack
    <3>1. ~Guessing'
      BY <2>4, <2>6 DEF ClearTrack, Guessing
    <3> QED
      BY <2>1, <2>2, <2>3, <2>4, <3>1 DEF Patient
  <2> QED
    BY <1>10, <2>2, <2>5, <2>6 DEF ShowSkip
<1>11. ASSUME ReadEvent
       PROVE  /\ wire # <<>> /\ wire' = Tail(wire) /\ Head(wire) \in Lines
              /\ UNCHANGED <<playing, told, keys, sending, inbox>>
              /\ (Ahead' <=> Ahead) /\ Target' = Target
  BY <1>0, <1>11, LineRead DEF ReadEvent, Ahead, Target
<1>12. CASE ReadEvent /\ HandleId(Head(wire))
  <2> DEFINE id == Head(wire).id
  <2>1. id \in TrackIds /\ Head(wire).kind = "Id" /\ track' = track
        /\ playlist' = ReportedId(playlist, id, now)
    BY <1>11, <1>12 DEF HandleId, Lines
  <2> HIDE DEF id
  <2>2. /\ OnlySays(wire, "Id", playing) => OnlySays(wire', "Id", playing) /\ id = playing
        /\ SaysOf(wire, "Id", playing) => SaysOf(wire', "Id", playing) \/ id = playing
        /\ Says(wire, "Metatext") => Says(wire', "Metatext")
    <3>1. /\ OnlySays(wire, "Id", playing) => OnlySays(wire', "Id", playing) /\ id = playing
          /\ SaysOf(wire, "Id", playing) => SaysOf(wire', "Id", playing) \/ id = playing
      BY <1>0, <1>11, <1>12, <2>1, ReadSays DEF id
    <3>2. Says(wire, "Metatext") => Says(wire', "Metatext")
      BY <1>0, <1>11, <1>12, <2>1, ReadSays
    <3> QED
      BY <3>1, <3>2
  <2>3. CASE /\ Guessing /\ id # playlist.current /\ Guessing'
             /\ playlist'.current = playlist.current
    <3>1. Ahead \/ told.id # playing \/ SaysOf(wire', "Id", playing)
      <4>1. SUFFICES ASSUME ~Ahead, told.id = playing PROVE SaysOf(wire', "Id", playing)
        OBVIOUS
      <4>2. SaysOf(wire, "Id", playing) /\ playlist.current = playing
        BY <2>3, <4>1 DEF Patient, Target
      <4> QED
        BY <2>2, <2>3, <4>2
    <3> QED
      BY <1>11, <1>12, <2>1, <2>2, <2>3, <3>1 DEF Patient
  <2>4. CASE playlist'.current = id /\ ~Guessing'
    <3>1. inbox # <<>> => sending # None
      BY DEF InTurn
    <3>2. keys # <<>> \/ inbox # <<>> => id = playing
      BY <2>2, <3>1 DEF Patient
    <3>3. ~Ahead /\ told.meta = playing /\ ~Says(wire', "Metatext") => track = MetadataOf[playing]
      BY <2>2 DEF Patient, Target
    <3> QED
      BY <1>11, <1>12, <2>1, <2>2, <2>4, <3>2, <3>3 DEF Patient
  <2>5. \/ /\ Guessing /\ id # playlist.current /\ Guessing'
           /\ playlist'.current = playlist.current
        \/ playlist'.current = id /\ ~Guessing'
    BY <2>1, Reported DEF Queued, Guessing
  <2> QED
    BY <2>3, <2>4, <2>5
<1>13. CASE ReadEvent /\ HandleMetatext(Head(wire))
  <2>1. /\ Head(wire).kind = "Metatext" /\ playlist' = playlist
        /\ (Guessing' <=> Guessing)
        /\ Guessing => track' = track
        /\ ~Guessing => track' = MetadataOf[Head(wire).id]
    BY <1>13 DEF HandleMetatext, Guessing
  <2>2. /\ OnlySays(wire, "Id", playing) => OnlySays(wire', "Id", playing)
        /\ SaysOf(wire, "Id", playing) => SaysOf(wire', "Id", playing)
    BY <1>0, <1>11, <1>13, <2>1, ReadSays
  <2>3. told.meta = playing => Head(wire).id = playing \/ Says(wire', "Metatext")
    BY <1>0, <1>11, <1>13, <2>1, ReadSays DEF Heard
  <2> QED
    BY <1>11, <1>13, <2>1, <2>2, <2>3 DEF Patient
<1> QED
  BY <1>1, <1>2, <1>3, <1>4, <1>5, <1>6, <1>7, <1>8, <1>9, <1>10, <1>12, <1>13,
     KindsOfStep
  DEF CommandThread

-----------------------------------------------------------------------------
(* A user who does not wait.                                               *)

LEMMA InitHurried ==
  ASSUME Init, NEW step \in Steps
  PROVE  Trailing(step) /\ Showing
<1>1. told.id = None /\ told.meta = None /\ ~Guessing /\ playlist.current = None
      /\ wire = <<>>
  BY DEF Init, NotTold, EmptyPlaylist, Guessing
<1>2. playing # None
  BY QueueTracks DEF Init
<1>3. ~Says(wire, "Id")
  BY <1>1, NothingSaid
<1> QED
  BY <1>1, <1>2, <1>3 DEF Trailing, Showing

(* Nothing of it changes. *)
LEMMA SameHurried ==
  ASSUME NEW step, Trailing(step), Showing, SameTalk, SameShown,
         told'.id = told.id, told'.meta = told.meta, playing' = playing,
         Ahead' <=> Ahead
  PROVE  Trailing(step)' /\ Showing'
<1>1. /\ UNCHANGED track /\ playlist'.current = playlist.current
      /\ (Guessing' <=> Guessing)
  BY DEF SameShown, Guessing
<1>2. Trailing(step)'
  BY <1>1 DEF Trailing, SameTalk
<1>3. Early => Early'
  BY <1>1 DEF Early, SameTalk
<1>4. Showing'
  BY <1>1, <1>3 DEF Showing, SameTalk
<1> QED
  BY <1>2, <1>4

LEMMA StepHurried ==
  ASSUME Shape, Connected, Answering, Linked, Queued, Heard, Following, InTurn,
         ~world.patient, NEW step \in Steps, world.directions = {step},
         Trailing(step), Showing, [Next]_vars
  PROVE  Trailing(step)' /\ Showing'
<1> USE DEF device, connection, command, session, bounds
<1>0. /\ wire \in Seq(Lines) /\ playing \in TrackIds /\ None \notin TrackIds
      /\ inbox \in Seq(Steps) /\ now \in Nat /\ clock \in Nat
      /\ told \in [queue : BOOLEAN, id : TrackIds \cup {None},
                   meta : TrackIds \cup {None}]
      /\ world.losses = 0 /\ ~world.coalesces
  BY QueueTracks, WhatFollows DEF Shape, TypeOK
<1>1. CASE Aside
  <2>1. Ahead' <=> Ahead
    BY <1>1 DEF Aside, Ahead
  <2> QED
    BY <1>1, <2>1, SameHurried DEF Aside
<1>2. ~Forgotten
  BY <1>0 DEF Forgotten
<1>3. CASE \E way \in world.directions : Press(way)
  <2>1. Ahead' <=> Ahead
    BY <1>3 DEF Press, Ahead
  <2>2. SameShown /\ SameTalk /\ told' = told /\ playing' = playing
    BY <1>3, SameWire DEF Press, SameShown
  <2> QED
    BY <2>1, <2>2, SameHurried
<1>4. ~DeviceMoves
  <2>1. world.moves = 0 /\ moves \in Nat
    BY WhatFollows DEF Shape, TypeOK
  <2> QED
    BY <2>1 DEF DeviceMoves
<1>5. CASE AnnounceId
  <2> DEFINE line == [kind |-> "Id", id |-> playing]
  <2>1. line \in Lines /\ line.kind = "Id" /\ line.id = playing
    BY <1>0 DEF Lines
  <2> HIDE DEF line
  <2>2. /\ wire' = Append(wire, line) /\ told'.id = playing /\ told'.meta = told.meta
        /\ UNCHANGED <<playing, keys, sending, inbox, playlist, track>>
        /\ told.id # playing
    BY <1>0, <1>5 DEF AnnounceId, line
  <2>3. /\ Says(wire', "Id") /\ SaysOf(wire', "Id", playing)
        /\ \A id : SaysOf(wire, "Id", id) => SaysOf(wire', "Id", id)
        /\ Says(wire', "Metatext") <=> Says(wire, "Metatext")
    BY <1>0, <2>1, <2>2, SentSays
  <2>4. (Guessing' <=> Guessing) /\ (Ahead' <=> Ahead)
    BY <2>2 DEF Guessing, Ahead
  <2>5. Chained(wire', step, playing)
    <3>1. CASE told.id = None
      <4>1. ~Says(wire, "Id")
        BY <3>1 DEF Trailing
      <4> QED
        BY <1>0, <2>1, <2>2, <4>1, SentChained
    <3>2. CASE told.id # None
      <4>1. playing = NeighbourOf(told.id, step) /\ Chained(wire, step, told.id)
        BY <2>2, <3>2 DEF Trailing
      <4> QED
        BY <1>0, <2>1, <2>2, <4>1, SentChained
    <3> QED
      BY <3>1, <3>2
  <2>6. ~Guessing => \/ playlist.current = None
                     \/ SaysOf(wire', "Id", NeighbourOf(playlist.current, step))
    <3>1. CASE told.id = None
      BY <3>1 DEF Trailing
    <3>2. CASE told.id # None
      <4>1. playing = NeighbourOf(told.id, step)
        BY <2>2, <3>2 DEF Trailing
      <4> QED
        BY <2>3, <3>2, <4>1 DEF Trailing
    <3> QED
      BY <3>1, <3>2
  <2>7. Trailing(step)'
    BY <1>0, <2>2, <2>3, <2>4, <2>5, <2>6 DEF Trailing
  <2>8. told.meta = playing => DescribedBetween(wire')
    <3>1. told.meta = playing => Described(wire)
      BY <2>2 DEF Showing
    <3> QED
      BY <1>0, <2>1, <2>2, <3>1, SentDescribed
  <2>9. Early => Early'
    <3>1. \A id : SaysEarly(wire, id) => SaysEarly(wire', id)
      BY <1>0, <2>1, <2>2, SentDescribed
    <3>2. \A id : SaysOf(wire, "Id", id) => SaysEarly(wire', id)
      BY <1>0, <2>1, <2>2, SentDescribed
    <3> QED
      BY <2>2, <2>3, <2>4, <3>1, <3>2 DEF Early
  <2>10. Showing'
    BY <2>2, <2>3, <2>4, <2>8, <2>9 DEF Showing
  <2> QED
    BY <2>7, <2>10
<1>6. CASE AnnounceTrack
  <2> DEFINE line == [kind |-> "Metatext", id |-> playing]
  <2>1. line \in Lines /\ line.kind = "Metatext" /\ line.id = playing
    BY <1>0 DEF Lines
  <2> HIDE DEF line
  <2>2. /\ wire' = Append(wire, line) /\ told'.id = told.id /\ told'.meta = playing
        /\ UNCHANGED <<playing, keys, sending, inbox, playlist, track>>
    BY <1>0, <1>6 DEF AnnounceTrack, line
  <2>3. /\ Says(wire', "Id") <=> Says(wire, "Id")
        /\ \A id : SaysOf(wire, "Id", id) => SaysOf(wire', "Id", id)
        /\ Says(wire', "Metatext")
    BY <1>0, <2>1, <2>2, SentSays
  <2>4. (Guessing' <=> Guessing) /\ (Ahead' <=> Ahead)
    BY <2>2 DEF Guessing, Ahead
  <2>5. told.id # None => Chained(wire', step, told.id)
    BY <1>0, <2>1, <2>2, SentChained DEF Trailing
  <2>6. Trailing(step)'
    BY <2>2, <2>3, <2>4, <2>5 DEF Trailing
  <2>7. /\ Described(wire') /\ DescribedBetween(wire')
        /\ \A id : SaysEarly(wire, id) => SaysEarly(wire', id)
    BY <1>0, <2>1, <2>2, SentDescribed
  <2>8. Early => Early'
    BY <2>2, <2>3, <2>4, <2>7 DEF Early
  <2>9. Showing'
    BY <2>2, <2>3, <2>4, <2>7, <2>8 DEF Showing
  <2> QED
    BY <2>6, <2>9
<1>7. CASE TakeKey
  <2>1. inbox' # <<>> /\ sending = None
    <3>1. Head(keys) \in Steps
      BY <1>7, QueueShrinks DEF TakeKey, Shape, TypeOK
    <3> QED
      BY <1>0, <1>7, <3>1, QueueGrows DEF TakeKey
  <2>2. Ahead' <=> Ahead
    BY <2>1 DEF Ahead
  <2>3. SameShown /\ SameTalk /\ told' = told /\ playing' = playing
    BY <1>7, SameWire DEF TakeKey, SameShown
  <2> QED
    BY <2>2, <2>3, SameHurried
<1>8. CASE SkipDone
  <2>1. /\ sending # None /\ inbox = <<>> /\ sending = step
        /\ playing' = NeighbourOf(playing, step) /\ sending' = None
        /\ UNCHANGED <<told, wire, keys, inbox, playlist, track>>
    BY <1>8, WhatFollows DEF SkipDone, InTurn
  <2>2. playing' \notin {None, playing}
    BY <2>1, WhatFollows
  <2>3. \/ told.id = playing /\ told.meta = playing
        \/ told.id = None /\ told.meta = None
    BY <1>0, <1>8 DEF SkipDone, Announced, Linked, NotTold
  <2>4. Ahead /\ ~Ahead' /\ (Guessing' <=> Guessing)
    BY <2>1 DEF Ahead, Guessing
  <2>5. Trailing(step)'
    BY <2>1, <2>2, <2>3, <2>4 DEF Trailing
  <2>6. Guessing => told.id = playing
    BY <2>3 DEF Trailing
  <2>7. Guessing /\ Early => Early'
    BY <1>0, <2>1, <2>2, <2>6 DEF Early
  <2>8. Showing'
    BY <2>1, <2>2, <2>3, <2>4, <2>7 DEF Showing
  <2> QED
    BY <2>5, <2>8
<1>9. ~SkipFails
  BY WhatFollows DEF SkipFails
<1>10. CASE ShowSkip
  <2>1. /\ inbox # <<>> /\ inbox = <<sending>> /\ sending = step
        /\ inbox' = Tail(inbox) /\ now' \in Nat /\ sending # None
        /\ UNCHANGED <<playing, told, wire, keys, sending>>
    BY <1>0, <1>10 DEF ShowSkip, InTurn
  <2>2. inbox' = <<>> /\ Head(inbox) = step
    BY <2>1
  <2>3. Ahead' /\ ~Ahead
    BY <2>1, <2>2 DEF Ahead
  <2>4. CASE PredictSkip(step)
    <3>1. CacheTrue
      BY DEF Following, Orderly, Answering
    <3> DEFINE cur == playlist.current
               new == NeighbourOf(cur, step)
    <3>2. cur \in TrackIds /\ playlist'.current = new /\ Guessing'
          /\ track' = MetadataOf[new]
      BY <2>1, <2>4, <3>1, WhatFollows, Guessed
    <3> HIDE DEF new
    <3>3. told.id # None
      BY <1>0, <3>2 DEF Trailing
    <3>4. ASSUME cur = told.id
          PROVE  (told.id # playing /\ new = playing) \/ new = NeighbourOf(playing, step)
      BY <3>3, <3>4 DEF Trailing, new
    <3>5. ASSUME SaysOf(wire, "Id", cur)
          PROVE  cur = told.id \/ SaysOf(wire, "Id", new)
      <4>1. PICK i \in DOMAIN wire : wire[i].kind = "Id" /\ wire[i].id = cur
        BY <3>5 DEF SaysOf
      <4>2. Chained(wire, step, told.id)
        BY <3>3 DEF Trailing
      <4> QED
        BY <4>1, <4>2 DEF Chained, SaysOf, new
    <3>6. \/ SaysOf(wire, "Id", new)
          \/ told.id # playing /\ new = playing
          \/ new = NeighbourOf(playing, step)
      <4>1. CASE Guessing
        BY <2>3, <3>4, <3>5, <4>1 DEF Trailing, new
      <4>2. CASE ~Guessing
        BY <1>0, <3>2, <3>3, <3>4, <4>2 DEF Trailing, new
      <4> QED
        BY <4>1, <4>2
    <3>7. Trailing(step)'
      BY <2>1, <2>3, <3>2, <3>3, <3>6 DEF Trailing
    <3>8. Showing'
      BY <2>1, <2>3, <3>2 DEF Showing
    <3> QED
      BY <3>7, <3>8
  <2>5. CASE ClearTrack
    <3>1. playlist' = playlist /\ (Guessing' <=> Guessing)
      BY <2>5 DEF ClearTrack, Guessing
    <3>2. Trailing(step)'
      BY <2>1, <2>3, <3>1 DEF Trailing
    <3>3. Guessing => Early'
      BY <2>1, <2>3, <3>1 DEF Trailing, Early
    <3>4. Showing'
      BY <2>1, <2>3, <3>1, <3>3 DEF Showing
    <3> QED
      BY <3>2, <3>4
  <2> QED
    BY <1>10, <2>2, <2>4, <2>5 DEF ShowSkip
<1>11. ASSUME ReadEvent
       PROVE  /\ wire # <<>> /\ wire' = Tail(wire) /\ Head(wire) \in Lines
              /\ UNCHANGED <<playing, told, keys, sending, inbox>>
              /\ (Ahead' <=> Ahead)
              /\ told.id # None => Chained(wire', step, told.id)
              /\ told.meta = playing => DescribedBetween(wire')
              /\ told.meta = playing /\ told.id # playing => Described(wire')
  <2>1. /\ wire # <<>> /\ wire' = Tail(wire) /\ Head(wire) \in Lines
        /\ UNCHANGED <<playing, told, keys, sending, inbox>>
        /\ (Ahead' <=> Ahead)
    BY <1>0, <1>11, LineRead DEF ReadEvent, Ahead
  <2>2. told.id # None => Chained(wire', step, told.id)
    BY <1>0, <2>1, ReadChained DEF Trailing
  <2>3. /\ told.meta = playing => DescribedBetween(wire')
        /\ told.meta = playing /\ told.id # playing => Described(wire')
    BY <1>0, <2>1, ReadDescribed DEF Showing
  <2> QED
    BY <2>1, <2>2, <2>3
<1>12. CASE ReadEvent /\ HandleId(Head(wire))
  <2> DEFINE id == Head(wire).id
             cur == playlist.current
  <2>1. id \in TrackIds /\ Head(wire).kind = "Id" /\ track' = track
        /\ playlist' = ReportedId(playlist, id, now)
    BY <1>11, <1>12 DEF HandleId, Lines
  <2>2. /\ Says(wire, "Id")
        /\ \A k : SaysOf(wire, "Id", k) => SaysOf(wire', "Id", k) \/ id = k
        /\ \A k : SaysEarly(wire, k) => SaysEarly(wire', k) \/ id = k
        /\ \A k : SaysEarly(wire, k) => Says(wire', "Id")
    <3>1. /\ Says(wire, "Id")
          /\ \A k : SaysOf(wire, "Id", k) => SaysOf(wire', "Id", k) \/ id = k
      BY <1>0, <1>11, <1>12, <2>1, ReadSays
    <3>2. ASSUME NEW k, SaysEarly(wire, k)
          PROVE  (SaysEarly(wire', k) \/ id = k) /\ Says(wire', "Id")
      BY <1>0, <1>11, <1>12, <3>2, ReadEarly
    <3> QED
      BY <3>1, <3>2
  <2>3. Says(wire, "Metatext") => Says(wire', "Metatext")
    BY <1>0, <1>11, <1>12, <2>1, ReadSays
  <2>4. told.id # None
    BY <2>2 DEF Trailing
  <2>5. id = told.id \/ SaysOf(wire', "Id", NeighbourOf(id, step))
    BY <1>0, <1>11, <1>12, <2>1, <2>4, ReadChained DEF Trailing
  <2>6. /\ told.meta = playing /\ Says(wire', "Id") => Says(wire', "Metatext")
        /\ told.meta = playing /\ told.id # playing => Says(wire', "Metatext")
    BY <1>0, <1>11, <1>12, <2>1, ReadDescribed DEF Showing
  <2>7. id = told.id \/ Says(wire', "Id")
    BY <1>0, <1>11, <1>12, <2>1, <2>4, ReadSays DEF Heard
  <2>8. \/ /\ Guessing /\ id # cur /\ Guessing' /\ playlist'.current = cur
        \/ playlist'.current = id /\ ~Guessing'
    BY <2>1, Reported DEF Queued, Guessing
  <2>9. \A k : SaysOf(wire', "Id", k) => Says(wire', "Id")
    BY SaidOf
  <2> HIDE DEF id, cur
  <2>10. CASE Guessing /\ id # cur /\ Guessing' /\ playlist'.current = cur
    <3>1. Trailing(step)'
      BY <1>11, <1>12, <2>2, <2>4, <2>10 DEF Trailing, cur
    <3>2. Early => Early'
      BY <1>11, <1>12, <2>2, <2>10 DEF Early, cur
    <3>3. Showing'
      BY <1>11, <1>12, <2>1, <2>10, <3>2 DEF Showing, cur
    <3> QED
      BY <3>1, <3>3
  <2>11. CASE playlist'.current = id /\ ~Guessing'
    <3>1. Trailing(step)'
      BY <1>11, <1>12, <2>4, <2>5, <2>11 DEF Trailing
    <3>2. ASSUME ~Ahead, told.meta = playing, ~Says(wire', "Metatext")
          PROVE  track = MetadataOf[playing]
      <4>1. ~Says(wire', "Id") /\ told.id = playing /\ id = playing
        BY <2>6, <2>7, <3>2
      <4>2. CASE Guessing
        <5>1. SaysOf(wire, "Id", cur)
          BY <3>2, <4>1, <4>2 DEF Trailing, cur
        <5>2. cur = playing
          BY <2>2, <2>9, <4>1, <5>1
        <5>3. ~Early
          BY <2>2, <3>2, <4>1 DEF Early
        <5> QED
          BY <4>2, <5>2, <5>3 DEF Showing, cur
      <4>3. CASE ~Guessing
        BY <2>3, <3>2, <4>3 DEF Showing
      <4> QED
        BY <4>2, <4>3
    <3>3. Showing'
      BY <1>11, <1>12, <2>1, <2>11, <3>2 DEF Showing
    <3> QED
      BY <3>1, <3>3
  <2> QED
    BY <2>8, <2>10, <2>11
<1>13. CASE ReadEvent /\ HandleMetatext(Head(wire))
  <2>1. /\ Head(wire).kind = "Metatext" /\ playlist' = playlist
        /\ (Guessing' <=> Guessing)
        /\ Guessing => track' = track
        /\ ~Guessing => track' = MetadataOf[Head(wire).id]
    BY <1>13 DEF HandleMetatext, Guessing
  <2>2. /\ Says(wire', "Id") <=> Says(wire, "Id")
        /\ \A k : SaysOf(wire, "Id", k) => SaysOf(wire', "Id", k)
    BY <1>0, <1>11, <1>13, <2>1, ReadSays
  <2>3. told.meta = playing => Head(wire).id = playing \/ Says(wire', "Metatext")
    BY <1>0, <1>11, <1>13, <2>1, ReadSays DEF Heard
  <2>4. \A k : SaysEarly(wire, k) => SaysEarly(wire', k)
    BY <1>0, <1>11, <1>13, <2>1, ReadEarly
  <2>5. Trailing(step)'
    BY <1>11, <1>13, <2>1, <2>2 DEF Trailing
  <2>6. Early => Early'
    BY <1>11, <1>13, <2>1, <2>2, <2>4 DEF Early
  <2>7. Showing'
    BY <1>11, <1>13, <2>1, <2>3, <2>6 DEF Showing
  <2> QED
    BY <2>5, <2>7
<1> QED
  BY <1>1, <1>2, <1>3, <1>4, <1>5, <1>6, <1>7, <1>8, <1>9, <1>10, <1>12, <1>13,
     KindsOfStep
  DEF CommandThread

-----------------------------------------------------------------------------
(* Agreement.                                                              *)

LEMMA InitAgreeing == Init => Agreeing
<1> SUFFICES ASSUME Init PROVE Agreeing
  OBVIOUS
<1>1. ASSUME Following, ~world.patient PROVE Hurried
  <2>1. PICK step \in Steps : world.directions = {step}
    BY <1>1, InitShape, InitLinked, WhatFollows
  <2> QED
    BY <2>1, InitHurried DEF Hurried
<1> QED
  BY <1>1, InitLinked, InitQueued, InitHeard, InitUntouched, InitInTurn, InitPatient
  DEF Agreeing, Following

LEMMA StepAgreeing == Shape /\ Connected /\ Answering /\ Agreeing /\ [Next]_vars => Agreeing'
<1> SUFFICES ASSUME Shape, Connected, Answering, Agreeing, [Next]_vars
             PROVE  Agreeing'
  OBVIOUS
<1>1. Linked /\ Queued /\ Heard /\ world' = world
  BY SameWorld DEF Agreeing
<1>2. Linked' /\ Queued' /\ Heard'
  BY <1>1, StepLinked, StepQueued, StepHeard
<1>3. ASSUME world.presses = 0 PROVE Untouched'
  BY <1>1, <1>3, StepUntouched DEF Agreeing
<1>4. ASSUME Following
      PROVE  /\ InTurn'
             /\ world.patient => Patient'
             /\ ~world.patient => Hurried'
  <2>1. InTurn /\ InTurn'
    BY <1>1, <1>4, StepInTurn DEF Agreeing, Following
  <2>2. ASSUME world.patient PROVE Patient'
    <3>1. Patient
      BY <1>4, <2>2 DEF Agreeing, Following
    <3> QED
      BY <1>1, <1>4, <2>1, <2>2, <3>1, StepPatient
  <2>3. ASSUME ~world.patient PROVE Hurried'
    <3>1. PICK step \in Steps :
            world.directions = {step} /\ Trailing(step) /\ Showing
      BY <1>4, <2>3 DEF Agreeing, Following, Hurried
    <3>2. Trailing(step)' /\ Showing'
      BY <1>1, <1>4, <2>1, <2>3, <3>1, StepHurried
    <3> QED
      BY <1>1, <3>1, <3>2 DEF Hurried
  <2> QED
    BY <2>1, <2>2, <2>3
<1> QED
  BY <1>1, <1>2, <1>3, <1>4, SameFollowing DEF Agreeing, Following

LEMMA AgreeingAgrees == Shape /\ Agreeing => AgreesWhenQuiet
<1> SUFFICES ASSUME Shape, Agreeing, Orderly, Quiet
             PROVE  /\ track = MetadataOf[playing]
                    /\ playlist.current = playing
                    /\ playlist.prediction = None
  BY DEF AgreesWhenQuiet
<1>1. /\ wire = <<>> /\ told.id = playing /\ told.meta = playing
      /\ keys = <<>> /\ sending = None /\ inbox = <<>>
  BY DEF Quiet, Announced
<1>2. /\ ~Says(wire, "Id") /\ ~Says(wire, "Metatext")
      /\ \A id : ~SaysOf(wire, "Id", id)
  BY <1>1, NothingSaid
<1>3. ~Ahead /\ playing # None
  BY <1>1, QueueTracks DEF Ahead, Shape, TypeOK
<1>4. ~Guessing /\ track = MetadataOf[playing]
  <2>1. CASE world.presses = 0
    BY <1>1, <1>2, <1>3, <2>1 DEF Agreeing, Untouched
  <2>2. CASE world.presses # 0 /\ world.patient
    BY <1>1, <1>2, <1>3, <2>2 DEF Agreeing, Patient
  <2>3. CASE world.presses # 0 /\ ~world.patient
    <3>1. PICK step \in Steps : Trailing(step) /\ Showing
      BY <2>3 DEF Agreeing, Hurried
    <3>2. ~Guessing
      BY <1>1, <1>2, <1>3, <3>1 DEF Trailing
    <3> QED
      BY <1>1, <1>2, <1>3, <3>1, <3>2 DEF Showing
  <2> QED
    BY <2>1, <2>2, <2>3
<1>5. playlist.current = playing
  BY <1>1, <1>2, <1>3, <1>4 DEF Agreeing, Heard
<1> QED
  BY <1>4, <1>5 DEF Guessing

(* When everything has been said and read, the screen shows the track the  *)
(* device is at, and no guess is left over (predict_skip, reconcile,       *)
(* handle_message): for every queue, every interleaving and any number of  *)
(* skips that can be followed, or with nobody skipping, whatever moves the *)
(* device and however often its connection is lost. *)
THEOREM AgreesAlwaysWhenQuiet == Spec => []AgreesWhenQuiet
<1> DEFINE IInv == Shape /\ Connected /\ Answering /\ Agreeing
<1>1. Init => IInv
  BY InitShape, InitConnected, InitAnswering, InitAgreeing
<1>2. IInv /\ [Next]_vars => IInv'
  BY StepShape, StepConnected, StepAnswering, StepAgreeing
<1>3. IInv => AgreesWhenQuiet
  BY AgreeingAgrees
<1> HIDE DEF IInv
<1> QED
  BY <1>1, <1>2, <1>3, PTL DEF Spec
=============================================================================
