---------------------------- MODULE SkipSession ----------------------------
(***************************************************************************)
(* A skip, end to end, in the simulator's runtime: the command thread that *)
(* sends it, the background thread that shows it ahead of the device, and  *)
(* the LPEC connection on which the background session learns what really  *)
(* happened (LpecSession and LpecSessionHifi of                            *)
(* crates/app-runtime/src/lpec.rs, the worker of crates/app-runtime/src/   *)
(* hifi.rs).                                                               *)
(*                                                                         *)
(* The status on display is reduced to the track it describes: `track' is  *)
(* the metadata in LpecSession.status, None once it has been cleared.  An  *)
(* event variable is one line of its own.  Lines in flight and lines that  *)
(* have arrived are both on `wire', so a read may time out at any moment.  *)
(***************************************************************************)
EXTENDS Playlist

CONSTANTS
  MetadataOf,   \* the device's description of each track
  DeviceQueue,  \* the device's queue
  DeviceRepeat, \* whether it repeats it
  Worlds        \* what the user, the device and the network may do

(* A world is one choice of that, kept throughout a behaviour.             *)
WorldTypes ==
  [coalesces   : BOOLEAN, \* may the device pass over a track unannounced?
   skipsFail   : BOOLEAN, \* may a skip come to nothing?
   lateAnswers : BOOLEAN, \* may a ReadList be answered when nobody waits?
   prompt      : BOOLEAN, \* is a press shown before the device acts on it?
   patient     : BOOLEAN, \* does the user let a skip settle before the next?
   directions  : SUBSET Steps,  \* the skips the user makes
   presses : Nat, moves : Nat, losses : Nat, time : Nat]  \* bounds

ASSUME SkipAssumption ==
  /\ MetadataOf \in [TrackIds -> Metadata]
  /\ DeviceQueue \in Seq(TrackIds) /\ DeviceQueue # <<>>
  /\ DeviceRepeat \in BOOLEAN
  /\ \A w \in Worlds : w \in WorldTypes
  /\ None \notin Steps

VARIABLES
  (* the device *)
  playing,     \* the id it is at
  listener,    \* has this connection subscribed, as the device sees it?
  told,        \* what the subscription has announced last
  (* the connection *)
  wire,        \* lines on their way to the session
  asked,       \* ReadList requests on their way to the device
  (* the command thread *)
  keys,        \* commands the app has queued
  sending,     \* the skip being sent, None between commands
  (* the background thread *)
  inbox,       \* TrackChanged requests not yet taken
  phase,       \* what the session is doing
  subscribed, playlist, track, now,
  wanted,      \* neighbours the prefetch under way has still to read
  (* the environment *)
  world, clock, presses, moves, losses

device     == <<playing, listener, told>>
connection == <<wire, asked>>
command    == <<keys, sending>>
session    == <<subscribed, playlist, track, now, wanted, phase>>
bounds     == <<world, clock, presses, moves, losses>>
vars       == <<device, connection, command, inbox, session, bounds>>

Lines == [kind : {"Id", "Metatext", "Response"}, id : TrackIds]
           \cup [kind : {"Queue", "Nothing", "ByeBye", "Eof"}]

NotTold == [queue |-> FALSE, id |-> None, meta |-> None]

Init ==
  /\ playing \in Range(DeviceQueue)
  /\ listener = FALSE
  /\ told = NotTold
  /\ wire = <<>> /\ asked = <<>>
  /\ keys = <<>> /\ sending = None /\ inbox = <<>>
  /\ phase = "idle" /\ subscribed = FALSE
  /\ playlist = EmptyPlaylist /\ track = None
  /\ now = 0 /\ wanted = <<>>
  /\ world \in Worlds
  /\ clock = 0 /\ presses = 0 /\ moves = 0 /\ losses = 0
-----------------------------------------------------------------------------
(* The environment and the device.                                         *)

Tick ==
  /\ clock < world.time
  /\ clock' = clock + 1
  /\ UNCHANGED <<device, connection, command, inbox, session,
                 world, presses, moves, losses>>

(* Has the device said everything about where it is? *)
Announced ==
  listener => told = [queue |-> TRUE, id |-> playing, meta |-> playing]

(* The neighbour a track has in the device's queue. *)
NeighbourOf(id, step) ==
  NeighbourId([EmptyPlaylist EXCEPT !.ids = DeviceQueue, !.current = id,
                                    !.repeat = DeviceRepeat], step)

(* Where a skip takes the device: round the end if it repeats. *)
DeviceNeighbour(step) ==
  LET id == NeighbourOf(playing, step)
  IN  IF id = None THEN playing ELSE id

(* Nothing is under way: no press, no line, no announcement. *)
Quiet ==
  /\ keys = <<>> /\ sending = None /\ inbox = <<>>
  /\ wire = <<>> /\ subscribed /\ listener /\ Announced

(* The user skips; the app queues the command. *)
Press(step) ==
  /\ presses < world.presses
  /\ world.patient => Quiet
  /\ presses' = presses + 1
  /\ keys' = Append(keys, step)
  /\ UNCHANGED <<device, connection, sending, inbox, session,
                 world, clock, moves, losses>>

(* Has the device closed the connection? *)
Closed == \E i \in DOMAIN wire : wire[i].kind = "Eof"

(* The device moves on by itself, or somebody else moves it. *)
DeviceMoves ==
  /\ moves < world.moves
  /\ moves' = moves + 1
  /\ world.coalesces \/ Announced
  /\ \E id \in Range(DeviceQueue) \ {playing} : playing' = id
  /\ UNCHANGED <<listener, told, connection, command, inbox, session,
                 world, clock, presses, losses>>

(* The subscription reports a variable whose value has changed, and all of *)
(* them once after SUBSCRIBE.                                              *)
AnnounceQueue ==
  /\ listener /\ ~told.queue
  /\ told' = [told EXCEPT !.queue = TRUE]
  /\ wire' = Append(wire, [kind |-> "Queue"])
  /\ UNCHANGED <<playing, listener, asked, command, inbox, session, bounds>>

AnnounceId ==
  /\ listener /\ told.id # playing
  /\ told' = [told EXCEPT !.id = playing]
  /\ wire' = Append(wire, [kind |-> "Id", id |-> playing])
  /\ UNCHANGED <<playing, listener, asked, command, inbox, session, bounds>>

AnnounceTrack ==
  /\ listener /\ told.meta # playing
  /\ told' = [told EXCEPT !.meta = playing]
  /\ wire' = Append(wire, [kind |-> "Metatext", id |-> playing])
  /\ UNCHANGED <<playing, listener, asked, command, inbox, session, bounds>>

(* A ReadList is answered, some time. *)
Answer ==
  /\ asked # <<>>
  /\ asked' = Tail(asked)
  /\ wire' = Append(wire, [kind |-> "Response", id |-> Head(asked)])
  /\ UNCHANGED <<device, command, inbox, session, bounds>>

(* The answer is an error, or describes no track. *)
AnswerNothing ==
  /\ asked # <<>>
  /\ losses < world.losses
  /\ losses' = losses + 1
  /\ asked' = Tail(asked)
  /\ wire' = Append(wire, [kind |-> "Nothing"])
  /\ UNCHANGED <<device, command, inbox, session, world, clock, presses, moves>>

(* The device ends the subscription and says so. *)
DeviceSaysByeBye ==
  /\ listener
  /\ losses < world.losses
  /\ losses' = losses + 1
  /\ listener' = FALSE
  /\ told' = NotTold
  /\ wire' = Append(wire, [kind |-> "ByeBye"])
  /\ UNCHANGED <<playing, asked, command, inbox, session,
                 world, clock, presses, moves>>

(* The device closes the connection: some of what it sent last is lost.    *)
DeviceHangsUp ==
  /\ ~Closed
  /\ losses < world.losses
  /\ losses' = losses + 1
  /\ listener' = FALSE
  /\ told' = NotTold
  /\ asked' = <<>>
  /\ \E n \in 0..Len(wire) :
       wire' = Append(SubSeq(wire, 1, n), [kind |-> "Eof"])
  /\ UNCHANGED <<playing, command, inbox, session, world, clock, presses, moves>>
-----------------------------------------------------------------------------
(* The command thread: one command at a time, its prediction first.        *)

TakeKey ==
  /\ sending = None
  /\ keys # <<>>
  /\ sending' = Head(keys)
  /\ keys' = Tail(keys)
  /\ inbox' = Append(inbox, Head(keys))
  /\ UNCHANGED <<device, connection, session, bounds>>

(* The device takes the skip. *)
SkipDone ==
  /\ sending # None
  /\ world.coalesces \/ Announced
  /\ world.prompt => inbox = <<>>
  /\ playing' = DeviceNeighbour(sending)
  /\ sending' = None
  /\ UNCHANGED <<listener, told, connection, keys, inbox, session, bounds>>

(* The command fails, and with it nothing but the skip itself. *)
SkipFails ==
  /\ world.skipsFail
  /\ sending # None
  /\ sending' = None
  /\ UNCHANGED <<device, connection, keys, inbox, session, bounds>>
-----------------------------------------------------------------------------
(* The background thread.                                                  *)

(* predict_skip: the neighbour's description replaces the track's. *)
PredictSkip(step) ==
  /\ CanPredict(playlist, step)
  /\ playlist' = Predict(playlist, step, now')
  /\ track' = Cached(playlist, NeighbourId(playlist, step))

(* clear_track_metadata *)
ClearTrack ==
  /\ track' = None
  /\ UNCHANGED playlist

(* mark_track_changed: show the neighbour if it is known, else clear the   *)
(* track.  The driver's clock is that of its latest tick.                  *)
ShowSkip ==
  /\ phase = "idle"
  /\ inbox # <<>>
  /\ inbox' = Tail(inbox)
  /\ now' \in now..clock
  /\ LET step == Head(inbox)
     IN  PredictSkip(step) \/ (~CanPredict(playlist, step) /\ ClearTrack)
  /\ UNCHANGED <<device, connection, command,
                 subscribed, wanted, phase, bounds>>

(* status -> poll -> ensure_subscribed *)
BeginPoll ==
  /\ phase = "idle"
  /\ phase' = "polling"
  /\ now' = clock
  /\ subscribed' = TRUE
  /\ IF subscribed
     THEN UNCHANGED <<listener, told>>
     ELSE /\ listener' = ~Closed
          /\ told' = NotTold
  /\ UNCHANGED <<playing, connection, command, inbox,
                 playlist, track, wanted, bounds>>

(* handle_message, for the lines that are not an answer.  While a guess is *)
(* held, what the device says of its track is passed over.                 *)
HandleId(line) ==
  /\ line.kind = "Id"
  /\ playlist' = ReportedId(playlist, line.id, now)
  /\ UNCHANGED <<track, subscribed>>

HandleQueue(line) ==
  /\ line.kind = "Queue"
  /\ playlist' = [SetIds(playlist, DeviceQueue) EXCEPT !.repeat = DeviceRepeat]
  /\ UNCHANGED <<track, subscribed>>

\* Mutated: the track's description is not held back.
HandleMetatextAlways(line) ==
  /\ line.kind = "Metatext"
  /\ track' = MetadataOf[line.id]
  /\ UNCHANGED <<playlist, subscribed>>

HandleMetatext(line) ==
  /\ line.kind = "Metatext"
  /\ track' = IF playlist.prediction # None THEN track ELSE MetadataOf[line.id]
  /\ UNCHANGED <<playlist, subscribed>>

\* Mutated: the end of the subscription is passed over like an ALIVE.
HandleByeByeIgnored(line) ==
  /\ line.kind = "ByeBye"
  /\ UNCHANGED <<playlist, track, subscribed>>

HandleByeBye(line) ==
  /\ line.kind = "ByeBye"
  /\ subscribed' = FALSE
  /\ UNCHANGED <<playlist, track>>

HandleMessage(line) ==
  HandleId(line) \/ HandleQueue(line) \/ HandleMetatext(line) \/ HandleByeBye(line)

ReadEvent ==
  /\ phase \in {"polling", "awaiting"}
  /\ wire # <<>>
  /\ HandleMessage(Head(wire))
  /\ wire' = Tail(wire)
  /\ UNCHANGED <<device, asked, command, inbox, now, wanted, phase, bounds>>

(* An answer nobody waits for any more is read past. *)
PollPassesAnswer ==
  /\ phase = "polling"
  /\ wire # <<>>
  /\ Head(wire).kind \in {"Response", "Nothing"}
  /\ wire' = Tail(wire)
  /\ UNCHANGED <<device, asked, command, inbox, session, bounds>>

\* Mutated: the connector is reset and the session is not.
PollMeetsEofHalfReset ==
  /\ phase = "polling"
  /\ wire # <<>>
  /\ Head(wire).kind = "Eof"
  /\ wire' = <<>>
  /\ phase' = "idle"
  /\ UNCHANGED <<device, asked, command, inbox,
                 subscribed, playlist, track, now, wanted, bounds>>

(* End of file under a poll: status() resets the session and the connector.*)
PollMeetsEof ==
  /\ phase = "polling"
  /\ wire # <<>>
  /\ Head(wire).kind = "Eof"
  /\ subscribed' = FALSE
  /\ wire' = <<>>
  /\ phase' = "idle"
  /\ UNCHANGED <<device, asked, command, inbox,
                 playlist, track, now, wanted, bounds>>

(* A ReadList is written; on a closed connection it gets nowhere. *)
Ask(id) == asked' = IF Closed THEN asked ELSE Append(asked, id)

(* A read times out, which ends the poll; the neighbours are read next.    *)
PollEnds ==
  /\ phase = "polling"
  /\ LET ids == IdsNeedingMetadata(playlist)
     IN  /\ wanted' = ids
         /\ phase' = IF ids = <<>> THEN "idle" ELSE "awaiting"
         /\ IF ids = <<>> THEN UNCHANGED asked ELSE Ask(Head(ids))
  /\ UNCHANGED <<device, wire, command, inbox,
                 subscribed, playlist, track, now, bounds>>

\* Mutated: the round waits for one answer more than it asked for.
NextWantedOneMore ==
  /\ wanted' = Tail(wanted)
  /\ phase' = "awaiting"
  /\ IF Len(wanted) > 1 THEN Ask(wanted[2]) ELSE UNCHANGED asked

(* On to the next neighbour, or done. *)
NextWanted ==
  /\ wanted' = Tail(wanted)
  /\ phase' = IF Len(wanted) > 1 THEN "awaiting" ELSE "idle"
  /\ IF Len(wanted) > 1 THEN Ask(wanted[2]) ELSE UNCHANGED asked

\* Mutated: the answer is filed under the last id of the round.
PrefetchReadsAnswerLast ==
  /\ phase = "awaiting"
  /\ wire # <<>>
  /\ Head(wire).kind = "Response"
  /\ playlist' = CacheTrack(playlist, Last(wanted), MetadataOf[Head(wire).id])
  /\ NextWanted
  /\ wire' = Tail(wire)
  /\ UNCHANGED <<device, command, inbox, subscribed, track, now, bounds>>

(* The next answer on the connection is taken for the one asked for. *)
PrefetchReadsAnswer ==
  /\ phase = "awaiting"
  /\ wire # <<>>
  /\ Head(wire).kind = "Response"
  /\ playlist' = CacheTrack(playlist, Head(wanted), MetadataOf[Head(wire).id])
  /\ NextWanted
  /\ wire' = Tail(wire)
  /\ UNCHANGED <<device, command, inbox, subscribed, track, now, bounds>>

PrefetchReadsNothing ==
  /\ phase = "awaiting"
  /\ wire # <<>>
  /\ Head(wire).kind = "Nothing"
  /\ \/ NextWanted
     \/ wanted' = <<>> /\ phase' = "idle" /\ UNCHANGED asked
  /\ wire' = Tail(wire)
  /\ UNCHANGED <<device, command, inbox, subscribed, playlist, track, now,
                 bounds>>

(* The wait ends without an answer, by a timeout or at the end of file.    *)
(* status() lets the failure pass and keeps the connection; an answer that *)
(* was only late will be on it.                                            *)
PrefetchFails ==
  /\ phase = "awaiting"
  /\ \/ /\ world.lateAnswers
        /\ losses < world.losses
        /\ losses' = losses + 1
     \/ /\ wire # <<>> /\ Head(wire).kind = "Eof"
        /\ UNCHANGED losses
  /\ wanted' = <<>>
  /\ phase' = "idle"
  /\ UNCHANGED <<device, connection, command, inbox,
                 subscribed, playlist, track, now, world, clock, presses, moves>>
-----------------------------------------------------------------------------
Device ==
  \/ DeviceMoves
  \/ AnnounceQueue \/ AnnounceId \/ AnnounceTrack
  \/ Answer \/ AnswerNothing
  \/ DeviceSaysByeBye \/ DeviceHangsUp

CommandThread == TakeKey \/ SkipDone \/ SkipFails

Background ==
  \/ ShowSkip
  \/ BeginPoll \/ ReadEvent \/ PollPassesAnswer \/ PollMeetsEof \/ PollEnds
  \/ PrefetchReadsAnswer \/ PrefetchReadsNothing \/ PrefetchFails

Next ==
  \/ Tick
  \/ \E step \in world.directions : Press(step)
  \/ Device
  \/ CommandThread
  \/ Background

(* Threads run; the device announces and answers; a poll reads what has    *)
(* arrived before it times out, now and then at least; time passes.        *)
Fairness ==
  /\ WF_vars(Tick)
  /\ WF_vars(AnnounceQueue) /\ WF_vars(AnnounceId) /\ WF_vars(AnnounceTrack)
  /\ WF_vars(Answer)
  /\ WF_vars(TakeKey) /\ WF_vars(SkipDone)
  /\ SF_vars(ShowSkip)
  /\ WF_vars(BeginPoll) /\ WF_vars(PollEnds)
  /\ SF_vars(ReadEvent) /\ SF_vars(PollPassesAnswer) /\ SF_vars(PollMeetsEof)
  /\ SF_vars(PrefetchReadsAnswer) /\ SF_vars(PrefetchReadsNothing)
  /\ SF_vars(PrefetchFails)

Spec == Init /\ [][Next]_vars /\ Fairness
-----------------------------------------------------------------------------

(* The shape of the state. *)
TypeOK ==
  /\ playing \in TrackIds /\ listener \in BOOLEAN
  /\ told \in [queue : BOOLEAN, id : TrackIds \cup {None},
               meta : TrackIds \cup {None}]
  /\ wire \in Seq(Lines) /\ asked \in Seq(TrackIds)
  /\ keys \in Seq(Steps) /\ sending \in Steps \cup {None}
  /\ inbox \in Seq(Steps)
  /\ phase \in {"idle", "polling", "awaiting"}
  /\ subscribed \in BOOLEAN /\ playlist \in PlaylistStates
  /\ track \in Metadata \cup {None}
  /\ now \in Nat /\ wanted \in Seq(TrackIds)
  /\ (phase = "awaiting") <=> (wanted # <<>>)
  /\ world \in Worlds /\ {clock, presses, moves, losses} \subseteq Nat

(* A session that believes itself subscribed hears the device, or will     *)
(* find the notice that it no longer does among the lines it has yet to    *)
(* read: it is never deaf without a way to find out (ensure_subscribed,    *)
(* handle_message's ByeBye, the resets of status()).                       *)
NeverDeaf ==
  subscribed => \/ listener
                \/ \E i \in DOMAIN wire : wire[i].kind \in {"ByeBye", "Eof"}

(* What the cache says of a track is that track's description, so that a   *)
(* skip shows the track it is heading for: across queue changes, lost      *)
(* connections and failed reads, no answer is filed under another id, as   *)
(* long as none comes after the wait for it (read_track_metadata).         *)
CacheIsTrue ==
  ~world.lateAnswers => \A i \in DOMAIN playlist.cache :
    playlist.cache[i].metadata = MetadataOf[playlist.cache[i].id]

(* While a guess is held, position and words are of one track, the one     *)
(* skipped to, or the words have been cleared by a skip that could not be  *)
(* predicted: whatever the device still tells of the track skipped away    *)
(* from, whichever queue it sends, however the cache was filled and over   *)
(* lost connections and skips in a row (predict_skip, handle_message's     *)
(* is_track_scoped, report_id), as long as no answer to a ReadList comes   *)
(* after the wait for it.                                                  *)
HeldGuessIsWhole ==
  ~world.lateAnswers /\ playlist.prediction # None =>
    track \in {None, MetadataOf[playlist.current]}

(* Skips a session can follow: they succeed, each to another track, in a    *)
(* queue the session holds all of, and are shown before the device takes   *)
(* them; a user who does not wait skips one way only, on a connection that *)
(* holds, to a device that announces every track; and nobody else moves    *)
(* the device meanwhile.                                                   *)
Followable ==
  /\ world.prompt /\ world.moves = 0
  /\ Len(DeviceQueue) <= MaxQueueTracks
  /\ \A id \in Range(DeviceQueue), step \in world.directions :
       NeighbourOf(id, step) \notin {None, id}
  /\ \/ world.patient
     \/ /\ \E step \in Steps : world.directions = {step}
        /\ ~world.coalesces /\ world.losses = 0

Orderly ==
  /\ ~world.skipsFail /\ ~world.lateAnswers
  /\ world.presses = 0 \/ Followable

(* When everything has been said and read, the screen describes the track  *)
(* the device is at, the position is the device's, and no guess is left    *)
(* over: skips predicted and not, through a lost connection, in any        *)
(* interleaving of the threads.                                            *)
AgreesWhenQuiet ==
  Orderly /\ Quiet => /\ track = MetadataOf[playing]
           /\ playlist.current = playing
           /\ playlist.prediction = None

(* Once the world rests, the session comes to agree with the device and    *)
(* stays so, whatever was lost on the way.                                 *)
ComesToAgree ==
  <>[](track = MetadataOf[playing] /\ playlist.current = playing)
=============================================================================
