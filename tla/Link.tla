-------------------------------- MODULE Link --------------------------------
(***************************************************************************)
(* What the LPEC session stands on.  On the firmware: the station that     *)
(* joins the access point and joins it again, the address, the one socket  *)
(* and whether the session on it is subscribed (apps/firmware/src/main.rs  *)
(* and net.rs).  In the simulator: the connection commands have to         *)
(* themselves, on which nothing is heard, so that play or pause is decided *)
(* from memory (LpecSession::handle_command of                             *)
(* crates/app-runtime/src/lpec.rs).                                        *)
(*                                                                         *)
(* A packet is processed when something drives the network's runner: a     *)
(* call on either socket.  Network calls block the executor, so the        *)
(* firmware's other task waits while the device and the radio do not.      *)
(***************************************************************************)
EXTENDS Naturals

CONSTANTS
  None,
  Sides,        \* subset of {"firmware", "simulator"}
  Channels,     \* where the access point may be
  Attempts,     \* WIFI_CONNECT_ATTEMPTS
  MaxMoves,     \* bounds: of the access point,
  MaxDrops,     \* of the link,
  MaxCloses,    \* of connections the device closes,
  MaxReboots,   \* of connections it forgets,
  MaxRefusals,  \* of calls that fail though they need not,
  MaxPresses,   \* of Select,
  MaxOthers     \* of what the player does besides

ASSUME LinkAssumption ==
  /\ Sides \subseteq {"firmware", "simulator"} /\ None \notin Channels
  /\ Attempts \in Nat \ {0}
  /\ {MaxMoves, MaxDrops, MaxCloses, MaxReboots, MaxRefusals, MaxPresses, MaxOthers}
       \subseteq Nat

VARIABLES
  side,
  (* the radio *)
  ap,         \* the access point's channel, None while it is away
  stage,      \* how far the firmware has come
  attempt, scanned, \* of the first connect
  pinned,     \* the channel it is told to look on, None for any
  link,       \* is the station joined?
  task,       \* what the reconnect task is doing
  unheard,    \* has a drop been missed, or joining again failed?
  (* the socket and the session on it *)
  socket,     \* as the stack knows it: established, ended or closed
  peer,       \* the device's end of it: open, gone (it said so) or silent
  subscribed, \* LpecSession.subscribed
  listener,   \* does the device send its events on this connection?
  call,       \* the network call that blocks the executor
  overheard,  \* has a call learned of its end and not told the session?
  (* the command lane *)
  player,     \* the device's transport state
  memory,     \* status.playback of the session that sends commands
  overtaken,  \* has the player moved on since that was true?
  (* the environment *)
  bounds

radio == <<ap, stage, attempt, scanned, pinned, link, task, unheard>>
session == <<socket, peer, subscribed, listener, call, overheard>>
lane == <<player, memory, overtaken>>
vars == <<side, radio, session, lane, bounds>>

Limits ==
  [moves |-> MaxMoves, drops |-> MaxDrops, closes |-> MaxCloses, reboots |-> MaxReboots,
   refusals |-> MaxRefusals, presses |-> MaxPresses, others |-> MaxOthers]

(* One of what may happen so often. *)
Spend(what) ==
  bounds[what] > 0 /\ bounds' = [bounds EXCEPT ![what] = @ - 1]

(* It cannot work, or does not though it could. *)
Fails(hopeless) ==
  \/ hopeless /\ UNCHANGED bounds
  \/ ~hopeless /\ Spend("refusals")

PlayerStates == {"Playing", "Buffering", "Paused", "Stopped"}
CanPause(playback) == playback \in {"Playing", "Buffering"} \* playback_can_pause

Init ==
  /\ side \in Sides
  /\ ap \in Channels \cup {None}
  /\ stage = "wifi" /\ attempt = 1 /\ scanned = FALSE /\ pinned = None
  /\ link = FALSE /\ task = "none" /\ unheard = FALSE
  /\ socket = "closed" /\ peer = "gone"
  /\ subscribed = FALSE /\ listener = FALSE
  /\ call = "none" /\ overheard = FALSE
  /\ player \in PlayerStates /\ memory = "Unknown" /\ overtaken = FALSE
  /\ bounds = Limits
-----------------------------------------------------------------------------
(* The world. *)

(* The access point goes, comes back or changes channel. *)
ApMoves ==
  /\ Spend("moves")
  /\ ap' \in (Channels \cup {None}) \ {ap}
  /\ link' = FALSE
  /\ unheard' = (unheard \/ (link /\ task # "listening"))
  /\ task' = IF link /\ task = "listening" THEN "pausing" ELSE task
  /\ UNCHANGED <<side, stage, attempt, scanned, pinned, session, lane>>

(* It drops the station. *)
LinkDrops ==
  /\ link /\ Spend("drops")
  /\ link' = FALSE
  /\ unheard' = (unheard \/ task # "listening")
  /\ task' = IF task = "listening" THEN "pausing" ELSE task
  /\ UNCHANGED <<side, ap, stage, attempt, scanned, pinned, session, lane>>

DeviceCloses ==
  /\ peer = "open" /\ Spend("closes")
  /\ peer' = "gone" /\ listener' = FALSE
  /\ UNCHANGED <<side, radio, socket, subscribed, call, overheard, lane>>

(* It restarts, and knows nothing of its connections. *)
DeviceReboots ==
  /\ peer = "open" /\ Spend("reboots")
  /\ peer' = "silent" /\ listener' = FALSE
  /\ UNCHANGED <<side, radio, socket, subscribed, call, overheard, lane>>
-----------------------------------------------------------------------------
(* Joining: connect_wifi, then firmware_runtime_task up to its loop. *)

Joins == ap # None /\ pinned \in {None, ap}

ConnectWifi ==
  /\ stage = "wifi" /\ Joins
  /\ link' = TRUE /\ stage' = "dhcp" /\ task' = "subscribing"
  /\ UNCHANGED <<side, ap, attempt, scanned, pinned, unheard, session, lane, bounds>>

\* Mutated: one attempt too many.
ConnectWifiFailsLate ==
  /\ stage = "wifi"
  /\ Fails(~Joins)
  /\ attempt' = attempt + 1
  /\ stage' = IF attempt > Attempts THEN "offline" ELSE stage
  /\ UNCHANGED <<side, ap, scanned, pinned, link, task, unheard, session, lane>>

(* After the first attempt that finds no access point the firmware looks    *)
(* for it, and on its channel from then on. *)
ConnectWifiFails ==
  /\ stage = "wifi"
  /\ Fails(~Joins)
  /\ LET scans == attempt < Attempts /\ ~scanned /\ ~Joins
     IN  /\ scanned' = (scanned \/ scans)
         /\ IF scans THEN pinned' \in {ap, None} ELSE UNCHANGED pinned
  /\ attempt' = attempt + 1
  /\ stage' = IF attempt = Attempts THEN "offline" ELSE stage
  /\ UNCHANGED <<side, ap, link, task, unheard, session, lane>>

(* poll_config_up *)
GetAddress ==
  /\ stage = "dhcp" /\ link
  /\ stage' = "running"
  /\ UNCHANGED <<side, ap, attempt, scanned, pinned, link, task, unheard,
                 session, lane, bounds>>

GetNoAddress ==
  /\ stage = "dhcp"
  /\ Fails(~link)
  /\ stage' = "offline"
  /\ UNCHANGED <<side, ap, attempt, scanned, pinned, link, task, unheard, session, lane>>
-----------------------------------------------------------------------------
(* Joining again: wifi_reconnect_task.  It hears of a drop only while it    *)
(* listens.                                                                *)

Becomes(from, to) ==
  /\ task = from /\ task' = to
  /\ UNCHANGED <<side, ap, stage, attempt, scanned, pinned, session, lane>>

Listen == Becomes("subscribing", "listening") /\ UNCHANGED <<link, unheard, bounds>>

(* The subscriber slots are full: it joins again after 30 s all the same. *)
CannotListen ==
  Becomes("subscribing", "pausing") /\ Spend("refusals") /\ UNCHANGED <<link, unheard>>

Pause == Becomes("pausing", "joining") /\ UNCHANGED <<link, unheard, bounds>>

(* set_config fails. *)
PauseInVain ==
  /\ Becomes("pausing", "subscribing") /\ Spend("refusals")
  /\ unheard' = (unheard \/ ~link) /\ UNCHANGED link

\* Mutated: the task goes back to listening without joining.
JoinAgainNot == Becomes("joining", "subscribing") /\ UNCHANGED <<link, unheard, bounds>>

JoinAgain ==
  /\ ap # None
  /\ Becomes("joining", "subscribing")
  /\ link' = TRUE /\ UNCHANGED <<unheard, bounds>>

(* connect_async fails; nothing tries again before the next drop is heard. *)
JoinAgainFails ==
  /\ Fails(ap = None)
  /\ Becomes("joining", "subscribing")
  /\ link' = FALSE /\ unheard' = TRUE
-----------------------------------------------------------------------------
(* The session: FirmwareHifi on FirmwareNetwork.  A call begins on a        *)
(* socket that is connected, subscribes if it has to, and ends one way or  *)
(* another: `poll' only reads; `command' and `pins' wait for an answer,    *)
(* and go on to what a command does after it ("answered") and to the pins' *)
(* titles; `cover' is on a socket of its own.                              *)

Running == stage = "running" /\ side = "firmware"
Free == Running /\ call = "none"

(* ensure_lpec_socket: a socket that is not established is closed and       *)
(* connected, whoever uses it, and the session believes what it believed. *)
Connects == socket = "established" \/ link
Fresh == socket # "established"
PeerThen == IF Fresh THEN "open" ELSE peer
ListenerThen == IF Fresh THEN FALSE ELSE listener

\* Mutated: the socket is closed and the session is not told.
ResetLpecHalf ==
  /\ UNCHANGED <<subscribed, overheard>>
  /\ socket' = "closed" /\ peer' = "gone" /\ listener' = FALSE

(* reset_lpec *)
ResetLpec ==
  /\ subscribed' = FALSE /\ overheard' = FALSE
  /\ socket' = "closed" /\ peer' = "gone" /\ listener' = FALSE

(* The device cannot be reached, in time or at all; the session stays. *)
ConnectFails ==
  /\ Free /\ Fresh
  /\ Fails(~link)
  /\ socket' = "closed"
  /\ UNCHANGED <<side, radio, peer, subscribed, listener, call, overheard, lane>>

(* ensure_subscribed writes if the session has no subscription, to a device *)
(* that takes it or, its end of the connection closed, no longer does.     *)
Begin(kind) ==
  /\ Free /\ Connects
  /\ subscribed \/ (link /\ PeerThen # "silent")
  /\ call' = kind
  /\ socket' = "established" /\ peer' = PeerThen
  /\ subscribed' = TRUE
  /\ listener' = (ListenerThen \/ (~subscribed /\ PeerThen = "open"))
  /\ UNCHANGED <<side, radio, overheard, lane, bounds>>

(* It cannot write. *)
SubscribeFails ==
  /\ Free /\ Connects /\ ~subscribed
  /\ Fails(~link \/ PeerThen # "open")
  /\ ResetLpec
  /\ UNCHANGED <<side, radio, call, lane>>

BeginCover ==
  /\ Free
  /\ call' = "cover"
  /\ UNCHANGED <<side, radio, socket, peer, subscribed, listener, overheard, lane, bounds>>

(* Whatever a call waits for, the runner it drives learns that the device   *)
(* has closed the connection; that it has forgotten it, only a write shows. *)
Writes == call \in {"command", "answered", "pins", "titles"}

StackHears ==
  /\ Running /\ call # "none" /\ link /\ socket = "established"
  /\ peer = "gone" \/ (peer = "silent" /\ Writes)
  /\ socket' = "ended"
  /\ UNCHANGED <<side, radio, peer, subscribed, listener, call, overheard, lane, bounds>>

(* The device answers the action, or the reading of the pins' ids. *)
Answer ==
  /\ call \in {"command", "pins"}
  /\ link /\ socket = "established" /\ peer = "open"
  /\ call' = IF call = "pins" THEN "titles" ELSE "answered"
  /\ UNCHANGED <<side, radio, socket, peer, subscribed, listener, overheard, lane, bounds>>

(* A read or a write fails: at the end of file, or because no answer comes. *)
(* A poll takes silence for the end of what there is to read. *)
CallFails ==
  /\ call \in {"poll", "command", "answered", "pins"}
  /\ Fails(socket = "ended" \/ (call # "poll" /\ (~link \/ peer # "open")))
  /\ ResetLpec /\ call' = "none"
  /\ UNCHANGED <<side, radio, lane>>

(* The call returns without an error.  That the stack has learned of the    *)
(* end meanwhile it need not notice: a poll that stops at its last line or *)
(* in the moment of the timeout, a command that has its answer, the titles *)
(* of the pins, whose failures are passed over, a cover. *)
Returns ==
  /\ call \in {"poll", "answered", "titles", "cover"}
  /\ call' = "none"
  /\ overheard' = (overheard \/ (subscribed /\ socket = "ended"))
  /\ UNCHANGED <<side, radio, socket, peer, subscribed, listener, lane, bounds>>

Call ==
  \/ \E kind \in {"poll", "command", "pins"} : Begin(kind)
  \/ ConnectFails \/ SubscribeFails \/ BeginCover
  \/ StackHears \/ Answer \/ CallFails \/ Returns
-----------------------------------------------------------------------------
(* The command lane: LpecSession::handle_command, TogglePlayback.          *)

Believed == IF memory = "Unknown" THEN player ELSE memory
Wished == IF CanPause(Believed) THEN "Paused" ELSE "Playing"

OnLane ==
  /\ side = "simulator" /\ Spend("presses")
  /\ UNCHANGED <<side, radio, session>>

\* Mutated: what the device was told is not remembered.
ToggleForgetting ==
  /\ OnLane
  /\ player' = Wished /\ memory' = Believed /\ overtaken' = FALSE

Toggle ==
  /\ OnLane
  /\ player' = Wished /\ memory' = Wished /\ overtaken' = FALSE

(* An answer fails to come: to the question, or to the action, which the    *)
(* device may have taken.  The connection is dropped, the memory is not. *)
ToggleFails ==
  /\ OnLane
  /\ player' \in {player, Wished}
  /\ memory' \in {memory, Believed}
  /\ overtaken' = (overtaken \/ player' # player)

(* Somebody else, or the end of the queue. *)
PlayerMoves ==
  /\ side = "simulator" /\ Spend("others")
  /\ player' \in PlayerStates \ {player}
  /\ overtaken' = (overtaken \/ memory # "Unknown")
  /\ UNCHANGED <<side, radio, session, memory>>
-----------------------------------------------------------------------------
Joining == ConnectWifi \/ ConnectWifiFails \/ GetAddress \/ GetNoAddress
Rejoining ==
  Listen \/ CannotListen \/ Pause \/ PauseInVain \/ JoinAgain \/ JoinAgainFails

Firmware ==
  \/ ApMoves \/ LinkDrops \/ DeviceCloses \/ DeviceReboots
  \/ call = "none" /\ (Joining \/ Rejoining)

Next ==
  \/ side = "firmware" /\ Firmware
  \/ Call
  \/ Toggle \/ ToggleFails \/ PlayerMoves

(* The executor runs both tasks, each whenever the other waits; a call ends *)
(* by its timeout if by nothing else; the runtime polls again and again;   *)
(* what the device's end of the connection sends arrives in the end.  A    *)
(* call that fails though it need not does so a bounded number of times.   *)
Fairness ==
  /\ WF_vars(side = "firmware" /\ Joining)
  /\ SF_vars(side = "firmware" /\ call = "none" /\ Rejoining)
  /\ WF_vars(Answer \/ CallFails \/ Returns)
  /\ SF_vars(Begin("poll"))
  /\ SF_vars(StackHears)

Spec == Init /\ [][Next]_vars /\ Fairness
-----------------------------------------------------------------------------
TypeOK ==
  /\ side \in {"firmware", "simulator"}
  /\ ap \in Channels \cup {None} /\ pinned \in Channels \cup {None}
  /\ stage \in {"wifi", "dhcp", "running", "offline"}
  /\ attempt \in 1..(Attempts + 1) /\ scanned \in BOOLEAN
  /\ link \in BOOLEAN /\ unheard \in BOOLEAN
  /\ task \in {"none", "subscribing", "listening", "pausing", "joining"}
  /\ socket \in {"established", "ended", "closed"}
  /\ peer \in {"open", "gone", "silent"}
  /\ subscribed \in BOOLEAN /\ listener \in BOOLEAN /\ overheard \in BOOLEAN
  /\ call \in {"none", "poll", "command", "answered", "pins", "titles", "cover"}
  /\ player \in PlayerStates /\ memory \in PlayerStates \cup {"Unknown"}
  /\ overtaken \in BOOLEAN
  /\ bounds \in [DOMAIN Limits -> Nat]

(* A session that believes it is subscribed is, unless the device has ended *)
(* the connection and the stack has yet to find out, or a call found out   *)
(* and returned without telling the session (Returns has the four such     *)
(* calls); nothing else makes it deaf: no drop of the link, no connection  *)
(* that fails, no command or poll that fails (FirmwareHifi, reset_lpec,    *)
(* ensure_lpec_socket, ensure_subscribed).                                 *)
SubscribedIsHeard ==
  subscribed /\ ~listener => peer \in {"gone", "silent"} \/ overheard

(* A drop that was heard is made good, if joining again does not fail. *)
HeardDropsAreMended ==
  (task = "pausing") ~> (link \/ unheard)

(* While the station stays joined, the session comes to hear the device    *)
(* again after closed connections, failed calls and lost links, whatever   *)
(* else is called meanwhile, if the device does not forget the connection  *)
(* and no call returns without telling the session of its end              *)
(* (ensure_subscribed, reset_lpec).                                        *)
ComesToHear ==
  <>[](Running /\ link /\ ~overheard /\ peer # "silent") => <>[]listener

(* Select turns play into pause and back, unless the player has moved since *)
(* the lane last knew of it (TogglePlayback). *)
SelectToggles ==
  [][Toggle /\ ~overtaken => CanPause(player') # CanPause(player)]_vars
=============================================================================
