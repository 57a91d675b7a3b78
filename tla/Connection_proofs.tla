-------------------------- MODULE Connection_proofs --------------------------
(***************************************************************************)
(* The connection to the device, for every value of the constants.         *)
(*                                                                         *)
(* Link: for every number of drops, moves, closed and forgotten            *)
(* connections the session keeps its subscription true to its socket, and  *)
(* the command lane toggles.                                               *)
(*                                                                         *)
(* Wire: for all messages, texts and limits, whatever the device says is   *)
(* understood as it was meant while no line is cut, nothing is made up     *)
(* where lines are cut, and what is asked reads back.  What recursive      *)
(* functions compute is shown by induction over the least number for which *)
(* it would not be so, sets in the place of predicates.                    *)
(***************************************************************************)
EXTENDS Link, Wire, WellFoundedInduction, SequenceTheorems, FiniteSetTheorems, TLAPS

(* Attempts are made while there are some left. *)
StillJoining == stage = "wifi" => attempt \in 1..Attempts

(* A session that believes it is subscribed while its socket is down will   *)
(* be told by the call under way, or has not been told by the one that     *)
(* learned of it (ensure_lpec_socket connects it anew all the same).       *)
SocketIsSubscribed ==
  subscribed /\ socket # "established" =>
    overheard \/ (socket = "ended" /\ call # "none")

(* What the lane remembers is so, until somebody else moves the player. *)
MemoryIsTrue == memory # "Unknown" /\ ~overtaken => memory = player

IInv ==
  /\ TypeOK /\ StillJoining
  /\ SubscribedIsHeard /\ SocketIsSubscribed
  /\ MemoryIsTrue

LEMMA LimitsType == Limits \in [DOMAIN Limits -> Nat]
BY LinkAssumption DEF Limits

LEMMA SpendType ==
  ASSUME bounds \in [DOMAIN Limits -> Nat], NEW what \in DOMAIN Limits, Spend(what)
  PROVE  bounds' \in [DOMAIN Limits -> Nat]
BY DEF Spend

LEMMA FailsType ==
  ASSUME bounds \in [DOMAIN Limits -> Nat], NEW hopeless, Fails(hopeless)
  PROVE  bounds' \in [DOMAIN Limits -> Nat]
<1>1. "refusals" \in DOMAIN Limits
  BY DEF Limits
<1> QED
  BY <1>1, SpendType DEF Fails

(* The parts of the invariant are about variables apart from each other. *)
RadioOK ==
  /\ side \in {"firmware", "simulator"}
  /\ ap \in Channels \cup {None} /\ pinned \in Channels \cup {None}
  /\ stage \in {"wifi", "dhcp", "running", "offline"}
  /\ attempt \in 1..(Attempts + 1) /\ scanned \in BOOLEAN
  /\ link \in BOOLEAN /\ unheard \in BOOLEAN
  /\ task \in {"none", "subscribing", "listening", "pausing", "joining"}
  /\ StillJoining

SessionOK ==
  /\ socket \in {"established", "ended", "closed"}
  /\ peer \in {"open", "gone", "silent"}
  /\ subscribed \in BOOLEAN /\ listener \in BOOLEAN /\ overheard \in BOOLEAN
  /\ call \in {"none", "poll", "command", "answered", "pins", "titles", "cover"}
  /\ SubscribedIsHeard /\ SocketIsSubscribed

LaneOK ==
  /\ player \in PlayerStates /\ memory \in PlayerStates \cup {"Unknown"}
  /\ overtaken \in BOOLEAN
  /\ MemoryIsTrue

BoundsOK == bounds \in [DOMAIN Limits -> Nat]

LEMMA PartsOfIInv == IInv <=> RadioOK /\ SessionOK /\ LaneOK /\ BoundsOK
BY DEF IInv, TypeOK, RadioOK, SessionOK, LaneOK, BoundsOK

LEMMA InitIInv == Init => IInv
<1> SUFFICES ASSUME Init PROVE IInv
  OBVIOUS
<1>1. RadioOK
  <2>1. attempt \in 1..Attempts /\ attempt \in 1..(Attempts + 1)
    BY LinkAssumption DEF Init
  <2> QED
    BY <2>1, LinkAssumption DEF Init, RadioOK, StillJoining
<1>2. SessionOK
  BY DEF Init, SessionOK, SubscribedIsHeard, SocketIsSubscribed
<1>3. LaneOK
  BY DEF Init, LaneOK, MemoryIsTrue
<1>4. BoundsOK
  BY LimitsType DEF Init, BoundsOK
<1> QED
  BY <1>1, <1>2, <1>3, <1>4, PartsOfIInv

LEMMA StepBounds == BoundsOK /\ [Next]_vars => BoundsOK'
<1> SUFFICES ASSUME BoundsOK, [Next]_vars PROVE BoundsOK'
  OBVIOUS
<1>1. \/ \E what \in DOMAIN Limits : Spend(what)
      \/ \E hopeless \in BOOLEAN : Fails(hopeless)
      \/ UNCHANGED bounds
  BY DEF Next, Firmware, Joining, Rejoining, ApMoves, LinkDrops, DeviceCloses,
     DeviceReboots, ConnectWifi, ConnectWifiFails, GetAddress, GetNoAddress,
     Listen, CannotListen, Pause, PauseInVain, JoinAgain, JoinAgainFails,
     Call, Begin, ConnectFails, SubscribeFails, BeginCover, StackHears, Answer,
     CallFails, Returns, Toggle, ToggleFails, OnLane, PlayerMoves, Limits, vars, Fails
<1> QED
  BY <1>1, SpendType, FailsType DEF BoundsOK

LEMMA StepRadio == RadioOK /\ [Next]_vars => RadioOK'
<1> SUFFICES ASSUME RadioOK, [Next]_vars PROVE RadioOK'
  OBVIOUS
<1> USE DEF RadioOK, StillJoining
<1>1. CASE ApMoves \/ LinkDrops
  BY <1>1 DEF ApMoves, LinkDrops
<1>2. CASE UNCHANGED <<side, radio>>
  BY <1>2 DEF radio
<1>3. CASE Joining
  <2>1. CASE ConnectWifi
    BY <2>1 DEF ConnectWifi
  <2>2. CASE ConnectWifiFails
    <3>1. attempt \in 1..Attempts /\ attempt' = attempt + 1
      BY <2>2 DEF ConnectWifiFails
    <3>2. attempt' \in 1..(Attempts + 1)
          /\ (attempt # Attempts => attempt' \in 1..Attempts)
      BY <3>1, LinkAssumption
    <3>3. scanned' \in BOOLEAN
      BY <2>2 DEF ConnectWifiFails
    <3>4. pinned' \in Channels \cup {None}
      BY <2>2 DEF ConnectWifiFails
    <3>5. stage' = (IF attempt = Attempts THEN "offline" ELSE stage)
      BY <2>2 DEF ConnectWifiFails
    <3>6. UNCHANGED <<side, ap, link, task, unheard>>
      BY <2>2 DEF ConnectWifiFails
    <3> QED
      BY <3>2, <3>3, <3>4, <3>5, <3>6
  <2>3. CASE GetAddress \/ GetNoAddress
    BY <2>3 DEF GetAddress, GetNoAddress
  <2> QED
    BY <1>3, <2>1, <2>2, <2>3 DEF Joining
<1>4. CASE Rejoining
  BY <1>4 DEF Rejoining, Listen, CannotListen, Pause, PauseInVain, JoinAgain,
              JoinAgainFails, Becomes
<1>5. \/ ApMoves \/ LinkDrops \/ UNCHANGED <<side, radio>> \/ Joining \/ Rejoining
  BY DEF Next, Firmware, DeviceCloses, DeviceReboots, Call, Begin, ConnectFails,
     SubscribeFails, BeginCover, StackHears, Answer, CallFails, Returns, Toggle,
     ToggleFails, OnLane, PlayerMoves, vars
<1> QED
  BY <1>1, <1>2, <1>3, <1>4, <1>5

LEMMA StepSession == SessionOK /\ [Next]_vars => SessionOK'
<1> SUFFICES ASSUME SessionOK, [Next]_vars PROVE SessionOK'
  OBVIOUS
<1> USE DEF SessionOK, SubscribedIsHeard, SocketIsSubscribed
<1>1. CASE DeviceCloses \/ DeviceReboots
  <2>1. peer' \in {"gone", "silent"} /\ listener' = FALSE
    BY <1>1 DEF DeviceCloses, DeviceReboots
  <2>2. UNCHANGED <<socket, subscribed, call, overheard>>
    BY <1>1 DEF DeviceCloses, DeviceReboots
  <2> QED
    BY <2>1, <2>2
<1>2. CASE UNCHANGED session
  BY <1>2 DEF session
<1>3. CASE ConnectFails
  BY <1>3 DEF ConnectFails, Free, Fresh
<1>4. ASSUME NEW kind \in {"poll", "command", "pins"}, Begin(kind)
      PROVE  SessionOK'
  BY <1>4 DEF Begin, Free, PeerThen, ListenerThen, Fresh
<1>5. CASE SubscribeFails
  BY <1>5 DEF SubscribeFails, ResetLpec
<1>6. CASE BeginCover
  BY <1>6 DEF BeginCover, Free
<1>7. CASE StackHears
  BY <1>7 DEF StackHears
<1>8. CASE Answer
  BY <1>8 DEF Answer
<1>9. CASE CallFails
  BY <1>9 DEF CallFails, ResetLpec
<1>10. CASE Returns
  BY <1>10 DEF Returns
<1>11. \/ DeviceCloses \/ DeviceReboots \/ UNCHANGED session \/ Call
  BY DEF Next, Firmware, ApMoves, LinkDrops, Joining, ConnectWifi, ConnectWifiFails,
     GetAddress, GetNoAddress, Rejoining, Listen, CannotListen, Pause, PauseInVain,
     JoinAgain, JoinAgainFails, Becomes, Toggle, ToggleFails, OnLane, PlayerMoves,
     session, vars
<1> QED
  BY <1>1, <1>2, <1>3, <1>4, <1>5, <1>6, <1>7, <1>8, <1>9, <1>10, <1>11 DEF Call

LEMMA StepLane == LaneOK /\ [Next]_vars => LaneOK'
<1> SUFFICES ASSUME LaneOK, [Next]_vars PROVE LaneOK'
  OBVIOUS
<1> USE DEF LaneOK, MemoryIsTrue
<1>1. CASE UNCHANGED lane
  BY <1>1 DEF lane
<1>2. CASE Toggle
  BY <1>2 DEF Toggle, Wished, Believed, PlayerStates
<1>3. CASE ToggleFails
  BY <1>3 DEF ToggleFails, Wished, Believed, PlayerStates
<1>4. CASE PlayerMoves
  BY <1>4 DEF PlayerMoves
<1>5. UNCHANGED lane \/ Toggle \/ ToggleFails \/ PlayerMoves
  BY DEF Next, Firmware, ApMoves, LinkDrops, DeviceCloses, DeviceReboots, Joining,
     ConnectWifi, ConnectWifiFails, GetAddress, GetNoAddress, Rejoining, Listen,
     CannotListen, Pause, PauseInVain, JoinAgain, JoinAgainFails, Becomes,
     Call, Begin, ConnectFails, SubscribeFails, BeginCover, StackHears, Answer,
     CallFails, Returns, lane, vars
<1> QED
  BY <1>1, <1>2, <1>3, <1>4, <1>5

(* The invariant, for every bound on what may happen (Link's actions). *)
THEOREM IInvHolds == Spec => []IInv
<1>1. IInv /\ [Next]_vars => IInv'
  <2>1. RadioOK' /\ SessionOK' /\ LaneOK' /\ BoundsOK' => IInv'
    BY DEF IInv, TypeOK, RadioOK, SessionOK, LaneOK, BoundsOK
  <2> QED
    BY <2>1, PartsOfIInv, StepRadio, StepSession, StepLane, StepBounds
<1> QED
  BY <1>1, InitIInv, PTL DEF Spec

(* The radio, the socket, the session and the lane keep their shape; the    *)
(* first connect takes no more attempts than it has (connect_wifi). *)
THEOREM TypeCorrect == Spec => []TypeOK
  BY IInvHolds, PTL DEF IInv

(* A session that believes it is subscribed is, or the connection has ended *)
(* and the stack has yet to find out, or one of the calls that may did so  *)
(* and did not tell it: nothing else makes it deaf, whatever the device,   *)
(* the radio and the calls do, in any order and number (FirmwareHifi,      *)
(* reset_lpec, ensure_lpec_socket, ensure_subscribed). *)
THEOREM SubscribedIsAlwaysHeard == Spec => []SubscribedIsHeard
  BY IInvHolds, PTL DEF IInv

(* Select turns play into pause and back, unless the player has been moved  *)
(* behind the lane's back (TogglePlayback). *)
THEOREM SelectAlwaysToggles == Spec => SelectToggles
<1>1. IInv /\ [Next]_vars =>
        [Toggle /\ ~overtaken => CanPause(player') # CanPause(player)]_vars
  <2> SUFFICES ASSUME IInv, Toggle, ~overtaken
               PROVE  CanPause(player') # CanPause(player)
    OBVIOUS
  <2>1. Believed = player
    BY DEF IInv, MemoryIsTrue, Believed
  <2> QED
    BY <2>1 DEF Toggle, Wished, CanPause
<1> QED
  BY <1>1, IInvHolds, PTL DEF Spec, SelectToggles

-----------------------------------------------------------------------------
(* Induction over numbers, sets in the place of predicates. *)

LEMMA Least ==
  ASSUME NEW T, T \subseteq Nat, T # {}
  PROVE  \E x \in T : \A y \in T : x <= y
<1> DEFINE R == {ss \in Nat \X Nat : ss[1] < ss[2]}
<1>1. IsWellFoundedOn(R, Nat)
  <2>1. OpToRel(<, Nat) = R
    BY DEF OpToRel
  <2> QED
    BY <2>1, NatLessThanWellFounded
<1>2. \A x, y \in Nat : <<y, x>> \in R <=> y < x
  OBVIOUS
<1> HIDE DEF R
<1>3. PICK x \in T : \A y \in T : <<y, x>> \notin R
  BY <1>1, WFMin
<1>4. ASSUME NEW y \in T PROVE x <= y
  <2>1. <<y, x>> \notin R
    BY <1>3
  <2>2. x \in Nat /\ y \in Nat
    OBVIOUS
  <2>3. ~(y < x)
    BY <2>1, <2>2, <1>2
  <2> QED
    BY <2>2, <2>3
<1> QED
  BY <1>4

LEMMA Induction ==
  ASSUME NEW n \in Nat, NEW S, 0 \in S, \A k \in 0..(n - 1) : k \in S => k + 1 \in S
  PROVE  0..n \subseteq S
<1> SUFFICES ASSUME (0..n) \ S # {} PROVE FALSE
  OBVIOUS
<1> DEFINE T == (0..n) \ S
<1>1. T \subseteq Nat /\ T # {}
  OBVIOUS
<1> HIDE DEF T
<1>2. PICK x \in T : \A y \in T : x <= y
  BY <1>1, Least
<1>3. x \in 0..n /\ x \notin S /\ x # 0
  BY DEF T
<1>4. x - 1 \in 0..(n - 1) /\ x - 1 < x /\ (x - 1) + 1 = x
  BY <1>3
<1>5. x - 1 \notin T
  BY <1>2, <1>3, <1>4
<1> QED
  BY <1>3, <1>4, <1>5 DEF T

(* Of the numbers of an interval the first of a kind. *)
LEMMA First ==
  ASSUME NEW T, T \subseteq Nat, T # {}
  PROVE  /\ Min(T) \in T
         /\ \A y \in T : Min(T) <= y
<1>1. PICK x \in T : \A y \in T : x <= y
  BY Least
<1> QED
  BY <1>1 DEF Min

LEMMA FirstIs ==
  ASSUME NEW T, T \subseteq Nat, NEW x \in T, \A y \in T : x <= y
  PROVE  Min(T) = x
<1>1. Min(T) \in T /\ \A y \in T : Min(T) <= y
  BY First
<1>2. Min(T) <= x /\ x <= Min(T) /\ x \in Nat /\ Min(T) \in Nat
  BY <1>1
<1> QED
  BY <1>2

-----------------------------------------------------------------------------
(* Joining sequences. *)

(* J is what the first n are, joined: the function Concat is made with. *)
JoinsTo(J, seqs, n) ==
  J = [i \in 0..n |-> IF i = 0 THEN <<>> ELSE J[i - 1] \o seqs[i]]

LEMMA JoinExists ==
  ASSUME NEW seqs, NEW n \in Nat
  PROVE  \E J : JoinsTo(J, seqs, n)
<1> DEFINE S == {k \in 0..n : \E J : JoinsTo(J, seqs, k)}
<1>1. 0 \in S
  <2> DEFINE J == [i \in 0..0 |-> <<>>]
  <2>1. JoinsTo(J, seqs, 0)
    BY DEF JoinsTo
  <2> QED
    BY <2>1
<1>2. ASSUME NEW k \in 0..(n - 1), k \in S PROVE k + 1 \in S
  <2>1. PICK J : JoinsTo(J, seqs, k)
    BY <1>2
  <2> DEFINE K == [i \in 0..(k + 1) |-> IF i = k + 1 THEN J[k] \o seqs[k + 1] ELSE J[i]]
  <2>2. JoinsTo(K, seqs, k + 1)
    BY <2>1 DEF JoinsTo
  <2> QED
    BY <2>2
<1> HIDE DEF S
<1>3. 0..n \subseteq S
  BY <1>1, <1>2, Induction
<1> QED
  BY <1>3 DEF S

LEMMA JoinsAre ==
  ASSUME NEW seqs, NEW n \in Nat, NEW J, JoinsTo(J, seqs, n)
  PROVE  /\ J[0] = <<>>
         /\ \A k \in 1..n : J[k] = J[k - 1] \o seqs[k]
<1>1. J[0] = <<>>
  BY DEF JoinsTo
<1>2. ASSUME NEW k \in 1..n PROVE J[k] = J[k - 1] \o seqs[k]
  BY DEF JoinsTo
<1> QED
  BY <1>1, <1>2

(* Where the parts of a join of two are. *)
LEMMA TwoParts ==
  ASSUME NEW V, NEW s \in Seq(V), NEW t \in Seq(V), NEW r, r = s \o t
  PROVE  /\ r \in Seq(V)
         /\ Len(s) \in Nat /\ Len(t) \in Nat /\ Len(r) = Len(s) + Len(t)
         /\ \A j \in 1..Len(s) : r[j] = s[j]
         /\ \A j \in 1..Len(t) : Len(s) + j \in 1..Len(r) /\ r[Len(s) + j] = t[j]
<1>1. r \in Seq(V) /\ Len(r) = Len(s) + Len(t) /\ Len(s) \in Nat /\ Len(t) \in Nat
  OBVIOUS
<1>2. ASSUME NEW j \in 1..Len(s) PROVE r[j] = s[j]
  OBVIOUS
<1>3. ASSUME NEW j \in 1..Len(t) PROVE r[Len(s) + j] = t[j]
  OBVIOUS
<1>4. \A j \in 1..Len(t) : Len(s) + j \in 1..Len(r)
  BY <1>1
<1> QED
  BY <1>1, <1>2, <1>3, <1>4

(* What one begins with, one that goes on begins with. *)
Begins(t, s) == Len(s) <= Len(t) /\ \A j \in 1..Len(s) : t[j] = s[j]

LEMMA BeginsOn ==
  ASSUME NEW V, NEW s \in Seq(V), NEW t \in Seq(V), NEW u \in Seq(V), NEW r,
         r = t \o u, Begins(t, s)
  PROVE  Begins(r, s)
<1>1. /\ Len(t) \in Nat /\ Len(u) \in Nat /\ Len(s) \in Nat /\ Len(r) = Len(t) + Len(u)
      /\ \A j \in 1..Len(t) : r[j] = t[j]
  BY TwoParts
<1> QED
  BY <1>1 DEF Begins

(* How far the parts before each reach. *)
Reaches(J, seqs) ==
  /\ J[0] = <<>>
  /\ \A k \in 1..Len(seqs) : J[k] = J[k - 1] \o seqs[k]
  /\ Concat(seqs) = J[Len(seqs)]

LEMMA ConcatReaches ==
  ASSUME NEW V, NEW seqs \in Seq(Seq(V))
  PROVE  \E J \in [0..Len(seqs) -> Seq(V)] : Reaches(J, seqs)
<1> DEFINE n == Len(seqs)
           J == CHOOSE J : JoinsTo(J, seqs, n)
<1>1. n \in Nat
  OBVIOUS
<1>2. JoinsTo(J, seqs, n)
  BY <1>1, JoinExists
<1>3. Concat(seqs) = J[n]
  BY DEF Concat, JoinsTo
<1> HIDE DEF n, J
<1>4. J[0] = <<>>
  BY <1>1, <1>2, JoinsAre
<1>5. \A k \in 1..n : J[k] = J[k - 1] \o seqs[k]
  BY <1>1, <1>2, JoinsAre
<1> DEFINE S == {k \in 0..n : J[k] \in Seq(V)}
<1>6. 0..n \subseteq S
  <2>1. 0 \in S
    <3>1. <<>> \in Seq(V) /\ 0 \in 0..n
      BY <1>1
    <3> QED
      BY <1>4, <3>1
  <2>2. ASSUME NEW k \in 0..(n - 1), k \in S PROVE k + 1 \in S
    <3>1. k + 1 \in 1..n /\ k + 1 \in 0..n /\ (k + 1) - 1 = k
      BY <1>1
    <3>2. seqs[k + 1] \in Seq(V)
      BY <3>1 DEF n
    <3>3. J[k + 1] = J[k] \o seqs[k + 1]
      BY <1>5, <3>1
    <3>4. J[k + 1] \in Seq(V)
      BY <2>2, <3>2, <3>3
    <3> QED
      BY <3>1, <3>4
  <2> HIDE DEF S
  <2> QED
    BY <1>1, <2>1, <2>2, Induction
<1>7. J \in [0..n -> Seq(V)]
  <2>1. J = [i \in 0..n |-> J[i]]
    BY <1>2 DEF JoinsTo
  <2> QED
    BY <2>1, <1>6
<1> QED
  BY <1>3, <1>4, <1>5, <1>7 DEF Reaches, n

LEMMA ConcatType ==
  ASSUME NEW V, NEW seqs \in Seq(Seq(V))
  PROVE  Concat(seqs) \in Seq(V)
<1>1. PICK J \in [0..Len(seqs) -> Seq(V)] : Reaches(J, seqs)
  BY ConcatReaches
<1> QED
  BY <1>1 DEF Reaches

(* A part is found behind the parts before it. *)
Part(J, seqs, k) ==
  /\ Len(J[k]) = Len(J[k - 1]) + Len(seqs[k])
  /\ Len(J[k]) <= Len(Concat(seqs))
  /\ \A j \in 1..Len(seqs[k]) : Concat(seqs)[Len(J[k - 1]) + j] = seqs[k][j]

LEMMA PartIsThere ==
  ASSUME NEW V, NEW seqs \in Seq(Seq(V)),
         NEW J \in [0..Len(seqs) -> Seq(V)], Reaches(J, seqs),
         NEW k \in 1..Len(seqs)
  PROVE  Part(J, seqs, k)
<1> DEFINE n == Len(seqs)
           S == {l \in 0..n : l >= k => Begins(J[l], J[k])}
<1>1. n \in Nat /\ k \in 1..n /\ k - 1 \in 0..n /\ k \in 0..n
  OBVIOUS
<1>2. \A l \in 1..n : seqs[l] \in Seq(V)
  OBVIOUS
<1>3. \A l \in 0..n : J[l] \in Seq(V)
  OBVIOUS
<1>4. \A l \in 1..n : J[l] = J[l - 1] \o seqs[l]
  BY DEF Reaches
<1>5. Concat(seqs) = J[n]
  BY DEF Reaches
<1> HIDE DEF n
<1>6. 0..n \subseteq S
  <2>1. 0 \in S
    BY <1>1
  <2>2. ASSUME NEW l \in 0..(n - 1), l \in S PROVE l + 1 \in S
    <3>1. l + 1 \in 1..n /\ l \in 0..n /\ l + 1 \in 0..n /\ (l + 1) - 1 = l
      BY <1>1
    <3>2. J[l + 1] = J[l] \o seqs[l + 1]
      BY <1>4, <3>1
    <3>3. J[l] \in Seq(V) /\ seqs[l + 1] \in Seq(V) /\ J[k] \in Seq(V)
      BY <1>1, <1>2, <1>3, <3>1
    <3>4. CASE l + 1 = k
      <4>1. Begins(J[l + 1], J[k])
        BY <3>3, <3>4 DEF Begins
      <4> QED
        BY <3>1, <4>1
    <3>5. CASE l + 1 > k
      <4>1. Begins(J[l], J[k])
        BY <2>2, <3>1, <3>5, <1>1
      <4> DEFINE r == J[l + 1]
                 t == J[l]
                 u == seqs[l + 1]
                 s == J[k]
      <4>2. r = t \o u /\ t \in Seq(V) /\ u \in Seq(V) /\ s \in Seq(V) /\ Begins(t, s)
        BY <3>2, <3>3, <4>1
      <4> HIDE DEF r, t, u, s
      <4>3. Begins(r, s)
        BY <4>2, BeginsOn
      <4> QED
        BY <3>1, <4>3 DEF r, s
    <3>6. CASE l + 1 < k
      BY <3>1, <3>6, <1>1
    <3> QED
      BY <3>1, <3>4, <3>5, <3>6, <1>1
  <2> HIDE DEF S
  <2> QED
    BY <1>1, <2>1, <2>2, Induction
<1>7. n \in 0..n /\ n >= k
  BY <1>1
<1>8. Begins(J[n], J[k])
  BY <1>6, <1>7
<1> HIDE DEF S
<1>9. J[k] = J[k - 1] \o seqs[k] /\ J[k] \in Seq(V) /\ J[k - 1] \in Seq(V) /\ seqs[k] \in Seq(V)
  BY <1>1, <1>2, <1>3, <1>4
<1>10. /\ Len(J[k]) = Len(J[k - 1]) + Len(seqs[k])
       /\ \A j \in 1..Len(seqs[k]) : /\ Len(J[k - 1]) + j \in 1..Len(J[k])
                                      /\ J[k][Len(J[k - 1]) + j] = seqs[k][j]
  <2> DEFINE r == J[k]
             t == J[k - 1]
             u == seqs[k]
  <2>1. r = t \o u /\ t \in Seq(V) /\ u \in Seq(V)
    BY <1>9
  <2> HIDE DEF r, t, u
  <2>2. Len(r) = Len(t) + Len(u)
        /\ \A j \in 1..Len(u) : Len(t) + j \in 1..Len(r) /\ r[Len(t) + j] = u[j]
    BY <2>1, TwoParts
  <2> QED
    BY <2>2 DEF r, t, u
<1> QED
  BY <1>5, <1>8, <1>10 DEF Begins, Part

(* Where each part begins, less one. *)
Offsets(o, seqs) ==
  /\ o \in [0..Len(seqs) -> Nat]
  /\ o[0] = 0 /\ o[Len(seqs)] = Len(Concat(seqs))
  /\ \A k \in 1..Len(seqs) :
       /\ o[k] = o[k - 1] + Len(seqs[k])
       /\ o[k] <= Len(Concat(seqs))
       /\ \A j \in 1..Len(seqs[k]) : Concat(seqs)[o[k - 1] + j] = seqs[k][j]

LEMMA OffsetsExist ==
  ASSUME NEW V, NEW seqs \in Seq(Seq(V))
  PROVE  \E o : Offsets(o, seqs)
<1> DEFINE n == Len(seqs)
<1>1. n \in Nat
  OBVIOUS
<1>2. PICK J \in [0..n -> Seq(V)] : Reaches(J, seqs)
  BY ConcatReaches
<1> DEFINE o == [k \in 0..n |-> Len(J[k])]
<1>3. o \in [0..n -> Nat]
  OBVIOUS
<1>4. o[0] = 0 /\ o[n] = Len(Concat(seqs))
  BY <1>1, <1>2 DEF Reaches
<1>5. ASSUME NEW k \in 1..n
      PROVE  /\ o[k] = o[k - 1] + Len(seqs[k])
             /\ o[k] <= Len(Concat(seqs))
             /\ \A j \in 1..Len(seqs[k]) : Concat(seqs)[o[k - 1] + j] = seqs[k][j]
  <2>1. k \in 0..n /\ k - 1 \in 0..n
    BY <1>1
  <2>2. o[k] = Len(J[k]) /\ o[k - 1] = Len(J[k - 1])
    BY <2>1
  <2>3. Part(J, seqs, k)
    BY <1>2, PartIsThere
  <2> HIDE DEF o
  <2> QED
    BY <2>2, <2>3 DEF Part
<1> HIDE DEF o
<1>6. Offsets(o, seqs)
  BY <1>3, <1>4, <1>5 DEF Offsets
<1> QED
  BY <1>6

LEMMA ConcatNothing == Concat(<<>>) = <<>>
<1>1. <<>> \in Seq(Seq({})) /\ Len(<<>>) = 0
  OBVIOUS
<1>2. PICK J \in [0..0 -> Seq({})] : Reaches(J, <<>>)
  BY <1>1, ConcatReaches
<1> QED
  BY <1>1, <1>2 DEF Reaches

LEMMA ConcatStep ==
  ASSUME NEW V, NEW seqs \in Seq(Seq(V)), NEW s \in Seq(V)
  PROVE  Concat(Append(seqs, s)) = Concat(seqs) \o s
<1> DEFINE n == Len(seqs)
           more == Append(seqs, s)
<1>1. /\ n \in Nat /\ more \in Seq(Seq(V)) /\ Len(more) = n + 1 /\ more[n + 1] = s
      /\ \A i \in 1..n : more[i] = seqs[i]
  OBVIOUS
<1>2. PICK J \in [0..n -> Seq(V)] : Reaches(J, seqs)
  BY ConcatReaches
<1>3. PICK K \in [0..(n + 1) -> Seq(V)] : Reaches(K, more)
  BY <1>1, ConcatReaches
<1> DEFINE S == {k \in 0..n : J[k] = K[k]}
<1> HIDE DEF n, more
<1>4. 0..n \subseteq S
  <2>1. 0 \in S
    BY <1>1, <1>2, <1>3 DEF Reaches
  <2>2. ASSUME NEW k \in 0..(n - 1), k \in S PROVE k + 1 \in S
    <3>1. /\ k + 1 \in 1..n /\ k + 1 \in 0..n /\ k + 1 \in 1..(n + 1)
          /\ (k + 1) - 1 = k
      BY <1>1
    <3>2. J[k + 1] = J[k] \o seqs[k + 1]
      BY <3>1, <1>2 DEF Reaches, n
    <3>3. K[k + 1] = K[k] \o more[k + 1]
      BY <3>1, <1>1, <1>3 DEF Reaches
    <3> QED
      BY <3>1, <3>2, <3>3, <2>2, <1>1
  <2> HIDE DEF S
  <2> QED
    BY <1>1, <2>1, <2>2, Induction
<1>5. K[n + 1] = K[n] \o s
  <2>1. n + 1 \in 1..Len(more) /\ (n + 1) - 1 = n
    BY <1>1
  <2> QED
    BY <1>1, <1>3, <2>1 DEF Reaches
<1>6. J[n] = K[n]
  BY <1>1, <1>4
<1>7. Concat(seqs) = J[n]
  BY <1>2 DEF Reaches, n
<1>8. Concat(more) = K[n + 1]
  BY <1>1, <1>3 DEF Reaches
<1> QED
  BY <1>5, <1>6, <1>7, <1>8 DEF more

LEMMA ConcatOne ==
  ASSUME NEW V, NEW s \in Seq(V)
  PROVE  Concat(<<s>>) = s
<1>1. Append(<<>>, s) = <<s>> /\ <<>> \in Seq(Seq(V)) /\ <<>> \o s = s
  OBVIOUS
<1> QED
  BY <1>1, ConcatStep, ConcatNothing

LEMMA OneMore ==
  ASSUME NEW V, NEW s \in Seq(V), NEW k \in 0..(Len(s) - 1)
  PROVE  Append(SubSeq(s, 1, k), s[k + 1]) = SubSeq(s, 1, k + 1)
OBVIOUS

(* The rounds of copy_xml_text_once. *)
Reading(f, text, n) ==
  f = [k \in 0..n |-> IF k = 0 THEN [at |-> 1, out |-> <<>>] ELSE ReadOn(text, f[k - 1])]

LEMMA ReadingExists ==
  ASSUME NEW text, NEW n \in Nat
  PROVE  \E f : Reading(f, text, n)
<1> DEFINE S == {k \in 0..n : \E f : Reading(f, text, k)}
<1>1. 0 \in S
  <2> DEFINE f == [k \in 0..0 |-> [at |-> 1, out |-> <<>>]]
  <2>1. Reading(f, text, 0)
    BY DEF Reading
  <2> QED
    BY <2>1
<1>2. ASSUME NEW k \in 0..(n - 1), k \in S PROVE k + 1 \in S
  <2>1. PICK f : Reading(f, text, k)
    BY <1>2
  <2> DEFINE g == [i \in 0..(k + 1) |-> IF i = k + 1 THEN ReadOn(text, f[k]) ELSE f[i]]
  <2>2. Reading(g, text, k + 1)
    BY <2>1 DEF Reading
  <2> QED
    BY <2>2
<1> HIDE DEF S
<1>3. 0..n \subseteq S
  BY <1>1, <1>2, Induction
<1> QED
  BY <1>3 DEF S

LEMMA ReadingIs ==
  ASSUME NEW text, NEW n \in Nat, NEW f, Reading(f, text, n)
  PROVE  /\ f[0] = [at |-> 1, out |-> <<>>]
         /\ \A k \in 1..n : f[k] = ReadOn(text, f[k - 1])
<1>1. f[0] = [at |-> 1, out |-> <<>>]
  BY DEF Reading
<1>2. ASSUME NEW k \in 1..n PROVE f[k] = ReadOn(text, f[k - 1])
  BY DEF Reading
<1> QED
  BY <1>1, <1>2

LEMMA UndoneReads ==
  ASSUME NEW V, NEW text \in Seq(V)
  PROVE  \E f : /\ f[0] = [at |-> 1, out |-> <<>>]
                /\ \A k \in 1..Len(text) : f[k] = ReadOn(text, f[k - 1])
                /\ Undone(text) = f[Len(text)].out
<1> DEFINE f == CHOOSE f : Reading(f, text, Len(text))
<1>1. Len(text) \in Nat
  OBVIOUS
<1>2. Reading(f, text, Len(text))
  BY <1>1, ReadingExists
<1>3. Undone(text) = f[Len(text)].out
  BY DEF Undone, Reading
<1> HIDE DEF f
<1>4. f[0] = [at |-> 1, out |-> <<>>] /\ \A k \in 1..Len(text) : f[k] = ReadOn(text, f[k - 1])
  BY <1>1, <1>2, ReadingIs
<1> QED
  BY <1>3, <1>4

(* How a symbol may be written where it is undone. *)
Means(p, c) ==
  \/ p = <<c>> /\ c \notin {Slash, "&"}
  \/ p = <<Slash, c>> /\ c \in {Quote, Slash}
  \/ p = <<"&", Entity[c]>> /\ c \in DOMAIN Entity

LEMMA MeansWidth ==
  ASSUME NEW p, NEW c, Means(p, c)
  PROVE  Len(p) \in 1..2
<1>1. p = <<c>> => Len(p) \in 1..2
  OBVIOUS
<1>2. p = <<Slash, c>> => Len(p) \in 1..2
  BY DEF Slash
<1>3. p = <<"&", Entity[c]>> => Len(p) \in 1..2
  OBVIOUS
<1> QED
  BY <1>1, <1>2, <1>3 DEF Means

LEMMA LeadingMeans ==
  ASSUME NEW text \in Seq(Symbols), NEW at \in 1..Len(text), NEW p, NEW c \in Symbols,
         Means(p, c), at + Len(p) - 1 <= Len(text),
         \A j \in 1..Len(p) : text[at + j - 1] = p[j]
  PROVE  /\ Leading(text, at) = [is |-> c, width |-> Len(p)]
         /\ ~(at = Len(text) /\ text[at] = Slash)
         /\ Len(p) \in 1..2
<1>1. CASE p = <<c>> /\ c \notin {Slash, "&"}
  <2>1. text[at] = c /\ Len(p) = 1
    BY <1>1
  <2> QED
    BY <1>1, <2>1 DEF Leading, Slash
<1>2. CASE p = <<Slash, c>> /\ c \in {Quote, Slash}
  <2>1. text[at] = Slash /\ text[at + 1] = c /\ Len(p) = 2 /\ at < Len(text)
    BY <1>2 DEF Slash, Quote
  <2> QED
    BY <1>2, <2>1 DEF Leading, Slash, Quote
<1>3. CASE p = <<"&", Entity[c]>> /\ c \in DOMAIN Entity
  <2>1. text[at] = "&" /\ text[at + 1] = Entity[c] /\ Len(p) = 2 /\ at < Len(text)
    BY <1>3
  <2>2. \A d \in DOMAIN Entity : Entity[c] = Entity[d] => c = d
    BY <1>3 DEF Entity, Quote
  <2>3. {d \in DOMAIN Entity : text[at] = "&" /\ at < Len(text) /\ text[at + 1] = Entity[d]} = {c}
    BY <1>3, <2>1, <2>2
  <2>4. text[at] # Slash
    BY <2>1 DEF Slash
  <2>5. (CHOOSE d \in {c} : TRUE) = c
    OBVIOUS
  <2> QED
    BY <2>1, <2>3, <2>4, <2>5 DEF Leading
<1> QED
  BY <1>1, <1>2, <1>3 DEF Means

(* Written symbol by symbol, so that each can be told, a text is read back. *)
LEMMA UndoneIs ==
  ASSUME NEW text \in Seq(Symbols), NEW pieces \in Seq(Seq(Symbols)),
         Len(pieces) = Len(text),
         \A i \in 1..Len(text) : Means(pieces[i], text[i])
  PROVE  Undone(Concat(pieces)) = text
<1> DEFINE n == Len(text)
           esc == Concat(pieces)
<1>1. n \in Nat /\ n = Len(pieces) /\ esc \in Seq(Symbols) /\ Len(esc) \in Nat
  BY ConcatType
<1>2. PICK o : Offsets(o, pieces)
  BY OffsetsExist
<1>3. PICK f : /\ f[0] = [at |-> 1, out |-> <<>>]
               /\ \A k \in 1..Len(esc) : f[k] = ReadOn(esc, f[k - 1])
               /\ Undone(esc) = f[Len(esc)].out
  BY <1>1, UndoneReads
<1>4. \A k \in 1..n : /\ Means(pieces[k], text[k]) /\ text[k] \in Symbols
                      /\ Len(pieces[k]) \in 1..2
  BY MeansWidth
<1>5. \A k \in 0..n : o[k] \in Nat
  BY <1>1, <1>2 DEF Offsets
<1>6. \A k \in 1..n : /\ o[k] = o[k - 1] + Len(pieces[k])
                      /\ o[k] <= Len(esc)
                      /\ \A j \in 1..Len(pieces[k]) : esc[o[k - 1] + j] = pieces[k][j]
  BY <1>1, <1>2 DEF Offsets
<1>7. o[0] = 0 /\ o[n] = Len(esc)
  BY <1>1, <1>2 DEF Offsets
<1> HIDE DEF n, esc
<1> DEFINE S == {k \in 0..n : k <= o[k]}
<1>8. 0..n \subseteq S
  <2>1. 0 \in S
    BY <1>1, <1>7
  <2>2. ASSUME NEW k \in 0..(n - 1), k \in S PROVE k + 1 \in S
    <3>1. k + 1 \in 1..n /\ k + 1 \in 0..n /\ k \in 0..n /\ (k + 1) - 1 = k
      BY <1>1
    <3>2. o[k + 1] = o[k] + Len(pieces[k + 1])
      BY <1>6, <3>1
    <3>3. Len(pieces[k + 1]) \in 1..2 /\ o[k] \in Nat /\ o[k + 1] \in Nat
      BY <1>4, <1>5, <3>1
    <3>4. k <= o[k]
      BY <2>2
    <3> DEFINE width == Len(pieces[k + 1])
    <3>5. width \in 1..2 /\ o[k + 1] = o[k] + width
      BY <3>2, <3>3
    <3> HIDE DEF width, S
    <3>6. k + 1 <= o[k + 1]
      BY <3>1, <3>3, <3>4, <3>5, <1>1
    <3> QED
      BY <3>1, <3>6 DEF S
  <2> HIDE DEF S
  <2> QED
    BY <1>1, <2>1, <2>2, Induction
<1>9. n <= Len(esc)
  <2>1. n \in 0..n
    BY <1>1
  <2> QED
    BY <1>7, <1>8, <2>1
<1> HIDE DEF S
<1> DEFINE R == {k \in 0..n : f[k] = [at |-> o[k] + 1, out |-> SubSeq(text, 1, k)]}
<1>10. 0..n \subseteq R
  <2>1. 0 \in R
    <3>1. SubSeq(text, 1, 0) = <<>>
      OBVIOUS
    <3> QED
      BY <1>1, <1>3, <1>7, <3>1
  <2>2. ASSUME NEW k \in 0..(n - 1), k \in R PROVE k + 1 \in R
    <3>1. /\ k + 1 \in 1..n /\ k + 1 \in 0..n /\ k \in 0..n /\ (k + 1) - 1 = k
          /\ k + 1 \in 1..Len(esc)
      BY <1>1, <1>9
    <3> DEFINE p == pieces[k + 1]
               c == text[k + 1]
               width == Len(p)
               at == o[k] + 1
    <3>2. Means(p, c) /\ c \in Symbols /\ width \in 1..2 /\ o[k] \in Nat
      BY <1>4, <1>5, <3>1
    <3>3. o[k + 1] = o[k] + width /\ o[k + 1] <= Len(esc)
      BY <1>6, <3>1
    <3>30. \A j \in 1..width : esc[o[k] + j] = p[j]
      BY <1>6, <3>1
    <3>4. f[k] = [at |-> at, out |-> SubSeq(text, 1, k)] /\ f[k + 1] = ReadOn(esc, f[k])
      BY <2>2, <1>3, <3>1
    <3>5. SubSeq(text, 1, k + 1) = Append(SubSeq(text, 1, k), c)
      BY OneMore DEF n
    <3> HIDE DEF p, c, width
    <3>6. /\ at \in 1..Len(esc) /\ at + width - 1 <= Len(esc)
          /\ o[k + 1] + 1 = at + width
      <4> DEFINE a == o[k]
                 b == o[k + 1]
                 l == Len(esc)
      <4>1. a \in Nat /\ width \in 1..2 /\ b = a + width /\ b <= l /\ l \in Nat
        BY <1>1, <3>2, <3>3
      <4> HIDE DEF a, b, l
      <4>2. a + 1 \in 1..l /\ (a + 1) + width - 1 <= l /\ b + 1 = (a + 1) + width
        BY <4>1
      <4> QED
        BY <4>2 DEF a, b, l
    <3>7. \A j \in 1..width : esc[at + j - 1] = p[j]
      <4> TAKE j \in 1..width
      <4>1. at + j - 1 = o[k] + j
        BY <3>2
      <4> QED
        BY <3>30, <4>1
    <3> HIDE DEF at
    <3>8. /\ Leading(esc, at) = [is |-> c, width |-> width]
          /\ ~(at = Len(esc) /\ esc[at] = Slash)
      BY <1>1, <3>2, <3>6, <3>7, LeadingMeans DEF width
    <3>9. ~(at > Len(esc))
      BY <1>1, <3>6
    <3>10. f[k + 1] = [at |-> at + width, out |-> Append(SubSeq(text, 1, k), c)]
      <4> DEFINE was == f[k]
      <4>1. was.at = at /\ was.out = SubSeq(text, 1, k)
        BY <3>4
      <4> HIDE DEF was
      <4>2. ReadOn(esc, was) = [at  |-> was.at + Leading(esc, was.at).width,
                                out |-> Append(was.out, Leading(esc, was.at).is)]
        BY <3>8, <3>9, <4>1, Zenon DEF ReadOn
      <4>3. Leading(esc, was.at).is = c /\ Leading(esc, was.at).width = width
        BY <3>8, <4>1
      <4> QED
        BY <3>4, <4>1, <4>2, <4>3 DEF was
    <3> QED
      BY <3>1, <3>5, <3>6, <3>10
  <2> HIDE DEF R
  <2> QED
    BY <1>1, <2>1, <2>2, Induction
<1>11. f[n] = [at |-> Len(esc) + 1, out |-> text]
  <2>1. n \in 0..n
    BY <1>1
  <2>2. n \in R
    BY <1>10, <2>1
  <2>3. SubSeq(text, 1, n) = text
    BY DEF n
  <2> QED
    BY <1>7, <2>2, <2>3
<1> HIDE DEF R
<1> DEFINE Q == {k \in 0..Len(esc) : k >= n => f[k] = f[n]}
<1>12. 0..Len(esc) \subseteq Q
  <2>1. 0 \in Q
    BY <1>1
  <2>2. ASSUME NEW k \in 0..(Len(esc) - 1), k \in Q PROVE k + 1 \in Q
    <3>1. k + 1 \in 1..Len(esc) /\ k + 1 \in 0..Len(esc) /\ (k + 1) - 1 = k
      BY <1>1
    <3>2. CASE k >= n
      <4>1. f[k + 1] = ReadOn(esc, f[n])
        BY <1>3, <2>2, <3>1, <3>2
      <4>2. f[n].at > Len(esc)
        BY <1>1, <1>11
      <4>3. ReadOn(esc, f[n]) = f[n]
        BY <4>2 DEF ReadOn
      <4> QED
        BY <3>1, <4>1, <4>3
    <3>3. CASE k < n
      <4>1. k + 1 >= n => k + 1 = n
        BY <3>3, <1>1
      <4> QED
        BY <3>1, <4>1
    <3> QED
      BY <3>2, <3>3, <1>1
  <2> HIDE DEF Q
  <2> QED
    BY <1>1, <2>1, <2>2, Induction
<1>13. f[Len(esc)] = f[n]
  <2>1. Len(esc) \in 0..Len(esc) /\ Len(esc) >= n
    BY <1>1, <1>9
  <2> QED
    BY <1>12, <2>1
<1>14. Undone(esc) = text
  BY <1>3, <1>11, <1>13
<1> QED
  BY <1>14 DEF esc

(* What a text is written with, symbol by symbol. *)
EscapedPieces(text) ==
  [i \in DOMAIN text |->
     IF text[i] \in DOMAIN Entity THEN <<"&", Entity[text[i]]>> ELSE <<text[i]>>]
SlashedPieces(text) ==
  [i \in DOMAIN text |->
     IF text[i] \in {Quote, Slash} THEN <<Slash, text[i]>> ELSE <<text[i]>>]

(* What a text with entities is made of. *)
LEMMA EscapedMeans ==
  ASSUME NEW W, W \subseteq Symbols,
         \A c \in DOMAIN Entity : Entity[c] \in W, "&" \in W,
         NEW text \in Seq(Symbols),
         \A i \in 1..Len(text) : text[i] # Slash /\ (text[i] # Quote => text[i] \in W)
  PROVE  /\ EscapedPieces(text) \in Seq(Seq(W))
         /\ Len(EscapedPieces(text)) = Len(text)
         /\ \A i \in 1..Len(text) : Means(EscapedPieces(text)[i], text[i])
<1>1. DOMAIN text = 1..Len(text) /\ Len(text) \in Nat
  OBVIOUS
<1>2. ASSUME NEW i \in 1..Len(text)
      PROVE  /\ EscapedPieces(text)[i] \in Seq(W)
             /\ Means(EscapedPieces(text)[i], text[i])
  <2>1. CASE text[i] \in DOMAIN Entity
    <3>1. EscapedPieces(text)[i] = <<"&", Entity[text[i]]>>
      BY <1>1, <2>1, Zenon DEF EscapedPieces
    <3>2. Entity[text[i]] \in W
      BY <2>1
    <3> HIDE DEF EscapedPieces
    <3>3. <<"&", Entity[text[i]]>> \in Seq(W)
      BY <3>2
    <3> QED
      BY <2>1, <3>1, <3>3 DEF Means
  <2>2. CASE text[i] \notin DOMAIN Entity
    <3>1. EscapedPieces(text)[i] = <<text[i]>>
      BY <1>1, <2>2, Zenon DEF EscapedPieces
    <3>2. text[i] # Quote /\ text[i] # "&" /\ text[i] # Slash
      BY <2>2 DEF Entity
    <3>3. <<text[i]>> \in Seq(W)
      BY <3>2
    <3> QED
      BY <3>1, <3>2, <3>3 DEF Means
  <2> QED
    BY <2>1, <2>2
<1>3. EscapedPieces(text) \in Seq(Seq(W)) /\ Len(EscapedPieces(text)) = Len(text)
  <2>1. \A i \in 1..Len(text) : EscapedPieces(text)[i] \in Seq(W)
    BY <1>2
  <2>2. EscapedPieces(text) = [i \in 1..Len(text) |-> EscapedPieces(text)[i]]
    BY <1>1 DEF EscapedPieces
  <2>3. EscapedPieces(text) \in [1..Len(text) -> Seq(W)]
    BY <2>1, <2>2
  <2> QED
    BY <1>1, <2>3
<1> QED
  BY <1>2, <1>3

LEMMA SymbolsAre ==
  /\ {Quote, Slash, Blank, LF, CR, "&", "<", "name"} \subseteq Symbols
  /\ Kinds \subseteq Symbols /\ Numbers \subseteq Symbols
  /\ \A c \in DOMAIN Entity : Entity[c] \in Symbols
  /\ {"ACTION", "Ds/Pins", "ReadList"} \subseteq Symbols
BY DEF Symbols

LEMMA EscapedIs ==
  ASSUME NEW text \in Seq(Symbols), \A i \in 1..Len(text) : text[i] # Slash
  PROVE  /\ Escaped(text) \in Seq(Symbols)
         /\ \A i \in 1..Len(Escaped(text)) : Escaped(text)[i] # Slash
         /\ Undone(Escaped(text)) = text
<1> DEFINE W == Symbols \ {Slash}
<1>1. W \subseteq Symbols /\ "&" \in W
  <2>1. "&" \in Symbols /\ "&" # Slash
    BY SymbolsAre DEF Slash
  <2> QED
    BY <2>1
<1>2. \A c \in DOMAIN Entity : Entity[c] \in W
  <2>1. \A c \in DOMAIN Entity : Entity[c] # Slash
    BY DEF Entity, Quote, Slash
  <2> QED
    BY <2>1, SymbolsAre
<1>3. \A i \in 1..Len(text) : text[i] # Slash /\ (text[i] # Quote => text[i] \in W)
  OBVIOUS
<1>4. Escaped(text) = Concat(EscapedPieces(text))
  BY DEF Escaped, EscapedPieces
<1>5. /\ EscapedPieces(text) \in Seq(Seq(W))
      /\ Len(EscapedPieces(text)) = Len(text)
      /\ \A i \in 1..Len(text) : Means(EscapedPieces(text)[i], text[i])
  <2> HIDE DEF W
  <2> QED
    BY <1>1, <1>2, <1>3, EscapedMeans
<1>6. Concat(EscapedPieces(text)) \in Seq(W)
  <2> HIDE DEF W
  <2> QED
    BY <1>5, ConcatType
<1>7. EscapedPieces(text) \in Seq(Seq(Symbols))
  <2>1. Seq(W) \subseteq Seq(Symbols)
    BY <1>1, SeqMonotonic
  <2> HIDE DEF W
  <2> QED
    BY <1>5, <2>1, SeqMonotonic
<1>8. Undone(Concat(EscapedPieces(text))) = text
  BY <1>5, <1>7, UndoneIs
<1>9. \A s \in Seq(W) : s \in Seq(Symbols) /\ \A i \in 1..Len(s) : s[i] # Slash
  OBVIOUS
<1> QED
  BY <1>4, <1>6, <1>8, <1>9

LEMMA SlashedIs ==
  ASSUME NEW text \in Seq(Symbols), \A i \in 1..Len(text) : text[i] # "&"
  PROVE  /\ SlashedPieces(text) \in Seq(Seq(Symbols))
         /\ Len(SlashedPieces(text)) = Len(text)
         /\ \A i \in 1..Len(text) : 
              SlashedPieces(text)[i] = IF text[i] \in {Quote, Slash} THEN <<Slash, text[i]>> ELSE <<text[i]>>
         /\ Undone(Concat(SlashedPieces(text))) = text
<1>1. DOMAIN text = 1..Len(text) /\ Len(text) \in Nat
  OBVIOUS
<1>2. ASSUME NEW i \in 1..Len(text)
      PROVE  /\ SlashedPieces(text)[i] \in Seq(Symbols)
             /\ Means(SlashedPieces(text)[i], text[i])
             /\ SlashedPieces(text)[i] = IF text[i] \in {Quote, Slash} THEN <<Slash, text[i]>> ELSE <<text[i]>>
  <2>1. CASE text[i] \in {Quote, Slash}
    <3>1. SlashedPieces(text)[i] = <<Slash, text[i]>>
      BY <1>1, <2>1, Zenon DEF SlashedPieces
    <3>2. <<Slash, text[i]>> \in Seq(Symbols)
      <4>1. Slash \in Symbols /\ text[i] \in Symbols
        BY SymbolsAre
      <4> QED
        BY <4>1
    <3> QED
      BY <2>1, <3>1, <3>2 DEF Means
  <2>2. CASE text[i] \notin {Quote, Slash}
    <3>1. SlashedPieces(text)[i] = <<text[i]>>
      BY <1>1, <2>2, Zenon DEF SlashedPieces
    <3>2. text[i] # "&" /\ text[i] # Slash
      BY <2>2
    <3>3. <<text[i]>> \in Seq(Symbols)
      OBVIOUS
    <3> QED
      BY <2>2, <3>1, <3>2, <3>3 DEF Means
  <2> QED
    BY <2>1, <2>2
<1>3. SlashedPieces(text) \in Seq(Seq(Symbols)) /\ Len(SlashedPieces(text)) = Len(text)
  <2>1. \A i \in 1..Len(text) : SlashedPieces(text)[i] \in Seq(Symbols)
    BY <1>2
  <2>2. SlashedPieces(text) = [i \in 1..Len(text) |-> SlashedPieces(text)[i]]
    BY <1>1 DEF SlashedPieces
  <2>3. SlashedPieces(text) \in [1..Len(text) -> Seq(Symbols)]
    BY <2>1, <2>2
  <2> QED
    BY <1>1, <2>3
<1>4. Undone(Concat(SlashedPieces(text))) = text
  BY <1>2, <1>3, UndoneIs
<1> QED
  BY <1>2, <1>3, <1>4

(* A text that nothing was done to. *)
LEMMA SinglesIs ==
  ASSUME NEW V, NEW text \in Seq(V)
  PROVE  /\ [i \in 1..Len(text) |-> <<text[i]>>] \in Seq(Seq(V))
         /\ Len([i \in 1..Len(text) |-> <<text[i]>>]) = Len(text)
         /\ Concat([i \in 1..Len(text) |-> <<text[i]>>]) = text
<1> DEFINE n == Len(text)
           ones == [i \in 1..n |-> <<text[i]>>]
<1>1. n \in Nat /\ ones \in Seq(Seq(V)) /\ Len(ones) = n /\ \A i \in 1..n : ones[i] = <<text[i]>>
  OBVIOUS
<1>2. PICK J \in [0..n -> Seq(V)] : Reaches(J, ones)
  BY <1>1, ConcatReaches
<1> HIDE DEF n, ones
<1> DEFINE S == {k \in 0..n : J[k] = SubSeq(text, 1, k)}
<1>3. 0..n \subseteq S
  <2>1. 0 \in S
    <3>1. SubSeq(text, 1, 0) = <<>>
      OBVIOUS
    <3>2. J[0] = <<>> /\ 0 \in 0..n
      BY <1>1, <1>2 DEF Reaches
    <3> QED
      BY <3>1, <3>2
  <2>2. ASSUME NEW k \in 0..(n - 1), k \in S PROVE k + 1 \in S
    <3>1. k + 1 \in 1..n /\ k + 1 \in 0..n /\ (k + 1) - 1 = k
      BY <1>1
    <3>2. J[k + 1] = J[k] \o <<text[k + 1]>>
      BY <1>1, <1>2, <3>1 DEF Reaches
    <3>3. SubSeq(text, 1, k + 1) = SubSeq(text, 1, k) \o <<text[k + 1]>>
      <4>1. Append(SubSeq(text, 1, k), text[k + 1]) = SubSeq(text, 1, k + 1)
        BY OneMore DEF n
      <4>2. SubSeq(text, 1, k) \in Seq(V) /\ text[k + 1] \in V
        BY <3>1 DEF n
      <4> QED
        BY <4>1, <4>2
    <3> QED
      BY <2>2, <3>1, <3>2, <3>3
  <2> HIDE DEF S
  <2> QED
    BY <1>1, <2>1, <2>2, Induction
<1>4. J[n] = text
  <2>1. SubSeq(text, 1, n) = text
    BY DEF n
  <2>2. n \in 0..n
    BY <1>1
  <2> QED
    BY <1>3, <2>1, <2>2
<1>5. Concat(ones) = text
  BY <1>1, <1>2, <1>4 DEF Reaches
<1> QED
  BY <1>1, <1>5 DEF ones, n

LEMMA PlainIs ==
  ASSUME NEW text \in Seq(Symbols), \A i \in 1..Len(text) : text[i] \notin {Slash, "&"}
  PROVE  Undone(text) = text
<1> DEFINE ones == [i \in 1..Len(text) |-> <<text[i]>>]
<1>1. ones \in Seq(Seq(Symbols)) /\ Len(ones) = Len(text) /\ Concat(ones) = text
  BY SinglesIs
<1>2. \A i \in 1..Len(text) : Means(ones[i], text[i])
  BY DEF Means
<1> HIDE DEF ones
<1> QED
  BY <1>1, <1>2, UndoneIs

(* What read_lpec_line knows of the quotes. *)
Marks == {"quotes", "escape"}
(* What a symbol makes of the reader's marks. *)
Taken(marks, c) ==
  {x \in Marks :
     \/ x = "quotes" /\ ~("quotes" \in marks <=> (c = Quote /\ "escape" \notin marks))
     \/ x = "escape" /\ c = Slash /\ "escape" \notin marks}

(* Read from the marks a on, a sequence leaves the marks f, and ends no line. *)
Scans(f, s, a) ==
  /\ f \in [0..Len(s) -> SUBSET Marks]
  /\ f[0] = a
  /\ \A k \in 1..Len(s) : /\ f[k] = Taken(f[k - 1], s[k])
                          /\ s[k] # CR /\ (s[k] = LF => "quotes" \in f[k - 1])

Reads(s, a, b) == \E f : Scans(f, s, a) /\ f[Len(s)] = b

LEMMA TakenPlain ==
  ASSUME NEW marks \in {{}, {"quotes"}}, NEW c, c \notin {Quote, Slash}
  PROVE  Taken(marks, c) = marks
BY DEF Taken, Marks

LEMMA TakenQuote == Taken({}, Quote) = {"quotes"} /\ Taken({"quotes"}, Quote) = {}
BY DEF Taken, Marks, Quote, Slash

LEMMA TakenSlash ==
  ASSUME NEW c \in {Quote, Slash}
  PROVE  /\ Taken({"quotes"}, Slash) = Marks
         /\ Taken(Marks, c) = {"quotes"}
BY DEF Taken, Marks, Quote, Slash

(* The marks of two parts, one after the other. *)
Joined(h, f, g, s, t, a) ==
  /\ Scans(h, s \o t, a)
  /\ h[Len(s \o t)] = g[Len(t)]
  /\ \A k \in 0..Len(s) : h[k] = f[k]
  /\ \A k \in 0..Len(t) : h[Len(s) + k] = g[k]

LEMMA ScansJoin ==
  ASSUME NEW s \in Seq(Symbols), NEW t \in Seq(Symbols), NEW a, NEW f, NEW g,
         Scans(f, s, a), Scans(g, t, f[Len(s)])
  PROVE  \E h : Joined(h, f, g, s, t, a)
<1> DEFINE m == Len(s)
           n == Len(t)
           r == s \o t
           h == [k \in 0..(m + n) |-> IF k <= m THEN f[k] ELSE g[k - m]]
<1>1. /\ m \in Nat /\ n \in Nat /\ r \in Seq(Symbols) /\ Len(r) = m + n
      /\ \A j \in 1..m : r[j] = s[j]
      /\ \A j \in 1..n : r[m + j] = t[j]
  BY TwoParts
<1>2. /\ f \in [0..m -> SUBSET Marks] /\ f[0] = a
      /\ \A k \in 1..m : /\ f[k] = Taken(f[k - 1], s[k])
                         /\ s[k] # CR /\ (s[k] = LF => "quotes" \in f[k - 1])
  BY DEF Scans
<1>3. /\ g \in [0..n -> SUBSET Marks] /\ g[0] = f[m]
      /\ \A k \in 1..n : /\ g[k] = Taken(g[k - 1], t[k])
                         /\ t[k] # CR /\ (t[k] = LF => "quotes" \in g[k - 1])
  BY DEF Scans
<1> HIDE DEF m, n, r
<1>4. \A k \in 0..m : h[k] = f[k]
  BY <1>1
<1>5. ASSUME NEW k \in 0..n PROVE h[m + k] = g[k]
  <2>1. CASE k = 0
    BY <1>1, <1>3, <2>1
  <2>2. CASE k # 0
    <3>1. ~(m + k <= m) /\ (m + k) - m = k /\ m + k \in 0..(m + n)
      BY <1>1, <2>2
    <3> QED
      BY <3>1
  <2> QED
    BY <2>1, <2>2
<1>6. h \in [0..(m + n) -> SUBSET Marks]
  <2> SUFFICES ASSUME NEW k \in 0..(m + n)
               PROVE  (IF k <= m THEN f[k] ELSE g[k - m]) \in SUBSET Marks
    OBVIOUS
  <2>1. CASE k <= m
    BY <1>1, <1>2, <2>1
  <2>2. CASE ~(k <= m)
    <3>1. k - m \in 0..n
      BY <1>1, <2>2
    <3> QED
      BY <1>3, <2>2, <3>1
  <2> QED
    BY <2>1, <2>2
<1> HIDE DEF h
<1>7. ASSUME NEW k \in 1..(m + n)
      PROVE  /\ h[k] = Taken(h[k - 1], r[k])
             /\ r[k] # CR /\ (r[k] = LF => "quotes" \in h[k - 1])
  <2>1. CASE k <= m
    <3>1. k \in 1..m /\ k \in 0..m /\ k - 1 \in 0..m
      BY <1>1, <2>1
    <3>2. h[k] = f[k] /\ h[k - 1] = f[k - 1] /\ r[k] = s[k]
      BY <1>1, <1>4, <3>1
    <3> QED
      BY <1>2, <3>1, <3>2
  <2>2. CASE ~(k <= m)
    <3> DEFINE j == k - m
    <3>1. j \in 1..n /\ j \in 0..n /\ j - 1 \in 0..n /\ k = m + j /\ k - 1 = m + (j - 1)
      BY <1>1, <2>2
    <3> HIDE DEF j
    <3>2. h[k] = g[j] /\ h[k - 1] = g[j - 1] /\ r[k] = t[j]
      BY <1>1, <1>5, <3>1
    <3> QED
      BY <1>3, <3>1, <3>2
  <2> QED
    BY <2>1, <2>2
<1>8. Scans(h, r, a)
  <2>1. 0 \in 0..m
    BY <1>1
  <2> QED
    BY <1>1, <1>2, <1>4, <1>6, <1>7, <2>1 DEF Scans
<1>9. h[Len(r)] = g[n]
  <2>1. n \in 0..n
    BY <1>1
  <2> QED
    BY <1>1, <1>5, <2>1
<1>10. Joined(h, f, g, s, t, a)
  BY <1>4, <1>5, <1>8, <1>9 DEF r, m, n, Joined
<1> QED
  BY <1>10

LEMMA ReadsJoin ==
  ASSUME NEW s \in Seq(Symbols), NEW t \in Seq(Symbols), NEW a, NEW b, NEW c,
         Reads(s, a, b), Reads(t, b, c)
  PROVE  Reads(s \o t, a, c)
<1>1. PICK f : Scans(f, s, a) /\ f[Len(s)] = b
  BY DEF Reads
<1>2. PICK g : Scans(g, t, b) /\ g[Len(t)] = c
  BY DEF Reads
<1>3. PICK h : Joined(h, f, g, s, t, a)
  <2>1. Scans(g, t, f[Len(s)])
    BY <1>1, <1>2
  <2> QED
    BY <1>1, <2>1, ScansJoin
<1> QED
  BY <1>2, <1>3 DEF Reads, Joined

(* Symbols that mean nothing to the reader. *)
LEMMA ScansPlain ==
  ASSUME NEW s \in Seq(Symbols), NEW a \in {{}, {"quotes"}},
         \A k \in 1..Len(s) : s[k] \notin {Quote, Slash, CR} /\ (s[k] = LF => a = {"quotes"})
  PROVE  Scans([k \in 0..Len(s) |-> a], s, a)
<1> DEFINE f == [k \in 0..Len(s) |-> a]
<1>1. Len(s) \in Nat
  OBVIOUS
<1>2. f \in [0..Len(s) -> SUBSET Marks] /\ f[0] = a
  BY <1>1 DEF Marks
<1>3. ASSUME NEW k \in 1..Len(s)
      PROVE  /\ f[k] = Taken(f[k - 1], s[k])
             /\ s[k] # CR /\ (s[k] = LF => "quotes" \in f[k - 1])
  <2>1. f[k] = a /\ f[k - 1] = a
    BY <1>1
  <2>2. s[k] \notin {Quote, Slash, CR} /\ (s[k] = LF => a = {"quotes"})
    OBVIOUS
  <2>3. Taken(a, s[k]) = a
    BY <2>2, TakenPlain
  <2> HIDE DEF f
  <2> QED
    BY <2>1, <2>2, <2>3
<1> HIDE DEF f
<1>4. Scans(f, s, a)
  BY <1>2, <1>3 DEF Scans
<1> QED
  BY <1>4 DEF f

LEMMA ReadsPlain ==
  ASSUME NEW s \in Seq(Symbols), NEW a \in {{}, {"quotes"}},
         \A k \in 1..Len(s) : s[k] \notin {Quote, Slash, CR} /\ (s[k] = LF => a = {"quotes"})
  PROVE  Reads(s, a, a)
<1>1. Scans([k \in 0..Len(s) |-> a], s, a)
  BY ScansPlain
<1>2. [k \in 0..Len(s) |-> a][Len(s)] = a
  OBVIOUS
<1> QED
  BY <1>1, <1>2 DEF Reads

LEMMA ReadsQuote == Reads(<<Quote>>, {}, {"quotes"}) /\ Reads(<<Quote>>, {"quotes"}, {})
<1>1. ASSUME NEW a \in {{}, {"quotes"}}, NEW b \in {{}, {"quotes"}}, Taken(a, Quote) = b
      PROVE  Reads(<<Quote>>, a, b)
  <2> DEFINE f == [k \in 0..1 |-> IF k = 0 THEN a ELSE b]
  <2>1. f \in [0..1 -> SUBSET Marks] /\ f[0] = a /\ f[1] = b
    BY DEF Marks
  <2>2. Len(<<Quote>>) = 1 /\ <<Quote>>[1] = Quote /\ Quote # CR /\ Quote # LF
    BY DEF Quote, CR, LF
  <2> HIDE DEF f
  <2>3. \A k \in 1..1 : k = 1 /\ k - 1 = 0
    OBVIOUS
  <2>4. Scans(f, <<Quote>>, a)
    BY <1>1, <2>1, <2>2, <2>3 DEF Scans
  <2> QED
    BY <2>1, <2>2, <2>4 DEF Reads
<1> QED
  BY <1>1, TakenQuote

(* What may stand between quotes: the reader is between them afterwards,    *)
(* and the parser takes none of its quotes for the last. *)
EndsNowhere(f, w) ==
  \A k \in 1..Len(w) : w[k] = Quote => "escape" \in f[k - 1] \/ (k < Len(w) /\ w[k + 1] # Blank)

Sound(w) ==
  \E f : Scans(f, w, {"quotes"}) /\ f[Len(w)] = {"quotes"} /\ EndsNowhere(f, w)

LEMMA SoundReads ==
  ASSUME NEW w \in Seq(Symbols), Sound(w)
  PROVE  Reads(InQuotes(w), {}, {})
<1>1. Reads(w, {"quotes"}, {"quotes"})
  BY DEF Sound, Reads
<1>2. <<Quote>> \in Seq(Symbols) /\ <<Quote>> \o w \in Seq(Symbols)
  <2>1. Quote \in Symbols
    BY SymbolsAre
  <2> QED
    BY <2>1
<1>3. Reads(<<Quote>> \o w, {}, {"quotes"})
  BY <1>1, <1>2, ReadsQuote, ReadsJoin
<1>4. Reads((<<Quote>> \o w) \o <<Quote>>, {}, {})
  BY <1>2, <1>3, ReadsQuote, ReadsJoin
<1> QED
  BY <1>4 DEF InQuotes

LEMMA SoundPlain ==
  ASSUME NEW w \in Seq(Symbols), \A k \in 1..Len(w) : w[k] \notin {Quote, Slash, CR}
  PROVE  Sound(w)
<1> DEFINE f == [k \in 0..Len(w) |-> {"quotes"}]
<1>1. Scans(f, w, {"quotes"})
  BY ScansPlain
<1>2. f[Len(w)] = {"quotes"}
  OBVIOUS
<1>3. EndsNowhere(f, w)
  BY DEF EndsNowhere
<1> HIDE DEF f
<1> QED
  BY <1>1, <1>2, <1>3 DEF Sound

LEMMA SoundSlashed ==
  ASSUME NEW c \in {Quote, Slash}
  PROVE  Sound(<<Slash, c>>)
<1> DEFINE f == [k \in 0..2 |-> IF k = 1 THEN Marks ELSE {"quotes"}]
           w == <<Slash, c>>
<1>1. f \in [0..2 -> SUBSET Marks] /\ f[0] = {"quotes"} /\ f[1] = Marks /\ f[2] = {"quotes"}
  BY DEF Marks
<1>2. Len(w) = 2 /\ w[1] = Slash /\ w[2] = c
  BY DEF Slash
<1> HIDE DEF f, w
<1>3. \A k \in 1..2 : (k = 1 /\ k - 1 = 0) \/ (k = 2 /\ k - 1 = 1)
  OBVIOUS
<1>4. Slash # CR /\ Slash # LF /\ c # CR /\ c # LF /\ Slash # Quote /\ "escape" \in Marks
  BY DEF Slash, Quote, CR, LF, Marks
<1>5. Scans(f, w, {"quotes"})
  BY <1>1, <1>2, <1>3, <1>4, TakenSlash DEF Scans
<1>6. EndsNowhere(f, w)
  BY <1>1, <1>2, <1>3, <1>4 DEF EndsNowhere
<1> QED
  BY <1>1, <1>2, <1>5, <1>6 DEF Sound, w

LEMMA SoundJoin ==
  ASSUME NEW s \in Seq(Symbols), NEW t \in Seq(Symbols), Sound(s), Sound(t)
  PROVE  Sound(s \o t)
<1>1. PICK f : Scans(f, s, {"quotes"}) /\ f[Len(s)] = {"quotes"} /\ EndsNowhere(f, s)
  BY DEF Sound
<1>2. PICK g : Scans(g, t, {"quotes"}) /\ g[Len(t)] = {"quotes"} /\ EndsNowhere(g, t)
  BY DEF Sound
<1> DEFINE m == Len(s)
           n == Len(t)
           r == s \o t
<1>3. PICK h : Joined(h, f, g, s, t, {"quotes"})
  <2>1. Scans(g, t, f[Len(s)])
    BY <1>1, <1>2
  <2> QED
    BY <1>1, <2>1, ScansJoin
<1>30. /\ Scans(h, r, {"quotes"})
       /\ h[Len(r)] = g[n]
       /\ \A k \in 0..m : h[k] = f[k]
       /\ \A k \in 0..n : h[m + k] = g[k]
  BY <1>3 DEF Joined
<1>4. /\ m \in Nat /\ n \in Nat /\ r \in Seq(Symbols) /\ Len(r) = m + n
      /\ \A j \in 1..m : r[j] = s[j]
      /\ \A j \in 1..n : r[m + j] = t[j]
  BY TwoParts
<1> HIDE DEF m, n, r
<1>5. ASSUME NEW k \in 1..Len(r), r[k] = Quote
      PROVE  "escape" \in h[k - 1] \/ (k < Len(r) /\ r[k + 1] # Blank)
  <2>1. CASE k <= m
    <3>1. k \in 1..m /\ k - 1 \in 0..m
      BY <1>4, <2>1
    <3>2. s[k] = Quote /\ h[k - 1] = f[k - 1]
      BY <1>30, <1>4, <1>5, <3>1
    <3>3. "escape" \in f[k - 1] \/ (k < m /\ s[k + 1] # Blank)
      BY <1>1, <3>1, <3>2 DEF EndsNowhere, m
    <3>4. k < m => k < Len(r) /\ r[k + 1] = s[k + 1]
      <4>1. k < m => k + 1 \in 1..m /\ k < Len(r)
        BY <1>4, <3>1
      <4> QED
        BY <1>4, <4>1
    <3> QED
      BY <3>2, <3>3, <3>4
  <2>2. CASE ~(k <= m)
    <3> DEFINE j == k - m
    <3>1. j \in 1..n /\ j - 1 \in 0..n /\ k = m + j /\ k - 1 = m + (j - 1)
      BY <1>4, <2>2
    <3> HIDE DEF j
    <3>2. t[j] = Quote /\ h[k - 1] = g[j - 1]
      BY <1>30, <1>4, <1>5, <3>1
    <3>3. "escape" \in g[j - 1] \/ (j < n /\ t[j + 1] # Blank)
      BY <1>2, <3>1, <3>2 DEF EndsNowhere, n
    <3>4. j < n => k < Len(r) /\ r[k + 1] = t[j + 1]
      <4>1. j < n => j + 1 \in 1..n /\ k < Len(r) /\ k + 1 = m + (j + 1)
        BY <1>4, <3>1
      <4> QED
        BY <1>4, <4>1
    <3> QED
      BY <3>2, <3>3, <3>4
  <2> QED
    BY <2>1, <2>2
<1>6. EndsNowhere(h, r)
  BY <1>5 DEF EndsNowhere
<1>7. h[Len(r)] = {"quotes"}
  BY <1>2, <1>30 DEF n
<1>8. Sound(r)
  BY <1>30, <1>6, <1>7 DEF Sound
<1> QED
  BY <1>8 DEF r

LEMMA SoundConcat ==
  ASSUME NEW pieces \in Seq(Seq(Symbols)), \A i \in 1..Len(pieces) : Sound(pieces[i])
  PROVE  Sound(Concat(pieces))
<1> DEFINE n == Len(pieces)
<1>1. n \in Nat /\ \A k \in 1..n : pieces[k] \in Seq(Symbols) /\ Sound(pieces[k])
  OBVIOUS
<1>2. PICK J \in [0..n -> Seq(Symbols)] : Reaches(J, pieces)
  BY ConcatReaches
<1>3. J[0] = <<>> /\ (\A k \in 1..n : J[k] = J[k - 1] \o pieces[k]) /\ Concat(pieces) = J[n]
  BY <1>2 DEF Reaches
<1> HIDE DEF n
<1> DEFINE S == {k \in 0..n : Sound(J[k])}
<1>4. 0..n \subseteq S
  <2>1. 0 \in S
    <3>1. <<>> \in Seq(Symbols) /\ Len(<<>>) = 0
      OBVIOUS
    <3>2. Sound(<<>>)
      <4> DEFINE w == <<>>
      <4>1. w \in Seq(Symbols) /\ \A k \in 1..Len(w) : FALSE
        BY <3>1
      <4> HIDE DEF w
      <4>2. Sound(w)
        BY <4>1, SoundPlain
      <4> QED
        BY <4>2 DEF w
    <3> QED
      BY <1>1, <1>3, <3>2
  <2>2. ASSUME NEW k \in 0..(n - 1), k \in S PROVE k + 1 \in S
    <3>1. k + 1 \in 1..n /\ k + 1 \in 0..n /\ k \in 0..n /\ (k + 1) - 1 = k
      BY <1>1
    <3> DEFINE s == J[k]
               t == pieces[k + 1]
    <3>2. s \in Seq(Symbols) /\ t \in Seq(Symbols) /\ Sound(s) /\ Sound(t)
      BY <1>1, <1>2, <2>2, <3>1
    <3>3. J[k + 1] = s \o t
      BY <1>3, <3>1
    <3> HIDE DEF s, t
    <3>4. Sound(J[k + 1])
      BY <3>2, <3>3, SoundJoin
    <3> QED
      BY <3>1, <3>4
  <2> HIDE DEF S
  <2> QED
    BY <1>1, <2>1, <2>2, Induction
<1>5. n \in 0..n
  BY <1>1
<1> QED
  BY <1>3, <1>4, <1>5

(* Quotes, counted from the front. *)
LEMMA QuotesGrow ==
  ASSUME NEW text \in Seq(Symbols), NEW k \in 0..Len(text)
  PROVE  /\ Quotes(SubSeq(text, 1, k)) \in Nat
         /\ k = 0 => Quotes(SubSeq(text, 1, k)) = 0
         /\ k # 0 => Quotes(SubSeq(text, 1, k)) =
                       Quotes(SubSeq(text, 1, k - 1)) + IF text[k] = Quote THEN 1 ELSE 0
<1> DEFINE Q(j) == {i \in 1..j : text[i] = Quote}
<1>0. Len(text) \in Nat /\ k \in Nat
  OBVIOUS
<1>1. ASSUME NEW j \in 0..Len(text) PROVE Quotes(SubSeq(text, 1, j)) = Cardinality(Q(j))
  <2> DEFINE s == SubSeq(text, 1, j)
  <2>1. DOMAIN s = 1..j /\ \A i \in 1..j : s[i] = text[i]
    OBVIOUS
  <2> HIDE DEF s
  <2>2. {i \in DOMAIN s : s[i] = Quote} = Q(j)
    BY <2>1
  <2> HIDE DEF Q
  <2>3. Quotes(s) = Cardinality(Q(j))
    BY <2>2 DEF Quotes
  <2> QED
    BY <2>3 DEF s
<1>2. ASSUME NEW j \in 0..Len(text) PROVE IsFiniteSet(Q(j)) /\ Cardinality(Q(j)) \in Nat
  <2>1. Q(j) \subseteq 1..j /\ IsFiniteSet(1..j)
    BY FS_Interval
  <2> HIDE DEF Q
  <2>2. IsFiniteSet(Q(j))
    BY <2>1, FS_Subset
  <2> QED
    BY <2>2, FS_CardinalityType
<1>3. ASSUME k = 0 PROVE Quotes(SubSeq(text, 1, k)) = 0
  <2>1. Q(0) = {}
    OBVIOUS
  <2> HIDE DEF Q
  <2> QED
    BY <1>1, <1>3, <2>1, FS_EmptySet
<1>4. ASSUME k # 0
      PROVE  Quotes(SubSeq(text, 1, k)) =
               Quotes(SubSeq(text, 1, k - 1)) + IF text[k] = Quote THEN 1 ELSE 0
  <2>1. k - 1 \in 0..Len(text)
    BY <1>4
  <2>2. CASE text[k] = Quote
    <3>1. Q(k) = Q(k - 1) \cup {k} /\ k \notin Q(k - 1)
      BY <1>0, <1>4, <2>2
    <3> HIDE DEF Q
    <3>2. Cardinality(Q(k)) = Cardinality(Q(k - 1)) + 1
      BY <1>2, <2>1, <3>1, FS_AddElement
    <3> QED
      BY <1>1, <2>1, <2>2, <3>2
  <2>3. CASE text[k] # Quote
    <3>1. Q(k) = Q(k - 1)
      BY <1>0, <1>4, <2>3
    <3> HIDE DEF Q
    <3>2. Cardinality(Q(k - 1)) \in Nat
      BY <1>2, <2>1
    <3> QED
      BY <1>1, <2>1, <2>3, <3>1, <3>2
  <2> QED
    BY <2>2, <2>3
<1>5. Quotes(SubSeq(text, 1, k)) \in Nat
  BY <1>1, <1>2
<1> QED
  BY <1>3, <1>4, <1>5

LEMMA Parity == \A a \in Nat : (a + 1) % 2 = 0 <=> a % 2 # 0
OBVIOUS

LEMMA SoundJson ==
  ASSUME NEW text \in Seq(Symbols), IsJson(text), \A k \in 1..Len(text) : text[k] # CR
  PROVE  Sound(text)
<1> DEFINE n == Len(text)
           q == [k \in 0..n |-> Quotes(SubSeq(text, 1, k))]
           f == [k \in 0..n |-> IF q[k] % 2 = 0 THEN {"quotes"} ELSE {}]
<1>1. n \in Nat /\ DOMAIN text = 1..n /\ SubSeq(text, 1, n) = text
  OBVIOUS
<1>2. q \in [0..n -> Nat] /\ q[0] = 0
  BY QuotesGrow
<1>3. \A k \in 1..n : q[k] = q[k - 1] + IF text[k] = Quote THEN 1 ELSE 0
  <2> TAKE k \in 1..n
  <2>1. k \in 0..n /\ k - 1 \in 0..n /\ k # 0
    BY <1>1
  <2> QED
    BY <2>1, QuotesGrow
<1>4. q[n] % 2 = 0
  <2>1. n \in 0..n
    BY <1>1
  <2> QED
    BY <1>1, <2>1 DEF IsJson
<1>5. ASSUME NEW k \in 1..n
      PROVE  /\ text[k] \notin {Slash, "&", CR}
             /\ text[k] = Quote => k < n /\ text[k + 1] # Blank
             /\ text[k] = LF => q[k] % 2 = 0
  <2>1. k \in 0..n
    BY <1>1
  <2> QED
    BY <1>1, <2>1 DEF IsJson
<1> HIDE DEF q
<1>6. f \in [0..n -> SUBSET Marks] /\ f[0] = {"quotes"} /\ f[n] = {"quotes"}
  BY <1>1, <1>2, <1>4 DEF Marks
<1>7. ASSUME NEW k \in 1..n
      PROVE  /\ f[k] = Taken(f[k - 1], text[k])
             /\ text[k] # CR /\ (text[k] = LF => "quotes" \in f[k - 1])
  <2>1. k \in 0..n /\ k - 1 \in 0..n /\ q[k] \in Nat /\ q[k - 1] \in Nat
    BY <1>1, <1>2
  <2>2. q[k] = q[k - 1] + IF text[k] = Quote THEN 1 ELSE 0
    BY <1>3
  <2>3. /\ f[k] = IF q[k] % 2 = 0 THEN {"quotes"} ELSE {}
        /\ f[k - 1] = IF q[k - 1] % 2 = 0 THEN {"quotes"} ELSE {}
    BY <2>1
  <2> HIDE DEF f
  <2>4. CASE text[k] = Quote
    <3>1. q[k] % 2 = 0 <=> q[k - 1] % 2 # 0
      BY <2>1, <2>2, <2>4, Parity
    <3>2. text[k] # LF /\ text[k] # CR
      BY <2>4 DEF Quote, LF, CR
    <3> QED
      BY <2>3, <2>4, <3>1, <3>2, TakenQuote
  <2>5. CASE text[k] # Quote
    <3>1. q[k] = q[k - 1]
      BY <2>1, <2>2, <2>5
    <3>2. text[k] \notin {Quote, Slash} /\ text[k] # CR
      BY <1>5, <2>5
    <3>3. f[k] = f[k - 1] /\ f[k - 1] \in {{}, {"quotes"}}
      BY <2>3, <3>1
    <3>4. f[k] = Taken(f[k - 1], text[k])
      BY <3>2, <3>3, TakenPlain
    <3>5. text[k] = LF => f[k - 1] = {"quotes"}
      BY <1>5, <2>3, <3>1
    <3> QED
      BY <3>2, <3>4, <3>5
  <2> QED
    BY <2>4, <2>5
<1>8. Scans(f, text, {"quotes"})
  BY <1>6, <1>7 DEF Scans
<1>9. EndsNowhere(f, text)
  BY <1>5 DEF EndsNowhere
<1> HIDE DEF f
<1> QED
  BY <1>6, <1>8, <1>9 DEF Sound

LEMMA EscapedPlain ==
  ASSUME NEW text \in Seq(Symbols), \A i \in 1..Len(text) : text[i] \notin {Slash, CR}
  PROVE  Escaped(text) \in Seq(Symbols \ {Quote, Slash, CR})
<1> DEFINE W == Symbols \ {Quote, Slash, CR}
<1>1. W \subseteq Symbols /\ "&" \in W
  <2>1. "&" \in Symbols /\ "&" \notin {Quote, Slash, CR}
    BY SymbolsAre DEF Quote, Slash, CR
  <2> QED
    BY <2>1
<1>2. \A c \in DOMAIN Entity : Entity[c] \in W
  <2>1. \A c \in DOMAIN Entity : Entity[c] \notin {Quote, Slash, CR}
    BY DEF Entity, Quote, Slash, CR
  <2> QED
    BY <2>1, SymbolsAre
<1>3. \A i \in 1..Len(text) : text[i] # Slash /\ (text[i] # Quote => text[i] \in W)
  OBVIOUS
<1> HIDE DEF W
<1>4. EscapedPieces(text) \in Seq(Seq(W))
  BY <1>1, <1>2, <1>3, EscapedMeans
<1>5. Concat(EscapedPieces(text)) \in Seq(W)
  BY <1>4, ConcatType
<1> QED
  BY <1>5 DEF Escaped, EscapedPieces, W

LEMMA EscapedHolds ==
  ASSUME NEW text \in Seq(Symbols), \A i \in 1..Len(text) : text[i] # Slash
  PROVE  Escaped(text) \in Seq(Symbols \ {Quote, Slash})
<1> DEFINE W == Symbols \ {Quote, Slash}
<1>1. W \subseteq Symbols /\ "&" \in W
  <2>1. "&" \in Symbols /\ "&" \notin {Quote, Slash}
    BY SymbolsAre DEF Quote, Slash
  <2> QED
    BY <2>1
<1>2. \A c \in DOMAIN Entity : Entity[c] \in W
  <2>1. \A c \in DOMAIN Entity : Entity[c] \notin {Quote, Slash}
    BY DEF Entity, Quote, Slash
  <2> QED
    BY <2>1, SymbolsAre
<1>3. \A i \in 1..Len(text) : text[i] # Slash /\ (text[i] # Quote => text[i] \in W)
  OBVIOUS
<1> HIDE DEF W
<1>4. EscapedPieces(text) \in Seq(Seq(W))
  BY <1>1, <1>2, <1>3, EscapedMeans
<1>5. Concat(EscapedPieces(text)) \in Seq(W)
  BY <1>4, ConcatType
<1> QED
  BY <1>5 DEF Escaped, EscapedPieces, W

(* However it is written, a text that can be told is one line's, ends where *)
(* it ends, and reads back. *)
LEMMA WrittenText ==
  ASSUME NEW text \in Seq(Symbols),
         NEW style \in {"entities", "nested", "backslashes", "raw"}, Tellable(text, style)
  PROVE  /\ AsWritten(text, style) \in Seq(Symbols)
         /\ Sound(AsWritten(text, style))
         /\ CopyXmlText(AsWritten(text, style)) = text
<1>0. DOMAIN text = 1..Len(text)
  OBVIOUS
<1>1. \A i \in 1..Len(text) : text[i] # CR
  BY <1>0 DEF Tellable
<1>2. \A w \in Seq(Symbols \ {Quote, Slash, CR}) :
        w \in Seq(Symbols) /\ \A k \in 1..Len(w) : w[k] \notin {Quote, Slash, CR}
  <2>1. Symbols \ {Quote, Slash, CR} \subseteq Symbols
    OBVIOUS
  <2>2. \A w \in Seq(Symbols \ {Quote, Slash, CR}) : w \in Seq(Symbols)
    BY <2>1, SeqMonotonic
  <2> QED
    BY <2>2
<1>3. CASE style \in {"entities", "nested"}
  <2>1. \A i \in 1..Len(text) : text[i] # Slash
    BY <1>0, <1>3 DEF Tellable
  <2> DEFINE e == Escaped(text)
  <2>2. e \in Seq(Symbols \ {Quote, Slash, CR}) /\ Undone(e) = text
    BY <1>1, <2>1, EscapedPlain, EscapedIs
  <2>3. e \in Seq(Symbols) /\ \A k \in 1..Len(e) : e[k] \notin {Quote, Slash, CR}
    BY <1>2, <2>2
  <2> HIDE DEF e
  <2>4. CASE style = "entities"
    <3>1. AsWritten(text, style) = e /\ Undone(text) = text
      BY <2>4 DEF AsWritten, Tellable, e
    <3>2. Sound(e)
      BY <2>3, SoundPlain
    <3> QED
      BY <2>2, <2>3, <3>1, <3>2 DEF CopyXmlText
  <2>5. CASE style = "nested"
    <3> DEFINE d == Escaped(e)
    <3>1. AsWritten(text, style) = d
      BY <2>5 DEF AsWritten, e
    <3>2. d \in Seq(Symbols \ {Quote, Slash, CR}) /\ Undone(d) = e
      BY <2>3, EscapedPlain, EscapedIs
    <3>3. d \in Seq(Symbols) /\ \A k \in 1..Len(d) : d[k] \notin {Quote, Slash, CR}
      BY <1>2, <3>2
    <3> HIDE DEF d
    <3>4. Sound(d)
      BY <3>3, SoundPlain
    <3> QED
      BY <2>2, <3>1, <3>2, <3>3, <3>4 DEF CopyXmlText
  <2> QED
    BY <1>3, <2>4, <2>5
<1>4. CASE style = "backslashes"
  <2> DEFINE p == SlashedPieces(text)
  <2>1. AsWritten(text, style) = Concat(p) /\ Undone(text) = text
    BY <1>4 DEF AsWritten, Tellable, SlashedPieces
  <2>2. \A i \in 1..Len(text) : text[i] # "&"
    BY <1>0, <1>4 DEF Tellable
  <2>3. /\ p \in Seq(Seq(Symbols)) /\ Len(p) = Len(text) /\ Undone(Concat(p)) = text
        /\ \A i \in 1..Len(text) :
             p[i] = IF text[i] \in {Quote, Slash} THEN <<Slash, text[i]>> ELSE <<text[i]>>
    BY <2>2, SlashedIs
  <2> HIDE DEF p
  <2>4. ASSUME NEW i \in 1..Len(p) PROVE Sound(p[i])
    <3>1. text[i] \in Symbols /\ text[i] # CR
      BY <1>1, <2>3
    <3>2. CASE text[i] \in {Quote, Slash}
      <4>1. p[i] = <<Slash, text[i]>>
        BY <2>3, <3>2
      <4> QED
        BY <3>2, <4>1, SoundSlashed
    <3>3. CASE text[i] \notin {Quote, Slash}
      <4> DEFINE w == <<text[i]>>
      <4>1. w \in Seq(Symbols) /\ \A k \in 1..Len(w) : w[k] \notin {Quote, Slash, CR}
        BY <3>1, <3>3
      <4>2. p[i] = w
        BY <2>3, <3>3
      <4> HIDE DEF w
      <4>3. Sound(w)
        BY <4>1, SoundPlain
      <4> QED
        BY <4>2, <4>3
    <3> QED
      BY <3>2, <3>3
  <2>5. Sound(Concat(p)) /\ Concat(p) \in Seq(Symbols)
    BY <2>3, <2>4, SoundConcat, ConcatType
  <2> QED
    BY <2>1, <2>3, <2>5 DEF CopyXmlText
<1>5. CASE style = "raw"
  <2>1. AsWritten(text, style) = text /\ IsJson(text)
    BY <1>5 DEF AsWritten, Tellable
  <2>2. \A i \in 1..Len(text) : text[i] \notin {Slash, "&"}
    BY <1>0, <2>1 DEF IsJson
  <2>3. Sound(text) /\ Undone(text) = text
    BY <1>1, <2>1, <2>2, SoundJson, PlainIs
  <2> QED
    BY <2>1, <2>3 DEF CopyXmlText
<1> QED
  BY <1>3, <1>4, <1>5

-----------------------------------------------------------------------------
(* The parser. *)

LEMMA SkipsTo ==
  ASSUME NEW line \in Seq(Symbols), NEW i \in 1..(Len(line) + 1), NEW x \in i..(Len(line) + 1),
         x > Len(line) \/ line[x] # Blank,
         \A j \in i..(x - 1) : line[j] = Blank
  PROVE  SkipBlanks(line, i) = x
<1> DEFINE T == {j \in i..(Len(line) + 1) : j > Len(line) \/ line[j] # Blank}
<1>1. Len(line) \in Nat
  OBVIOUS
<1>2. T \subseteq Nat /\ x \in T
  BY <1>1
<1>3. ASSUME NEW y \in T PROVE x <= y
  <2>1. y \in i..(Len(line) + 1) /\ (y > Len(line) \/ line[y] # Blank)
    OBVIOUS
  <2>2. ~(y < x)
    <3> SUFFICES ASSUME y < x PROVE FALSE
      OBVIOUS
    <3>1. y \in i..(x - 1) /\ ~(y > Len(line))
      BY <1>1, <2>1
    <3> QED
      BY <2>1, <3>1
  <2> QED
    BY <1>1, <2>1, <2>2
<1> HIDE DEF T
<1>4. Min(T) = x
  BY <1>2, <1>3, FirstIs
<1> QED
  BY <1>4 DEF SkipBlanks, T

(* Where the blanks end. *)
(* A symbol on its own is an atom. *)
LEMMA AtomIs ==
  ASSUME NEW line \in Seq(Symbols), NEW i \in 1..(Len(line) + 1), NEW at \in 1..Len(line),
         SkipBlanks(line, i) = at, line[at] \notin {Quote, Blank},
         at = Len(line) \/ line[at + 1] = Blank
  PROVE  Atom(line, i) = [text |-> <<line[at]>>, next |-> at + 1]
<1> DEFINE T == {j \in at..(Len(line) + 1) : j > Len(line) \/ line[j] = Blank}
<1>1. Len(line) \in Nat
  OBVIOUS
<1>2. T \subseteq Nat /\ at + 1 \in T
  BY <1>1
<1>3. \A y \in T : at + 1 <= y
  BY <1>1
<1> HIDE DEF T
<1>4. Min(T) = at + 1
  BY <1>2, <1>3, FirstIs
<1>5. SubSeq(line, at, (at + 1) - 1) = <<line[at]>>
  <2>1. (at + 1) - 1 = at
    OBVIOUS
  <2> DEFINE s == SubSeq(line, at, at)
  <2>2. s \in Seq(Symbols) /\ Len(s) = 1 /\ s[1] = line[at]
    OBVIOUS
  <2> HIDE DEF s
  <2>3. s = <<line[at]>>
    BY <2>2
  <2> QED
    BY <2>1, <2>3 DEF s
<1> QED
  BY <1>4, <1>5 DEF Atom, T

(* An atom begins with the first symbol that is no blank. *)
LEMMA AtomBegins ==
  ASSUME NEW line \in Seq(Symbols), NEW i \in 1..(Len(line) + 1), NEW at \in 1..Len(line),
         SkipBlanks(line, i) = at, line[at] # Blank
  PROVE  Atom(line, i).text = <<>> \/ Atom(line, i).text[1] = line[at]
<1> DEFINE T == {j \in at..(Len(line) + 1) : j > Len(line) \/ line[j] = Blank}
<1>1. Len(line) \in Nat
  OBVIOUS
<1>2. T \subseteq Nat /\ Len(line) + 1 \in T
  BY <1>1
<1>3. \A y \in T : y > at /\ y <= Len(line) + 1
  BY <1>1
<1> HIDE DEF T
<1>4. Min(T) \in T
  BY <1>2, First
<1> DEFINE m == Min(T)
<1>5. m \in Nat /\ m > at /\ m <= Len(line) + 1
  BY <1>2, <1>3, <1>4
<1> HIDE DEF m
<1>6. SubSeq(line, at, m - 1)[1] = line[at]
  BY <1>1, <1>5
<1>7. SubSeq(line, at, at - 1) = <<>>
  OBVIOUS
<1>8. CASE line[at] = Quote
  <2>1. Atom(line, i) = [text |-> SubSeq(line, at, at - 1), next |-> at]
    BY <1>8 DEF Atom
  <2> QED
    BY <1>7, <2>1
<1>9. CASE line[at] # Quote
  <2> DEFINE t == SubSeq(line, at, m - 1)
  <2>1. Atom(line, i) = [text |-> t, next |-> m]
    BY <1>9 DEF Atom, m, T
  <2>2. t[1] = line[at]
    BY <1>6
  <2> HIDE DEF t
  <2> QED
    BY <2>1, <2>2
<1> QED
  BY <1>8, <1>9

LEMMA AtomNone ==
  ASSUME NEW line \in Seq(Symbols), NEW i \in 1..(Len(line) + 1),
         SkipBlanks(line, i) = Len(line) + 1
  PROVE  Atom(line, i) = [text |-> <<>>, next |-> Len(line) + 1]
<1> DEFINE l == Len(line)
           T == {j \in (l + 1)..(l + 1) : j > l \/ line[j] = Blank}
<1>1. l \in Nat
  OBVIOUS
<1>2. T \subseteq Nat /\ l + 1 \in T /\ \A y \in T : l + 1 <= y
  BY <1>1
<1> HIDE DEF T
<1>3. Min(T) = l + 1
  BY <1>2, FirstIs
<1>4. SubSeq(line, l + 1, (l + 1) - 1) = <<>> /\ ~(l + 1 <= l)
  BY <1>1
<1> QED
  BY <1>3, <1>4 DEF Atom, T

(* Which symbols are escaped. *)
EscapesTo(f, line, start, n) ==
  f = [j \in start..n |-> j > start /\ line[j - 1] = Slash /\ ~f[j - 1]]

LEMMA EscapesExist ==
  ASSUME NEW line, NEW start \in Nat, NEW n \in Nat
  PROVE  \E f : EscapesTo(f, line, start, n)
<1> DEFINE S == {k \in 0..n : \E f : EscapesTo(f, line, start, k)}
<1>1. ASSUME NEW k \in Nat, k <= start PROVE \E f : EscapesTo(f, line, start, k)
  <2> DEFINE f == [j \in start..k |-> FALSE]
  <2>1. \A j \in start..k : ~(j > start)
    BY <1>1
  <2>2. [j \in start..k |-> j > start /\ line[j - 1] = Slash /\ ~f[j - 1]] = f
    BY <2>1
  <2>3. EscapesTo(f, line, start, k)
    BY <2>2 DEF EscapesTo
  <2> QED
    BY <2>3
<1>2. 0 \in S
  BY <1>1
<1>3. ASSUME NEW k \in 0..(n - 1), k \in S PROVE k + 1 \in S
  <2>1. CASE k + 1 <= start
    BY <1>1, <2>1
  <2>2. CASE ~(k + 1 <= start)
    <3>1. PICK f : EscapesTo(f, line, start, k)
      BY <1>3
    <3> DEFINE g == [j \in start..(k + 1) |->
                       IF j = k + 1 THEN j > start /\ line[j - 1] = Slash /\ ~f[j - 1] ELSE f[j]]
    <3>2. \A j \in start..k : f[j] = (j > start /\ line[j - 1] = Slash /\ ~f[j - 1])
      BY <3>1, Zenon DEF EscapesTo
    <3>3. \A j \in start..(k + 1) : j > start => g[j - 1] = f[j - 1]
      OBVIOUS
    <3>4. \A j \in start..(k + 1) : j # k + 1 => j \in start..k
      BY <2>2
    <3>5. \A j \in start..(k + 1) :
            g[j] = (j > start /\ line[j - 1] = Slash /\ ~g[j - 1])
      <4> TAKE j \in start..(k + 1)
      <4>1. g[j] = IF j = k + 1 THEN j > start /\ line[j - 1] = Slash /\ ~f[j - 1] ELSE f[j]
        OBVIOUS
      <4> HIDE DEF g
      <4>2. CASE j = k + 1
        BY <3>3, <4>1, <4>2
      <4>3. CASE j # k + 1
        <5>1. f[j] = (j > start /\ line[j - 1] = Slash /\ ~f[j - 1])
          BY <3>2, <3>4, <4>3
        <5> QED
          BY <3>3, <4>1, <4>3, <5>1
      <4> QED
        BY <4>2, <4>3
    <3>6. g = [j \in start..(k + 1) |-> g[j]]
      OBVIOUS
    <3> HIDE DEF g
    <3>7. EscapesTo(g, line, start, k + 1)
      BY <3>5, <3>6, Zenon DEF EscapesTo
    <3> QED
      BY <3>7
  <2> QED
    BY <2>1, <2>2
<1> HIDE DEF S
<1>4. 0..n \subseteq S
  BY <1>2, <1>3, Induction
<1> QED
  BY <1>4 DEF S

LEMMA EscapesAre ==
  ASSUME NEW line \in Seq(Symbols), NEW start \in Nat, NEW j \in start..Len(line)
  PROVE  Escapes(line, start)[j] = (j > start /\ line[j - 1] = Slash /\ ~Escapes(line, start)[j - 1])
<1> DEFINE f == CHOOSE f : EscapesTo(f, line, start, Len(line))
<1>1. Len(line) \in Nat
  OBVIOUS
<1>2. EscapesTo(f, line, start, Len(line))
  BY <1>1, EscapesExist
<1>3. Escapes(line, start) = f
  BY DEF Escapes, EscapesTo
<1> HIDE DEF f
<1>4. f[j] = (j > start /\ line[j - 1] = Slash /\ ~f[j - 1])
  BY <1>2, Zenon DEF EscapesTo
<1> QED
  BY <1>3, <1>4

(* A line holds a text from a place on. *)
Holds(line, at, w) ==
  /\ at + Len(w) <= Len(line) + 1
  /\ \A k \in 1..Len(w) : line[at + k - 1] = w[k]

(* Reader and parser agree on what is escaped. *)
LEMMA SameEscapes ==
  ASSUME NEW line \in Seq(Symbols), NEW start \in Nat \ {0}, NEW w \in Seq(Symbols),
         Holds(line, start, w), NEW f, Scans(f, w, {"quotes"}), start + Len(w) <= Len(line)
  PROVE  \A k \in 0..Len(w) : "escape" \in f[k] <=> Escapes(line, start)[start + k]
<1> DEFINE n == Len(w)
           S == {k \in 0..n : "escape" \in f[k] <=> Escapes(line, start)[start + k]}
<1>1. n \in Nat /\ Len(line) \in Nat /\ start + n <= Len(line)
  OBVIOUS
<1>2. f[0] = {"quotes"} /\ \A k \in 1..n : f[k] = Taken(f[k - 1], w[k])
  BY DEF Scans
<1>3. \A k \in 1..n : line[start + k - 1] = w[k]
  BY DEF Holds
<1> HIDE DEF n
<1>4. 0 \in S
  <2>1. ~Escapes(line, start)[start]
    <3>1. start \in start..Len(line) /\ ~(start > start)
      BY <1>1
    <3> QED
      BY <3>1, EscapesAre
  <2>2. start + 0 = start /\ "escape" \notin {"quotes"}
    OBVIOUS
  <2> QED
    BY <1>1, <1>2, <2>1, <2>2
<1>5. ASSUME NEW k \in 0..(n - 1), k \in S PROVE k + 1 \in S
  <2>1. /\ k + 1 \in 1..n /\ k + 1 \in 0..n /\ k \in 0..n /\ (k + 1) - 1 = k
        /\ start + (k + 1) \in start..Len(line) /\ start + (k + 1) > start
        /\ (start + (k + 1)) - 1 = start + k /\ start + (k + 1) - 1 = start + k
    BY <1>1
  <2>2. Escapes(line, start)[start + (k + 1)] =
          (line[start + k] = Slash /\ ~Escapes(line, start)[start + k])
    <3> DEFINE j == start + (k + 1)
    <3>1. j \in start..Len(line) /\ j > start /\ j - 1 = start + k
      BY <2>1
    <3> HIDE DEF j
    <3>2. Escapes(line, start)[j] = (line[j - 1] = Slash /\ ~Escapes(line, start)[j - 1])
      BY <3>1, EscapesAre
    <3> QED
      BY <3>1, <3>2 DEF j
  <2>3. line[start + k] = w[k + 1]
    BY <1>3, <2>1
  <2>4. f[k + 1] = Taken(f[k], w[k + 1])
    BY <1>2, <2>1
  <2>5. "escape" \in f[k + 1] <=> (w[k + 1] = Slash /\ "escape" \notin f[k])
    BY <2>4 DEF Taken, Marks
  <2>6. "escape" \in f[k] <=> Escapes(line, start)[start + k]
    BY <1>5
  <2> HIDE DEF S
  <2>7. "escape" \in f[k + 1] <=> Escapes(line, start)[start + (k + 1)]
    BY <2>2, <2>3, <2>5, <2>6
  <2> QED
    BY <2>1, <2>7 DEF S
<1> HIDE DEF S
<1>6. 0..n \subseteq S
  BY <1>1, <1>4, <1>5, Induction
<1> QED
  BY <1>6 DEF S, n

(* A quoted text is found at its quotes. *)
QuotedAt(line, i, w) ==
  /\ line[i] = Blank /\ line[i + 1] = Quote
  /\ Holds(line, i + 2, w)
  /\ i + 2 + Len(w) <= Len(line)
  /\ line[i + 2 + Len(w)] = Quote
  /\ i + 2 + Len(w) = Len(line) \/ line[i + 3 + Len(w)] = Blank

(* No quote within it ends it. *)
PassedOver(line, i, w) ==
  /\ ~Escapes(line, i + 2)[i + 2 + Len(w)]
  /\ \A k \in 1..Len(w) : w[k] = Quote =>
       Escapes(line, i + 2)[i + 2 + k - 1] \/ (k < Len(w) /\ w[k + 1] # Blank)

LEMMA QuotedWhen ==
  ASSUME NEW line \in Seq(Symbols), NEW i \in Nat \ {0}, NEW w \in Seq(Symbols),
         QuotedAt(line, i, w), PassedOver(line, i, w)
  PROVE  Quoted(line, i) = [is |-> "right", text |-> w, next |-> i + 3 + Len(w)]
<1> DEFINE n == Len(w)
           l == Len(line)
           start == i + 2
           T == {j \in start..l : EndsHere(line, j) /\ ~Escapes(line, start)[j]}
<1>1. /\ n \in Nat /\ l \in Nat /\ start \in Nat \ {0} /\ i + 2 + n <= l /\ start + n <= l
      /\ start + n = i + 2 + n /\ start + n + 1 = i + 3 + n
  BY DEF QuotedAt
<1>2. /\ line[i] = Blank /\ line[i + 1] = Quote
      /\ Holds(line, start, w)
      /\ line[start + n] = Quote
      /\ start + n = l \/ line[start + n + 1] = Blank
  BY <1>1 DEF QuotedAt
<1>4. /\ ~Escapes(line, start)[start + n]
      /\ \A k \in 1..n : w[k] = Quote =>
           Escapes(line, start)[start + k - 1] \/ (k < n /\ w[k + 1] # Blank)
  BY <1>1 DEF PassedOver
<1>5. \A k \in 1..n : line[start + k - 1] = w[k]
  BY <1>2 DEF Holds
<1>6. SkipBlanks(line, i) = i + 1
  <2>1. i \in 1..(Len(line) + 1) /\ i + 1 \in i..(Len(line) + 1)
    BY <1>1
  <2>2. line[i + 1] # Blank
    BY <1>2 DEF Quote, Blank
  <2>3. \A j \in i..((i + 1) - 1) : line[j] = Blank
    BY <1>2
  <2> QED
    BY <2>1, <2>2, <2>3, SkipsTo
<1> HIDE DEF n, start
<1>7. start + n \in T
  <2>1. EndsHere(line, start + n)
    BY <1>1, <1>2 DEF EndsHere
  <2> QED
    BY <1>1, <1>4, <2>1
<1>8. ASSUME NEW j \in T PROVE start + n <= j
  <2>1. j \in start..l /\ EndsHere(line, j) /\ ~Escapes(line, start)[j]
    OBVIOUS
  <2> HIDE DEF T
  <2> SUFFICES ASSUME j < start + n PROVE FALSE
    BY <1>1, <2>1
  <2> DEFINE k == j - start + 1
  <2>2. k \in 1..n /\ k - 1 \in 0..n /\ start + (k - 1) = j /\ start + k - 1 = j
    BY <1>1, <2>1
  <2> HIDE DEF k
  <2>3. w[k] = Quote
    BY <1>5, <2>1, <2>2 DEF EndsHere
  <2>5. k < n /\ w[k + 1] # Blank
    BY <1>4, <2>1, <2>2, <2>3
  <2>6. k + 1 \in 1..n /\ start + (k + 1) - 1 = j + 1 /\ j < l
    BY <1>1, <2>2, <2>5
  <2>7. line[j + 1] = w[k + 1]
    BY <1>5, <2>6
  <2> QED
    BY <1>1, <2>1, <2>5, <2>6, <2>7, SMTT(30) DEF EndsHere
<1>9. T \subseteq Nat
  BY <1>1
<1> HIDE DEF T
<1>10. Min(T) = start + n
  BY <1>7, <1>8, <1>9, FirstIs
<1>11. SubSeq(line, start, start + n - 1) = w
  <2> DEFINE s == SubSeq(line, start, start + n - 1)
  <2>1. start + n - 1 \in Nat /\ start + n - 1 <= l
    BY <1>1
  <2>2. s \in Seq(Symbols) /\ Len(s) = n
    BY <1>1, <2>1
  <2>3. \A k \in 1..n : s[k] = line[start + k - 1]
    <3>1. start \in Int /\ start + n - 1 \in Int /\ (start + n - 1) - start + 1 = n
      BY <1>1
    <3>2. \A j \in start..(start + n - 1) : line[j] \in Symbols
      BY <1>1
    <3> QED
      BY <3>1, <3>2, SubSeqProperties
  <2> HIDE DEF s
  <2>4. s = w
    BY <1>5, <2>2, <2>3 DEF n
  <2> QED
    BY <2>4 DEF s
<1>12. /\ ~(i + 1 > Len(line)) /\ line[i + 1] = Quote /\ T # {}
       /\ (i + 1) + 1 = start
  BY <1>1, <1>2, <1>7 DEF start, l
<1>13. Quoted(line, i) = [is |-> "right", text |-> SubSeq(line, start, Min(T) - 1), next |-> Min(T) + 1]
  <2>1. T = {j \in ((i + 1) + 1)..Len(line) : EndsHere(line, j) /\ ~Escapes(line, (i + 1) + 1)[j]}
    BY <1>12 DEF T, l
  <2> QED
    BY <1>6, <1>12, <2>1 DEF Quoted
<1>14. Min(T) + 1 = i + 3 + n
  BY <1>1, <1>10
<1>15. SubSeq(line, start, Min(T) - 1) = w
  <2>1. Min(T) - 1 = start + n - 1
    BY <1>1, <1>10
  <2> QED
    BY <1>11, <2>1, Zenon
<1> QED
  BY <1>13, <1>14, <1>15 DEF n

LEMMA QuotedIs ==
  ASSUME NEW line \in Seq(Symbols), NEW i \in Nat \ {0}, NEW w \in Seq(Symbols),
         QuotedAt(line, i, w), Sound(w)
  PROVE  Quoted(line, i) = [is |-> "right", text |-> w, next |-> i + 3 + Len(w)]
<1> DEFINE n == Len(w)
           start == i + 2
<1>1. n \in Nat /\ start \in Nat \ {0} /\ start + n <= Len(line) /\ Holds(line, start, w)
  BY DEF QuotedAt
<1>2. PICK f : Scans(f, w, {"quotes"}) /\ f[n] = {"quotes"} /\ EndsNowhere(f, w)
  BY DEF Sound
<1>3. \A k \in 0..n : "escape" \in f[k] <=> Escapes(line, start)[start + k]
  BY <1>1, <1>2, SameEscapes DEF n
<1> HIDE DEF n, start
<1>4. ~Escapes(line, start)[start + n]
  <2>1. n \in 0..n /\ "escape" \notin {"quotes"}
    BY <1>1
  <2> QED
    BY <1>2, <1>3, <2>1
<1>5. ASSUME NEW k \in 1..n, w[k] = Quote
      PROVE  Escapes(line, start)[start + k - 1] \/ (k < n /\ w[k + 1] # Blank)
  <2>1. "escape" \in f[k - 1] \/ (k < n /\ w[k + 1] # Blank)
    BY <1>2, <1>5 DEF EndsNowhere, n
  <2>2. k - 1 \in 0..n /\ start + (k - 1) = start + k - 1
    BY <1>1
  <2> QED
    BY <1>3, <2>1, <2>2
<1>6. PassedOver(line, i, w)
  BY <1>4, <1>5 DEF PassedOver, n, start
<1> QED
  BY <1>6, QuotedWhen

(* Behind the last there is none. *)
LEMMA NothingAtEnd ==
  ASSUME NEW line \in Seq(Symbols)
  PROVE  /\ SkipBlanks(line, Len(line) + 1) = Len(line) + 1
         /\ AtEnd(line, Len(line) + 1)
         /\ Quoted(line, Len(line) + 1).is = "nothing"
         /\ ~Found(Atom(line, Len(line) + 1))
<1>1. Len(line) \in Nat
  OBVIOUS
<1>2. SkipBlanks(line, Len(line) + 1) = Len(line) + 1
  <2>1. Len(line) + 1 \in 1..(Len(line) + 1) /\ Len(line) + 1 \in (Len(line) + 1)..(Len(line) + 1)
    BY <1>1
  <2>2. Len(line) + 1 > Len(line) /\ \A j \in (Len(line) + 1)..((Len(line) + 1) - 1) : FALSE
    BY <1>1
  <2> QED
    BY <2>1, <2>2, SkipsTo
<1>3. Len(line) + 1 > Len(line) /\ Len(line) + 1 \in 1..(Len(line) + 1)
  BY <1>1
<1>4. Atom(line, Len(line) + 1) = [text |-> <<>>, next |-> Len(line) + 1]
  BY <1>2, <1>3, AtomNone
<1> QED
  BY <1>2, <1>3, <1>4 DEF AtEnd, Quoted, Found

(* The loop over an answer's values. *)
ReadingValues(f, line, i, n) ==
  f = [k \in 0..n |-> IF k = 0 THEN NothingRead(i) ELSE NextValue(line, f[k - 1])]

LEMMA ReadingValuesExists ==
  ASSUME NEW line, NEW i, NEW n \in Nat
  PROVE  \E f : ReadingValues(f, line, i, n)
<1> DEFINE S == {k \in 0..n : \E f : ReadingValues(f, line, i, k)}
<1>1. 0 \in S
  <2> DEFINE f == [k \in 0..0 |-> NothingRead(i)]
  <2>1. ReadingValues(f, line, i, 0)
    BY DEF ReadingValues
  <2> QED
    BY <2>1
<1>2. ASSUME NEW k \in 0..(n - 1), k \in S PROVE k + 1 \in S
  <2>1. PICK f : ReadingValues(f, line, i, k)
    BY <1>2
  <2> DEFINE g == [j \in 0..(k + 1) |-> IF j = k + 1 THEN NextValue(line, f[k]) ELSE f[j]]
  <2>2. ReadingValues(g, line, i, k + 1)
    BY <2>1 DEF ReadingValues
  <2> QED
    BY <2>2
<1> HIDE DEF S
<1>3. 0..n \subseteq S
  BY <1>1, <1>2, Induction
<1> QED
  BY <1>3 DEF S

LEMMA ValuesRead ==
  ASSUME NEW line, NEW i
  PROVE  \E f : /\ f[0] = NothingRead(i)
                /\ \A k \in 1..(MaxArgs + 1) : f[k] = NextValue(line, f[k - 1])
                /\ Values(line, i) = f[MaxArgs + 1]
<1> DEFINE f == CHOOSE f : ReadingValues(f, line, i, MaxArgs + 1)
<1>1. MaxArgs + 1 \in Nat
  BY WireAssumption
<1>2. ReadingValues(f, line, i, MaxArgs + 1)
  BY <1>1, ReadingValuesExists
<1>3. Values(line, i) = f[MaxArgs + 1]
  BY DEF Values, ReadingValues
<1> HIDE DEF f
<1>4. f[0] = NothingRead(i)
  BY <1>1, <1>2 DEF ReadingValues
<1>5. ASSUME NEW k \in 1..(MaxArgs + 1) PROVE f[k] = NextValue(line, f[k - 1])
  BY <1>1, <1>2 DEF ReadingValues
<1> QED
  BY <1>3, <1>4, <1>5

(* And over an event's variables. *)
ReadingVariables(f, line, i, n) ==
  f = [k \in 0..n |-> IF k = 0 THEN NothingRead(i) ELSE NextVariable(line, f[k - 1])]

LEMMA ReadingVariablesExists ==
  ASSUME NEW line, NEW i, NEW n \in Nat
  PROVE  \E f : ReadingVariables(f, line, i, n)
<1> DEFINE S == {k \in 0..n : \E f : ReadingVariables(f, line, i, k)}
<1>1. 0 \in S
  <2> DEFINE f == [k \in 0..0 |-> NothingRead(i)]
  <2>1. ReadingVariables(f, line, i, 0)
    BY DEF ReadingVariables
  <2> QED
    BY <2>1
<1>2. ASSUME NEW k \in 0..(n - 1), k \in S PROVE k + 1 \in S
  <2>1. PICK f : ReadingVariables(f, line, i, k)
    BY <1>2
  <2> DEFINE g == [j \in 0..(k + 1) |-> IF j = k + 1 THEN NextVariable(line, f[k]) ELSE f[j]]
  <2>2. ReadingVariables(g, line, i, k + 1)
    BY <2>1 DEF ReadingVariables
  <2> QED
    BY <2>2
<1> HIDE DEF S
<1>3. 0..n \subseteq S
  BY <1>1, <1>2, Induction
<1> QED
  BY <1>3 DEF S

LEMMA VariablesRead ==
  ASSUME NEW line, NEW i
  PROVE  \E f : /\ f[0] = NothingRead(i)
                /\ \A k \in 1..(MaxArgs + 1) : f[k] = NextVariable(line, f[k - 1])
                /\ Variables(line, i) = f[MaxArgs + 1]
<1> DEFINE f == CHOOSE f : ReadingVariables(f, line, i, MaxArgs + 1)
<1>1. MaxArgs + 1 \in Nat
  BY WireAssumption
<1>2. ReadingVariables(f, line, i, MaxArgs + 1)
  BY <1>1, ReadingVariablesExists
<1>3. Variables(line, i) = f[MaxArgs + 1]
  BY DEF Variables, ReadingVariables
<1> HIDE DEF f
<1>4. f[0] = NothingRead(i)
  BY <1>1, <1>2 DEF ReadingVariables
<1>5. ASSUME NEW k \in 1..(MaxArgs + 1) PROVE f[k] = NextVariable(line, f[k - 1])
  BY <1>1, <1>2 DEF ReadingVariables
<1> QED
  BY <1>3, <1>4, <1>5

(* What has been read after k of the parts, which end before the places.    *)
Round(places, parts, k) ==
  IF k <= Len(parts) /\ k <= MaxArgs
  THEN [is |-> "right", at |-> places[k], parts |-> SubSeq(parts, 1, k)]
  ELSE IF Len(parts) <= MaxArgs
  THEN [is |-> "right", at |-> places[Len(parts)], parts |-> parts]
  ELSE [is |-> "wrong", at |-> places[MaxArgs], parts |-> SubSeq(parts, 1, MaxArgs)]

(* A loop that goes from round to round reads all, or one more than fit. *)
LEMMA Rounds ==
  ASSUME NEW places, NEW V, NEW parts \in Seq(V), NEW f,
         f[0] = NothingRead(places[0]),
         \A k \in 1..(MaxArgs + 1) :
           f[k - 1] = Round(places, parts, k - 1) => f[k] = Round(places, parts, k)
  PROVE  f[MaxArgs + 1] = IF Len(parts) <= MaxArgs
                          THEN [is |-> "right", at |-> places[Len(parts)], parts |-> parts]
                          ELSE [is |-> "wrong", at |-> places[MaxArgs],
                                parts |-> SubSeq(parts, 1, MaxArgs)]
<1> DEFINE n == MaxArgs + 1
           S == {k \in 0..n : f[k] = Round(places, parts, k)}
<1>1. n \in Nat /\ MaxArgs \in Nat /\ Len(parts) \in Nat
  BY WireAssumption
<1>2. 0 \in S
  <2>1. 0 <= Len(parts) /\ 0 <= MaxArgs /\ 0 \in 0..n /\ SubSeq(parts, 1, 0) = <<>>
    BY <1>1
  <2> QED
    BY <2>1 DEF Round, NothingRead
<1>3. ASSUME NEW k \in 0..(n - 1), k \in S PROVE k + 1 \in S
  <2>1. k + 1 \in 1..n /\ (k + 1) - 1 = k /\ k + 1 \in 0..n
    BY <1>1
  <2> QED
    BY <1>3, <2>1
<1> HIDE DEF S
<1>4. 0..n \subseteq S
  BY <1>1, <1>2, <1>3, Induction
<1>5. f[n] = Round(places, parts, n)
  BY <1>1, <1>4 DEF S
<1>6. ~(n <= MaxArgs)
  BY <1>1
<1> QED
  BY <1>5, <1>6 DEF Round

(* All parts, when they fit. *)
AllOf(places, parts) ==
  IF Len(parts) <= MaxArgs
  THEN [is |-> "right", at |-> places[Len(parts)], parts |-> parts]
  ELSE [is |-> "wrong", at |-> places[MaxArgs], parts |-> SubSeq(parts, 1, MaxArgs)]

LEMMA ValuesAre ==
  ASSUME NEW line, NEW V, NEW parts \in Seq(V), NEW places,
         \A k \in 1..Len(parts) :
           Quoted(line, places[k - 1]) = [is |-> "right", text |-> parts[k], next |-> places[k]],
         Quoted(line, places[Len(parts)]).is = "nothing"
  PROVE  Values(line, places[0]) = AllOf(places, parts)
<1>1. PICK f : /\ f[0] = NothingRead(places[0])
               /\ \A k \in 1..(MaxArgs + 1) : f[k] = NextValue(line, f[k - 1])
               /\ Values(line, places[0]) = f[MaxArgs + 1]
  BY ValuesRead
<1> DEFINE n == Len(parts)
<1>2. n \in Nat /\ MaxArgs \in Nat
  BY WireAssumption
<1>3. ASSUME NEW k \in 1..(MaxArgs + 1), f[k - 1] = Round(places, parts, k - 1)
      PROVE  f[k] = Round(places, parts, k)
  <2>1. f[k] = NextValue(line, f[k - 1]) /\ k \in Nat /\ k - 1 \in Nat /\ k - 1 <= MaxArgs
    BY <1>1, <1>2
  <2> DEFINE was == f[k - 1]
  <2>2. CASE k <= n /\ k <= MaxArgs
    <3>1. k \in 1..Len(parts) /\ k - 1 <= n /\ k - 1 \in 0..(n - 1) /\ k - 1 < MaxArgs
      BY <1>2, <2>1, <2>2
    <3>2. was = [is |-> "right", at |-> places[k - 1], parts |-> SubSeq(parts, 1, k - 1)]
      BY <1>3, <2>1, <3>1 DEF Round
    <3> DEFINE value == Quoted(line, places[k - 1])
    <3>30. value = [is |-> "right", text |-> parts[k], next |-> places[k]]
      BY <3>1
    <3> HIDE DEF value
    <3>3. value.is = "right" /\ value.text = parts[k] /\ value.next = places[k]
      BY <3>30
    <3>4. Append(SubSeq(parts, 1, k - 1), parts[k]) = SubSeq(parts, 1, k)
      <4> DEFINE j == k - 1
      <4>1. j \in 0..(Len(parts) - 1) /\ j + 1 = k
        BY <3>1
      <4> HIDE DEF j
      <4>2. Append(SubSeq(parts, 1, j), parts[j + 1]) = SubSeq(parts, 1, j + 1)
        BY <4>1, OneMore
      <4> QED
        BY <4>1, <4>2 DEF j
    <3> DEFINE so == SubSeq(parts, 1, k - 1)
    <3>5. Len(so) # MaxArgs
      BY <1>2, <3>1
    <3> HIDE DEF so, was
    <3>6. was.is = "right" /\ was.at = places[k - 1] /\ was.parts = so
      BY <3>2 DEF so
    <3>31. value = Quoted(line, was.at)
      BY <3>6 DEF value
    <3>7. NextValue(line, was) = [is |-> "right", at |-> places[k], parts |-> Append(so, parts[k])]
      BY <3>3, <3>31, <3>5, <3>6 DEF NextValue
    <3> QED
      BY <2>1, <2>2, <3>4, <3>7 DEF Round, so, was
  <2>3. CASE k > n /\ n <= MaxArgs
    <3>1. was = [is |-> "right", at |-> places[n], parts |-> parts]
      <4>1. CASE k - 1 <= n
        <5>1. k - 1 = n /\ SubSeq(parts, 1, n) = parts
          BY <1>2, <2>1, <2>3, <4>1
        <5> QED
          BY <1>3, <2>1, <4>1, <5>1 DEF Round
      <4>2. CASE ~(k - 1 <= n)
        BY <1>3, <2>3, <4>2 DEF Round
      <4> QED
        BY <4>1, <4>2
    <3>2. NextValue(line, was) = was
      BY <3>1 DEF NextValue
    <3>3. ~(k <= n)
      BY <1>2, <2>1, <2>3
    <3> QED
      BY <2>1, <2>3, <3>1, <3>2, <3>3 DEF Round
  <2>4. CASE n > MaxArgs /\ k > MaxArgs
    <3>1. k - 1 = MaxArgs /\ k = MaxArgs + 1 /\ k \in 1..Len(parts) /\ k - 1 <= n /\ ~(k <= MaxArgs)
      BY <1>2, <2>1, <2>4
    <3>2. was = [is |-> "right", at |-> places[MaxArgs], parts |-> SubSeq(parts, 1, MaxArgs)]
      BY <1>3, <2>1, <3>1 DEF Round
    <3>3. Quoted(line, places[MaxArgs]).is = "right"
      <4> DEFINE value == Quoted(line, places[k - 1])
      <4>0. value = [is |-> "right", text |-> parts[k], next |-> places[k]]
        BY <3>1
      <4> HIDE DEF value
      <4>1. value.is = "right"
        BY <4>0
      <4> QED
        BY <3>1, <4>1 DEF value
    <3> DEFINE so == SubSeq(parts, 1, MaxArgs)
    <3>4. Len(so) = MaxArgs
      BY <1>2, <2>4
    <3> HIDE DEF so, was
    <3>5. was = [is |-> "right", at |-> places[MaxArgs], parts |-> so]
      BY <3>2 DEF so
    <3>6. NextValue(line, was) = [is |-> "wrong", at |-> places[MaxArgs], parts |-> so]
      BY <3>3, <3>4, <3>5 DEF NextValue
    <3>7. ~(n <= MaxArgs)
      BY <1>2, <2>4
    <3> QED
      BY <2>1, <3>1, <3>6, <3>7 DEF Round, so, was
  <2>5. (k <= n /\ k <= MaxArgs) \/ (k > n /\ n <= MaxArgs) \/ (n > MaxArgs /\ k > MaxArgs)
    BY <1>2, <2>1
  <2> QED
    BY <2>2, <2>3, <2>4, <2>5
<1>4. \A k \in 1..(MaxArgs + 1) :
        f[k - 1] = Round(places, parts, k - 1) => f[k] = Round(places, parts, k)
  BY <1>3
<1> HIDE DEF n
<1> QED
  BY <1>1, <1>4, Rounds DEF AllOf

LEMMA VariablesAre ==
  ASSUME NEW line, NEW V, NEW texts \in Seq(V), NEW places,
         \A k \in 1..Len(texts) :
           /\ Atom(line, places[k - 1]).text = <<"name">>
           /\ Quoted(line, Atom(line, places[k - 1]).next) =
                [is |-> "right", text |-> texts[k], next |-> places[k]],
         ~Found(Atom(line, places[Len(texts)]))
  PROVE  Variables(line, places[0]) =
           AllOf(places, [k \in 1..Len(texts) |-> <<<<"name">>, texts[k]>>])
<1>1. PICK f : /\ f[0] = NothingRead(places[0])
               /\ \A k \in 1..(MaxArgs + 1) : f[k] = NextVariable(line, f[k - 1])
               /\ Variables(line, places[0]) = f[MaxArgs + 1]
  BY VariablesRead
<1> DEFINE n == Len(texts)
           parts == [k \in 1..n |-> <<<<"name">>, texts[k]>>]
           W == {<<<<"name">>, texts[k]>> : k \in 1..n}
<1>2. n \in Nat /\ MaxArgs \in Nat
  BY WireAssumption
<1>20. /\ parts \in Seq(W) /\ Len(parts) = n
       /\ \A k \in 1..n : parts[k] = <<<<"name">>, texts[k]>>
  BY <1>2
<1>21. \A k \in 1..n :
           /\ Atom(line, places[k - 1]).text = <<"name">>
           /\ Quoted(line, Atom(line, places[k - 1]).next) =
                [is |-> "right", text |-> texts[k], next |-> places[k]]
  OBVIOUS
<1>22. ~Found(Atom(line, places[n]))
  OBVIOUS
<1> HIDE DEF n, parts, W
<1>23. <<"name">> # <<>>
  OBVIOUS
<1>3. ASSUME NEW k \in 1..(MaxArgs + 1), f[k - 1] = Round(places, parts, k - 1)
      PROVE  f[k] = Round(places, parts, k)
  <2>1. f[k] = NextVariable(line, f[k - 1]) /\ k \in Nat /\ k - 1 \in Nat /\ k - 1 <= MaxArgs
    BY <1>1, <1>2
  <2> DEFINE was == f[k - 1]
  <2>2. CASE k <= n /\ k <= MaxArgs
    <3>1. k \in 1..n /\ k - 1 <= n /\ k - 1 \in 0..(n - 1) /\ k - 1 < MaxArgs
      BY <1>2, <2>1, <2>2
    <3>2. was = [is |-> "right", at |-> places[k - 1], parts |-> SubSeq(parts, 1, k - 1)]
      BY <1>3, <1>20, <2>1, <3>1 DEF Round
    <3>4. Append(SubSeq(parts, 1, k - 1), parts[k]) = SubSeq(parts, 1, k)
      <4> DEFINE j == k - 1
      <4>1. j \in 0..(Len(parts) - 1) /\ j + 1 = k
        BY <1>20, <3>1
      <4> HIDE DEF j
      <4>2. Append(SubSeq(parts, 1, j), parts[j + 1]) = SubSeq(parts, 1, j + 1)
        BY <1>20, <4>1, OneMore
      <4> QED
        BY <4>1, <4>2 DEF j
    <3> DEFINE so == SubSeq(parts, 1, k - 1)
    <3>5. Len(so) # MaxArgs
      BY <1>2, <1>20, <3>1
    <3> HIDE DEF so, was
    <3>6. was.is = "right" /\ was.at = places[k - 1] /\ was.parts = so
      BY <3>2 DEF so
    <3> DEFINE name == Atom(line, places[k - 1])
               value == Quoted(line, name.next)
    <3>8. name.text = <<"name">> /\ value.is = "right" /\ value.text = texts[k] /\ value.next = places[k]
      <4>1. name.text = <<"name">> /\ value = [is |-> "right", text |-> texts[k], next |-> places[k]]
        BY <1>21, <3>1, Zenon
      <4> HIDE DEF name, value
      <4> QED
        BY <4>1
    <3>9. name = Atom(line, was.at) /\ value = Quoted(line, Atom(line, was.at).next)
      BY <3>6
    <3> HIDE DEF name, value
    <3>7. NextVariable(line, was) = [is |-> "right", at |-> places[k],
                                     parts |-> Append(so, <<<<"name">>, texts[k]>>)]
      BY <1>23, <3>5, <3>6, <3>8, <3>9 DEF NextVariable, Found
    <3>10. parts[k] = <<<<"name">>, texts[k]>>
      BY <1>20, <3>1
    <3> QED
      BY <1>20, <2>1, <2>2, <3>4, <3>7, <3>10 DEF Round, so, was
  <2>3. CASE k > n /\ n <= MaxArgs
    <3>1. was = [is |-> "right", at |-> places[n], parts |-> parts]
      <4>1. CASE k - 1 <= n
        <5>1. k - 1 = n /\ SubSeq(parts, 1, n) = parts
          BY <1>2, <1>20, <2>1, <2>3, <4>1
        <5> QED
          BY <1>3, <1>20, <2>1, <4>1, <5>1 DEF Round
      <4>2. CASE ~(k - 1 <= n)
        BY <1>3, <1>20, <2>3, <4>2 DEF Round
      <4> QED
        BY <4>1, <4>2
    <3>2. NextVariable(line, was) = was
      BY <1>22, <3>1 DEF NextVariable
    <3>3. ~(k <= n)
      BY <1>2, <2>1, <2>3
    <3> QED
      BY <1>20, <2>1, <2>3, <3>1, <3>2, <3>3 DEF Round
  <2>4. CASE n > MaxArgs /\ k > MaxArgs
    <3>1. k - 1 = MaxArgs /\ k = MaxArgs + 1 /\ k \in 1..n /\ k - 1 <= n /\ ~(k <= MaxArgs)
      BY <1>2, <2>1, <2>4
    <3>2. was = [is |-> "right", at |-> places[MaxArgs], parts |-> SubSeq(parts, 1, MaxArgs)]
      BY <1>3, <1>20, <2>1, <3>1 DEF Round
    <3> DEFINE so == SubSeq(parts, 1, MaxArgs)
               name == Atom(line, places[MaxArgs])
               value == Quoted(line, name.next)
    <3>3. name.text = <<"name">> /\ value.is = "right"
      <4>1. /\ Atom(line, places[k - 1]).text = <<"name">>
            /\ Quoted(line, Atom(line, places[k - 1]).next) =
                 [is |-> "right", text |-> texts[k], next |-> places[k]]
        BY <1>21, <3>1
      <4>2. places[k - 1] = places[MaxArgs]
        BY <3>1
      <4>3. name.text = <<"name">> /\ value = [is |-> "right", text |-> texts[k], next |-> places[k]]
        BY <4>1, <4>2, Zenon
      <4> HIDE DEF name, value
      <4> QED
        BY <4>3
    <3>4. Len(so) = MaxArgs
      BY <1>2, <1>20, <2>4
    <3> HIDE DEF so, was
    <3>5. was = [is |-> "right", at |-> places[MaxArgs], parts |-> so]
      BY <3>2 DEF so
    <3>50. name = Atom(line, was.at) /\ value = Quoted(line, Atom(line, was.at).next)
      BY <3>5
    <3> HIDE DEF name, value
    <3>6. NextVariable(line, was) = [is |-> "wrong", at |-> places[MaxArgs], parts |-> so]
      BY <1>23, <3>3, <3>4, <3>5, <3>50 DEF NextVariable, Found
    <3>7. ~(n <= MaxArgs)
      BY <1>2, <2>4
    <3> QED
      BY <1>20, <2>1, <3>1, <3>6, <3>7 DEF Round, so, was
  <2>5. (k <= n /\ k <= MaxArgs) \/ (k > n /\ n <= MaxArgs) \/ (n > MaxArgs /\ k > MaxArgs)
    BY <1>2, <2>1
  <2> QED
    BY <2>2, <2>3, <2>4, <2>5
<1>4. \A k \in 1..(MaxArgs + 1) :
        f[k - 1] = Round(places, parts, k - 1) => f[k] = Round(places, parts, k)
  BY <1>3
<1>5. Variables(line, places[0]) = AllOf(places, parts)
  BY <1>1, <1>4, <1>20, Rounds DEF AllOf
<1> QED
  BY <1>5 DEF n, parts

(* How many symbols of an argument come before its text's blank. *)
Ahead(m) == IF m.kind = "EVENT" THEN 2 ELSE 0
(* The k-th text as it is written. *)
Word(m, k) == AsWritten(m.texts[k], m.style)

LEMMA MessageIs ==
  ASSUME NEW m, IsMessage(m)
  PROVE  /\ m.kind \in Kinds /\ m.atoms \in Seq(Symbols)
         /\ m.texts \in Seq(Seq(Symbols))
         /\ m.style \in {"entities", "nested", "backslashes", "raw"}
         /\ Len(m.atoms) \in 0..2 /\ Len(m.texts) \in Nat
         /\ \A k \in 1..Len(m.atoms) : m.atoms[k] \in Symbols /\ m.atoms[k] \notin Apart
         /\ \A k \in 1..Len(m.texts) : m.texts[k] \in Seq(Symbols) /\ Tellable(m.texts[k], m.style)
<1>1. /\ m.kind \in Kinds /\ m.atoms \in Seq(Symbols)
      /\ m.texts \in Seq(Seq(Symbols))
      /\ m.style \in {"entities", "nested", "backslashes", "raw"}
  BY DEF IsMessage
<1>2. Len(m.atoms) \in 0..2
  BY <1>1 DEF IsMessage, Kinds
<1>3. DOMAIN m.atoms = 1..Len(m.atoms) /\ DOMAIN m.texts = 1..Len(m.texts) /\ Len(m.texts) \in Nat
  BY <1>1
<1>4. \A k \in 1..Len(m.atoms) : m.atoms[k] \in Symbols /\ m.atoms[k] \notin Apart
  <2>1. \A k \in DOMAIN m.atoms : m.atoms[k] \notin Apart
    BY Zenon DEF IsMessage
  <2> QED
    BY <1>1, <1>3, <2>1
<1>5. \A k \in 1..Len(m.texts) : m.texts[k] \in Seq(Symbols) /\ Tellable(m.texts[k], m.style)
  BY <1>1, <1>3 DEF IsMessage
<1> QED
  BY <1>1, <1>2, <1>3, <1>4, <1>5

LEMMA WordIs ==
  ASSUME NEW m, IsMessage(m), NEW k \in 1..Len(m.texts)
  PROVE  /\ Word(m, k) \in Seq(Symbols)
         /\ Sound(Word(m, k))
         /\ CopyXmlText(Word(m, k)) = m.texts[k]
<1>1. /\ m.texts[k] \in Seq(Symbols) /\ Tellable(m.texts[k], m.style)
      /\ m.style \in {"entities", "nested", "backslashes", "raw"}
  BY MessageIs
<1> QED
  BY <1>1, WrittenText DEF Word

(* One sequence behind another. *)
Behind(r, s, t) ==
  /\ Len(r) = Len(s) + Len(t)
  /\ \A j \in 1..Len(s) : r[j] = s[j]
  /\ \A j \in 1..Len(t) : r[Len(s) + j] = t[j]

LEMMA Join ==
  ASSUME NEW V, NEW s \in Seq(V), NEW t \in Seq(V)
  PROVE  s \o t \in Seq(V) /\ Behind(s \o t, s, t)
<1> DEFINE r == s \o t
<1>1. /\ r \in Seq(V)
      /\ Len(s) \in Nat /\ Len(t) \in Nat /\ Len(r) = Len(s) + Len(t)
      /\ \A j \in 1..Len(s) : r[j] = s[j]
      /\ \A j \in 1..Len(t) : Len(s) + j \in 1..Len(r) /\ r[Len(s) + j] = t[j]
  BY TwoParts
<1> HIDE DEF r
<1>2. Behind(r, s, t)
  BY <1>1 DEF Behind
<1> QED
  BY <1>1, <1>2 DEF r

LEMMA InQuotesIs ==
  ASSUME NEW w \in Seq(Symbols)
  PROVE  /\ InQuotes(w) \in Seq(Symbols) /\ Len(InQuotes(w)) = Len(w) + 2
         /\ InQuotes(w)[1] = Quote /\ InQuotes(w)[Len(w) + 2] = Quote
         /\ \A j \in 1..Len(w) : InQuotes(w)[1 + j] = w[j]
<1> DEFINE q == <<Quote>>
           n == Len(w)
           r == q \o w
           s == r \o q
<1>1. q \in Seq(Symbols) /\ Len(q) = 1 /\ q[1] = Quote /\ n \in Nat
  BY SymbolsAre
<1>2. /\ r \in Seq(Symbols) /\ Len(r) = 1 + n /\ r[1] = Quote
      /\ \A j \in 1..n : r[1 + j] = w[j]
  <2>1. r \in Seq(Symbols) /\ Behind(r, q, w)
    BY <1>1, Join
  <2> HIDE DEF q, r
  <2> QED
    BY <1>1, <2>1 DEF Behind
<1>3. s = InQuotes(w)
  BY DEF InQuotes
<1>4. /\ s \in Seq(Symbols) /\ Len(s) = (1 + n) + 1
      /\ \A j \in 1..(1 + n) : s[j] = r[j]
      /\ s[(1 + n) + 1] = Quote
  <2>1. s \in Seq(Symbols) /\ Behind(s, r, q)
    BY <1>1, <1>2, Join
  <2> HIDE DEF q, r, s
  <2> QED
    BY <1>1, <1>2, <2>1 DEF Behind
<1> HIDE DEF q, r, s
<1>5. \A j \in 1..n : s[1 + j] = w[j]
  <2> TAKE j \in 1..n
  <2>1. 1 + j \in 1..(1 + n)
    BY <1>1
  <2> QED
    BY <1>2, <1>4, <2>1
<1>6. 1 \in 1..(1 + n) /\ (1 + n) + 1 = n + 2
  BY <1>1
<1> QED
  BY <1>2, <1>3, <1>4, <1>5, <1>6 DEF n

(* What an argument is made of. *)
ArgumentHas(a, p, w) ==
  /\ a \in Seq(Symbols) /\ Len(a) = p + 3 + Len(w)
  /\ a[p + 1] = Blank /\ a[p + 2] = Quote /\ a[p + 3 + Len(w)] = Quote
  /\ \A j \in 1..Len(w) : a[p + 2 + j] = w[j]
  /\ p = 2 => a[1] = Blank /\ a[2] = "name"

LEMMA ArgumentIs ==
  ASSUME NEW m, IsMessage(m), NEW k \in 1..Len(m.texts)
  PROVE  ArgumentHas(Argument(m, k), Ahead(m), Word(m, k))
<1> DEFINE w == Word(m, k)
           n == Len(w)
           x == IF m.kind = "EVENT" THEN <<Blank, "name">> ELSE <<>>
           b == <<Blank>>
           q == InQuotes(w)
           y == x \o b
           a == y \o q
           p == Ahead(m)
<1>1. w \in Seq(Symbols) /\ n \in Nat
  BY WordIs
<1>2. a = Argument(m, k)
  BY DEF Argument, Word
<1>3. /\ q \in Seq(Symbols) /\ Len(q) = n + 2 /\ q[1] = Quote /\ q[n + 2] = Quote
      /\ \A j \in 1..n : q[1 + j] = w[j]
  BY <1>1, InQuotesIs
<1>4. b \in Seq(Symbols) /\ Len(b) = 1 /\ b[1] = Blank
  BY SymbolsAre
<1>5. /\ x \in Seq(Symbols) /\ p \in {0, 2} /\ Len(x) = p
      /\ p = 2 => x[1] = Blank /\ x[2] = "name"
  BY SymbolsAre DEF Ahead
<1> HIDE DEF w, n, x, b, q, p
<1>6. /\ y \in Seq(Symbols) /\ Len(y) = p + 1 /\ y[p + 1] = Blank
      /\ p = 2 => y[1] = Blank /\ y[2] = "name"
  <2>1. y \in Seq(Symbols) /\ Behind(y, x, b)
    BY <1>4, <1>5, Join
  <2> HIDE DEF y
  <2> QED
    BY <1>4, <1>5, <2>1 DEF Behind
<1>7. /\ a \in Seq(Symbols) /\ Len(a) = (p + 1) + (n + 2)
      /\ \A j \in 1..(p + 1) : a[j] = y[j]
      /\ \A j \in 1..(n + 2) : a[(p + 1) + j] = q[j]
  <2>1. a \in Seq(Symbols) /\ Behind(a, y, q)
    BY <1>3, <1>6, Join
  <2> HIDE DEF y, a
  <2> QED
    BY <1>3, <1>6, <2>1 DEF Behind
<1> HIDE DEF y, a
<1>8. a[p + 1] = Blank /\ (p = 2 => a[1] = Blank /\ a[2] = "name")
  BY <1>5, <1>6, <1>7
<1>9. a[p + 2] = Quote
  <2>1. 1 \in 1..(n + 2) /\ (p + 1) + 1 = p + 2
    BY <1>1, <1>5
  <2> QED
    BY <1>3, <1>7, <2>1
<1>10. a[p + 3 + n] = Quote
  <2>1. n + 2 \in 1..(n + 2) /\ (p + 1) + (n + 2) = p + 3 + n
    BY <1>1, <1>5
  <2> QED
    BY <1>3, <1>7, <2>1
<1>11. ASSUME NEW j \in 1..n PROVE a[p + 2 + j] = w[j]
  <2>1. 1 + j \in 1..(n + 2) /\ (p + 1) + (1 + j) = p + 2 + j
    BY <1>1, <1>5
  <2> QED
    BY <1>3, <1>7, <2>1
<1>12. Len(a) = p + 3 + n
  BY <1>1, <1>5, <1>7
<1>13. ArgumentHas(a, p, w)
  BY <1>7, <1>8, <1>9, <1>10, <1>11, <1>12 DEF ArgumentHas, n
<1> QED
  BY <1>2, <1>13 DEF p, w

(* Where a line's atoms are, and how far its arguments reach. *)
AtomsAt(line, m) ==
  /\ line \in Seq(Symbols) /\ 2 * Len(m.atoms) + 1 <= Len(line)
  /\ line[1] = m.kind
  /\ \A k \in 1..Len(m.atoms) : line[2 * k] = Blank /\ line[2 * k + 1] = m.atoms[k]

(* The arguments lie one behind the other, the k-th up to o[k]. *)
ArgumentsAt(line, m, o) ==
  /\ o \in [0..Len(m.texts) -> Nat]
  /\ o[0] = 2 * Len(m.atoms) + 1 /\ o[Len(m.texts)] = Len(line)
  /\ \A k \in 1..Len(m.texts) :
       /\ o[k] = o[k - 1] + Len(Argument(m, k))
       /\ o[k] <= Len(line)
       /\ \A j \in 1..Len(Argument(m, k)) : line[o[k - 1] + j] = Argument(m, k)[j]

LEMMA AtomsAre ==
  ASSUME NEW atoms \in Seq(Symbols), Len(atoms) \in 0..2
  PROVE  LET all == Concat([i \in DOMAIN atoms |-> <<Blank, atoms[i]>>])
         IN  /\ all \in Seq(Symbols) /\ Len(all) = 2 * Len(atoms)
             /\ \A k \in 1..Len(atoms) : all[2 * k - 1] = Blank /\ all[2 * k] = atoms[k]
<1> DEFINE n == Len(atoms)
           A == [i \in DOMAIN atoms |-> <<Blank, atoms[i]>>]
           all == Concat(A)
<1>1. n \in 0..2 /\ DOMAIN atoms = 1..n /\ Blank \in Symbols
  BY SymbolsAre
<1>2. \A k \in 1..n : <<Blank, atoms[k]>> \in Seq(Symbols)
  BY <1>1
<1>3. A \in Seq(Seq(Symbols)) /\ Len(A) = n /\ \A k \in 1..n : A[k] = <<Blank, atoms[k]>>
  BY <1>1, <1>2
<1>4. \A k \in 1..n : Len(A[k]) = 2 /\ A[k][1] = Blank /\ A[k][2] = atoms[k]
  BY <1>3
<1>5. all \in Seq(Symbols)
  BY <1>3, ConcatType
<1>6. PICK o : Offsets(o, A)
  BY <1>3, OffsetsExist
<1>7. o[0] = 0 /\ o[n] = Len(all)
  BY <1>3, <1>6 DEF Offsets
<1>8. \A k \in 1..n : o[k] = o[k - 1] + 2
                      /\ all[o[k - 1] + 1] = Blank /\ all[o[k - 1] + 2] = atoms[k]
  <2> TAKE k \in 1..n
  <2>1. o[k] = o[k - 1] + Len(A[k]) /\ \A j \in 1..Len(A[k]) : Concat(A)[o[k - 1] + j] = A[k][j]
    BY <1>3, <1>6 DEF Offsets
  <2>2. Len(A[k]) = 2 /\ A[k][1] = Blank /\ A[k][2] = atoms[k]
    BY <1>4
  <2>3. 1 \in 1..2 /\ 2 \in 1..2
    OBVIOUS
  <2> HIDE DEF A, n
  <2> QED
    BY <2>1, <2>2, <2>3
<1> HIDE DEF n, A, all
<1>9. \A k \in 0..n : o[k] = 2 * k
  <2>1. 1 <= n => o[1] = 2
    <3> SUFFICES ASSUME 1 <= n PROVE o[1] = 2
      OBVIOUS
    <3>1. 1 \in 1..n /\ 1 - 1 = 0
      BY <1>1
    <3> QED
      BY <1>7, <1>8, <3>1
  <2>2. 2 <= n => o[2] = 4
    <3> SUFFICES ASSUME 2 <= n PROVE o[2] = 4
      OBVIOUS
    <3>1. 2 \in 1..n /\ 2 - 1 = 1 /\ 1 <= n
      BY <1>1
    <3> QED
      BY <1>8, <2>1, <3>1
  <2> QED
    BY <1>1, <1>7, <2>1, <2>2
<1>10. ASSUME NEW k \in 1..n PROVE all[2 * k - 1] = Blank /\ all[2 * k] = atoms[k]
  <2>1. k - 1 \in 0..n /\ 2 * (k - 1) + 1 = 2 * k - 1 /\ 2 * (k - 1) + 2 = 2 * k
    BY <1>1
  <2>2. o[k - 1] = 2 * (k - 1)
    BY <1>9, <2>1
  <2> QED
    BY <1>8, <2>1, <2>2
<1>11. Len(all) = 2 * n
  <2>1. n \in 0..n
    BY <1>1
  <2> QED
    BY <1>7, <1>9, <2>1
<1> QED
  BY <1>5, <1>10, <1>11 DEF all, A, n

LEMMA LineIs ==
  ASSUME NEW m, IsMessage(m)
  PROVE  AtomsAt(Body(m), m) /\ \E o : ArgumentsAt(Body(m), m, o)
<1> DEFINE na == Len(m.atoms)
           n == Len(m.texts)
           c == <<m.kind>>
           atoms == Concat([i \in DOMAIN m.atoms |-> <<Blank, m.atoms[i]>>])
           G == [i \in DOMAIN m.texts |-> Argument(m, i)]
           args == Concat(G)
           front == c \o atoms
           line == front \o args
<1>0. line = Body(m)
  BY DEF Body
<1>1. c \in Seq(Symbols) /\ Len(c) = 1 /\ c[1] = m.kind
  BY MessageIs, SymbolsAre
<1>2. /\ atoms \in Seq(Symbols) /\ Len(atoms) = 2 * na
      /\ \A k \in 1..na : atoms[2 * k - 1] = Blank /\ atoms[2 * k] = m.atoms[k]
  BY MessageIs, AtomsAre
<1>3. na \in 0..2 /\ n \in Nat /\ DOMAIN m.texts = 1..n
  BY MessageIs
<1>4. \A k \in 1..n : Argument(m, k) \in Seq(Symbols)
  BY ArgumentIs DEF ArgumentHas
<1>5. G \in Seq(Seq(Symbols)) /\ Len(G) = n /\ \A k \in 1..n : G[k] = Argument(m, k)
  BY <1>3, <1>4
<1>6. args \in Seq(Symbols)
  BY <1>5, ConcatType
<1>7. PICK o : Offsets(o, G)
  BY <1>5, OffsetsExist
<1>8. /\ o \in [0..n -> Nat] /\ o[0] = 0 /\ o[n] = Len(args)
      /\ \A k \in 1..n :
           /\ o[k] = o[k - 1] + Len(Argument(m, k))
           /\ o[k] <= Len(args)
           /\ \A j \in 1..Len(Argument(m, k)) : args[o[k - 1] + j] = Argument(m, k)[j]
  <2>1. o \in [0..n -> Nat] /\ o[0] = 0 /\ o[n] = Len(args)
    BY <1>5, <1>7 DEF Offsets
  <2>2. ASSUME NEW k \in 1..n
        PROVE  /\ o[k] = o[k - 1] + Len(Argument(m, k))
               /\ o[k] <= Len(args)
               /\ \A j \in 1..Len(Argument(m, k)) : args[o[k - 1] + j] = Argument(m, k)[j]
    <3> DEFINE a == Argument(m, k)
    <3>1. k \in 1..Len(G) /\ G[k] = a
      BY <1>5
    <3> HIDE DEF G, a
    <3>2. /\ o[k] = o[k - 1] + Len(G[k])
          /\ o[k] <= Len(args)
          /\ \A j \in 1..Len(G[k]) : args[o[k - 1] + j] = G[k][j]
      BY <1>7, <3>1, Zenon DEF Offsets
    <3> QED
      BY <3>1, <3>2, Zenon DEF a
  <2> QED
    BY <2>1, <2>2
<1> HIDE DEF c, atoms, args, n, na, G
<1>9. front \in Seq(Symbols) /\ Behind(front, c, atoms)
  BY <1>1, <1>2, Join
<1> HIDE DEF front
<1>10. line \in Seq(Symbols) /\ Behind(line, front, args)
  BY <1>6, <1>9, Join
<1> HIDE DEF line
<1> DEFINE a == 2 * na + 1
<1>11. a \in Nat \ {0} /\ Len(front) = a /\ Len(args) \in Nat /\ Len(line) = a + Len(args)
  BY <1>1, <1>2, <1>3, <1>6, <1>9, <1>10 DEF Behind
<1>12. \A j \in 1..a : line[j] = front[j]
  BY <1>10, <1>11 DEF Behind
<1>13. \A j \in 1..Len(args) : line[a + j] = args[j]
  BY <1>10, <1>11 DEF Behind
<1>14. \A j \in 1..(2 * na) : front[1 + j] = atoms[j]
  BY <1>1, <1>2, <1>9 DEF Behind
<1>15. line[1] = m.kind
  <2>1. 1 \in 1..1 /\ 1 \in 1..a
    BY <1>11
  <2> QED
    BY <1>1, <1>9, <1>12, <2>1 DEF Behind
<1>16. ASSUME NEW k \in 1..na PROVE line[2 * k] = Blank /\ line[2 * k + 1] = m.atoms[k]
  <2>1. /\ 2 * k - 1 \in 1..(2 * na) /\ 2 * k \in 1..(2 * na)
        /\ 1 + (2 * k - 1) = 2 * k /\ 1 + 2 * k = 2 * k + 1
        /\ 2 * k \in 1..a /\ 2 * k + 1 \in 1..a
    BY <1>3
  <2>2. front[2 * k] = Blank
    BY <1>2, <1>14, <2>1
  <2>3. front[2 * k + 1] = m.atoms[k]
    BY <1>2, <1>14, <2>1
  <2> QED
    BY <1>12, <2>1, <2>2, <2>3
<1>17. AtomsAt(line, m)
  BY <1>10, <1>11, <1>15, <1>16, SMTT(30) DEF AtomsAt, na
<1> DEFINE p == [k \in 0..n |-> a + o[k]]
<1>18. p \in [0..n -> Nat] /\ \A k \in 0..n : p[k] = a + o[k]
  BY <1>8, <1>11
<1> HIDE DEF p, a
<1>19. p[0] = a /\ p[n] = Len(line)
  <2>1. 0 \in 0..n /\ n \in 0..n
    BY <1>3
  <2>2. p[0] = a + o[0] /\ p[n] = a + o[n]
    BY <1>18, <2>1
  <2>3. o[0] = 0 /\ o[n] = Len(args)
    BY <1>8
  <2> QED
    BY <1>11, <2>2, <2>3
<1>20. ASSUME NEW k \in 1..n
       PROVE  /\ p[k] = p[k - 1] + Len(Argument(m, k))
              /\ p[k] <= Len(line)
              /\ \A j \in 1..Len(Argument(m, k)) : line[p[k - 1] + j] = Argument(m, k)[j]
  <2> DEFINE g == Argument(m, k)
             u == o[k - 1]
             v == o[k]
             lg == Len(g)
  <2>1. k \in 0..n /\ k - 1 \in 0..n
    BY <1>3
  <2>2. v = u + lg /\ v <= Len(args) /\ u \in Nat /\ v \in Nat /\ lg \in Nat
    BY <1>4, <1>8, <2>1
  <2>3. \A j \in 1..lg : args[u + j] = g[j]
    BY <1>8
  <2>4. p[k] = a + v /\ p[k - 1] = a + u
    BY <1>18, <2>1
  <2> HIDE DEF u, v, lg, g
  <2>5. p[k] = p[k - 1] + lg /\ p[k] <= Len(line)
    BY <1>11, <2>2, <2>4
  <2>6. ASSUME NEW j \in 1..lg PROVE line[p[k - 1] + j] = g[j]
    <3>1. u + j \in 1..Len(args) /\ a + (u + j) = p[k - 1] + j
      BY <1>11, <2>2, <2>4
    <3> QED
      BY <1>13, <2>3, <3>1
  <2> QED
    BY <2>5, <2>6 DEF g, lg
<1>21. ArgumentsAt(line, m, p)
  BY <1>18, <1>19, <1>20 DEF ArgumentsAt, a, n, na
<1> QED
  BY <1>0, <1>17, <1>21

(* An argument's text is found. *)
TextIsAt(line, m, o, k) ==
  /\ o[k - 1] \in Nat /\ o[k] \in Nat /\ o[k - 1] + 1 \in 1..Len(line)
  /\ line[o[k - 1] + 1] = Blank
  /\ Ahead(m) = 2 => line[o[k - 1] + 2] = "name" /\ line[o[k - 1] + 3] = Blank
  /\ Quoted(line, o[k - 1] + 1 + Ahead(m)) =
       [is |-> "right", text |-> Word(m, k), next |-> o[k] + 1]

LEMMA TextsAreThere ==
  ASSUME NEW m, IsMessage(m), NEW line, NEW o, AtomsAt(line, m), ArgumentsAt(line, m, o),
         NEW k \in 1..Len(m.texts)
  PROVE  TextIsAt(line, m, o, k)
<1> DEFINE n == Len(m.texts)
           w == Word(m, k)
           a == Argument(m, k)
           p == Ahead(m)
           l == Len(w)
           u == o[k - 1]
           v == o[k]
           i == u + 1 + p
<1>1. n \in Nat /\ k \in 1..n
  BY MessageIs
<1>2. w \in Seq(Symbols) /\ Sound(w) /\ l \in Nat
  BY WordIs
<1>3. ArgumentHas(a, p, w)
  BY ArgumentIs
<1>4. p \in {0, 2}
  BY DEF Ahead
<1>5. u \in Nat /\ v \in Nat /\ o[n] = Len(line)
  <2>1. k - 1 \in 0..n /\ k \in 0..n
    BY <1>1
  <2> QED
    BY <2>1 DEF ArgumentsAt
<1>6. v = u + Len(a) /\ v <= Len(line) /\ \A j \in 1..Len(a) : line[u + j] = a[j]
  BY DEF ArgumentsAt
<1>7. line \in Seq(Symbols) /\ Len(line) \in Nat
  BY DEF AtomsAt
<1> HIDE DEF w, a, p, l, u, v
<1>8. /\ Len(a) = p + 3 + l
      /\ a[p + 1] = Blank /\ a[p + 2] = Quote /\ a[p + 3 + l] = Quote
      /\ \A j \in 1..l : a[p + 2 + j] = w[j]
      /\ p = 2 => a[1] = Blank /\ a[2] = "name"
  BY <1>3 DEF ArgumentHas, l
<1>9. \A j \in 1..(p + 3 + l) : line[u + j] = a[j]
  BY <1>6, <1>8
<1>10. v = u + (p + 3 + l)
  BY <1>6, <1>8
<1> DEFINE HasBlank == line[u + 1] = Blank /\ (p = 2 => line[u + 2] = "name" /\ line[u + 3] = Blank)
<1>11. HasBlank
  <2>1. 1 \in 1..(p + 3 + l) /\ (p = 2 => 2 \in 1..(p + 3 + l) /\ 3 \in 1..(p + 3 + l) /\ p + 1 = 3)
        /\ (p = 0 => p + 1 = 1)
    BY <1>2, <1>4
  <2> QED
    BY <1>4, <1>8, <1>9, <2>1
<1>12. line[i] = Blank /\ line[i + 1] = Quote
  <2>1. p + 1 \in 1..(p + 3 + l) /\ p + 2 \in 1..(p + 3 + l) /\ u + (p + 1) = i /\ u + (p + 2) = i + 1
    BY <1>2, <1>4, <1>5
  <2> HIDE DEF i
  <2> QED
    BY <1>8, <1>9, <2>1
<1>13. i + 2 + l = v /\ i + 3 + l = v + 1 /\ i \in Nat \ {0}
  BY <1>2, <1>4, <1>5, <1>10
<1>14. line[v] = Quote
  <2>1. p + 3 + l \in 1..(p + 3 + l)
    BY <1>2, <1>4
  <2> QED
    BY <1>8, <1>9, <1>10, <2>1
<1>15. Holds(line, i + 2, w)
  <2>1. (i + 2) + l <= Len(line) + 1
    BY <1>2, <1>5, <1>6, <1>7, <1>13
  <2>2. ASSUME NEW j \in 1..l PROVE line[(i + 2) + j - 1] = w[j]
    <3>1. p + 2 + j \in 1..(p + 3 + l) /\ u + (p + 2 + j) = (i + 2) + j - 1
      BY <1>2, <1>4, <1>5
    <3> HIDE DEF i
    <3> QED
      BY <1>8, <1>9, <3>1
  <2> HIDE DEF i
  <2> QED
    BY <2>1, <2>2 DEF Holds, l
<1>16. v = Len(line) \/ line[v + 1] = Blank
  <2>1. CASE k = n
    BY <1>5, <2>1 DEF v
  <2>2. CASE k # n
    <3> DEFINE b == Argument(m, k + 1)
    <3>1. k + 1 \in 1..Len(m.texts) /\ (k + 1) - 1 = k
      BY <1>1, <2>2
    <3>2. ArgumentHas(b, p, Word(m, k + 1)) /\ Word(m, k + 1) \in Seq(Symbols)
      BY <3>1, ArgumentIs, WordIs DEF p
    <3>3. \A j \in 1..Len(b) : line[v + j] = b[j]
      <4>1. \A j \in 1..Len(b) : line[o[(k + 1) - 1] + j] = b[j]
        BY <3>1 DEF ArgumentsAt
      <4> HIDE DEF b
      <4> QED
        BY <3>1, <4>1 DEF v
    <3> HIDE DEF b
    <3>4. 1 \in 1..Len(b) /\ b[1] = Blank
      BY <1>4, <3>2 DEF ArgumentHas
    <3> QED
      BY <3>3, <3>4
  <2> QED
    BY <2>1, <2>2
<1>17. u + 1 \in 1..Len(line)
  BY <1>2, <1>4, <1>5, <1>6, <1>7, <1>10, SMTT(30)
<1>18. QuotedAt(line, i, w)
  <2> HIDE DEF i
  <2> QED
    BY <1>6, <1>12, <1>13, <1>14, <1>15, <1>16 DEF QuotedAt, l
<1>19. Quoted(line, i) = [is |-> "right", text |-> w, next |-> i + 3 + l]
  <2> HIDE DEF i
  <2> QED
    BY <1>2, <1>7, <1>13, <1>18, QuotedIs DEF l
<1>20. Quoted(line, i) = [is |-> "right", text |-> w, next |-> v + 1]
  BY <1>13, <1>19
<1> HIDE DEF i
<1> QED
  BY <1>5, <1>11, <1>17, <1>20 DEF i, p, u, v, w, TextIsAt

(* Every atom is found, and the kind is the first. *)
LEMMA AtomsAreThere ==
  ASSUME NEW m, IsMessage(m), NEW line, NEW o, AtomsAt(line, m), ArgumentsAt(line, m, o)
  PROVE  /\ Atom(line, 1) = [text |-> <<m.kind>>, next |-> 2]
         /\ \A k \in 1..Len(m.atoms) :
              Atom(line, 2 * k) = [text |-> <<m.atoms[k]>>, next |-> 2 * k + 2]
<1> DEFINE na == Len(m.atoms)
           n == Len(m.texts)
           l == Len(line)
<1>1. /\ na \in 0..2 /\ n \in Nat /\ m.kind \in Kinds
      /\ \A k \in 1..na : m.atoms[k] \in Symbols /\ m.atoms[k] \notin Apart
  BY MessageIs
<1>2. /\ line \in Seq(Symbols) /\ l \in Nat /\ 2 * na + 1 <= l
      /\ line[1] = m.kind
      /\ \A k \in 1..na : line[2 * k] = Blank /\ line[2 * k + 1] = m.atoms[k]
  BY DEF AtomsAt
<1>3. /\ o[0] = 2 * na + 1 /\ o[n] = l
  BY DEF ArgumentsAt
<1>4. n # 0 => line[2 * na + 2] = Blank
  <2> SUFFICES ASSUME n # 0 PROVE line[2 * na + 2] = Blank
    OBVIOUS
  <2>1. 1 \in 1..Len(m.texts) /\ 1 - 1 = 0
    BY <1>1
  <2>2. TextIsAt(line, m, o, 1)
    BY <2>1, TextsAreThere
  <2>3. line[o[1 - 1] + 1] = Blank
    BY <2>2, Zenon DEF TextIsAt
  <2>4. o[1 - 1] + 1 = 2 * na + 2
    BY <1>1, <1>3, <2>1
  <2> QED
    BY <2>3, <2>4
<1> HIDE DEF na, n, l
(* Behind each comes a blank, if anything. *)
<1>5. ASSUME NEW k \in 0..na PROVE 2 * k + 1 = l \/ line[2 * k + 2] = Blank
  <2>1. CASE k = na
    BY <1>3, <1>4, <2>1
  <2>2. CASE k # na
    <3>1. k + 1 \in 1..na /\ 2 * (k + 1) = 2 * k + 2
      BY <1>1, <2>2
    <3> QED
      BY <1>2, <3>1
  <2> QED
    BY <2>1, <2>2
<1>6. Atom(line, 1) = [text |-> <<m.kind>>, next |-> 2]
  <2>1. m.kind \notin {Quote, Blank}
    BY <1>1 DEF Kinds, Quote, Blank
  <2>2. 1 \in 1..(Len(line) + 1) /\ 1 \in 1..Len(line) /\ \A j \in 1..(1 - 1) : FALSE
    BY <1>1, <1>2 DEF l
  <2>3. SkipBlanks(line, 1) = 1
    <3>1. line[1] # Blank
      BY <1>2, <2>1
    <3>2. 1 \in 1..(Len(line) + 1) /\ \A j \in 1..(1 - 1) : line[j] = Blank
      BY <2>2
    <3> QED
      BY <1>2, <2>2, <3>1, <3>2, SkipsTo
  <2>4. 1 = Len(line) \/ line[1 + 1] = Blank
    <3>1. 0 \in 0..na /\ 2 * 0 + 1 = 1 /\ 2 * 0 + 2 = 1 + 1
      BY <1>1
    <3>2. 2 * 0 + 1 = l \/ line[2 * 0 + 2] = Blank
      BY <1>5, <3>1
    <3> QED
      BY <3>1, <3>2 DEF l
  <2>5. Atom(line, 1) = [text |-> <<line[1]>>, next |-> 1 + 1]
    BY <1>2, <2>1, <2>2, <2>3, <2>4, AtomIs
  <2> QED
    BY <1>2, <2>5
<1>7. ASSUME NEW k \in 1..na
      PROVE  Atom(line, 2 * k) = [text |-> <<m.atoms[k]>>, next |-> 2 * k + 2]
  <2> DEFINE i == 2 * k
             at == 2 * k + 1
  <2>1. line[i] = Blank /\ line[at] = m.atoms[k]
    BY <1>2
  <2>2. m.atoms[k] \notin {Quote, Blank}
    BY <1>1 DEF Apart
  <2>3. i \in 1..(Len(line) + 1) /\ at \in i..(Len(line) + 1) /\ at \in 1..Len(line) /\ at - 1 = i
        /\ at + 1 = 2 * k + 2
    BY <1>1, <1>2 DEF l
  <2>4. at = Len(line) \/ line[at + 1] = Blank
    <3>1. k \in 0..na
      BY <1>1
    <3>2. at = l \/ line[2 * k + 2] = Blank
      BY <1>5, <3>1
    <3> QED
      BY <2>3, <3>2 DEF l
  <2> HIDE DEF i, at
  <2>5. \A j \in i..(at - 1) : line[j] = Blank
    BY <2>1, <2>3
  <2>6. SkipBlanks(line, i) = at
    BY <1>2, <2>1, <2>2, <2>3, <2>5, SkipsTo
  <2>7. Atom(line, i) = [text |-> <<line[at]>>, next |-> at + 1]
    BY <1>2, <2>1, <2>2, <2>3, <2>4, <2>6, AtomIs
  <2> QED
    BY <2>1, <2>3, <2>7 DEF i
<1> QED
  BY <1>6, <1>7 DEF na

(* What a line's values and variables are. *)
Places(m, o) == [k \in 0..Len(m.texts) |-> o[k] + 1]
InOrder(m) == [k \in 1..Len(m.texts) |-> Word(m, k)]

LEMMA PlacesAre ==
  ASSUME NEW m, IsMessage(m), NEW line, NEW o, AtomsAt(line, m), ArgumentsAt(line, m, o)
  PROVE  /\ \A k \in 0..Len(m.texts) : Places(m, o)[k] = o[k] + 1
         /\ Places(m, o)[0] = 2 * Len(m.atoms) + 2
         /\ Places(m, o)[Len(m.texts)] = Len(line) + 1
         /\ InOrder(m) \in Seq(Seq(Symbols)) /\ Len(InOrder(m)) = Len(m.texts)
         /\ \A k \in 1..Len(m.texts) : InOrder(m)[k] = Word(m, k)
<1> DEFINE n == Len(m.texts)
<1>1. n \in Nat /\ Len(m.atoms) \in Nat
  BY MessageIs
<1>2. \A k \in 0..n : Places(m, o)[k] = o[k] + 1
  BY DEF Places
<1>3. 0 \in 0..n /\ n \in 0..n
  BY <1>1
<1>4. o[0] = 2 * Len(m.atoms) + 1 /\ o[n] = Len(line)
  BY DEF ArgumentsAt
<1>5. \A k \in 1..n : Word(m, k) \in Seq(Symbols)
  BY WordIs
<1>6. InOrder(m) \in Seq(Seq(Symbols)) /\ Len(InOrder(m)) = n
  BY <1>1, <1>5 DEF InOrder
<1>7. \A k \in 1..n : InOrder(m)[k] = Word(m, k)
  BY DEF InOrder
<1>8. Places(m, o)[0] = 2 * Len(m.atoms) + 2
  BY <1>1, <1>2, <1>3, <1>4
<1> QED
  BY <1>2, <1>3, <1>4, <1>6, <1>7, <1>8

LEMMA ReadsValues ==
  ASSUME NEW m, IsMessage(m), m.kind # "EVENT",
         NEW line, NEW o, AtomsAt(line, m), ArgumentsAt(line, m, o)
  PROVE  Values(line, 2 * Len(m.atoms) + 2) = AllOf(Places(m, o), InOrder(m))
<1> DEFINE parts == InOrder(m)
           places == Places(m, o)
           n == Len(m.texts)
<1>1. /\ \A k \in 0..n : places[k] = o[k] + 1
      /\ places[0] = 2 * Len(m.atoms) + 2
      /\ places[n] = Len(line) + 1
      /\ parts \in Seq(Seq(Symbols)) /\ Len(parts) = n
      /\ \A k \in 1..n : parts[k] = Word(m, k)
  BY PlacesAre
<1>2. n \in Nat /\ line \in Seq(Symbols)
  BY MessageIs DEF AtomsAt
<1> HIDE DEF parts, places, n
<1>3. ASSUME NEW k \in 1..n
      PROVE  Quoted(line, places[k - 1]) = [is |-> "right", text |-> parts[k], next |-> places[k]]
  <2>1. TextIsAt(line, m, o, k)
    BY TextsAreThere DEF n
  <2>2. o[k - 1] + 1 + 0 = o[k - 1] + 1
    BY <2>1 DEF TextIsAt
  <2>3. Quoted(line, o[k - 1] + 1) = [is |-> "right", text |-> Word(m, k), next |-> o[k] + 1]
    BY <2>1, <2>2 DEF TextIsAt, Ahead
  <2>4. k - 1 \in 0..n /\ k \in 0..n
    BY <1>2
  <2>5. places[k - 1] = o[k - 1] + 1 /\ places[k] = o[k] + 1 /\ parts[k] = Word(m, k)
    BY <1>1, <2>4
  <2> QED
    BY <2>3, <2>5
<1>4. Quoted(line, places[Len(parts)]).is = "nothing"
  BY <1>1, <1>2, NothingAtEnd
<1>5. \A k \in 1..Len(parts) :
        Quoted(line, places[k - 1]) = [is |-> "right", text |-> parts[k], next |-> places[k]]
  BY <1>1, <1>3
<1>6. Values(line, places[0]) = AllOf(places, parts)
  BY <1>1, <1>4, <1>5, ValuesAre
<1> QED
  BY <1>1, <1>6 DEF parts, places

LEMMA ReadsVariables ==
  ASSUME NEW m, IsMessage(m), m.kind = "EVENT",
         NEW line, NEW o, AtomsAt(line, m), ArgumentsAt(line, m, o)
  PROVE  Variables(line, 2 * Len(m.atoms) + 2) =
           AllOf(Places(m, o), [k \in 1..Len(m.texts) |-> <<<<"name">>, InOrder(m)[k]>>])
<1> DEFINE parts == InOrder(m)
           places == Places(m, o)
           n == Len(m.texts)
<1>1. /\ \A k \in 0..n : places[k] = o[k] + 1
      /\ places[0] = 2 * Len(m.atoms) + 2
      /\ places[n] = Len(line) + 1
      /\ parts \in Seq(Seq(Symbols)) /\ Len(parts) = n
      /\ \A k \in 1..n : parts[k] = Word(m, k)
  BY PlacesAre
<1>2. n \in Nat /\ line \in Seq(Symbols)
  BY MessageIs DEF AtomsAt
<1> HIDE DEF parts, places, n
<1>3. ASSUME NEW k \in 1..n
      PROVE  /\ Atom(line, places[k - 1]).text = <<"name">>
             /\ Quoted(line, Atom(line, places[k - 1]).next) =
                  [is |-> "right", text |-> parts[k], next |-> places[k]]
  <2>1. TextIsAt(line, m, o, k)
    BY TextsAreThere DEF n
  <2>2. Ahead(m) = 2
    BY DEF Ahead
  <2>3. Quoted(line, o[k - 1] + 1 + 2) = [is |-> "right", text |-> Word(m, k), next |-> o[k] + 1]
    BY <2>1, <2>2, Zenon DEF TextIsAt
  <2>4. k - 1 \in 0..n /\ k \in 0..n
    BY <1>2
  <2>5. places[k - 1] = o[k - 1] + 1 /\ places[k] = o[k] + 1 /\ parts[k] = Word(m, k)
    BY <1>1, <2>4
  <2> DEFINE i == o[k - 1] + 1
             at == i + 1
  <2>6. /\ o[k - 1] \in Nat /\ o[k] \in Nat /\ i \in 1..Len(line)
        /\ line[i] = Blank /\ line[o[k - 1] + 2] = "name" /\ line[o[k - 1] + 3] = Blank
    BY <2>1, <2>2, Zenon DEF TextIsAt
  <2>7. line[at] = "name" /\ line[at + 1] = Blank /\ at + 1 = o[k - 1] + 1 + 2
    <3>1. at = o[k - 1] + 2 /\ at + 1 = o[k - 1] + 3 /\ at + 1 = o[k - 1] + 1 + 2
      BY <2>6, SMTT(30)
    <3> HIDE DEF at
    <3> QED
      BY <2>6, <3>1
  <2> HIDE DEF at
  <2>8. o[k - 1] + 3 + 0 <= Len(line)
    <3>1. ArgumentHas(Argument(m, k), Ahead(m), Word(m, k)) /\ Word(m, k) \in Seq(Symbols)
      BY ArgumentIs, WordIs DEF n
    <3>2. o[k] = o[k - 1] + Len(Argument(m, k)) /\ o[k] <= Len(line)
      BY DEF ArgumentsAt, n
    <3>3. Len(Argument(m, k)) = 2 + 3 + Len(Word(m, k)) /\ Len(Word(m, k)) \in Nat
      BY <2>2, <3>1 DEF ArgumentHas
    <3> DEFINE x == Len(Argument(m, k))
               y == Len(Word(m, k))
    <3>4. o[k] = o[k - 1] + x /\ x = 2 + 3 + y /\ y \in Nat
      BY <3>2, <3>3
    <3> HIDE DEF x, y
    <3> QED
      BY <1>2, <2>6, <3>2, <3>4
  <2>9. i \in 1..(Len(line) + 1) /\ at \in i..(Len(line) + 1) /\ at \in 1..Len(line) /\ at - 1 = i
    BY <1>2, <2>6, <2>8, SMTT(30) DEF at
  <2> HIDE DEF i
  <2>10. line[at] \notin {Quote, Blank}
    BY <2>7 DEF Quote, Blank
  <2>11. \A j \in i..(at - 1) : line[j] = Blank
    BY <2>6, <2>9
  <2>12. SkipBlanks(line, i) = at
    BY <1>2, <2>9, <2>10, <2>11, SkipsTo
  <2>13. Atom(line, i) = [text |-> <<line[at]>>, next |-> at + 1]
    BY <1>2, <2>7, <2>9, <2>10, <2>12, AtomIs
  <2> DEFINE name == Atom(line, i)
  <2>14. name = Atom(line, places[k - 1])
    BY <2>5 DEF i
  <2>15. name.text = <<"name">> /\ name.next = o[k - 1] + 1 + 2
    <3>1. name = [text |-> <<"name">>, next |-> o[k - 1] + 1 + 2]
      BY <2>7, <2>13
    <3> HIDE DEF name
    <3> QED
      BY <3>1
  <2> HIDE DEF name
  <2> QED
    BY <2>3, <2>5, <2>14, <2>15
<1>4. ~Found(Atom(line, places[Len(parts)]))
  BY <1>1, <1>2, NothingAtEnd
<1>5. \A k \in 1..Len(parts) :
        /\ Atom(line, places[k - 1]).text = <<"name">>
        /\ Quoted(line, Atom(line, places[k - 1]).next) =
             [is |-> "right", text |-> parts[k], next |-> places[k]]
  BY <1>1, <1>3
<1>6. Variables(line, places[0]) = AllOf(places, [k \in 1..Len(parts) |-> <<<<"name">>, parts[k]>>])
  BY <1>1, <1>4, <1>5, VariablesAre
<1> QED
  BY <1>1, <1>6 DEF parts, places, n

(* A message of its kind, and what it says. *)
LEMMA Parsed ==
  ASSUME NEW line, NEW kind \in Kinds, Atom(line, 1) = [text |-> <<kind>>, next |-> 2]
  PROVE  LET first     == Atom(line, 2)
             second    == Atom(line, first.next)
             values    == Values(line, 2)
             variables == Variables(line, second.next)
             why       == Quoted(line, first.next)
         IN  /\ kind = "RESPONSE" => ParseMessage(line) =
                  OnlyIf(values.is = "right" /\ AtEnd(line, values.at), kind, values.parts)
             /\ kind = "EVENT" => ParseMessage(line) =
                  OnlyIf(/\ IsNumber(first) /\ IsNumber(second)
                         /\ variables.is = "right" /\ AtEnd(line, variables.at),
                         kind, variables.parts)
             /\ kind \in {"SUBSCRIBE", "UNSUBSCRIBE"} => ParseMessage(line) =
                  OnlyIf(IsNumber(first) /\ AtEnd(line, first.next), kind, <<>>)
             /\ kind \in {"ALIVE", "BYEBYE"} => ParseMessage(line) =
                  OnlyIf(Found(first) /\ Found(second) /\ AtEnd(line, second.next), kind, <<>>)
             /\ kind = "ERROR" => ParseMessage(line) =
                  OnlyIf(IsNumber(first) /\ why.is = "right" /\ AtEnd(line, why.next), kind, <<>>)
<1> DEFINE command   == Atom(line, 1)
           is        == IF command.text \in {<<k>> : k \in Kinds} THEN command.text[1] ELSE "?"
           first     == Atom(line, command.next)
           second    == Atom(line, first.next)
           values    == Values(line, command.next)
           variables == Variables(line, second.next)
           why       == Quoted(line, first.next)
           a == OnlyIf(values.is = "right" /\ AtEnd(line, values.at), is, values.parts)
           b == OnlyIf(/\ IsNumber(first) /\ IsNumber(second)
                       /\ variables.is = "right" /\ AtEnd(line, variables.at),
                       is, variables.parts)
           c == OnlyIf(IsNumber(first) /\ AtEnd(line, first.next), is, <<>>)
           d == OnlyIf(Found(first) /\ Found(second) /\ AtEnd(line, second.next), is, <<>>)
           e == OnlyIf(IsNumber(first) /\ why.is = "right" /\ AtEnd(line, why.next), is, <<>>)
<1>1. ParseMessage(line) = CASE is = "RESPONSE" -> a
                             [] is = "EVENT" -> b
                             [] is \in {"SUBSCRIBE", "UNSUBSCRIBE"} -> c
                             [] is \in {"ALIVE", "BYEBYE"} -> d
                             [] is = "ERROR" -> e
                             [] is = "?" -> Invalid
  BY Zenon DEF ParseMessage
<1>2. command.next = 2 /\ command.text = <<kind>>
  OBVIOUS
<1>3. is = kind
  <2> HIDE DEF command
  <2>1. command.text \in {<<k>> : k \in Kinds} /\ command.text[1] = kind
    BY <1>2
  <2> QED
    BY <2>1
<1> HIDE DEF is
<1> DEFINE A == a B == b C == c D == d EE == e
<1> HIDE DEF A, B, C, D, EE
<1>4. ParseMessage(line) = CASE is = "RESPONSE" -> A
                             [] is = "EVENT" -> B
                             [] is \in {"SUBSCRIBE", "UNSUBSCRIBE"} -> C
                             [] is \in {"ALIVE", "BYEBYE"} -> D
                             [] is = "ERROR" -> EE
                             [] is = "?" -> Invalid
  BY <1>1, Zenon DEF A, B, C, D, EE
<1>5. /\ is = "RESPONSE" => ParseMessage(line) = A
      /\ is = "EVENT" => ParseMessage(line) = B
      /\ is \in {"SUBSCRIBE", "UNSUBSCRIBE"} => ParseMessage(line) = C
      /\ is \in {"ALIVE", "BYEBYE"} => ParseMessage(line) = D
      /\ is = "ERROR" => ParseMessage(line) = EE
  BY <1>4
<1> QED
  BY <1>2, <1>3, <1>5, Zenon DEF A, B, C, D, EE

(* What a device writes is understood as it was meant; one with too many    *)
(* texts is not understood at all. *)
LEMMA ParsesBack ==
  ASSUME NEW m, IsMessage(m)
  PROVE  IF Len(m.texts) <= MaxArgs
         THEN /\ ParseMessage(Body(m)) # Invalid
              /\ Understood(ParseMessage(Body(m))) = Meant(m)
         ELSE ParseMessage(Body(m)) = Invalid
<1> DEFINE line == Body(m)
           na == Len(m.atoms)
           n == Len(m.texts)
<1>1. PICK o : AtomsAt(line, m) /\ ArgumentsAt(line, m, o)
  BY LineIs
<1>2. /\ m.kind \in Kinds /\ na \in 0..2 /\ n \in Nat /\ MaxArgs \in Nat \ {0}
      /\ m.texts \in Seq(Seq(Symbols))
      /\ \A k \in 1..na : m.atoms[k] \in Symbols /\ m.atoms[k] \notin Apart
  BY MessageIs, WireAssumption
<1>3. na = CASE m.kind = "RESPONSE" -> 0
             [] m.kind \in {"SUBSCRIBE", "UNSUBSCRIBE", "ERROR"} -> 1
             [] m.kind \in {"EVENT", "ALIVE", "BYEBYE"} -> 2
  BY DEF IsMessage
<1>4. m.kind \notin {"RESPONSE", "EVENT"} => n = IF m.kind = "ERROR" THEN 1 ELSE 0
  BY DEF IsMessage
<1>5. m.kind \notin {"ALIVE", "BYEBYE"} => \A k \in 1..na : m.atoms[k] \in Numbers
  <2>1. DOMAIN m.atoms = 1..na
    BY MessageIs
  <2>2. \A k \in DOMAIN m.atoms : m.kind \notin {"ALIVE", "BYEBYE"} => m.atoms[k] \in Numbers
    BY Zenon DEF IsMessage
  <2> QED
    BY <2>1, <2>2
<1>6. /\ Atom(line, 1) = [text |-> <<m.kind>>, next |-> 2]
      /\ \A k \in 1..na : Atom(line, 2 * k) = [text |-> <<m.atoms[k]>>, next |-> 2 * k + 2]
  BY <1>1, AtomsAreThere
<1>7. /\ InOrder(m) \in Seq(Seq(Symbols)) /\ Len(InOrder(m)) = n
      /\ \A k \in 1..n : InOrder(m)[k] = Word(m, k)
      /\ Places(m, o)[n] = Len(line) + 1
      /\ Places(m, o)[0] = 2 * na + 2
      /\ \A k \in 0..n : Places(m, o)[k] = o[k] + 1
  BY <1>1, PlacesAre
<1>8. \A k \in 1..n : CopyXmlText(Word(m, k)) = m.texts[k]
  BY WordIs
<1>9. line \in Seq(Symbols) /\ AtEnd(line, Len(line) + 1)
  BY <1>1, NothingAtEnd DEF AtomsAt
<1>10. o[n] = Len(line) /\ o[0] = 2 * na + 1
  BY <1>1 DEF ArgumentsAt
<1> DEFINE first  == Atom(line, 2)
           second == Atom(line, first.next)
<1>11. na >= 1 => first.text = <<m.atoms[1]>> /\ first.next = 4
  <2> SUFFICES ASSUME na >= 1 PROVE first.text = <<m.atoms[1]>> /\ first.next = 4
    OBVIOUS
  <2>1. 1 \in 1..na /\ 2 * 1 = 2 /\ 2 * 1 + 2 = 4
    BY <1>2
  <2>2. Atom(line, 2 * 1) = [text |-> <<m.atoms[1]>>, next |-> 2 * 1 + 2]
    BY <1>6, <2>1
  <2>3. first = [text |-> <<m.atoms[1]>>, next |-> 4]
    BY <2>1, <2>2
  <2> HIDE DEF first
  <2> QED
    BY <2>3
<1>12. na = 2 => second.text = <<m.atoms[2]>> /\ second.next = 6
  <2> SUFFICES ASSUME na = 2 PROVE second.text = <<m.atoms[2]>> /\ second.next = 6
    OBVIOUS
  <2>1. 2 \in 1..na /\ 2 * 2 = 4 /\ 2 * 2 + 2 = 6 /\ na >= 1
    BY <1>2
  <2>2. Atom(line, 2 * 2) = [text |-> <<m.atoms[2]>>, next |-> 2 * 2 + 2]
    BY <1>6, <2>1
  <2>20. first.next = 4
    BY <1>11, <2>1
  <2> HIDE DEF first
  <2>3. second = [text |-> <<m.atoms[2]>>, next |-> 6]
    BY <2>1, <2>2, <2>20
  <2> HIDE DEF second
  <2> QED
    BY <2>3
<1> HIDE DEF line, na, n, first, second
<1>13. ASSUME NEW k \in Kinds PROVE [kind |-> k, parts |-> <<>>] # Invalid
  BY DEF Kinds, Invalid
<1>14. CASE m.kind = "RESPONSE"
  <2> DEFINE values == Values(line, 2)
             parts == InOrder(m)
  <2>1. values = AllOf(Places(m, o), parts)
    <3>1. m.kind # "EVENT" /\ 2 * Len(m.atoms) + 2 = 2
      BY <1>3, <1>14 DEF na
    <3>2. Values(line, 2 * Len(m.atoms) + 2) = AllOf(Places(m, o), parts)
      BY <1>1, <3>1, ReadsValues
    <3> QED
      BY <3>1, <3>2
  <2>2. ParseMessage(line) = OnlyIf(values.is = "right" /\ AtEnd(line, values.at), m.kind, values.parts)
    BY <1>2, <1>6, <1>14, Parsed
  <2> HIDE DEF values
  <2>3. CASE n <= MaxArgs
    <3>1. values = [is |-> "right", at |-> Len(line) + 1, parts |-> parts]
      BY <1>7, <2>1, <2>3 DEF AllOf
    <3>2. values.is = "right" /\ values.at = Len(line) + 1 /\ values.parts = parts
      BY <3>1
    <3> DEFINE parsed == [kind |-> "RESPONSE", parts |-> parts]
    <3>3. ParseMessage(line) = parsed
      BY <1>9, <1>14, <2>2, <3>2 DEF OnlyIf
    <3>4. parsed # Invalid
      BY DEF Invalid
    <3>5. Understood(parsed) = Meant(m)
      <4>1. DOMAIN parts = 1..n
        BY <1>7
      <4>2. \A k \in DOMAIN parts : CopyXmlText(parts[k]) = m.texts[k]
        BY <1>7, <1>8, <4>1
      <4>3. [k \in DOMAIN parts |-> CopyXmlText(parts[k])] = m.texts
        <5>1. m.texts = [k \in 1..n |-> m.texts[k]]
          BY <1>2 DEF n
        <5> HIDE DEF parts
        <5> QED
          BY <4>1, <4>2, <5>1
      <4> HIDE DEF parts
      <4>4. Understood(parsed) = [kind |-> "RESPONSE", parts |-> [k \in DOMAIN parts |-> CopyXmlText(parts[k])]]
        BY DEF Understood
      <4>5. Meant(m) = [kind |-> "RESPONSE", parts |-> m.texts]
        BY <1>14 DEF Meant
      <4> QED
        BY <4>3, <4>4, <4>5
    <3> QED
      BY <2>3, <3>3, <3>4, <3>5 DEF n, line
  <2>4. CASE ~(n <= MaxArgs)
    <3>1. values = [is |-> "wrong", at |-> Places(m, o)[MaxArgs], parts |-> SubSeq(parts, 1, MaxArgs)]
      BY <1>7, <2>1, <2>4 DEF AllOf
    <3>2. values.is # "right"
      BY <3>1
    <3>3. ParseMessage(line) = Invalid
      BY <2>2, <3>2 DEF OnlyIf
    <3> QED
      BY <2>4, <3>3 DEF n, line
  <2> QED
    BY <2>3, <2>4
<1>15. CASE m.kind = "EVENT"
  <2> DEFINE variables == Variables(line, second.next)
             parts == [k \in 1..n |-> <<<<"name">>, InOrder(m)[k]>>]
  <2>0. na = 2 /\ IsNumber(first) /\ IsNumber(second) /\ second.next = 6
    <3>1. na = 2
      BY <1>3, <1>15
    <3>2. m.atoms[1] \in Numbers /\ m.atoms[2] \in Numbers
      BY <1>5, <1>15, <3>1
    <3> QED
      BY <1>11, <1>12, <3>1, <3>2 DEF IsNumber
  <2>1. variables = AllOf(Places(m, o), parts)
    <3>1. 2 * Len(m.atoms) + 2 = 6
      BY <2>0 DEF na
    <3>2. Variables(line, 2 * Len(m.atoms) + 2) = AllOf(Places(m, o), parts)
      BY <1>1, <1>15, ReadsVariables DEF n
    <3> QED
      BY <2>0, <3>1, <3>2
  <2>2. ParseMessage(line) =
          OnlyIf(/\ IsNumber(first) /\ IsNumber(second)
                 /\ variables.is = "right" /\ AtEnd(line, variables.at),
                 m.kind, variables.parts)
    BY <1>2, <1>6, <1>15, Parsed DEF first, second
  <2> HIDE DEF variables
  <2>20. /\ Len(parts) = n /\ DOMAIN parts = 1..n
         /\ \A k \in 1..n : parts[k] = <<<<"name">>, Word(m, k)>>
    <3>1. n \in Nat
      BY <1>2
    <3>2. \A k \in 1..n : InOrder(m)[k] = Word(m, k)
      BY <1>7
    <3>3. \A k \in 1..n : parts[k] = <<<<"name">>, InOrder(m)[k]>>
      OBVIOUS
    <3>4. DOMAIN parts = 1..n
      OBVIOUS
    <3>5. Len(parts) = n
      <4> HIDE DEF n
      <4> QED
        BY <3>1, <3>4
    <3> HIDE DEF parts
    <3> QED
      BY <3>2, <3>3, <3>4, <3>5
  <2> HIDE DEF parts
  <2>3. CASE n <= MaxArgs
    <3>1. variables = [is |-> "right", at |-> Len(line) + 1, parts |-> parts]
      BY <1>7, <2>1, <2>20, <2>3 DEF AllOf
    <3>2. variables.is = "right" /\ variables.at = Len(line) + 1 /\ variables.parts = parts
      BY <3>1
    <3> DEFINE parsed == [kind |-> "EVENT", parts |-> parts]
    <3>3. ParseMessage(line) = parsed
      BY <1>9, <1>15, <2>0, <2>2, <3>2 DEF OnlyIf
    <3>4. parsed # Invalid
      BY DEF Invalid
    <3>5. Understood(parsed) = Meant(m)
      <4>1. Understood(parsed) =
              [kind |-> "EVENT",
               parts |-> [k \in DOMAIN parts |-> <<parts[k][1], CopyXmlText(parts[k][2])>>]]
        BY DEF Understood
      <4>2. \A k \in 1..n : parts[k][1] = <<"name">> /\ CopyXmlText(parts[k][2]) = m.texts[k]
        BY <1>8, <2>20
      <4>3. [k \in DOMAIN parts |-> <<parts[k][1], CopyXmlText(parts[k][2])>>] =
            [k \in DOMAIN m.texts |-> <<<<"name">>, m.texts[k]>>]
        <5>1. DOMAIN m.texts = 1..n
          BY <1>2 DEF n
        <5> QED
          BY <2>20, <4>2, <5>1
      <4>4. Meant(m) = [kind |-> "EVENT", parts |-> [k \in DOMAIN m.texts |-> <<<<"name">>, m.texts[k]>>]]
        BY <1>15 DEF Meant
      <4> QED
        BY <4>1, <4>3, <4>4
    <3> QED
      BY <2>3, <3>3, <3>4, <3>5 DEF n, line
  <2>4. CASE ~(n <= MaxArgs)
    <3>1. variables = [is |-> "wrong", at |-> Places(m, o)[MaxArgs], parts |-> SubSeq(parts, 1, MaxArgs)]
      BY <1>7, <2>1, <2>20, <2>4 DEF AllOf
    <3>2. variables.is # "right"
      BY <3>1
    <3>3. ParseMessage(line) = Invalid
      BY <2>2, <3>2 DEF OnlyIf
    <3> QED
      BY <2>4, <3>3 DEF n, line
  <2> QED
    BY <2>3, <2>4
<1>16. CASE m.kind \notin {"RESPONSE", "EVENT"}
  <2> DEFINE parsed == [kind |-> m.kind, parts |-> <<>>]
  <2>1. ParseMessage(line) = parsed
    <3>1. CASE m.kind \in {"SUBSCRIBE", "UNSUBSCRIBE"}
      <4>1. na = 1 /\ n = 0
        BY <1>3, <1>4, <3>1
      <4>2. m.atoms[1] \in Numbers
        BY <1>5, <3>1, <4>1
      <4>3. IsNumber(first) /\ first.next = 4 /\ Len(line) = 3
        <5>1. Len(line) = 3
          <6>1. 2 * na + 1 = 3 /\ o[n] = o[0]
            BY <4>1
          <6> QED
            BY <1>10, <6>1, Zenon
        <5>2. IsNumber(first)
          BY <1>11, <4>1, <4>2 DEF IsNumber
        <5> QED
          BY <1>11, <4>1, <5>1, <5>2
      <4>4. ParseMessage(line) = OnlyIf(IsNumber(first) /\ AtEnd(line, first.next), m.kind, <<>>)
        BY <1>2, <1>6, <3>1, Parsed DEF first
      <4> QED
        BY <1>9, <4>3, <4>4 DEF OnlyIf
    <3>2. CASE m.kind \in {"ALIVE", "BYEBYE"}
      <4>1. na = 2 /\ n = 0
        BY <1>3, <1>4, <3>2
      <4>3. Found(first) /\ Found(second) /\ second.next = 6 /\ Len(line) = 5
        <5>1. Len(line) = 5
          <6>1. 2 * na + 1 = 5 /\ o[n] = o[0]
            BY <4>1
          <6> QED
            BY <1>10, <6>1, Zenon
        <5>2. Found(first) /\ Found(second)
          <6>1. first.text = <<m.atoms[1]>> /\ second.text = <<m.atoms[2]>>
            BY <1>11, <1>12, <4>1
          <6>2. \A c : <<c>> # <<>>
            OBVIOUS
          <6> QED
            BY <6>1, <6>2, Zenon DEF Found
        <5> QED
          BY <1>12, <4>1, <5>1, <5>2
      <4>4. ParseMessage(line) =
              OnlyIf(Found(first) /\ Found(second) /\ AtEnd(line, second.next), m.kind, <<>>)
        BY <1>2, <1>6, <3>2, Parsed DEF first, second
      <4> QED
        BY <1>9, <4>3, <4>4 DEF OnlyIf
    <3>3. CASE m.kind = "ERROR"
      <4>1. na = 1 /\ n = 1
        BY <1>3, <1>4, <3>3
      <4>2. m.atoms[1] \in Numbers
        BY <1>5, <3>3, <4>1
      <4>3. IsNumber(first) /\ first.next = 4
        BY <1>11, <4>1, <4>2 DEF IsNumber
      <4> DEFINE why == Quoted(line, 4)
      <4>4. why = [is |-> "right", text |-> Word(m, 1), next |-> o[1] + 1]
        <5>1. 1 \in 1..Len(m.texts) /\ 1 - 1 = 0 /\ Ahead(m) = 0
          BY <1>2, <3>3, <4>1 DEF n, Ahead
        <5>2. TextIsAt(line, m, o, 1)
          BY <1>1, <5>1, TextsAreThere
        <5>3. o[1 - 1] + 1 + Ahead(m) = 4
          BY <1>10, <4>1, <5>1
        <5>4. Quoted(line, o[1 - 1] + 1 + Ahead(m)) =
                [is |-> "right", text |-> Word(m, 1), next |-> o[1] + 1]
          BY <5>2, Zenon DEF TextIsAt
        <5> QED
          BY <5>3, <5>4
      <4> HIDE DEF why
      <4>5. why.is = "right" /\ why.next = Len(line) + 1
        BY <1>10, <4>1, <4>4
      <4>6. ParseMessage(line) =
              OnlyIf(IsNumber(first) /\ why.is = "right" /\ AtEnd(line, why.next), m.kind, <<>>)
        <5>1. ParseMessage(line) =
                OnlyIf(/\ IsNumber(first) /\ Quoted(line, first.next).is = "right"
                       /\ AtEnd(line, Quoted(line, first.next).next), m.kind, <<>>)
          BY <1>2, <1>6, <3>3, Parsed DEF first
        <5> QED
          BY <4>3, <5>1 DEF why
      <4> QED
        BY <1>9, <4>3, <4>5, <4>6 DEF OnlyIf
    <3> QED
      BY <1>2, <1>16, <3>1, <3>2, <3>3 DEF Kinds
  <2>2. parsed # Invalid
    BY <1>2, <1>13
  <2>3. n <= MaxArgs
    BY <1>2, <1>4, <1>16
  <2>4. Understood(parsed) = Meant(m)
    <3>1. Meant(m) = parsed
      BY <1>16 DEF Meant
    <3>2. [k \in DOMAIN parsed.parts |->
             IF parsed.kind = "EVENT"
             THEN <<parsed.parts[k][1], CopyXmlText(parsed.parts[k][2])>>
             ELSE CopyXmlText(parsed.parts[k])] = <<>>
      OBVIOUS
    <3>3. Understood(parsed) = [parsed EXCEPT !.parts = <<>>]
      BY <3>2, Zenon DEF Understood
    <3> QED
      BY <3>1, <3>3
  <2> HIDE DEF parsed
  <2> QED
    BY <2>1, <2>2, <2>3, <2>4 DEF n, line
<1> QED
  BY <1>14, <1>15, <1>16

-----------------------------------------------------------------------------
(* A line as the reader takes it. *)

LEMMA ReadsOne ==
  ASSUME NEW c \in Symbols, NEW t \in Seq(Symbols), NEW a, NEW b, Reads(<<c>> \o t, a, b)
  PROVE  Reads(t, Taken(a, c), b) /\ c # CR /\ (c = LF => "quotes" \in a)
<1> DEFINE s == <<c>>
           r == s \o t
           n == Len(t)
<1>1. s \in Seq(Symbols) /\ Len(s) = 1 /\ s[1] = c /\ n \in Nat
  OBVIOUS
<1>2. r \in Seq(Symbols) /\ Behind(r, s, t)
  <2> HIDE DEF s
  <2> QED
    BY <1>1, Join
<1>3. PICK f : Scans(f, r, a) /\ f[Len(r)] = b
  BY DEF Reads
<1> HIDE DEF s, r, n
<1>4. Len(r) = 1 + n /\ r[1] = c /\ \A j \in 1..n : r[1 + j] = t[j]
  <2>1. 1 \in 1..1
    OBVIOUS
  <2> QED
    BY <1>1, <1>2, <2>1 DEF Behind, n
<1>5. /\ f \in [0..(1 + n) -> SUBSET Marks] /\ f[0] = a
      /\ \A k \in 1..(1 + n) : /\ f[k] = Taken(f[k - 1], r[k])
                               /\ r[k] # CR /\ (r[k] = LF => "quotes" \in f[k - 1])
  BY <1>3, <1>4 DEF Scans
<1>6. f[1] = Taken(a, c) /\ c # CR /\ (c = LF => "quotes" \in a)
  <2>1. 1 \in 1..(1 + n) /\ 1 - 1 = 0
    BY <1>1
  <2> QED
    BY <1>4, <1>5, <2>1
<1> DEFINE g == [k \in 0..n |-> f[1 + k]]
<1>7. g \in [0..n -> SUBSET Marks] /\ g[0] = Taken(a, c) /\ g[n] = b
  <2>1. \A k \in 0..n : 1 + k \in 0..(1 + n)
    BY <1>1
  <2>2. 1 + 0 = 1 /\ 0 \in 0..n /\ n \in 0..n
    BY <1>1
  <2> QED
    BY <1>3, <1>4, <1>5, <1>6, <2>1, <2>2
<1>8. ASSUME NEW k \in 1..n
      PROVE  /\ g[k] = Taken(g[k - 1], t[k])
             /\ t[k] # CR /\ (t[k] = LF => "quotes" \in g[k - 1])
  <2>1. k \in 0..n /\ k - 1 \in 0..n /\ 1 + k \in 1..(1 + n) /\ (1 + k) - 1 = k /\ 1 + (k - 1) = k
    BY <1>1
  <2>2. g[k] = f[1 + k] /\ g[k - 1] = f[k] /\ r[1 + k] = t[k]
    <3>1. g[k] = f[1 + k] /\ g[k - 1] = f[1 + (k - 1)]
      BY <2>1
    <3> HIDE DEF g
    <3> QED
      BY <1>4, <2>1, <3>1
  <2> HIDE DEF g
  <2> QED
    BY <1>5, <2>1, <2>2
<1> HIDE DEF g
<1>9. Reads(t, Taken(a, c), b)
  BY <1>7, <1>8 DEF Reads, Scans, n
<1> QED
  BY <1>6, <1>9

LEMMA ReadsNothing ==
  /\ \A a, b : Reads(<<>>, a, b) => a = b
  /\ Reads(<<>>, {}, {})
<1>1. ASSUME NEW a, NEW b, Reads(<<>>, a, b) PROVE a = b
  <2>1. PICK f : Scans(f, <<>>, a) /\ f[Len(<<>>)] = b
    BY <1>1 DEF Reads
  <2>2. Len(<<>>) = 0
    OBVIOUS
  <2> QED
    BY <2>1, <2>2 DEF Scans
<1>2. Reads(<<>>, {}, {})
  <2> DEFINE s == <<>>
             a == {}
  <2>1. s \in Seq(Symbols) /\ a \in {{}, {"quotes"}} /\ \A k \in 1..Len(s) : FALSE
    OBVIOUS
  <2> HIDE DEF s, a
  <2>2. Reads(s, a, a)
    BY <2>1, ReadsPlain
  <2> QED
    BY <2>2 DEF s, a
<1> QED
  BY <1>1, <1>2

LEMMA ReadsConcat ==
  ASSUME NEW pieces \in Seq(Seq(Symbols)), \A i \in 1..Len(pieces) : Reads(pieces[i], {}, {})
  PROVE  Reads(Concat(pieces), {}, {})
<1> DEFINE n == Len(pieces)
<1>1. n \in Nat /\ \A k \in 1..n : pieces[k] \in Seq(Symbols) /\ Reads(pieces[k], {}, {})
  OBVIOUS
<1>2. PICK J \in [0..n -> Seq(Symbols)] : Reaches(J, pieces)
  BY ConcatReaches
<1>3. J[0] = <<>> /\ (\A k \in 1..n : J[k] = J[k - 1] \o pieces[k]) /\ Concat(pieces) = J[n]
  BY <1>2 DEF Reaches
<1> HIDE DEF n
<1> DEFINE S == {k \in 0..n : Reads(J[k], {}, {})}
<1>4. 0..n \subseteq S
  <2>1. 0 \in S
    BY <1>1, <1>3, ReadsNothing
  <2>2. ASSUME NEW k \in 0..(n - 1), k \in S PROVE k + 1 \in S
    <3>1. k + 1 \in 1..n /\ k + 1 \in 0..n /\ k \in 0..n /\ (k + 1) - 1 = k
      BY <1>1
    <3> DEFINE s == J[k]
               t == pieces[k + 1]
    <3>2. s \in Seq(Symbols) /\ t \in Seq(Symbols) /\ Reads(s, {}, {}) /\ Reads(t, {}, {})
      BY <1>1, <1>2, <2>2, <3>1
    <3>3. J[k + 1] = s \o t
      BY <1>3, <3>1
    <3> HIDE DEF s, t
    <3>4. Reads(J[k + 1], {}, {})
      BY <3>2, <3>3, ReadsJoin
    <3> QED
      BY <3>1, <3>4
  <2> HIDE DEF S
  <2> QED
    BY <1>1, <2>1, <2>2, Induction
<1>5. n \in 0..n
  BY <1>1
<1> QED
  BY <1>3, <1>4, <1>5

(* A message's line is read as one line. *)
LEMMA BodyReads ==
  ASSUME NEW m, IsMessage(m)
  PROVE  Reads(Body(m), {}, {})
<1>1. /\ m.kind \in Kinds /\ m.kind \in Symbols /\ m.atoms \in Seq(Symbols)
      /\ DOMAIN m.atoms = 1..Len(m.atoms) /\ DOMAIN m.texts = 1..Len(m.texts)
      /\ Len(m.atoms) \in Nat /\ Len(m.texts) \in Nat
      /\ \A k \in 1..Len(m.atoms) : m.atoms[k] \in Symbols /\ m.atoms[k] \notin Apart
  BY MessageIs, SymbolsAre
(* Short ones that mean nothing to the reader. *)
<1>2. ASSUME NEW s \in Seq(Symbols), \A k \in 1..Len(s) : s[k] = Blank \/ s[k] \notin Apart
      PROVE  Reads(s, {}, {})
  <2>1. \A k \in 1..Len(s) : s[k] \notin {Quote, Slash, CR} /\ s[k] # LF
    BY <1>2 DEF Apart, Quote, Slash, CR, LF, Blank
  <2>2. {} \in {{}, {"quotes"}}
    OBVIOUS
  <2> QED
    BY <2>1, <2>2, ReadsPlain
<1> DEFINE c == <<m.kind>>
           A == [i \in DOMAIN m.atoms |-> <<Blank, m.atoms[i]>>]
           G == [i \in DOMAIN m.texts |-> Argument(m, i)]
<1>3. c \in Seq(Symbols) /\ Reads(c, {}, {})
  <2>1. c \in Seq(Symbols) /\ \A k \in 1..Len(c) : c[k] = m.kind
    BY <1>1
  <2>2. m.kind \notin Apart
    BY <1>1 DEF Kinds, Apart, Quote, Slash, CR, LF, Blank
  <2> HIDE DEF c
  <2> QED
    BY <1>2, <2>1, <2>2
<1>4. A \in Seq(Seq(Symbols)) /\ \A k \in 1..Len(A) : Reads(A[k], {}, {})
  <2>1. Blank \in Symbols
    BY SymbolsAre
  <2>2. A \in Seq(Seq(Symbols)) /\ Len(A) = Len(m.atoms)
        /\ \A k \in 1..Len(m.atoms) : A[k] = <<Blank, m.atoms[k]>>
    BY <1>1, <2>1
  <2> HIDE DEF A
  <2>3. ASSUME NEW k \in 1..Len(A) PROVE Reads(A[k], {}, {})
    <3> DEFINE s == <<Blank, m.atoms[k]>>
    <3>1. s = A[k]
      BY <2>2
    <3>2. s \in Seq(Symbols) /\ Len(s) = 2 /\ s[1] = Blank /\ s[2] \notin Apart
      BY <1>1, <2>1, <2>2
    <3> HIDE DEF s
    <3>3. \A j \in 1..Len(s) : s[j] = Blank \/ s[j] \notin Apart
      BY <3>2
    <3> QED
      BY <1>2, <3>1, <3>2, <3>3
  <2> QED
    BY <2>2, <2>3
<1>5. ASSUME NEW k \in 1..Len(m.texts)
      PROVE  Argument(m, k) \in Seq(Symbols) /\ Reads(Argument(m, k), {}, {})
  <2> DEFINE x == IF m.kind = "EVENT" THEN <<Blank, "name">> ELSE <<>>
             b == <<Blank>>
             w == Word(m, k)
             q == InQuotes(w)
  <2>1. Argument(m, k) = (x \o b) \o q
    BY DEF Argument, Word
  <2>2. x \in Seq(Symbols) /\ Reads(x, {}, {})
    <3>1. x \in Seq(Symbols) /\ \A j \in 1..Len(x) : x[j] = Blank \/ x[j] = "name"
      BY SymbolsAre
    <3>2. "name" \notin Apart
      BY DEF Apart, Quote, Slash, CR, LF, Blank
    <3> HIDE DEF x
    <3> QED
      BY <1>2, <3>1, <3>2
  <2>3. b \in Seq(Symbols) /\ Reads(b, {}, {})
    <3>1. b \in Seq(Symbols) /\ \A j \in 1..Len(b) : b[j] = Blank
      BY SymbolsAre
    <3> HIDE DEF b
    <3> QED
      BY <1>2, <3>1
  <2>4. q \in Seq(Symbols) /\ Reads(q, {}, {})
    BY WordIs, SoundReads, InQuotesIs
  <2> HIDE DEF x, b, q
  <2>5. x \o b \in Seq(Symbols) /\ Reads(x \o b, {}, {})
    BY <2>2, <2>3, ReadsJoin, Join
  <2> DEFINE y == x \o b
  <2>6. y \in Seq(Symbols) /\ Reads(y, {}, {})
    BY <2>5
  <2> HIDE DEF y
  <2>7. y \o q \in Seq(Symbols) /\ Reads(y \o q, {}, {})
    BY <2>4, <2>6, ReadsJoin, Join
  <2> QED
    BY <2>1, <2>7 DEF y
<1>6. G \in Seq(Seq(Symbols)) /\ \A k \in 1..Len(G) : Reads(G[k], {}, {})
  <2>1. G \in Seq(Seq(Symbols)) /\ Len(G) = Len(m.texts)
        /\ \A k \in 1..Len(m.texts) : G[k] = Argument(m, k)
    BY <1>1, <1>5
  <2> HIDE DEF G
  <2> QED
    BY <1>5, <2>1
<1> HIDE DEF c, A, G
<1>7. /\ Concat(A) \in Seq(Symbols) /\ Reads(Concat(A), {}, {})
      /\ Concat(G) \in Seq(Symbols) /\ Reads(Concat(G), {}, {})
  BY <1>4, <1>6, ConcatType, ReadsConcat
<1>8. c \o Concat(A) \in Seq(Symbols) /\ Reads(c \o Concat(A), {}, {})
  BY <1>3, <1>7, ReadsJoin, Join
<1> DEFINE y == c \o Concat(A)
<1>9. y \in Seq(Symbols) /\ Reads(y, {}, {})
  BY <1>8
<1> HIDE DEF y
<1>10. Reads(y \o Concat(G), {}, {})
  BY <1>7, <1>9, ReadsJoin
<1> QED
  BY <1>10 DEF Body, c, A, G, y

(* What cannot be the beginning of a line. *)
Torn(s) == \E i \in 1..Len(s) : s[i] # Blank /\ s[i] \notin Kinds /\ \A j \in 1..(i - 1) : s[j] = Blank
(* What may be the beginning of a line, and of none without a kind to come. *)
OnlyBlanks(s) == \A i \in 1..Len(s) : s[i] = Blank

LEMMA NoKind ==
  ASSUME NEW line, \A k \in Kinds : Atom(line, 1).text # <<k>>
  PROVE  ParseMessage(line) = Invalid
<1> DEFINE command   == Atom(line, 1)
           is        == IF command.text \in {<<k>> : k \in Kinds} THEN command.text[1] ELSE "?"
           first     == Atom(line, command.next)
           second    == Atom(line, first.next)
           values    == Values(line, command.next)
           variables == Variables(line, second.next)
           why       == Quoted(line, first.next)
           a == OnlyIf(values.is = "right" /\ AtEnd(line, values.at), is, values.parts)
           b == OnlyIf(/\ IsNumber(first) /\ IsNumber(second)
                       /\ variables.is = "right" /\ AtEnd(line, variables.at),
                       is, variables.parts)
           c == OnlyIf(IsNumber(first) /\ AtEnd(line, first.next), is, <<>>)
           d == OnlyIf(Found(first) /\ Found(second) /\ AtEnd(line, second.next), is, <<>>)
           e == OnlyIf(IsNumber(first) /\ why.is = "right" /\ AtEnd(line, why.next), is, <<>>)
<1>1. ParseMessage(line) = CASE is = "RESPONSE" -> a
                             [] is = "EVENT" -> b
                             [] is \in {"SUBSCRIBE", "UNSUBSCRIBE"} -> c
                             [] is \in {"ALIVE", "BYEBYE"} -> d
                             [] is = "ERROR" -> e
                             [] is = "?" -> Invalid
  BY Zenon DEF ParseMessage
<1>2. is = "?"
  OBVIOUS
<1> HIDE DEF is
<1> DEFINE A == a B == b C == c D == d EE == e
<1> HIDE DEF A, B, C, D, EE
<1>3. ParseMessage(line) = CASE is = "RESPONSE" -> A
                             [] is = "EVENT" -> B
                             [] is \in {"SUBSCRIBE", "UNSUBSCRIBE"} -> C
                             [] is \in {"ALIVE", "BYEBYE"} -> D
                             [] is = "ERROR" -> EE
                             [] is = "?" -> Invalid
  BY <1>1, Zenon DEF A, B, C, D, EE
<1> QED
  BY <1>2, <1>3

(* A line that begins with anything else is not understood. *)
LEMMA NotALine ==
  ASSUME NEW line \in Seq(Symbols), Torn(line) \/ OnlyBlanks(line)
  PROVE  ParseMessage(line) = Invalid
<1>1. Len(line) \in Nat /\ 1 \in 1..(Len(line) + 1)
  OBVIOUS
<1>2. CASE Torn(line)
  <2>1. PICK i \in 1..Len(line) : /\ line[i] # Blank /\ line[i] \notin Kinds
                                  /\ \A j \in 1..(i - 1) : line[j] = Blank
    BY <1>2 DEF Torn
  <2>2. SkipBlanks(line, 1) = i
    <3>1. i \in 1..(Len(line) + 1)
      BY <1>1
    <3> QED
      BY <1>1, <2>1, <3>1, SkipsTo
  <2> DEFINE t == Atom(line, 1).text
  <2>3. t = <<>> \/ t[1] = line[i]
    BY <1>1, <2>1, <2>2, AtomBegins
  <2> HIDE DEF t
  <2>4. ASSUME NEW k \in Kinds PROVE t # <<k>>
    <3> SUFFICES ASSUME t = <<k>> PROVE FALSE
      OBVIOUS
    <3>1. t # <<>> /\ t[1] = k
      OBVIOUS
    <3> QED
      BY <2>1, <2>3, <3>1
  <2> QED
    BY <2>4, NoKind DEF t
<1>3. CASE OnlyBlanks(line)
  <2>1. SkipBlanks(line, 1) = Len(line) + 1
    <3>1. Len(line) + 1 \in 1..(Len(line) + 1) /\ Len(line) + 1 > Len(line)
      BY <1>1
    <3>2. \A j \in 1..((Len(line) + 1) - 1) : line[j] = Blank
      BY <1>1, <1>3 DEF OnlyBlanks
    <3> QED
      BY <1>1, <3>1, <3>2, SkipsTo
  <2>2. Atom(line, 1) = [text |-> <<>>, next |-> Len(line) + 1]
    BY <1>1, <2>1, AtomNone
  <2> DEFINE t == Atom(line, 1).text
  <2>3. t = <<>>
    BY <2>2
  <2> HIDE DEF t
  <2>4. \A k \in Kinds : t # <<k>>
    BY <2>3
  <2> QED
    BY <2>4, NoKind DEF t
<1> QED
  BY <1>2, <1>3

(* What a message adds to what is understood. *)
Hears(m) == IF Len(m.texts) <= MaxArgs THEN <<Meant(m)>> ELSE <<>>
Meanings == {Meant(m) : m \in Messages}

LEMMA HearsType ==
  ASSUME NEW m \in Messages
  PROVE  Hears(m) \in Seq(Meanings)
<1>1. Meant(m) \in Meanings
  BY DEF Meanings
<1> DEFINE x == Meant(m)
<1> HIDE DEF x
<1>2. x \in Meanings => <<x>> \in Seq(Meanings)
  OBVIOUS
<1>3. <<>> \in Seq(Meanings)
  OBVIOUS
<1> QED
  BY <1>1, <1>2, <1>3 DEF Hears, x

LEMMA HeardPieces ==
  ASSUME NEW said \in Seq(Messages)
  PROVE  /\ [i \in DOMAIN said |-> Hears(said[i])] \in Seq(Seq(Meanings))
         /\ AllMeant(said) = Concat([i \in DOMAIN said |-> Hears(said[i])])
<1>1. \A i \in DOMAIN said : Hears(said[i]) \in Seq(Meanings)
  BY HearsType
<1>2. AllMeant(said) = Concat([i \in DOMAIN said |-> Hears(said[i])])
  BY Zenon DEF AllMeant, Hears
<1> QED
  BY <1>1, <1>2

LEMMA AllMeantType ==
  ASSUME NEW said \in Seq(Messages)
  PROVE  AllMeant(said) \in Seq(Meanings)
BY HeardPieces, ConcatType

LEMMA AllMeantNothing == AllMeant(<<>>) = <<>>
<1>1. [i \in DOMAIN <<>> |-> Hears(<<>>[i])] = <<>>
  OBVIOUS
<1>2. <<>> \in Seq(Messages)
  OBVIOUS
<1>3. AllMeant(<<>>) = Concat(<<>>)
  BY <1>1, <1>2, HeardPieces
<1> QED
  BY <1>3, ConcatNothing

(* One message more. *)
LEMMA AllMeantStep ==
  ASSUME NEW said \in Seq(Messages), NEW m \in Messages
  PROVE  AllMeant(Append(said, m)) = AllMeant(said) \o Hears(m)
<1> DEFINE more == Append(said, m)
           before == [i \in DOMAIN said |-> Hears(said[i])]
           now == [i \in DOMAIN more |-> Hears(more[i])]
           n == Len(said)
<1>1. /\ n \in Nat /\ more \in Seq(Messages) /\ DOMAIN more = 1..(n + 1) /\ DOMAIN said = 1..n
      /\ more[n + 1] = m /\ \A i \in 1..n : more[i] = said[i]
  OBVIOUS
<1>2. /\ before \in Seq(Seq(Meanings)) /\ AllMeant(said) = Concat(before)
      /\ AllMeant(more) = Concat(now)
  BY <1>1, HeardPieces
<1>3. Hears(m) \in Seq(Meanings)
  BY HearsType
<1>4. now = Append(before, Hears(m))
  <2>1. Len(before) = n /\ \A i \in 1..n : before[i] = Hears(said[i])
    BY <1>1
  <2> HIDE DEF before, more, n
  <2>2. DOMAIN Append(before, Hears(m)) = 1..(n + 1)
    BY <1>1, <1>2, <2>1
  <2>3. \A i \in 1..n : Append(before, Hears(m))[i] = Hears(said[i])
    BY <1>1, <1>2, <2>1
  <2>4. Append(before, Hears(m))[n + 1] = Hears(m)
    BY <1>1, <1>2, <2>1
  <2>5. \A i \in 1..(n + 1) : now[i] = Append(before, Hears(m))[i]
    <3> TAKE i \in 1..(n + 1)
    <3>1. i \in 1..n \/ i = n + 1
      BY <1>1
    <3>2. now[i] = Hears(more[i])
      BY <1>1
    <3> HIDE DEF now
    <3> QED
      BY <1>1, <2>3, <2>4, <3>1, <3>2
  <2> DEFINE r == Append(before, Hears(m))
  <2>6. r = [i \in 1..(n + 1) |-> r[i]]
    <3>1. r \in Seq(Seq(Meanings))
      BY <1>2, <1>3
    <3> HIDE DEF r
    <3>2. r = [i \in DOMAIN r |-> r[i]]
      BY <3>1
    <3>3. DOMAIN r = 1..(n + 1)
      BY <2>2 DEF r
    <3> QED
      BY <3>2, <3>3
  <2> HIDE DEF r
  <2>7. \A i \in 1..(n + 1) : now[i] = r[i]
    BY <2>5 DEF r
  <2>8. now = [i \in 1..(n + 1) |-> now[i]]
    BY <1>1
  <2> HIDE DEF now
  <2> QED
    BY <2>6, <2>7, <2>8 DEF r
<1> HIDE DEF before, now, more
<1>5. Concat(now) = Concat(before) \o Hears(m)
  BY <1>2, <1>3, <1>4, ConcatStep
<1> QED
  BY <1>2, <1>5 DEF more

-----------------------------------------------------------------------------
(* Embedding. *)

LEMMA EmbedsNothing ==
  ASSUME NEW all
  PROVE  Embeds(<<>>, all)
<1> DEFINE s == <<>>
           place == [i \in {} |-> 0]
<1>1. DOMAIN s = {}
  OBVIOUS
<1>2. place \in [{} -> DOMAIN all]
  OBVIOUS
<1> HIDE DEF s, place
<1>3. Embeds(s, all)
  BY <1>1, <1>2 DEF Embeds
<1> QED
  BY <1>3 DEF s

LEMMA EmbedsMore ==
  ASSUME NEW V, NEW s \in Seq(V), NEW all \in Seq(V), NEW t \in Seq(V), Embeds(s, all)
  PROVE  Embeds(s, all \o t)
<1> DEFINE r == all \o t
<1>1. r \in Seq(V) /\ Behind(r, all, t)
  BY Join
<1>2. Len(all) \in Nat /\ Len(t) \in Nat /\ DOMAIN all = 1..Len(all)
  OBVIOUS
<1>3. PICK place \in [DOMAIN s -> DOMAIN all] :
        /\ \A i \in DOMAIN s : s[i] = all[place[i]]
        /\ \A i, j \in DOMAIN s : i < j => place[i] < place[j]
  BY DEF Embeds
<1> HIDE DEF r
<1>4. DOMAIN r = 1..(Len(all) + Len(t)) /\ \A j \in 1..Len(all) : r[j] = all[j]
  BY <1>1 DEF Behind
<1>5. place \in [DOMAIN s -> DOMAIN r]
  BY <1>2, <1>3, <1>4
<1>6. \A i \in DOMAIN s : s[i] = r[place[i]]
  BY <1>2, <1>3, <1>4
<1>7. Embeds(s, r)
  BY <1>3, <1>5, <1>6 DEF Embeds
<1> QED
  BY <1>7 DEF r

LEMMA EmbedsBoth ==
  ASSUME NEW V, NEW s \in Seq(V), NEW all \in Seq(V), NEW t \in Seq(V), Embeds(s, all)
  PROVE  Embeds(s \o t, all \o t)
<1> DEFINE r == all \o t
           q == s \o t
           m == Len(s)
           n == Len(all)
           l == Len(t)
<1>1. r \in Seq(V) /\ Behind(r, all, t) /\ q \in Seq(V) /\ Behind(q, s, t)
  BY Join
<1>2. m \in Nat /\ n \in Nat /\ l \in Nat /\ DOMAIN all = 1..n /\ DOMAIN s = 1..m
  OBVIOUS
<1>3. PICK place \in [1..m -> 1..n] :
        /\ \A i \in 1..m : s[i] = all[place[i]]
        /\ \A i, j \in 1..m : i < j => place[i] < place[j]
  BY <1>2 DEF Embeds
<1> HIDE DEF r, q
<1>4. /\ DOMAIN r = 1..(n + l)
      /\ \A j \in 1..n : r[j] = all[j]
      /\ \A j \in 1..l : r[n + j] = t[j]
  BY <1>1 DEF Behind
<1>5. /\ DOMAIN q = 1..(m + l)
      /\ \A j \in 1..m : q[j] = s[j]
      /\ \A j \in 1..l : q[m + j] = t[j]
  BY <1>1 DEF Behind
<1> HIDE DEF m, n, l
<1> DEFINE put == [i \in 1..(m + l) |-> IF i <= m THEN place[i] ELSE n + (i - m)]
<1>6. ASSUME NEW i \in 1..(m + l)
      PROVE  \/ i \in 1..m /\ put[i] = place[i] /\ put[i] \in 1..n
             \/ i - m \in 1..l /\ put[i] = n + (i - m) /\ i = m + (i - m)
  <2>1. CASE i <= m
    <3>1. i \in 1..m
      BY <1>2, <2>1
    <3> QED
      BY <1>3, <2>1, <3>1
  <2>2. CASE ~(i <= m)
    BY <1>2, <2>2
  <2> QED
    BY <2>1, <2>2
<1> HIDE DEF put
<1>7. \A i \in 1..(m + l) : put[i] \in 1..(n + l)
  BY <1>2, <1>6
<1>8. ASSUME NEW i \in 1..(m + l) PROVE q[i] = r[put[i]]
  <2>1. CASE i \in 1..m /\ put[i] = place[i] /\ put[i] \in 1..n
    BY <1>3, <1>4, <1>5, <2>1
  <2>2. CASE i - m \in 1..l /\ put[i] = n + (i - m) /\ i = m + (i - m)
    BY <1>4, <1>5, <2>2
  <2> QED
    BY <1>6, <2>1, <2>2
<1>9. ASSUME NEW i \in 1..(m + l), NEW j \in 1..(m + l), i < j PROVE put[i] < put[j]
  <2>1. CASE i \in 1..m /\ j \in 1..m
    <3>1. put[i] = place[i] /\ put[j] = place[j]
      BY <1>2, <1>6, <2>1
    <3> QED
      BY <1>3, <1>9, <2>1, <3>1
  <2>2. CASE i \in 1..m /\ j \notin 1..m
    <3>1. put[i] \in 1..n /\ put[j] = n + (j - m) /\ j - m \in 1..l
      <4>1. i <= m
        BY <1>2, <2>2
      <4>2. ~(i - m \in 1..l)
        BY <1>2, <4>1
      <4> QED
        BY <1>6, <2>2, <4>2
    <3> QED
      BY <1>2, <3>1
  <2>3. CASE i \notin 1..m
    <3>1. j \notin 1..m
      BY <1>2, <1>9, <2>3
    <3>2. put[i] = n + (i - m) /\ put[j] = n + (j - m)
      BY <1>6, <2>3, <3>1
    <3> QED
      BY <1>2, <1>9, <3>2
  <2> QED
    BY <2>1, <2>2, <2>3
<1>10. put = [i \in 1..(m + l) |-> put[i]]
  BY DEF put
<1>11. put \in [DOMAIN q -> DOMAIN r]
  BY <1>4, <1>5, <1>7, <1>10
<1>12. Embeds(q, r)
  BY <1>5, <1>8, <1>9, <1>11 DEF Embeds
<1> QED
  BY <1>12 DEF q, r

-----------------------------------------------------------------------------
(* Types. *)

(* Whatever may be understood. *)
Heard == Meanings \cup {Understood(ParseMessage(line)) : line \in Seq(Symbols)}

WireType ==
  /\ sent \in Seq(Messages) /\ got \in Seq(Heard)
  /\ half \in Seq(Symbols) /\ wire \in Seq(Symbols)
  /\ inQuotes \in BOOLEAN /\ escape \in BOOLEAN /\ clean \in BOOLEAN
  /\ from \in 0..Len(sent) /\ base \in 0..Len(got)

LEMMA HeadAndTail ==
  ASSUME NEW V, NEW s \in Seq(V), s # <<>>
  PROVE  Head(s) \in V /\ Tail(s) \in Seq(V) /\ s = <<Head(s)>> \o Tail(s)
<1>1. Head(s) \in V /\ Tail(s) \in Seq(V)
  BY HeadTailProperties
<1>2. Len(s) \in Nat \ {0}
  OBVIOUS
<1>3. s = <<Head(s)>> \o Tail(s)
  <2>1. SubSeq(s, 1, Len(s)) = <<s[1]>> \o SubSeq(s, 1 + 1, Len(s))
    <3>1. 1 \in 1..Len(s) /\ Len(s) \in 1..Len(s)
      BY <1>2
    <3> QED
      BY <3>1, SubSeqRecursiveFirst
  <2>2. SubSeq(s, 1, Len(s)) = s /\ Head(s) = s[1]
    OBVIOUS
  <2>3. Tail(s) = SubSeq(s, 2, Len(s))
    BY TailIsSubSeq
  <2>4. 1 + 1 = 2
    OBVIOUS
  <2> QED
    BY <2>1, <2>2, <2>3, <2>4
<1> QED
  BY <1>1, <1>3

(* And back. *)
LEMMA Consume ==
  ASSUME NEW V, NEW c \in V, NEW x \in Seq(V)
  PROVE  /\ <<c>> \o x \in Seq(V) /\ <<c>> \o x # <<>>
         /\ Head(<<c>> \o x) = c /\ Tail(<<c>> \o x) = x
<1> DEFINE s == <<c>>
           r == s \o x
<1>1. s \in Seq(V) /\ Len(s) = 1 /\ s[1] = c /\ Len(x) \in Nat
  OBVIOUS
<1>2. r \in Seq(V) /\ Behind(r, s, x)
  <2> HIDE DEF s
  <2> QED
    BY <1>1, Join
<1> HIDE DEF s, r
<1>3. Len(r) = 1 + Len(x) /\ r[1] = c /\ \A j \in 1..Len(x) : r[1 + j] = x[j]
  <2>1. 1 \in 1..1
    OBVIOUS
  <2> QED
    BY <1>1, <1>2, <2>1 DEF Behind
<1>4. r # <<>>
  BY <1>1, <1>2, <1>3
<1>5. Head(r) = c
  BY <1>2, <1>3, <1>4
<1>6. Tail(r) = x
  <2>1. /\ Tail(r) \in Seq(V) /\ Len(Tail(r)) = Len(r) - 1
        /\ \A i \in 1..Len(Tail(r)) : Tail(r)[i] = r[i + 1]
    BY <1>2, <1>4, HeadTailProperties
  <2> DEFINE t == Tail(r)
  <2>2. t \in Seq(V) /\ Len(t) = Len(x) /\ \A i \in 1..Len(t) : t[i] = r[i + 1]
    BY <1>1, <1>3, <2>1
  <2> HIDE DEF t
  <2>3. \A i \in 1..Len(t) : t[i] = x[i]
    <3> TAKE i \in 1..Len(t)
    <3>1. i + 1 = 1 + i /\ i \in 1..Len(x)
      BY <1>1, <2>2
    <3> QED
      BY <1>3, <2>2, <3>1
  <2>4. t = x
    BY <2>2, <2>3
  <2> QED
    BY <2>4 DEF t
<1> QED
  BY <1>2, <1>4, <1>5, <1>6 DEF r, s

LEMMA MovesOn ==
  ASSUME NEW V, NEW s \in Seq(V), NEW c \in V, NEW t \in Seq(V)
  PROVE  Append(s, c) \o t = s \o (<<c>> \o t)
<1>1. Append(s, c) = s \o <<c>> /\ <<c>> \in Seq(V)
  BY AppendIsConcat
<1> QED
  BY <1>1, ConcatAssociative

LEMMA BodyIs ==
  ASSUME NEW m \in Messages
  PROVE  /\ Body(m) \in Seq(Symbols) /\ Len(Body(m)) \in Nat \ {0}
         /\ Body(m)[1] \in Kinds
         /\ Reads(Body(m), {}, {})
         /\ Written(m) \in Seq(Symbols) /\ Written(m) # <<>>
         /\ <<CR, LF>> \in Seq(Symbols)
         /\ <<>> \o Body(m) = Body(m)
<1>1. IsMessage(m)
  BY WireAssumption
<1>2. AtomsAt(Body(m), m) /\ m.kind \in Kinds /\ Len(m.atoms) \in 0..2
  BY <1>1, LineIs, MessageIs
<1>3. Body(m) \in Seq(Symbols) /\ Body(m)[1] \in Kinds
  BY <1>2 DEF AtomsAt
<1>4. Len(Body(m)) \in Nat \ {0}
  <2> DEFINE l == Len(Body(m))
             a == Len(m.atoms)
  <2>1. a \in 0..2 /\ 2 * a + 1 <= l /\ l \in Nat
    BY <1>2, <1>3 DEF AtomsAt
  <2> HIDE DEF l, a
  <2>2. l \in Nat \ {0}
    BY <2>1
  <2> QED
    BY <2>2 DEF l
<1>5. Reads(Body(m), {}, {})
  BY <1>1, BodyReads
<1> DEFINE b == Body(m)
           e == <<CR, LF>>
           r == b \o e
<1>6. e \in Seq(Symbols)
  BY SymbolsAre
<1> HIDE DEF b, e
<1>7. r \in Seq(Symbols) /\ Behind(r, b, e) /\ Len(b) \in Nat \ {0} /\ Len(e) \in Nat
  BY <1>3, <1>4, <1>6, Join DEF b
<1> HIDE DEF r
<1>8. r # <<>>
  BY <1>7 DEF Behind
<1>9. <<>> \o b = b
  BY <1>3 DEF b
<1> QED
  BY <1>3, <1>4, <1>5, <1>6, <1>7, <1>8, <1>9 DEF Written, r, b, e

LEMMA TypeInit ==
  ASSUME WireInit
  PROVE  WireType
<1>1. sent = <<>> /\ got = <<>> /\ half = <<>> /\ wire = <<>> /\ from = 0 /\ base = 0
  BY DEF WireInit
<1>2. inQuotes \in BOOLEAN /\ escape \in BOOLEAN /\ clean \in BOOLEAN
  BY DEF WireInit
<1>3. sent \in Seq(Messages) /\ got \in Seq(Heard) /\ half \in Seq(Symbols) /\ wire \in Seq(Symbols)
  BY <1>1
<1>4. from \in 0..Len(sent) /\ base \in 0..Len(got)
  BY <1>1
<1> QED
  BY <1>2, <1>3, <1>4 DEF WireType

LEMMA TypeStep ==
  ASSUME WireType, [WireNext]_wireVars
  PROVE  WireType'
<1> USE DEF WireType
<1>0. ASSUME NoLine PROVE half' \in Seq(Symbols) /\ inQuotes' \in BOOLEAN /\ escape' \in BOOLEAN
  <2>1. half' = <<>> /\ inQuotes' = FALSE /\ escape' = FALSE
    BY <1>0 DEF NoLine
  <2>2. half' \in Seq(Symbols)
    BY <2>1
  <2>3. inQuotes' \in BOOLEAN /\ escape' \in BOOLEAN
    BY <2>1
  <2> QED
    BY <2>2, <2>3
<1>1. CASE Say
  <2>1. PICK m \in Messages : sent' = Append(sent, m) /\ wire' = Written(m)
    BY <1>1 DEF Say
  <2>2. UNCHANGED <<reader, got, clean, from, base>>
    BY <1>1 DEF Say
  <2>3. sent' \in Seq(Messages) /\ Len(sent') = Len(sent) + 1 /\ wire' \in Seq(Symbols)
    BY <2>1, BodyIs
  <2>4. from' \in 0..Len(sent')
    <3>1. from' = from /\ Len(sent) \in Nat
      BY <2>2
    <3> QED
      BY <2>3, <3>1
  <2> QED
    BY <2>2, <2>3, <2>4 DEF reader
<1>2. CASE Ask
  BY <1>2 DEF Ask, reader
<1>3. CASE TakeSymbol
  <2>1. wire # <<>> /\ wire' = Tail(wire) /\ UNCHANGED <<sent, got, clean, from, base>>
    BY <1>3 DEF TakeSymbol
  <2>2. Head(wire) \in Symbols /\ wire' \in Seq(Symbols)
    BY <2>1, HeadTailProperties
  <2>3. half' \in Seq(Symbols) /\ inQuotes' \in BOOLEAN /\ escape' \in BOOLEAN
    <3>1. CASE Head(wire) = CR
      BY <1>3, <3>1 DEF TakeSymbol, reader
    <3>2. CASE Head(wire) # CR
      <4>1. /\ half' = Append(half, Head(wire))
            /\ inQuotes' = (inQuotes # (Head(wire) = Quote /\ ~escape))
            /\ escape' = (Head(wire) = Slash /\ ~escape)
        BY <1>3, <3>2 DEF TakeSymbol
      <4>2. half' \in Seq(Symbols)
        BY <2>2, <4>1
      <4>3. inQuotes' \in BOOLEAN /\ escape' \in BOOLEAN
        BY <4>1
      <4> QED
        BY <4>2, <4>3
    <3> QED
      BY <3>1, <3>2
  <2> QED
    BY <2>1, <2>2, <2>3
<1>4. CASE TakeLine
  <2>1. wire # <<>> /\ wire' = Tail(wire) /\ UNCHANGED <<sent, clean, from, base>> /\ NoLine
    BY <1>4 DEF TakeLine
  <2>2. wire' \in Seq(Symbols) /\ half' \in Seq(Symbols) /\ inQuotes' \in BOOLEAN /\ escape' \in BOOLEAN
    BY <1>0, <2>1, HeadTailProperties
  <2>3. got' = got \/ got' = Append(got, Understood(ParseMessage(half)))
    BY <1>4 DEF TakeLine
  <2>4. Understood(ParseMessage(half)) \in Heard
    BY DEF Heard
  <2>5. got' \in Seq(Heard) /\ Len(got') \in {Len(got), Len(got) + 1} /\ Len(got) \in Nat
    <3> DEFINE u == Understood(ParseMessage(half))
    <3>1. u \in Heard /\ (got' = got \/ got' = Append(got, u))
      BY <2>3, <2>4
    <3> HIDE DEF u
    <3>2. CASE got' = got
      BY <3>2
    <3>3. CASE got' = Append(got, u)
      <4>1. got \in Seq(Heard)
        OBVIOUS
      <4> QED
        BY <3>1, <3>3, <4>1
    <3> QED
      BY <3>1, <3>2, <3>3
  <2>6. base' \in 0..Len(got')
    BY <2>1, <2>5
  <2> QED
    BY <2>1, <2>2, <2>5, <2>6
<1>5. CASE TooLong
  <2>1. wire # <<>> /\ NoLine /\ UNCHANGED <<sent, got>>
    BY <1>5 DEF TooLong
  <2>2. half' \in Seq(Symbols) /\ inQuotes' \in BOOLEAN /\ escape' \in BOOLEAN
    BY <1>0, <2>1
  <2>3. CASE wire' = <<>> /\ clean' = TRUE /\ from' = Len(sent) /\ base' = Len(got)
    BY <2>1, <2>2, <2>3
  <2>4. CASE wire' = Tail(wire) /\ clean' = FALSE /\ UNCHANGED <<from, base>>
    <3>1. wire' \in Seq(Symbols)
      BY <2>1, <2>4, HeadTailProperties
    <3> QED
      BY <2>1, <2>2, <2>4, <3>1
  <2> QED
    BY <1>5, <2>3, <2>4 DEF TooLong
<1>6. CASE FallSilent
  <2>1. NoLine /\ UNCHANGED <<sent, wire, got>> /\ clean' = TRUE /\ from' = Len(sent) /\ base' = Len(got)
    BY <1>6 DEF FallSilent
  <2> QED
    BY <1>0, <2>1
<1>7. CASE SegmentIsLate
  <2>1. NoLine /\ UNCHANGED <<sent, wire, got, from, base>> /\ clean' = FALSE
    BY <1>7 DEF SegmentIsLate
  <2> QED
    BY <1>0, <2>1
<1>8. CASE UNCHANGED wireVars
  BY <1>8 DEF wireVars, reader
<1> QED
  BY <1>1, <1>2, <1>3, <1>4, <1>5, <1>6, <1>7, <1>8 DEF WireNext

-----------------------------------------------------------------------------
(* What the reader is in the middle of. *)

(* The reader's marks, the message it reads and those before. *)
Now == (IF inQuotes THEN {"quotes"} ELSE {}) \cup (IF escape THEN {"escape"} ELSE {})
Last == sent[Len(sent)]
Front == SubSeq(sent, 1, Len(sent) - 1)

(* Of the line that is read, a part is yet to come. *)
InLine(rest) ==
  /\ half \o rest = Body(Last)
  /\ wire = rest \o <<CR, LF>>
  /\ Reads(rest, Now, {})

(* The reader is in the line that was said last, and where it is. *)
Following ==
  /\ sent # <<>>
  /\ \/ \E rest \in Seq(Symbols) : InLine(rest)
     \/ wire = <<LF>> /\ half = Body(Last) /\ Now = {}

(* Between two lines. *)
AtRest == wire = <<>> /\ half = <<>> /\ Now = {}

LEMMA NowIs ==
  /\ Now \in SUBSET Marks
  /\ "quotes" \in Now <=> inQuotes
  /\ "escape" \in Now <=> escape
  /\ (inQuotes = FALSE /\ escape = FALSE) => Now = {}
BY DEF Now, Marks

LEMMA NowAfter ==
  ASSUME WireType, NoLine
  PROVE  half' = <<>> /\ Now' = {}
BY DEF NoLine, Now

LEMMA NowSame ==
  ASSUME UNCHANGED <<inQuotes, escape>>
  PROVE  Now' = Now
BY DEF Now

LEMMA NowTaken ==
  ASSUME WireType, NEW c,
         inQuotes' = (inQuotes # (c = Quote /\ ~escape)), escape' = (c = Slash /\ ~escape)
  PROVE  Now' = Taken(Now, c)
<1>1. inQuotes \in BOOLEAN /\ escape \in BOOLEAN
  BY DEF WireType
<1>2. "quotes" \in Now <=> inQuotes
  BY NowIs
<1>3. "escape" \in Now <=> escape
  BY NowIs
<1>4. inQuotes' <=> ~(inQuotes <=> (c = Quote /\ ~escape))
  BY <1>1
<1>5. escape' <=> (c = Slash /\ ~escape)
  OBVIOUS
<1>6. "quotes" \in Taken(Now, c) <=> ~(inQuotes <=> (c = Quote /\ ~escape))
  BY <1>2, <1>3, Zenon DEF Taken, Marks
<1>7. "escape" \in Taken(Now, c) <=> (c = Slash /\ ~escape)
  BY <1>3, Zenon DEF Taken, Marks
<1>8. Taken(Now, c) \subseteq {"quotes", "escape"}
  BY DEF Taken, Marks
<1>9. "quotes" \in Now' <=> inQuotes'
  BY DEF Now
<1>10. "escape" \in Now' <=> escape'
  BY DEF Now
<1>11. Now' \subseteq {"quotes", "escape"}
  BY DEF Now
<1> DEFINE was == Taken(Now, c)
<1>12. ("quotes" \in was <=> "quotes" \in Now') /\ ("escape" \in was <=> "escape" \in Now')
  BY <1>4, <1>5, <1>6, <1>7, <1>9, <1>10
<1>13. was \subseteq {"quotes", "escape"}
  BY <1>8
<1> HIDE DEF was
<1>14. Now' = was
  <2> DEFINE is == Now'
  <2>1. is \subseteq {"quotes", "escape"}
    BY <1>11
  <2>2. ("quotes" \in was <=> "quotes" \in is) /\ ("escape" \in was <=> "escape" \in is)
    BY <1>12
  <2> HIDE DEF is
  <2>3. \A x : x \in is <=> x \in was
    BY <1>13, <2>1, <2>2
  <2>4. is = was
    BY <2>3
  <2> QED
    BY <2>4 DEF is
<1> QED
  BY <1>14 DEF was

LEMMA SaidOne ==
  ASSUME WireType, NEW m \in Messages, sent' = Append(sent, m)
  PROVE  /\ sent' # <<>> /\ Last' = m /\ Front' = sent /\ Len(sent') = Len(sent) + 1
         /\ sent' \in Seq(Messages)
<1>1. sent \in Seq(Messages) /\ Len(sent) \in Nat
  BY DEF WireType
<1>2. sent' # <<>> /\ Len(sent') = Len(sent) + 1 /\ sent'[Len(sent) + 1] = m /\ sent' \in Seq(Messages)
  BY <1>1
<1>3. SubSeq(sent', 1, Len(sent')  - 1) = sent
  <2>1. Len(sent') - 1 = Len(sent)
    BY <1>1, <1>2
  <2>2. SubSeq(Append(sent, m), 1, Len(sent)) = sent
    BY <1>1
  <2> QED
    BY <2>1, <2>2
<1> QED
  BY <1>2, <1>3 DEF Last, Front

(* A line begins. *)
LEMMA LineBegins ==
  ASSUME WireType, half' = <<>>, Now' = {}, sent' # <<>>, NEW m \in Messages, Last' = m,
         wire' = Written(m)
  PROVE  Following'
<1> DEFINE b == Body(m)
<1>1. b \in Seq(Symbols) /\ Reads(b, {}, {}) /\ <<>> \o b = b
  BY BodyIs
<1>2. wire' = b \o <<CR, LF>>
  BY DEF Written
<1> HIDE DEF b
<1>3. half' \o b = Body(Last')
  BY <1>1 DEF b
<1>4. InLine(b)'
  BY <1>1, <1>2, <1>3 DEF InLine
<1> QED
  BY <1>1, <1>4 DEF Following

LEMMA SayFollows ==
  ASSUME WireType, AtRest, Say
  PROVE  Following'
<1>1. PICK m \in Messages : sent' = Append(sent, m) /\ wire' = Written(m)
  BY DEF Say
<1>2. half' = half /\ UNCHANGED <<inQuotes, escape>>
  BY DEF Say, reader
<1>3. half' = <<>> /\ Now' = {}
  BY <1>2, NowSame DEF AtRest
<1> QED
  BY <1>1, <1>3, SaidOne, LineBegins

(* The rest of a line, symbol by symbol. *)
LEMMA TheRest ==
  ASSUME NEW rest \in Seq(Symbols), InLine(rest), rest # <<>>
  PROVE  /\ Head(rest) \in Symbols /\ Tail(rest) \in Seq(Symbols)
         /\ rest = <<Head(rest)>> \o Tail(rest)
         /\ wire # <<>> /\ Head(wire) = Head(rest)
         /\ Tail(wire) = Tail(rest) \o <<CR, LF>>
         /\ Reads(Tail(rest), Taken(Now, Head(rest)), {})
         /\ Head(rest) # CR /\ (Head(rest) = LF => inQuotes)
<1> DEFINE c == Head(rest)
           t == Tail(rest)
           e == <<CR, LF>>
<1>1. c \in Symbols /\ t \in Seq(Symbols) /\ rest = <<c>> \o t
  BY HeadAndTail
<1>2. e \in Seq(Symbols)
  BY SymbolsAre
<1> HIDE DEF c, t, e
<1>3. wire = <<c>> \o (t \o e)
  <2>1. wire = (<<c>> \o t) \o e
    BY <1>1 DEF InLine, e
  <2>2. <<c>> \in Seq(Symbols)
    BY <1>1
  <2> QED
    BY <1>1, <1>2, <2>1, <2>2, ConcatAssociative
<1> DEFINE x == t \o e
<1>4. x \in Seq(Symbols)
  BY <1>1, <1>2
<1>5. wire = <<c>> \o x
  BY <1>3
<1> HIDE DEF x
<1>6. wire # <<>> /\ Head(wire) = c /\ Tail(wire) = x
  BY <1>1, <1>4, <1>5, Consume
<1>7. Reads(<<c>> \o t, Now, {})
  BY <1>1 DEF InLine
<1>8. Reads(t, Taken(Now, c), {}) /\ c # CR /\ (c = LF => "quotes" \in Now)
  BY <1>1, <1>7, ReadsOne
<1>9. c = LF => inQuotes
  BY <1>8, NowIs
<1> QED
  BY <1>1, <1>6, <1>8, <1>9 DEF c, t, x, e

(* At the line's end. *)
LEMMA TheEnd ==
  ASSUME WireType, NEW rest \in Seq(Symbols), InLine(rest), rest = <<>>
  PROVE  /\ half = Body(Last) /\ Now = {} /\ ~inQuotes
         /\ wire # <<>> /\ Head(wire) = CR /\ Tail(wire) = <<LF>>
<1>1. half = Body(Last)
  <2>1. half \o <<>> = half
    BY DEF WireType
  <2> QED
    BY <2>1 DEF InLine
<1>2. Now = {}
  BY ReadsNothing DEF InLine
<1>3. ~inQuotes
  BY <1>2, NowIs
<1>4. wire = <<CR, LF>>
  BY DEF InLine
<1> QED
  BY <1>1, <1>2, <1>3, <1>4

LEMMA TakeSymbolFollows ==
  ASSUME WireType, Following, TakeSymbol
  PROVE  Following'
<1>1. /\ wire # <<>> /\ wire' = Tail(wire) /\ sent' = sent /\ Last' = Last
      /\ ~(Head(wire) = LF /\ ~inQuotes)
  BY DEF TakeSymbol, Last
<1>2. ~(wire = <<LF>> /\ Now = {})
  <2> SUFFICES ASSUME wire = <<LF>>, Now = {} PROVE FALSE
    OBVIOUS
  <2>1. Head(wire) = LF /\ ~inQuotes
    BY NowIs
  <2> QED
    BY <1>1, <2>1
<1>3. PICK rest \in Seq(Symbols) : InLine(rest)
  BY <1>2 DEF Following
<1>4. CASE rest # <<>>
  <2> DEFINE c == Head(rest)
             t == Tail(rest)
  <2>1. /\ c \in Symbols /\ t \in Seq(Symbols)
        /\ rest = <<c>> \o t
        /\ Head(wire) = c /\ Tail(wire) = t \o <<CR, LF>>
        /\ Reads(t, Taken(Now, c), {}) /\ c # CR
    BY <1>3, <1>4, TheRest
  <2> HIDE DEF c, t
  <2>2. /\ half' = Append(half, c)
        /\ inQuotes' = (inQuotes # (c = Quote /\ ~escape))
        /\ escape' = (c = Slash /\ ~escape)
    BY <2>1 DEF TakeSymbol
  <2>3. Now' = Taken(Now, c)
    BY <2>2, NowTaken
  <2>4. half' \o t = Body(Last)
    <3>1. half \in Seq(Symbols)
      BY DEF WireType
    <3>2. half' \o t = half \o (<<c>> \o t)
      BY <2>1, <2>2, <3>1, MovesOn
    <3> QED
      BY <1>3, <2>1, <3>2 DEF InLine
  <2>5. InLine(t)'
    BY <1>1, <2>1, <2>3, <2>4 DEF InLine
  <2> QED
    BY <1>1, <2>1, <2>5 DEF Following
<1>5. CASE rest = <<>>
  <2>1. half = Body(Last) /\ Now = {} /\ Head(wire) = CR /\ Tail(wire) = <<LF>>
    BY <1>3, <1>5, TheEnd
  <2>2. half' = half /\ UNCHANGED <<inQuotes, escape>>
    BY <2>1 DEF TakeSymbol, reader
  <2>3. Now' = {}
    BY <2>1, <2>2, NowSame
  <2>4. wire' = <<LF>> /\ half' = Body(Last')
    BY <1>1, <2>1, <2>2
  <2> QED
    BY <1>1, <2>3, <2>4 DEF Following
<1> QED
  BY <1>4, <1>5

(* A line that is taken whole is understood. *)
LEMMA TakeLineHears ==
  ASSUME WireType, Following, TakeLine
  PROVE  /\ AtRest'
         /\ got' = got \o Hears(Last)
         /\ sent' = sent /\ Last \in Messages
<1>1. /\ wire # <<>> /\ wire' = Tail(wire) /\ sent' = sent
      /\ Head(wire) = LF /\ ~inQuotes /\ NoLine
      /\ got' = IF ParseMessage(half) = Invalid THEN got ELSE Append(got, Understood(ParseMessage(half)))
  BY Zenon DEF TakeLine
<1>2. ASSUME NEW rest \in Seq(Symbols), InLine(rest) PROVE FALSE
  <2>1. CASE rest # <<>>
    <3>1. Head(wire) = Head(rest) /\ (Head(rest) = LF => inQuotes)
      BY <1>2, <2>1, TheRest
    <3> QED
      BY <1>1, <3>1
  <2>2. CASE rest = <<>>
    <3>1. Head(wire) = CR
      BY <1>2, <2>2, TheEnd
    <3> QED
      BY <1>1, <3>1 DEF CR, LF
  <2> QED
    BY <2>1, <2>2
<1>3. wire = <<LF>> /\ half = Body(Last)
  BY <1>2 DEF Following
<1>4. Last \in Messages
  <2>1. sent \in Seq(Messages) /\ sent # <<>>
    BY DEF WireType, Following
  <2>2. Len(sent) \in 1..Len(sent)
    BY <2>1
  <2> QED
    BY <2>1, <2>2 DEF Last
<1>5. AtRest'
  <2>1. wire' = <<>>
    BY <1>1, <1>3
  <2> QED
    BY <1>1, <2>1, NowAfter DEF AtRest
<1>6. got' = got \o Hears(Last)
  <2>0. got \in Seq(Heard) /\ IsMessage(Last)
    BY <1>4, WireAssumption DEF WireType
  <2>1. CASE Len(Last.texts) <= MaxArgs
    <3>1. ParseMessage(half) # Invalid /\ Understood(ParseMessage(half)) = Meant(Last)
      BY <1>3, <2>0, <2>1, ParsesBack
    <3> DEFINE x == Meant(Last)
    <3>2. got' = Append(got, x)
      BY <1>1, <3>1
    <3>3. x \in Heard
      BY <1>4 DEF Heard, Meanings
    <3>4. Hears(Last) = <<x>>
      BY <2>1 DEF Hears
    <3> HIDE DEF x
    <3> QED
      BY <2>0, <3>2, <3>3, <3>4, AppendIsConcat
  <2>2. CASE ~(Len(Last.texts) <= MaxArgs)
    <3>1. ParseMessage(half) = Invalid
      BY <1>3, <2>0, <2>2, ParsesBack
    <3>2. got' = got /\ got \o <<>> = got
      BY <1>1, <2>0, <3>1
    <3>3. Hears(Last) = <<>>
      BY <2>2 DEF Hears
    <3> QED
      BY <3>2, <3>3
  <2> QED
    BY <2>1, <2>2
<1> QED
  BY <1>1, <1>4, <1>5, <1>6

LEMMA FollowingIsBusy ==
  ASSUME WireType, Following
  PROVE  wire # <<>>
<1>1. ASSUME NEW rest \in Seq(Symbols), InLine(rest) PROVE wire # <<>>
  BY <1>1, TheRest, TheEnd
<1>2. <<LF>> # <<>>
  OBVIOUS
<1> QED
  BY <1>1, <1>2 DEF Following

-----------------------------------------------------------------------------
(* Nothing is missed while no line is cut. *)

LEMMA SinceJoin ==
  ASSUME NEW V, NEW s \in Seq(V), NEW t \in Seq(V), NEW b \in 0..Len(s)
  PROVE  SubSeq(s \o t, b + 1, Len(s \o t)) = SubSeq(s, b + 1, Len(s)) \o t
<1> DEFINE r == s \o t
           u == SubSeq(s, b + 1, Len(s))
           x == SubSeq(r, b + 1, Len(r))
           y == u \o t
           n == Len(s)
           l == Len(t)
<1>1. r \in Seq(V) /\ Behind(r, s, t) /\ n \in Nat /\ l \in Nat /\ b \in 0..n
  BY Join
<1>2. u \in Seq(V) /\ Len(u) = n - b /\ \A i \in 1..(n - b) : u[i] = s[b + i]
  <2>1. b + 1 \in Int /\ n \in Int /\ (b + 1 <= n => n - (b + 1) + 1 = n - b)
        /\ (~(b + 1 <= n) => n - b = 0) /\ n - (b + 1) + 1 = n - b
    BY <1>1
  <2>2. \A i \in (b + 1)..n : s[i] \in V
    BY <1>1
  <2> HIDE DEF n
  <2>3. /\ SubSeq(s, b + 1, n) \in Seq(V)
        /\ Len(SubSeq(s, b + 1, n)) = IF b + 1 <= n THEN n - (b + 1) + 1 ELSE 0
        /\ \A i \in 1..(n - (b + 1) + 1) : SubSeq(s, b + 1, n)[i] = s[(b + 1) + i - 1]
    BY <2>1, <2>2, SubSeqProperties
  <2>4. u = SubSeq(s, b + 1, n)
    BY DEF n
  <2> HIDE DEF u
  <2>5. \A i \in 1..(n - b) : (b + 1) + i - 1 = b + i
    BY <1>1
  <2> QED
    BY <2>1, <2>3, <2>4, <2>5
<1> HIDE DEF r, n, l
<1>3. Len(r) = n + l /\ (\A j \in 1..n : r[j] = s[j]) /\ (\A j \in 1..l : r[n + j] = t[j])
  BY <1>1 DEF Behind, n, l
<1>4. x \in Seq(V) /\ Len(x) = (n - b) + l /\ \A i \in 1..((n - b) + l) : x[i] = r[b + i]
  <2> DEFINE q == n + l
  <2>1. /\ b + 1 \in Int /\ q \in Int /\ (b + 1 <= q => q - (b + 1) + 1 = (n - b) + l)
        /\ (~(b + 1 <= q) => (n - b) + l = 0) /\ q - (b + 1) + 1 = (n - b) + l
    BY <1>1
  <2>2. \A i \in (b + 1)..q : r[i] \in V
    BY <1>1, <1>3
  <2> HIDE DEF q
  <2>3. /\ SubSeq(r, b + 1, q) \in Seq(V)
        /\ Len(SubSeq(r, b + 1, q)) = IF b + 1 <= q THEN q - (b + 1) + 1 ELSE 0
        /\ \A i \in 1..(q - (b + 1) + 1) : SubSeq(r, b + 1, q)[i] = r[(b + 1) + i - 1]
    BY <2>1, <2>2, SubSeqProperties
  <2>4. x = SubSeq(r, b + 1, q)
    BY <1>3 DEF q
  <2> HIDE DEF x
  <2>5. \A i \in 1..((n - b) + l) : (b + 1) + i - 1 = b + i
    BY <1>1
  <2> QED
    BY <2>1, <2>3, <2>4, <2>5
<1> HIDE DEF u, x
<1>5. y \in Seq(V) /\ Behind(y, u, t)
  BY <1>2, Join
<1> HIDE DEF y
<1>6. Len(y) = (n - b) + l /\ (\A j \in 1..(n - b) : y[j] = u[j]) /\ (\A j \in 1..l : y[(n - b) + j] = t[j])
  BY <1>2, <1>5 DEF Behind, l
<1>7. ASSUME NEW i \in 1..((n - b) + l) PROVE x[i] = y[i]
  <2>1. CASE i <= n - b
    <3>1. i \in 1..(n - b) /\ b + i \in 1..n
      BY <1>1, <2>1
    <3> QED
      BY <1>2, <1>3, <1>4, <1>6, <3>1
  <2>2. CASE ~(i <= n - b)
    <3> DEFINE j == i - (n - b)
    <3>1. j \in 1..l /\ b + i = n + j /\ i = (n - b) + j
      BY <1>1, <2>2
    <3> HIDE DEF j
    <3> QED
      BY <1>3, <1>4, <1>6, <3>1
  <2> QED
    BY <2>1, <2>2
<1>8. x = y
  BY <1>4, <1>5, <1>6, <1>7, SeqEqual
<1> QED
  BY <1>8 DEF x, y, r, u

LEMMA LastOf ==
  ASSUME NEW V, NEW s \in Seq(V), NEW b \in 0..(Len(s) - 1)
  PROVE  /\ SubSeq(s, b + 1, Len(s) - 1) \in Seq(V) /\ s[Len(s)] \in V
         /\ SubSeq(s, b + 1, Len(s)) = Append(SubSeq(s, b + 1, Len(s) - 1), s[Len(s)])
<1> DEFINE n == Len(s)
           u == SubSeq(s, b + 1, n - 1)
<1>1. n \in Nat /\ b + 1 \in 1..n /\ n \in (b + 1)..n /\ n \in 1..n
  OBVIOUS
<1>2. SubSeq(s, b + 1, n) = u \o <<s[n]>>
  BY <1>1, SubSeqRecursiveSecond
<1>3. u \in Seq(V)
  <2>1. b + 1 \in Int /\ n - 1 \in Int /\ \A i \in (b + 1)..(n - 1) : s[i] \in V
    BY <1>1
  <2> QED
    BY <2>1, SubSeqProperties
<1>4. s[n] \in V
  BY <1>1
<1> HIDE DEF u
<1>5. Append(u, s[n]) = u \o <<s[n]>>
  BY <1>3, <1>4, AppendIsConcat
<1> QED
  BY <1>2, <1>3, <1>4, <1>5 DEF u

LEMMA SameMode ==
  ASSUME UNCHANGED <<sent, wire, reader>>
  PROVE  (Following => Following') /\ (AtRest => AtRest')
BY DEF Following, AtRest, InLine, Now, Last, reader

(* What has been understood since everything was last in step. *)
Since == SubSeq(got, base + 1, Len(got))

(* While no line has been cut, everything said since is understood, or all   *)
(* but the last, in which the reader is. *)
StepInv ==
  clean => \/ AtRest /\ Since = AllMeant(SubSeq(sent, from + 1, Len(sent)))
           \/ /\ Following /\ from < Len(sent)
              /\ Since = AllMeant(SubSeq(sent, from + 1, Len(sent) - 1))

(* The invariant holds, at first and from step to step. *)
LEMMA StepInvInit ==
  ASSUME WireInit
  PROVE  StepInv
<1>1. /\ sent = <<>> /\ got = <<>> /\ half = <<>> /\ wire = <<>> /\ from = 0 /\ base = 0
      /\ inQuotes = FALSE /\ escape = FALSE
  BY DEF WireInit
<1>2. AtRest
  BY <1>1, NowIs DEF AtRest
<1>3. SubSeq(sent, from + 1, Len(sent)) = <<>> /\ Since = <<>>
  BY <1>1 DEF Since
<1> QED
  BY <1>2, <1>3, AllMeantNothing DEF StepInv

(* With everything counted from now on, there is nothing yet. *)
LEMMA InStepAnew ==
  ASSUME WireType, AtRest', UNCHANGED <<sent, got>>, from' = Len(sent), base' = Len(got)
  PROVE  StepInv'
<1>1. Len(sent) \in Nat /\ Len(got) \in Nat
  BY DEF WireType
<1>2. SubSeq(sent', from' + 1, Len(sent')) = <<>>
  <2>1. from' + 1 \in Int /\ Len(sent') \in Int /\ Len(sent') < from' + 1
    BY <1>1
  <2> QED
    BY <2>1, SubSeqEmpty
<1>3. Since' = <<>>
  <2>1. base' + 1 \in Int /\ Len(got') \in Int /\ Len(got') < base' + 1
    BY <1>1
  <2> QED
    BY <2>1, SubSeqEmpty DEF Since
<1> QED
  BY <1>2, <1>3, AllMeantNothing DEF StepInv

LEMMA StepInvStep ==
  ASSUME WireType, StepInv, [WireNext]_wireVars
  PROVE  StepInv'
<1>0. /\ sent \in Seq(Messages) /\ got \in Seq(Heard)
      /\ from \in 0..Len(sent) /\ base \in 0..Len(got) /\ Len(sent) \in Nat
  BY DEF WireType
<1>1. CASE Say
  <2>1. PICK m \in Messages : sent' = Append(sent, m)
    BY <1>1 DEF Say
  <2>2. wire = <<>> /\ UNCHANGED <<got, clean, from, base>>
    BY <1>1 DEF Say
  <2> SUFFICES ASSUME clean PROVE StepInv'
    BY <2>2 DEF StepInv
  <2>3. AtRest /\ Since = AllMeant(SubSeq(sent, from + 1, Len(sent)))
    BY <2>2, FollowingIsBusy DEF StepInv
  <2>4. Following'
    BY <1>1, <2>3, SayFollows
  <2>5. Len(sent') = Len(sent) + 1 /\ from' < Len(sent')
    BY <1>0, <2>1, <2>2
  <2>6. SubSeq(sent', from' + 1, Len(sent') - 1) = SubSeq(sent, from + 1, Len(sent))
    <3>1. Len(sent') - 1 = Len(sent)
      BY <1>0, <2>5
    <3>2. SubSeq(Append(sent, m), from + 1, Len(sent)) = SubSeq(sent, from + 1, Len(sent))
      BY <1>0
    <3> QED
      BY <2>1, <2>2, <3>1, <3>2
  <2>7. Since' = Since
    BY <2>2 DEF Since
  <2> QED
    BY <2>3, <2>4, <2>5, <2>6, <2>7 DEF StepInv
<1>2. CASE Ask
  <2>1. UNCHANGED <<sent, wire, reader, got, clean, from, base>>
    BY <1>2 DEF Ask
  <2> QED
    BY <2>1, SameMode DEF StepInv, Since
<1>3. CASE TakeSymbol
  <2>1. wire # <<>> /\ UNCHANGED <<sent, got, clean, from, base>>
    BY <1>3 DEF TakeSymbol
  <2> QED
    BY <1>3, <2>1, TakeSymbolFollows DEF StepInv, Since, AtRest
<1>4. CASE TakeLine
  <2>1. wire # <<>> /\ UNCHANGED <<sent, clean, from, base>>
    BY <1>4 DEF TakeLine
  <2> SUFFICES ASSUME clean PROVE StepInv'
    BY <2>1 DEF StepInv
  <2>2. Following /\ from < Len(sent) /\ Since = AllMeant(SubSeq(sent, from + 1, Len(sent) - 1))
    BY <2>1 DEF StepInv, AtRest
  <2>3. AtRest' /\ got' = got \o Hears(Last) /\ Last \in Messages
    BY <1>4, <2>2, TakeLineHears
  <2>4. Since' = Since \o Hears(Last)
    <3> DEFINE h == Hears(Last)
    <3>1. h \in Seq(Heard)
      <4>1. h \in Seq(Meanings)
        BY <2>3, HearsType
      <4>2. Meanings \subseteq Heard
        BY DEF Heard
      <4> QED
        BY <4>1, <4>2, SeqMonotonic
    <3>2. got' = got \o h /\ base' = base
      BY <2>1, <2>3
    <3> HIDE DEF h
    <3>3. SubSeq(got \o h, base + 1, Len(got \o h)) = SubSeq(got, base + 1, Len(got)) \o h
      BY <1>0, <3>1, SinceJoin
    <3> QED
      BY <3>2, <3>3 DEF Since, h
  <2>5. AllMeant(SubSeq(sent, from + 1, Len(sent))) =
          AllMeant(SubSeq(sent, from + 1, Len(sent) - 1)) \o Hears(Last)
    <3>1. from \in 0..(Len(sent) - 1)
      BY <1>0, <2>2
    <3>2. /\ SubSeq(sent, from + 1, Len(sent) - 1) \in Seq(Messages)
          /\ SubSeq(sent, from + 1, Len(sent)) = Append(SubSeq(sent, from + 1, Len(sent) - 1), Last)
      BY <1>0, <3>1, LastOf DEF Last
    <3> QED
      BY <2>3, <3>2, AllMeantStep
  <2>6. sent' = sent /\ from' = from
    BY <2>1
  <2> QED
    BY <2>2, <2>3, <2>4, <2>5, <2>6 DEF StepInv
<1>5. CASE TooLong
  <2>1. NoLine /\ UNCHANGED <<sent, got>>
    BY <1>5 DEF TooLong
  <2>2. CASE wire' = <<>> /\ clean' = TRUE /\ from' = Len(sent) /\ base' = Len(got)
    <3>1. AtRest'
      BY <2>1, <2>2, NowAfter DEF AtRest
    <3> QED
      BY <2>1, <2>2, <3>1, InStepAnew
  <2>3. CASE clean' = FALSE
    BY <2>3 DEF StepInv
  <2> QED
    BY <1>5, <2>2, <2>3 DEF TooLong
<1>6. CASE FallSilent
  <2>1. wire = <<>> /\ NoLine /\ UNCHANGED <<sent, wire, got>> /\ from' = Len(sent) /\ base' = Len(got)
    BY <1>6 DEF FallSilent
  <2>2. AtRest'
    BY <2>1, NowAfter DEF AtRest
  <2> QED
    BY <2>1, <2>2, InStepAnew
<1>7. CASE SegmentIsLate
  BY <1>7 DEF SegmentIsLate, StepInv
<1>8. CASE UNCHANGED wireVars
  <2>1. UNCHANGED <<sent, wire, reader, got, clean, from, base>>
    BY <1>8 DEF wireVars
  <2> QED
    BY <2>1, SameMode DEF StepInv, Since
<1> QED
  BY <1>1, <1>2, <1>3, <1>4, <1>5, <1>6, <1>7, <1>8 DEF WireNext

LEMMA StepInvShows ==
  ASSUME WireType, StepInv
  PROVE  InStep
BY FollowingIsBusy DEF StepInv, InStep, Since

(* The reader keeps its line, marks and counts in shape: what is left to    *)
(* take, and what has been taken, are symbols, what was understood is what *)
(* a message or a line may mean (read_lpec_line). *)
THEOREM WireTyped == WireSpec => []WireType
<1>1. WireInit => WireType
  BY TypeInit
<1>2. WireType /\ [WireNext]_wireVars => WireType'
  BY TypeStep
<1> QED
  BY <1>1, <1>2, PTL DEF WireSpec

(* While no line is cut, everything is understood, for all messages, words  *)
(* and limits: reader (read_lpec_line) and parser (parse_message) agree    *)
(* where a line ends whatever its texts hold, and copy_xml_text undoes     *)
(* what the device wrote. *)
THEOREM AlwaysInStep == WireSpec => []InStep
<1> DEFINE Inv == WireType /\ StepInv
<1>1. WireInit => Inv
  BY TypeInit, StepInvInit
<1>2. Inv /\ [WireNext]_wireVars => Inv'
  BY TypeStep, StepInvStep
<1>3. Inv => InStep
  BY StepInvShows
<1> QED
  BY <1>1, <1>2, <1>3, PTL DEF WireSpec

-----------------------------------------------------------------------------
(* Nothing is made up, wherever lines are cut. *)

(* What comes holds no line's beginning, and ends with a line's end. *)
NoKinds(s) == \A i \in 1..Len(s) : s[i] \notin Kinds
EndsLine(s) == s # <<>> => s[Len(s)] = LF

LEMMA TornMore ==
  ASSUME NEW s \in Seq(Symbols), NEW c \in Symbols, Torn(s)
  PROVE  Torn(Append(s, c))
<1> DEFINE r == Append(s, c)
           n == Len(s)
<1>1. n \in Nat /\ Len(r) = n + 1 /\ \A i \in 1..n : r[i] = s[i]
  OBVIOUS
<1>2. PICK i \in 1..n : s[i] # Blank /\ s[i] \notin Kinds /\ \A j \in 1..(i - 1) : s[j] = Blank
  BY DEF Torn
<1> HIDE DEF r, n
<1>3. i \in 1..Len(r) /\ r[i] # Blank /\ r[i] \notin Kinds
  BY <1>1, <1>2
<1>4. \A j \in 1..(i - 1) : r[j] = Blank
  <2> TAKE j \in 1..(i - 1)
  <2>1. j \in 1..n
    BY <1>1
  <2> QED
    BY <1>1, <1>2, <2>1
<1>5. Torn(r)
  BY <1>3, <1>4 DEF Torn
<1> QED
  BY <1>5 DEF r

LEMMA BlanksMore ==
  ASSUME NEW s \in Seq(Symbols), NEW c \in Symbols, OnlyBlanks(s), c \notin Kinds
  PROVE  /\ c = Blank => OnlyBlanks(Append(s, c))
         /\ c # Blank => Torn(Append(s, c))
<1> DEFINE r == Append(s, c)
           n == Len(s)
<1>1. n \in Nat /\ Len(r) = n + 1 /\ r[n + 1] = c /\ \A i \in 1..n : r[i] = s[i]
  OBVIOUS
<1>2. \A i \in 1..n : s[i] = Blank
  BY DEF OnlyBlanks
<1> HIDE DEF r, n
<1>3. \A i \in 1..n : r[i] = Blank
  BY <1>1, <1>2
<1>4. ASSUME c = Blank PROVE OnlyBlanks(r)
  <2>1. \A i \in 1..(n + 1) : i \in 1..n \/ i = n + 1
    BY <1>1
  <2> QED
    BY <1>1, <1>3, <1>4, <2>1 DEF OnlyBlanks
<1>5. ASSUME c # Blank PROVE Torn(r)
  <2>1. n + 1 \in 1..Len(r) /\ (n + 1) - 1 = n
    BY <1>1
  <2> QED
    BY <1>1, <1>3, <1>5, <2>1 DEF Torn
<1> QED
  BY <1>4, <1>5 DEF r

LEMMA TailEnds ==
  ASSUME NEW s \in Seq(Symbols), s # <<>>
  PROVE  /\ EndsLine(s) => EndsLine(Tail(s))
         /\ (\A i \in 1..Len(s) : i >= 2 => s[i] \notin Kinds) => NoKinds(Tail(s))
         /\ EndsLine(s) /\ Tail(s) = <<>> => Head(s) = LF
<1> DEFINE t == Tail(s)
           n == Len(s)
<1>1. n \in Nat \ {0} /\ t \in Seq(Symbols) /\ Len(t) = n - 1 /\ Head(s) = s[1]
      /\ \A i \in 1..Len(t) : t[i] = s[i + 1]
  BY HeadTailProperties
<1> HIDE DEF t
<1>2. t = <<>> <=> n = 1
  BY <1>1
<1>3. t # <<>> => t[Len(t)] = s[n]
  <2>1. t # <<>> => n - 1 \in 1..(n - 1) /\ (n - 1) + 1 = n
    BY <1>1, <1>2
  <2> QED
    BY <1>1, <2>1
<1>4. EndsLine(s) => EndsLine(t)
  BY <1>3 DEF EndsLine
<1>5. ASSUME \A i \in 1..Len(s) : i >= 2 => s[i] \notin Kinds PROVE NoKinds(t)
  <2> SUFFICES ASSUME NEW i \in 1..Len(t) PROVE t[i] \notin Kinds
    BY DEF NoKinds
  <2>1. i + 1 \in 1..n /\ i + 1 >= 2
    BY <1>1
  <2> QED
    BY <1>1, <1>5, <2>1
<1>6. EndsLine(s) /\ t = <<>> => Head(s) = LF
  BY <1>1, <1>2 DEF EndsLine
<1> QED
  BY <1>4, <1>5, <1>6 DEF t

LEMMA EndsAreNoKinds == CR \notin Kinds /\ LF \notin Kinds /\ Blank \notin Kinds
BY DEF CR, LF, Blank, Kinds

LEMMA LineEnd ==
  /\ <<CR, LF>> \in Seq(Symbols) /\ Len(<<CR, LF>>) = 2
  /\ <<CR, LF>>[1] = CR /\ <<CR, LF>>[2] = LF
BY SymbolsAre

(* Of a line in the middle of which the reader is, only what it begins with *)
(* is a kind. *)
LEMMA AfterTheFirst ==
  ASSUME NEW m \in Messages, NEW a \in Seq(Symbols), NEW b \in Seq(Symbols), a \o b = Body(m)
  PROVE  /\ EndsLine(b \o <<CR, LF>>)
         /\ \A i \in 1..Len(b \o <<CR, LF>>) :
              Len(a) + i >= 2 => (b \o <<CR, LF>>)[i] \notin Kinds
<1> DEFINE e == <<CR, LF>>
           w == b \o e
           l == a \o b
           na == Len(a)
           nb == Len(b)
<1>1. e \in Seq(Symbols) /\ Len(e) = 2 /\ e[1] = CR /\ e[2] = LF
  BY LineEnd
<1>2. na \in Nat /\ nb \in Nat
  OBVIOUS
<1> HIDE DEF e
<1>3. w \in Seq(Symbols) /\ Behind(w, b, e) /\ Behind(l, a, b)
  BY <1>1, Join
<1>4. \A i \in 2..Len(l) : l[i] \notin Kinds
  BY NoLineWithin
<1> HIDE DEF w, l
<1>5. /\ Len(w) = nb + 2 /\ (\A i \in 1..nb : w[i] = b[i])
      /\ \A i \in 1..2 : w[nb + i] = e[i]
  BY <1>1, <1>3 DEF Behind
<1>6. Len(l) = na + nb /\ \A i \in 1..nb : l[na + i] = b[i]
  BY <1>3 DEF Behind
<1> HIDE DEF na, nb
<1>7. EndsLine(w)
  <2>1. 2 \in 1..2
    OBVIOUS
  <2> QED
    BY <1>1, <1>5, <2>1 DEF EndsLine
<1>8. ASSUME NEW i \in 1..(nb + 2), na + i >= 2 PROVE w[i] \notin Kinds
  <2>1. CASE i <= nb
    <3>1. i \in 1..nb /\ na + i \in 2..(na + nb)
      BY <1>2, <1>8, <2>1
    <3> QED
      BY <1>4, <1>5, <1>6, <3>1
  <2>2. CASE ~(i <= nb)
    <3> DEFINE j == i - nb
    <3>1. j \in 1..2 /\ i = nb + j /\ (j = 1 \/ j = 2)
      BY <1>2, <2>2
    <3> HIDE DEF j
    <3>2. w[i] = CR \/ w[i] = LF
      BY <1>1, <1>5, <3>1
    <3> QED
      BY <3>2, EndsAreNoKinds
  <2> QED
    BY <2>1, <2>2
<1> QED
  BY <1>5, <1>7, <1>8 DEF w, e, na

LEMMA FollowingIs ==
  ASSUME WireType, Following
  PROVE  /\ wire # <<>> /\ EndsLine(wire)
         /\ \A i \in 1..Len(wire) : Len(half) + i >= 2 => wire[i] \notin Kinds
<1>1. sent \in Seq(Messages) /\ half \in Seq(Symbols) /\ sent # <<>>
  BY DEF WireType, Following
<1>2. Last \in Messages
  <2>1. Len(sent) \in 1..Len(sent)
    BY <1>1
  <2> QED
    BY <1>1, <2>1 DEF Last
<1>3. CASE \E rest \in Seq(Symbols) : InLine(rest)
  <2>1. PICK rest \in Seq(Symbols) : InLine(rest)
    BY <1>3
  <2>2. half \o rest = Body(Last) /\ wire = rest \o <<CR, LF>>
    BY <2>1 DEF InLine
  <2> QED
    BY <1>1, <1>2, <2>2, AfterTheFirst, FollowingIsBusy
<1>4. CASE wire = <<LF>>
  <2>1. Len(wire) = 1 /\ wire[1] = LF /\ wire # <<>> /\ \A i \in 1..1 : i = 1
    BY <1>4
  <2>2. EndsLine(wire)
    BY <2>1 DEF EndsLine
  <2> QED
    BY <2>1, <2>2, EndsAreNoKinds
<1> QED
  BY <1>3, <1>4 DEF Following

(* Of a line that has not begun to be read only what it begins with. *)
LEMMA WholeIs ==
  ASSUME NEW m \in Messages
  PROVE  /\ Written(m) \in Seq(Symbols) /\ Written(m) # <<>> /\ EndsLine(Written(m))
         /\ Head(Written(m)) \in Kinds
         /\ \A i \in 1..Len(Written(m)) : i >= 2 => Written(m)[i] \notin Kinds
<1> DEFINE b == Body(m)
           w == Written(m)
           a == <<>>
           e == <<CR, LF>>
<1>1. /\ b \in Seq(Symbols) /\ Len(b) \in Nat \ {0} /\ b[1] \in Kinds
      /\ w \in Seq(Symbols) /\ w # <<>> /\ a \o b = b
  BY BodyIs
<1>2. a \in Seq(Symbols) /\ Len(a) = 0 /\ e \in Seq(Symbols)
  BY LineEnd
<1>3. w = b \o e
  BY DEF Written
<1> HIDE DEF b, w, a, e
<1>4. EndsLine(w) /\ \A i \in 1..Len(w) : Len(a) + i >= 2 => w[i] \notin Kinds
  BY <1>1, <1>2, <1>3, AfterTheFirst DEF b, e
<1>5. Head(w) \in Kinds
  <2>1. Behind(w, b, e)
    BY <1>1, <1>2, <1>3, Join
  <2>2. 1 \in 1..Len(b)
    BY <1>1
  <2>3. w[1] = b[1]
    BY <2>1, <2>2 DEF Behind
  <2> QED
    BY <1>1, <2>3
<1>6. \A i \in 1..Len(w) : Len(a) + i = i
  BY <1>1, <1>2
<1> QED
  BY <1>1, <1>4, <1>5, <1>6 DEF w

(* The last line has not begun to be read. *)
Whole == sent # <<>> /\ wire = Written(Last)

(* The reader is not where it should be: what it has read is no beginning of *)
(* a line, or a line's rest is all that comes. *)
Astray ==
  /\ EndsLine(wire)
  /\ \/ Whole /\ Torn(half)
     \/ NoKinds(wire) /\ (Torn(half) \/ (OnlyBlanks(half) /\ wire # <<>>))

LEMMA LastIs ==
  ASSUME WireType, sent # <<>>
  PROVE  /\ Last \in Messages /\ Front \in Seq(Messages)
         /\ AllMeant(sent) = AllMeant(Front) \o Hears(Last)
<1> DEFINE b == 0
<1>1. sent \in Seq(Messages) /\ b \in 0..(Len(sent) - 1) /\ b + 1 = 1
  BY DEF WireType
<1> HIDE DEF b
<1>2. /\ SubSeq(sent, b + 1, Len(sent) - 1) \in Seq(Messages) /\ sent[Len(sent)] \in Messages
      /\ SubSeq(sent, b + 1, Len(sent)) =
           Append(SubSeq(sent, b + 1, Len(sent) - 1), sent[Len(sent)])
  BY <1>1, LastOf
<1>3. Front \in Seq(Messages) /\ Last \in Messages /\ SubSeq(sent, 1, Len(sent)) = Append(Front, Last)
  BY <1>1, <1>2, Zenon DEF Front, Last
<1>4. SubSeq(sent, 1, Len(sent)) = sent
  BY <1>1
<1>5. sent = Append(Front, Last)
  BY <1>3, <1>4
<1>6. AllMeant(Append(Front, Last)) = AllMeant(Front) \o Hears(Last)
  BY <1>3, AllMeantStep
<1> QED
  BY <1>3, <1>5, <1>6

LEMMA NoneIsWhole ==
  ASSUME NEW m \in Messages, NEW w \in Seq(Symbols), NoKinds(w)
  PROVE  w # Written(m)
<1> SUFFICES ASSUME w = Written(m) PROVE FALSE
  OBVIOUS
<1>1. w # <<>> /\ Head(w) \in Kinds
  BY WholeIs
<1>2. 1 \in 1..Len(w) /\ Head(w) = w[1]
  BY <1>1
<1> QED
  BY <1>1, <1>2 DEF NoKinds

LEMMA NotWhole ==
  ASSUME WireType', NoKinds(wire')
  PROVE  ~Whole'
<1>1. sent' \in Seq(Messages) /\ wire' \in Seq(Symbols)
  BY DEF WireType
<1>2. ASSUME sent' # <<>> PROVE sent'[Len(sent')] \in Messages
  <2>1. Len(sent') \in 1..Len(sent')
    BY <1>1, <1>2
  <2> QED
    BY <1>1, <2>1
<1> QED
  BY <1>1, <1>2, NoneIsWhole DEF Whole, Last

(* The reader follows, rests, or is astray; only while it follows a line    *)
(* whose beginning it has seen may it understand one more.                 *)
HeardInv ==
  \/ Following /\ Embeds(got, AllMeant(Front))
  \/ AtRest /\ Embeds(got, AllMeant(sent))
  \/ /\ Astray /\ Embeds(got, AllMeant(sent))
     /\ Whole => Embeds(got, AllMeant(Front))

LEMMA MeaningsType ==
  ASSUME NEW said \in Seq(Messages)
  PROVE  AllMeant(said) \in Seq(Heard)
<1>1. AllMeant(said) \in Seq(Meanings) /\ Meanings \subseteq Heard
  BY AllMeantType DEF Heard
<1> DEFINE all == AllMeant(said)
<1> HIDE DEF all
<1> QED
  BY <1>1, SeqMonotonic DEF all

(* What embeds in what was said before the last message embeds in it all. *)
LEMMA FrontIsEnough ==
  ASSUME WireType, sent # <<>>, Embeds(got, AllMeant(Front))
  PROVE  Embeds(got, AllMeant(sent))
<1>1. /\ Last \in Messages /\ Front \in Seq(Messages)
      /\ AllMeant(sent) = AllMeant(Front) \o Hears(Last)
  BY LastIs
<1> DEFINE all == AllMeant(Front)
           h == Hears(Last)
<1>2. all \in Seq(Heard) /\ got \in Seq(Heard)
  BY <1>1, MeaningsType DEF WireType
<1>3. h \in Seq(Heard)
  <2>1. h \in Seq(Meanings) /\ Meanings \subseteq Heard
    BY <1>1, HearsType DEF Heard
  <2> HIDE DEF h
  <2> QED
    BY <2>1, SeqMonotonic
<1> HIDE DEF all, h
<1>4. Embeds(got, all \o h)
  BY <1>2, <1>3, EmbedsMore DEF all
<1> QED
  BY <1>1, <1>4 DEF all, h

(* All the same. *)
LEMMA SameHeard ==
  ASSUME UNCHANGED <<sent, wire, reader, got>>
  PROVE  HeardInv => HeardInv'
<1>1. /\ Front' = Front /\ Whole' = Whole
      /\ Embeds(got', AllMeant(sent')) = Embeds(got, AllMeant(sent))
      /\ Embeds(got', AllMeant(Front')) = Embeds(got, AllMeant(Front))
  BY DEF Front, Whole, Last
<1>2. Astray' = Astray
  BY <1>1 DEF Astray, reader
<1> QED
  BY <1>1, <1>2, SameMode DEF HeardInv

LEMMA HeardInvInit ==
  ASSUME WireInit
  PROVE  HeardInv
<1>1. got = <<>> /\ half = <<>> /\ wire = <<>> /\ inQuotes = FALSE /\ escape = FALSE
  BY DEF WireInit
<1>2. AtRest
  BY <1>1, NowIs DEF AtRest
<1>3. Embeds(got, AllMeant(sent))
  BY <1>1, EmbedsNothing
<1> QED
  BY <1>2, <1>3 DEF HeardInv

LEMMA HeardInvSay ==
  ASSUME WireType, HeardInv, Say
  PROVE  HeardInv'
<1>1. PICK m \in Messages : sent' = Append(sent, m) /\ wire' = Written(m)
  BY DEF Say
<1>2. wire = <<>> /\ got' = got /\ half' = half
  BY DEF Say, reader
<1>3. /\ sent' # <<>> /\ Last' = m /\ Front' = sent
  BY <1>1, SaidOne
<1>4. CASE AtRest /\ Embeds(got, AllMeant(sent))
  <2>1. Following'
    BY <1>4, SayFollows
  <2> QED
    BY <1>2, <1>3, <1>4, <2>1 DEF HeardInv
<1>5. CASE Astray /\ Embeds(got, AllMeant(sent))
  <2>1. Torn(half)
    <3>1. ASSUME Whole PROVE FALSE
      <4>1. Last \in Messages /\ wire = Written(Last)
        BY <3>1, LastIs DEF Whole
      <4> QED
        BY <1>2, <4>1, WholeIs
    <3> QED
      BY <1>2, <1>5, <3>1 DEF Astray
  <2>2. Whole'
    BY <1>1, <1>3 DEF Whole
  <2>3. EndsLine(wire')
    BY <1>1, WholeIs
  <2>4. Astray'
    BY <1>2, <2>1, <2>2, <2>3 DEF Astray
  <2>5. Embeds(got', AllMeant(Front'))
    BY <1>2, <1>3, <1>5
  <2>6. Embeds(got', AllMeant(sent'))
    <3>1. AllMeant(sent') = AllMeant(sent) \o Hears(m) /\ sent \in Seq(Messages)
      BY <1>1, AllMeantStep DEF WireType
    <3> DEFINE all == AllMeant(sent)
               h == Hears(m)
    <3>2. all \in Seq(Heard) /\ got \in Seq(Heard)
      BY <3>1, MeaningsType DEF WireType
    <3>3. h \in Seq(Heard)
      <4>1. h \in Seq(Meanings) /\ Meanings \subseteq Heard
        BY HearsType DEF Heard
      <4> HIDE DEF h
      <4> QED
        BY <4>1, SeqMonotonic
    <3> HIDE DEF all, h
    <3>4. Embeds(got, all \o h)
      BY <1>5, <3>2, <3>3, EmbedsMore DEF all
    <3> QED
      BY <1>2, <3>1, <3>4 DEF all, h
  <2> QED
    BY <2>4, <2>5, <2>6 DEF HeardInv
<1> QED
  BY <1>2, <1>4, <1>5, FollowingIsBusy DEF HeardInv

(* A line is dropped, or begun anew, with its rest to come. *)
LEMMA RestIsAstray ==
  ASSUME WireType', EndsLine(wire'), NoKinds(wire'), half' = <<>>, Now' = {},
         Embeds(got', AllMeant(sent'))
  PROVE  HeardInv'
<1>1. CASE wire' = <<>>
  <2>1. AtRest'
    BY <1>1 DEF AtRest
  <2> QED
    BY <2>1 DEF HeardInv
<1>2. CASE wire' # <<>>
  <2>1. OnlyBlanks(half')
    <3>1. Len(half') = 0
      OBVIOUS
    <3> DEFINE h == half'
    <3>2. Len(h) = 0
      BY <3>1
    <3> HIDE DEF h
    <3>3. OnlyBlanks(h)
      BY <3>2 DEF OnlyBlanks
    <3> QED
      BY <3>3 DEF h
  <2>2. Astray'
    BY <1>2, <2>1 DEF Astray
  <2>3. ~Whole'
    BY NotWhole
  <2> QED
    BY <2>2, <2>3 DEF HeardInv
<1> QED
  BY <1>1, <1>2

(* Reading on where a line does not begin. *)
LEMMA AstrayGoesOn ==
  ASSUME WireType, WireType', Astray, TakeSymbol, Embeds(got, AllMeant(sent))
  PROVE  HeardInv'
<1> DEFINE c == Head(wire)
<1>1. /\ wire # <<>> /\ wire' = Tail(wire) /\ UNCHANGED <<sent, got>>
      /\ ~(c = LF /\ ~inQuotes)
  BY DEF TakeSymbol
<1>2. /\ c = CR => half' = half
      /\ c # CR => half' = Append(half, c)
  BY DEF TakeSymbol, reader
<1>3. wire \in Seq(Symbols) /\ half \in Seq(Symbols) /\ c \in Symbols
  <2>1. wire \in Seq(Symbols) /\ half \in Seq(Symbols)
    BY DEF WireType
  <2> QED
    BY <1>1, <2>1, HeadTailProperties
<1>4. EndsLine(wire') /\ (wire' = <<>> => c = LF)
  BY <1>1, <1>3, TailEnds DEF Astray
<1>5. NoKinds(wire')
  <2>1. CASE Whole
    <3>1. Last \in Messages /\ wire = Written(Last)
      BY <2>1, LastIs DEF Whole
    <3> QED
      BY <1>1, <1>3, <3>1, WholeIs, TailEnds
  <2>2. CASE NoKinds(wire)
    <3>1. \A i \in 1..Len(wire) : i >= 2 => wire[i] \notin Kinds
      BY <2>2 DEF NoKinds
    <3> QED
      BY <1>1, <1>3, <3>1, TailEnds
  <2> QED
    BY <2>1, <2>2 DEF Astray
<1>6. Torn(half') \/ (OnlyBlanks(half') /\ wire' # <<>>)
  <2>1. CASE Torn(half)
    BY <1>2, <1>3, <2>1, TornMore
  <2>2. CASE NoKinds(wire) /\ OnlyBlanks(half)
    <3>1. c \notin Kinds
      <4>1. 1 \in 1..Len(wire) /\ c = wire[1]
        BY <1>1, <1>3
      <4> QED
        BY <2>2, <4>1 DEF NoKinds
    <3>2. CASE c = CR
      BY <1>2, <1>4, <2>2, <3>2 DEF CR, LF
    <3>3. CASE c # CR
      <4>1. c = LF => c # Blank
        BY DEF LF, Blank
      <4>2. half' = Append(half, c)
        BY <1>2, <3>3
      <4> HIDE DEF c
      <4> QED
        BY <1>3, <1>4, <2>2, <3>1, <4>1, <4>2, BlanksMore
    <3> QED
      BY <3>2, <3>3
  <2> QED
    BY <2>1, <2>2 DEF Astray
<1>7. Astray'
  BY <1>4, <1>5, <1>6 DEF Astray
<1>8. ~Whole'
  BY <1>5, NotWhole
<1> QED
  BY <1>1, <1>7, <1>8 DEF HeardInv

LEMMA HeardInvTakeSymbol ==
  ASSUME WireType, WireType', HeardInv, TakeSymbol
  PROVE  HeardInv'
<1>1. wire # <<>> /\ UNCHANGED <<sent, got>>
  BY DEF TakeSymbol
<1>2. CASE Following /\ Embeds(got, AllMeant(Front))
  <2>1. Following'
    BY <1>2, TakeSymbolFollows
  <2>2. Front' = Front
    BY <1>1 DEF Front
  <2> QED
    BY <1>1, <1>2, <2>1, <2>2 DEF HeardInv
<1>3. CASE Astray /\ Embeds(got, AllMeant(sent))
  BY <1>3, AstrayGoesOn
<1> QED
  BY <1>1, <1>2, <1>3 DEF HeardInv, AtRest

LEMMA HeardInvTakeLine ==
  ASSUME WireType, WireType', HeardInv, TakeLine
  PROVE  HeardInv'
<1>1. /\ wire # <<>> /\ wire' = Tail(wire) /\ sent' = sent
      /\ Head(wire) = LF /\ NoLine
      /\ got' = IF ParseMessage(half) = Invalid THEN got ELSE Append(got, Understood(ParseMessage(half)))
  BY Zenon DEF TakeLine
<1>2. wire \in Seq(Symbols) /\ half \in Seq(Symbols) /\ got \in Seq(Heard)
  BY DEF WireType
<1>3. CASE Following /\ Embeds(got, AllMeant(Front))
  <2>1. AtRest' /\ got' = got \o Hears(Last) /\ Last \in Messages
    BY <1>3, TakeLineHears
  <2>2. Front \in Seq(Messages) /\ AllMeant(sent) = AllMeant(Front) \o Hears(Last)
    BY <1>3, LastIs DEF Following
  <2> DEFINE all == AllMeant(Front)
             h == Hears(Last)
  <2>3. all \in Seq(Heard)
    BY <2>2, MeaningsType
  <2>4. h \in Seq(Heard)
    <3>1. h \in Seq(Meanings) /\ Meanings \subseteq Heard
      BY <2>1, HearsType DEF Heard
    <3> HIDE DEF h
    <3> QED
      BY <3>1, SeqMonotonic
  <2>5. Embeds(got, all)
    BY <1>3
  <2> HIDE DEF all, h
  <2>6. Embeds(got \o h, all \o h)
    BY <1>2, <2>3, <2>4, <2>5, EmbedsBoth
  <2>7. Embeds(got', AllMeant(sent'))
    BY <1>1, <2>1, <2>2, <2>6 DEF all, h
  <2> QED
    BY <2>1, <2>7 DEF HeardInv
<1>4. CASE Astray /\ Embeds(got, AllMeant(sent))
  <2>1. NoKinds(wire)
    <3>1. ASSUME Whole PROVE FALSE
      <4>1. Last \in Messages /\ wire = Written(Last)
        BY <3>1, LastIs DEF Whole
      <4>2. LF \in Kinds
        BY <1>1, <4>1, WholeIs
      <4> QED
        BY <4>2, EndsAreNoKinds
    <3> QED
      BY <1>4, <3>1 DEF Astray
  <2>2. Torn(half) \/ OnlyBlanks(half)
    BY <1>4, <2>1 DEF Astray
  <2>3. got' = got
    BY <1>1, <1>2, <2>2, NotALine
  <2>4. EndsLine(wire') /\ NoKinds(wire')
    <3>1. \A i \in 1..Len(wire) : i >= 2 => wire[i] \notin Kinds
      BY <2>1 DEF NoKinds
    <3> QED
      BY <1>1, <1>2, <1>4, <3>1, TailEnds DEF Astray
  <2> QED
    BY <1>1, <1>4, <2>3, <2>4, NowAfter, RestIsAstray
<1> QED
  BY <1>1, <1>3, <1>4 DEF HeardInv, AtRest

(* The line that is read is dropped, a part of the wire with it. *)
LEMMA HeardInvTooLong ==
  ASSUME WireType, WireType', HeardInv, TooLong
  PROVE  HeardInv'
<1>1. /\ wire # <<>> /\ NoLine /\ UNCHANGED <<sent, got>>
      /\ wire' = <<>> \/ wire' = Tail(wire)
  BY DEF TooLong
<1>2. half' = <<>> /\ Now' = {}
  BY <1>1, NowAfter
<1>3. Embeds(got, AllMeant(sent))
  BY FrontIsEnough DEF HeardInv, Following
<1>4. wire \in Seq(Symbols) /\ Len(half) \in Nat
  BY DEF WireType
<1>5. CASE wire' = <<>>
  <2>1. EndsLine(wire') /\ NoKinds(wire')
    <3>1. Len(<<>>) = 0
      OBVIOUS
    <3> QED
      BY <1>5, <3>1 DEF EndsLine, NoKinds
  <2> QED
    BY <1>1, <1>2, <1>3, <2>1, RestIsAstray
<1>6. CASE wire' = Tail(wire)
  <2>1. EndsLine(wire) /\ \A i \in 1..Len(wire) : i >= 2 => wire[i] \notin Kinds
    <3>1. CASE Following
      <4>1. EndsLine(wire) /\ \A i \in 1..Len(wire) : Len(half) + i >= 2 => wire[i] \notin Kinds
        BY <3>1, FollowingIs
      <4>2. \A i \in 1..Len(wire) : i >= 2 => Len(half) + i >= 2
        BY <1>4
      <4> QED
        BY <4>1, <4>2
    <3>2. CASE Astray /\ Whole
      <4>1. Last \in Messages /\ wire = Written(Last)
        BY <3>2, LastIs DEF Whole
      <4> QED
        BY <4>1, WholeIs
    <3>3. CASE Astray /\ NoKinds(wire)
      BY <3>3 DEF Astray, NoKinds
    <3> QED
      BY <1>1, <3>1, <3>2, <3>3 DEF HeardInv, AtRest, Astray
  <2>2. EndsLine(wire') /\ NoKinds(wire')
    BY <1>1, <1>4, <1>6, <2>1, TailEnds
  <2> QED
    BY <1>1, <1>2, <1>3, <2>2, RestIsAstray
<1> QED
  BY <1>1, <1>5, <1>6

LEMMA HeardInvLate ==
  ASSUME WireType, WireType', HeardInv, SegmentIsLate
  PROVE  HeardInv'
<1>1. wire # <<>> /\ half # <<>> /\ NoLine /\ UNCHANGED <<sent, wire, got>>
  BY DEF SegmentIsLate
<1>2. half' = <<>> /\ Now' = {}
  BY <1>1, NowAfter
<1>3. Embeds(got, AllMeant(sent))
  BY FrontIsEnough DEF HeardInv, Following
<1>4. CASE Following
  <2>1. EndsLine(wire) /\ \A i \in 1..Len(wire) : Len(half) + i >= 2 => wire[i] \notin Kinds
    BY <1>4, FollowingIs
  <2>2. Len(half) \in Nat \ {0} /\ Len(wire) \in Nat
    BY <1>1 DEF WireType
  <2>3. \A i \in 1..Len(wire) : Len(half) + i >= 2
    BY <2>2
  <2>4. EndsLine(wire') /\ NoKinds(wire')
    BY <1>1, <2>1, <2>3 DEF NoKinds
  <2> QED
    BY <1>1, <1>2, <1>3, <2>4, RestIsAstray
<1>5. CASE Astray /\ Whole /\ Embeds(got, AllMeant(Front))
  <2>1. Last \in Messages /\ wire' = Written(Last) /\ Last' = Last /\ Front' = Front /\ sent' # <<>>
    BY <1>1, <1>5, LastIs DEF Whole, Last, Front
  <2>2. Following'
    BY <1>2, <2>1, LineBegins
  <2> QED
    BY <1>1, <1>5, <2>1, <2>2 DEF HeardInv
<1>6. CASE Astray /\ NoKinds(wire)
  <2>1. EndsLine(wire') /\ NoKinds(wire')
    BY <1>1, <1>6 DEF Astray
  <2> QED
    BY <1>1, <1>2, <1>3, <2>1, RestIsAstray
<1> QED
  BY <1>1, <1>4, <1>5, <1>6 DEF HeardInv, AtRest, Astray

LEMMA HeardInvStep ==
  ASSUME WireType, WireType', HeardInv, [WireNext]_wireVars
  PROVE  HeardInv'
<1>1. CASE Ask
  <2>1. UNCHANGED <<sent, wire, reader, got>>
    BY <1>1 DEF Ask
  <2> QED
    BY <2>1, SameHeard
<1>2. CASE FallSilent
  <2>1. wire = <<>> /\ NoLine /\ UNCHANGED <<sent, wire, got>>
    BY <1>2 DEF FallSilent
  <2>2. AtRest'
    BY <2>1, NowAfter DEF AtRest
  <2>3. Embeds(got, AllMeant(sent))
    BY <2>1, FollowingIsBusy DEF HeardInv
  <2> QED
    BY <2>1, <2>2, <2>3 DEF HeardInv
<1>3. CASE UNCHANGED wireVars
  <2>1. UNCHANGED <<sent, wire, reader, got>>
    BY <1>3 DEF wireVars
  <2> QED
    BY <2>1, SameHeard
<1> QED
  BY <1>1, <1>2, <1>3, HeardInvSay, HeardInvTakeSymbol, HeardInvTakeLine, HeardInvTooLong,
     HeardInvLate DEF WireNext

LEMMA HeardInvShows ==
  ASSUME WireType, HeardInv
  PROVE  HeardIsSaid
BY FrontIsEnough DEF HeardInv, HeardIsSaid, Following

(* Nothing is made up, wherever a line is cut by a pause or the limit and   *)
(* whatever half of it is then taken for a line (read_lpec_line, poll). *)
THEOREM HeardIsAlwaysSaid == WireSpec => []HeardIsSaid
<1> DEFINE Inv == WireType /\ HeardInv
<1>1. WireInit => Inv
  BY TypeInit, HeardInvInit
<1>2. Inv /\ [WireNext]_wireVars => Inv'
  BY TypeStep, HeardInvStep
<1>3. Inv => HeardIsSaid
  BY HeardInvShows
<1> QED
  BY <1>1, <1>2, <1>3, PTL DEF WireSpec

-----------------------------------------------------------------------------
(* What the remote asks. *)

(* A text without quotes and backslashes in it ends at the quote behind it. *)
LEMMA QuotedPlain ==
  ASSUME NEW line \in Seq(Symbols), NEW i \in Nat \ {0}, NEW w \in Seq(Symbols \ {Quote, Slash}),
         QuotedAt(line, i, w)
  PROVE  Quoted(line, i) = [is |-> "right", text |-> w, next |-> i + 3 + Len(w)]
<1> DEFINE n == Len(w)
           start == i + 2
<1>1. /\ n \in Nat /\ start \in Nat /\ start + n <= Len(line) /\ Holds(line, start, w)
      /\ Len(line) \in Nat
  BY DEF QuotedAt
<1>2. \A k \in 1..n : line[start + k - 1] = w[k] /\ w[k] # Quote /\ w[k] # Slash
  BY <1>1 DEF Holds
<1>3. w \in Seq(Symbols)
  OBVIOUS
<1> HIDE DEF n, start
<1>4. ~Escapes(line, start)[start + n]
  <2> SUFFICES ASSUME Escapes(line, start)[start + n] PROVE FALSE
    OBVIOUS
  <2> DEFINE j == start + n
  <2>1. j \in start..Len(line)
    BY <1>1
  <2> HIDE DEF j
  <2>2. j > start /\ line[j - 1] = Slash
    BY <1>1, <2>1, EscapesAre DEF j
  <2>3. n \in 1..n /\ start + n - 1 = j - 1
    BY <1>1, <2>2 DEF j
  <2> QED
    BY <1>2, <2>2, <2>3
<1>5. PassedOver(line, i, w)
  BY <1>2, <1>4 DEF PassedOver, n, start
<1> QED
  BY <1>3, <1>5, QuotedWhen

LEMMA AskedReads ==
  ASSUME NEW text \in Seq(Symbols \ {Slash}), NEW line,
         line = FormatAction("Ds/Pins", "ReadList", <<text>>)
  PROVE  /\ Values(line, 8).is = "right"
         /\ Values(line, 8).parts = <<Escaped(text)>>
<1> DEFINE w == Escaped(text)
           n == Len(w)
           b == <<Blank>>
           q == InQuotes(w)
           a == b \o q
           h == <<"ACTION", Blank, "Ds/Pins", Blank, "1", Blank, "ReadList">>
<1>1. w \in Seq(Symbols \ {Quote, Slash}) /\ w \in Seq(Symbols) /\ n \in Nat
  <2>1. text \in Seq(Symbols) /\ \A i \in 1..Len(text) : text[i] # Slash
    OBVIOUS
  <2>2. w \in Seq(Symbols \ {Quote, Slash})
    BY <2>1, EscapedHolds
  <2> HIDE DEF w
  <2> QED
    BY <2>2
<1>2. h \in Seq(Symbols) /\ Len(h) = 7
  <2>1. "1" \in Symbols
    BY SymbolsAre DEF Numbers
  <2> QED
    BY <2>1, SymbolsAre
<1>3. b \in Seq(Symbols) /\ Len(b) = 1 /\ b[1] = Blank
  BY SymbolsAre
<1>4. line = h \o a
  <2> DEFINE texts == <<text>>
             pieces == [i \in DOMAIN texts |-> b \o InQuotes(Escaped(texts[i]))]
  <2>1. pieces = <<a>>
    BY DOMAIN texts = {1}, texts[1] = text
  <2>2. line = h \o Concat(pieces)
    BY DEF FormatAction
  <2>3. a \in Seq(Symbols)
    <3>1. q \in Seq(Symbols)
      BY <1>1, InQuotesIs
    <3> HIDE DEF q, b
    <3> QED
      BY <1>3, <3>1
  <2> HIDE DEF a, pieces
  <2>4. Concat(<<a>>) = a
    BY <2>3, ConcatOne
  <2> QED
    BY <2>1, <2>2, <2>4
<1>5. /\ q \in Seq(Symbols) /\ Len(q) = n + 2 /\ q[1] = Quote /\ q[n + 2] = Quote
      /\ \A j \in 1..n : q[1 + j] = w[j]
  BY <1>1, InQuotesIs
<1>6. h[7] = "ReadList" /\ 7 \in 1..7
  OBVIOUS
<1> HIDE DEF w, n, b, q, h
<1>7. /\ a \in Seq(Symbols) /\ Len(a) = 1 + (n + 2) /\ a[1] = Blank
      /\ \A j \in 1..(n + 2) : a[1 + j] = q[j]
  <2>1. a \in Seq(Symbols) /\ Behind(a, b, q)
    BY <1>3, <1>5, Join
  <2>2. 1 \in 1..1
    OBVIOUS
  <2> HIDE DEF a
  <2> QED
    BY <1>3, <1>5, <2>1, <2>2 DEF Behind
<1> HIDE DEF a
<1>8. /\ line \in Seq(Symbols) /\ Len(line) = 7 + (1 + (n + 2))
      /\ \A j \in 1..(1 + (n + 2)) : line[7 + j] = a[j]
  <2>1. line \in Seq(Symbols) /\ Behind(line, h, a)
    BY <1>2, <1>4, <1>7, Join
  <2> QED
    BY <1>2, <1>7, <2>1 DEF Behind
<1>9. Len(line) = n + 10 /\ line[8] = Blank
  <2>1. 1 \in 1..(1 + (n + 2)) /\ 7 + 1 = 8
    BY <1>1
  <2> QED
    BY <1>1, <1>7, <1>8, <2>1, SMTT(30)
<1>10. \A j \in 1..(n + 2) : line[8 + j] = q[j]
  <2> TAKE j \in 1..(n + 2)
  <2>1. 1 + j \in 1..(1 + (n + 2)) /\ 7 + (1 + j) = 8 + j
    BY <1>1
  <2> QED
    BY <1>7, <1>8, <2>1
<1>11. QuotedAt(line, 8, w)
  <2>1. line[8 + 1] = Quote
    <3>1. 1 \in 1..(n + 2)
      BY <1>1
    <3> QED
      BY <1>5, <1>10, <3>1
  <2>2. line[8 + 2 + n] = Quote
    <3>1. n + 2 \in 1..(n + 2) /\ 8 + 2 + n = 8 + (n + 2)
      BY <1>1
    <3> QED
      BY <1>5, <1>10, <3>1
  <2>3. \A k \in 1..n : line[(8 + 2) + k - 1] = w[k]
    <3> TAKE k \in 1..n
    <3>1. 1 + k \in 1..(n + 2) /\ (8 + 2) + k - 1 = 8 + (1 + k)
      BY <1>1
    <3> QED
      BY <1>5, <1>10, <3>1
  <2>4. (8 + 2) + n <= Len(line) + 1 /\ 8 + 2 + n = Len(line)
    BY <1>1, <1>9
  <2>5. Holds(line, 8 + 2, w)
    BY <2>3, <2>4 DEF Holds, n
  <2>6. 8 + 2 + n <= Len(line)
    BY <1>1, <1>9
  <2> QED
    BY <1>9, <2>1, <2>2, <2>4, <2>5, <2>6 DEF QuotedAt, n
<1>12. Quoted(line, 8) = [is |-> "right", text |-> w, next |-> Len(line) + 1]
  <2>1. Quoted(line, 8) = [is |-> "right", text |-> w, next |-> 8 + 3 + Len(w)]
    BY <1>1, <1>8, <1>11, QuotedPlain, SMTT(30)
  <2>2. 8 + 3 + n = Len(line) + 1
    BY <1>1, <1>9
  <2> QED
    BY <2>1, <2>2 DEF n
<1> DEFINE places == [k \in 0..1 |-> IF k = 0 THEN 8 ELSE Len(line) + 1]
           parts == <<w>>
<1>13. places[0] = 8 /\ places[1] = Len(line) + 1
  OBVIOUS
<1>14. parts \in Seq(Seq(Symbols)) /\ Len(parts) = 1 /\ parts[1] = w
  BY <1>1
<1>15. Quoted(line, places[1]).is = "nothing"
  BY <1>8, <1>13, NothingAtEnd
<1> HIDE DEF places, parts
<1>16. \A k \in 1..Len(parts) :
         Quoted(line, places[k - 1]) = [is |-> "right", text |-> parts[k], next |-> places[k]]
  <2>1. \A k \in 1..1 : k = 1 /\ k - 1 = 0
    OBVIOUS
  <2> QED
    BY <1>12, <1>13, <1>14, <2>1
<1>17. Values(line, places[0]) = AllOf(places, parts)
  BY <1>14, <1>15, <1>16, ValuesAre
<1>18. AllOf(places, parts) = [is |-> "right", at |-> places[Len(parts)], parts |-> parts]
  <2>1. 1 <= MaxArgs
    BY WireAssumption
  <2> QED
    BY <1>14, <2>1 DEF AllOf
<1> QED
  BY <1>13, <1>17, <1>18 DEF parts, w

(* What has been asked, and how it was written. *)
AskedFor(text) == <<[text |-> text, line |-> FormatAction("Ds/Pins", "ReadList", <<text>>)]>>
AskedInv == request = <<>> \/ \E text \in Texts : request = AskedFor(text)

LEMMA AskedInvShows ==
  ASSUME AskedInv
  PROVE  AskedIsMeant
<1>1. CASE request = <<>>
  <2>1. {request[i] : i \in DOMAIN request} = {}
    BY <1>1
  <2> QED
    BY <2>1 DEF AskedIsMeant
<1>2. ASSUME NEW text \in Texts, request = AskedFor(text)
      PROVE  AskedIsMeant
  <2> DEFINE line == FormatAction("Ds/Pins", "ReadList", <<text>>)
             asked == [text |-> text, line |-> line]
             read == Values(line, 8)
             w == Escaped(text)
  <2>1. text \in Seq(Symbols \ {Slash})
    BY WireAssumption
  <2>2. read.is = "right" /\ read.parts = <<w>>
    BY <2>1, AskedReads
  <2>3. Undone(w) = text
    <3>1. text \in Seq(Symbols) /\ \A i \in 1..Len(text) : text[i] # Slash
      BY <2>1
    <3> QED
      BY <3>1, EscapedIs
  <2>4. \A a : a \in {request[i] : i \in DOMAIN request} => a.line = line /\ a.text = text
    <3> HIDE DEF line
    <3>1. request = <<asked>>
      BY <1>2 DEF AskedFor, line
    <3>2. asked.line = line /\ asked.text = text
      OBVIOUS
    <3> HIDE DEF asked
    <3>3. \A i \in DOMAIN request : request[i] = asked
      BY <3>1
    <3> QED
      BY <3>2, <3>3
  <2>5. [i \in DOMAIN read.parts |-> Undone(read.parts[i])] = <<text>>
    <3> DEFINE p == read.parts
    <3>1. p = <<w>>
      BY <2>2
    <3> HIDE DEF p, w
    <3>2. DOMAIN p = {1} /\ p[1] = w
      BY <3>1
    <3>3. [i \in DOMAIN p |-> Undone(p[i])] = [i \in {1} |-> text]
      BY <2>3, <3>2
    <3>4. [i \in {1} |-> text] = <<text>>
      OBVIOUS
    <3> QED
      BY <3>3, <3>4 DEF p
  <2> HIDE DEF line
  <2> SUFFICES ASSUME NEW a \in {request[i] : i \in DOMAIN request}
               PROVE  /\ Values(a.line, 8).is = "right"
                      /\ [i \in DOMAIN Values(a.line, 8).parts |-> Undone(Values(a.line, 8).parts[i])]
                           = <<a.text>>
    BY Zenon DEF AskedIsMeant
  <2>6. a.line = line /\ a.text = text
    BY <2>4
  <2> QED
    BY <2>2, <2>5, <2>6
<1> QED
  BY <1>1, <1>2 DEF AskedInv

(* What is asked reads back, for all texts without a backslash              *)
(* (push_quoted_xml_arg, next_quoted). *)
THEOREM AskedIsAlwaysMeant == WireSpec => []AskedIsMeant
<1>1. WireInit => AskedInv
  BY DEF WireInit, AskedInv
<1>2. AskedInv /\ [WireNext]_wireVars => AskedInv'
  <2> SUFFICES ASSUME AskedInv, [WireNext]_wireVars PROVE AskedInv'
    OBVIOUS
  <2>1. CASE Ask
    BY <2>1 DEF Ask, AskedInv, AskedFor
  <2>2. CASE ~Ask
    <3>1. request' = request
      BY <2>2 DEF WireNext, wireVars, Say, TakeSymbol, TakeLine, TooLong, FallSilent, SegmentIsLate
    <3> QED
      BY <3>1 DEF AskedInv
  <2> QED
    BY <2>1, <2>2
<1>3. AskedInv => AskedIsMeant
  BY AskedInvShows
<1> QED
  BY <1>1, <1>2, <1>3, PTL DEF WireSpec
==============================================================================
