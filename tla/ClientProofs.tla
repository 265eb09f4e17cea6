----------------------------- MODULE ClientProofs -----------------------------
(***************************************************************************)
(* Theorems about Client, for any number of games, captures and messages   *)
(* on the way: player and server agree about where the player is, and what *)
(* is shown and counted belongs to the game that is on.                    *)
(***************************************************************************)
EXTENDS Client, SequenceTheorems, FiniteSetTheorems, TLAPS

-----------------------------------------------------------------------------
(* What may be on the way.  Commands come in the order in which the main   *)
(* thread's loops send them; of the answers, at most one is on the way.    *)

GameActions == {"MOVE", "JUMP"}
RoomActions == {"ENTER_ROOM", "FIND_MATCH"}

Follows(a, b) == \/ a \in GameActions /\ b \in GameActions \union {"LEAVE_ROOM"}
                 \/ a = "LEAVE_ROOM" /\ b \in RoomActions

InTurn(s, state) ==
  /\ s # << >> => state = ReadyIn[s[1].action]
  /\ \A k \in 1 .. Len(s) - 1 : Follows(s[k].action, s[k + 1].action)

EndsWith(s, actions) == s # << >> /\ s[Len(s)].action \in actions

IsAnswer(m) == m.type \in Answers

Silent(s) == \A k \in 1 .. Len(s) : ~IsAnswer(s[k])

OneAnswer(s, types) ==
  \E k \in 1 .. Len(s) : s[k].type \in types /\ \A j \in 1 .. Len(s) : j # k => ~IsAnswer(s[j])

\* All states are of room r; or those behind the answer that lets the player in.
OnlyOf(s, r) == \A k \in 1 .. Len(s) : ~IsAnswer(s[k]) => s[k].room = r
ThenOnlyOf(s, r) ==
  \A j, k \in 1 .. Len(s) :
    j < k /\ s[j].type = "ROOM_SUCCESS" /\ ~IsAnswer(s[k]) => s[k].room = r

LEMMA SendInTurn ==
  ASSUME NEW s \in Seq(Commands), NEW c \in Commands, NEW state, InTurn(s, state),
         s = << >> => state = ReadyIn[c.action],
         s # << >> => Follows(s[Len(s)].action, c.action)
  PROVE  /\ InTurn(Append(s, c), state)
         /\ \A actions : EndsWith(Append(s, c), actions) <=> c.action \in actions
<1> DEFINE t == Append(s, c)
<1>1. /\ t \in Seq(Commands) /\ t # << >> /\ Len(t) = Len(s) + 1 /\ Len(s) \in Nat
      /\ \A k \in 1 .. Len(s) : t[k] = s[k]
      /\ t[Len(s) + 1] = c
  BY AppendProperties, LenProperties
<1>2. s # << >> => Len(s) # 0
  BY EmptySeq
<1> HIDE DEF t
<1>3. t[1].action = IF s = << >> THEN c.action ELSE s[1].action
  <2>1. CASE s = << >>
    BY <1>1, <2>1, EmptySeq
  <2>2. CASE s # << >>
    BY <1>1, <1>2, <2>2
  <2> QED
    BY <2>1, <2>2
<1>4. ASSUME NEW k \in 1 .. Len(t) - 1
      PROVE  Follows(t[k].action, t[k + 1].action)
  <2>1. CASE k = Len(s)
    BY <1>1, <1>2, <2>1
  <2>2. CASE k # Len(s)
    <3>1. k \in 1 .. Len(s) - 1 /\ k + 1 \in 1 .. Len(s) /\ k \in 1 .. Len(s)
      BY <1>1, <2>2
    <3> QED
      BY <1>1, <3>1 DEF InTurn
  <2> QED
    BY <2>1, <2>2
<1>5. InTurn(t, state)
  BY <1>3, <1>4 DEF InTurn
<1>6. \A actions : EndsWith(t, actions) <=> c.action \in actions
  BY <1>1 DEF EndsWith
<1> QED
  BY <1>5, <1>6 DEF t

LEMMA HandleInTurn ==
  ASSUME NEW s \in Seq(Commands), s # << >>, NEW state, InTurn(s, state)
  PROVE  /\ Head(s) = s[1] /\ s[1] \in Commands /\ state = ReadyIn[s[1].action]
         /\ Tail(s) \in Seq(Commands)
         /\ Tail(s) = << >> => \A actions : EndsWith(s, actions) <=> s[1].action \in actions
         /\ Tail(s) # << >> => /\ Follows(s[1].action, Tail(s)[1].action)
                               /\ \A actions : EndsWith(Tail(s), actions) <=> EndsWith(s, actions)
         /\ \A other : (Tail(s) # << >> => other = ReadyIn[Tail(s)[1].action])
                          => InTurn(Tail(s), other)
<1> DEFINE t == Tail(s)
<1>1. /\ t \in Seq(Commands) /\ Len(t) = Len(s) - 1 /\ Len(s) \in Nat \ {0}
      /\ \A k \in 1 .. Len(t) : t[k] = s[k + 1]
      /\ Head(s) = s[1]
  BY HeadTailProperties, EmptySeq
<1>2. t # << >> <=> Len(t) # 0
  BY <1>1, EmptySeq
<1>3. s[1] \in Commands /\ state = ReadyIn[s[1].action]
  BY <1>1, ElementOfSeq DEF InTurn
<1> HIDE DEF t
<1>4. t = << >> => \A actions : EndsWith(s, actions) <=> s[1].action \in actions
  <2>1. t = << >> => Len(s) = 1
    BY <1>1, <1>2
  <2> QED
    BY <2>1 DEF EndsWith
<1>5. ASSUME t # << >>
      PROVE  /\ Follows(s[1].action, t[1].action)
             /\ \A actions : EndsWith(t, actions) <=> EndsWith(s, actions)
  <2>1. 1 \in 1 .. Len(s) - 1 /\ t[1] = s[2] /\ t[Len(t)] = s[Len(s)]
    BY <1>1, <1>2, <1>5
  <2> QED
    BY <1>5, <2>1 DEF EndsWith, InTurn
<1>6. ASSUME NEW k \in 1 .. Len(t) - 1
      PROVE  Follows(t[k].action, t[k + 1].action)
  <2>1. k + 1 \in 1 .. Len(s) - 1 /\ t[k] = s[k + 1] /\ t[k + 1] = s[(k + 1) + 1]
    BY <1>1
  <2> QED
    BY <2>1 DEF InTurn
<1>7. \A other : (t # << >> => other = ReadyIn[t[1].action]) => InTurn(t, other)
  BY <1>6 DEF InTurn
<1> QED
  BY <1>1, <1>3, <1>4, <1>5, <1>7 DEF t

\* A state or a resignation is put behind what is on the way ...
LEMMA NewsSent ==
  ASSUME NEW s \in Seq(Messages), NEW m \in Messages, ~IsAnswer(m)
  PROVE  /\ Silent(s) => Silent(Append(s, m))
         /\ \A types \in SUBSET Answers : OneAnswer(s, types) => OneAnswer(Append(s, m), types)
         /\ OnlyOf(s, m.room) => OnlyOf(Append(s, m), m.room)
         /\ ThenOnlyOf(s, m.room) => ThenOnlyOf(Append(s, m), m.room)
<1> DEFINE t == Append(s, m)
<1>1. /\ Len(t) = Len(s) + 1 /\ Len(s) \in Nat
      /\ \A k \in 1 .. Len(s) : t[k] = s[k]
      /\ t[Len(s) + 1] = m
  BY AppendProperties, LenProperties
<1> HIDE DEF t
<1>2. \A k \in 1 .. Len(t) : k \in 1 .. Len(s) \/ k = Len(s) + 1
  BY <1>1
<1>3. Silent(s) => Silent(t)
  BY <1>1, <1>2 DEF Silent
<1>4. ASSUME NEW types \in SUBSET Answers, OneAnswer(s, types)
      PROVE  OneAnswer(t, types)
  <2>1. PICK k \in 1 .. Len(s) :
          s[k].type \in types /\ \A j \in 1 .. Len(s) : j # k => ~IsAnswer(s[j])
    BY <1>4 DEF OneAnswer
  <2>2. k \in 1 .. Len(t) /\ t[k].type \in types
    BY <1>1, <2>1
  <2>3. \A j \in 1 .. Len(t) : j # k => ~IsAnswer(t[j])
    BY <1>1, <1>2, <2>1
  <2> QED
    BY <2>2, <2>3 DEF OneAnswer
<1>5. OnlyOf(s, m.room) => OnlyOf(t, m.room)
  BY <1>1, <1>2 DEF OnlyOf
<1>6. ASSUME ThenOnlyOf(s, m.room), NEW j \in 1 .. Len(t), NEW k \in 1 .. Len(t), j < k,
             t[j].type = "ROOM_SUCCESS", ~IsAnswer(t[k])
      PROVE  t[k].room = m.room
  <2>1. CASE k = Len(s) + 1
    BY <1>1, <2>1
  <2>2. CASE k \in 1 .. Len(s)
    <3>1. j \in 1 .. Len(s)
      BY <1>1, <1>6, <2>2
    <3> QED
      BY <1>1, <1>6, <2>2, <3>1 DEF ThenOnlyOf
  <2> QED
    BY <1>2, <2>1, <2>2
<1> QED
  BY <1>3, <1>4, <1>5, <1>6 DEF ThenOnlyOf, t

\* ... and so is an answer, when none is on the way.
LEMMA AnswerSent ==
  ASSUME NEW s \in Seq(Messages), NEW a \in Messages, IsAnswer(a), Silent(s), NEW r
  PROVE  OneAnswer(Append(s, a), {a.type}) /\ ThenOnlyOf(Append(s, a), r)
<1> DEFINE t == Append(s, a)
<1>1. /\ Len(t) = Len(s) + 1 /\ Len(s) \in Nat
      /\ \A k \in 1 .. Len(s) : t[k] = s[k]
      /\ t[Len(s) + 1] = a
  BY AppendProperties, LenProperties
<1> HIDE DEF t
<1>2. \A k \in 1 .. Len(t) : k # Len(s) + 1 => k \in 1 .. Len(s) /\ ~IsAnswer(t[k])
  BY <1>1 DEF Silent
<1>3. OneAnswer(t, {a.type})
  BY <1>1, <1>2 DEF OneAnswer
<1>4. ASSUME NEW j \in 1 .. Len(t), NEW k \in 1 .. Len(t), j < k, t[j].type = "ROOM_SUCCESS"
      PROVE  FALSE
  <2>1. IsAnswer(t[j])
    BY <1>4 DEF IsAnswer, Answers
  <2>2. j \in 1 .. Len(s)
    BY <1>1, <1>4
  <2> QED
    BY <1>1, <1>2, <2>1, <2>2
<1> QED
  BY <1>3, <1>4 DEF ThenOnlyOf, t

\* What the network thread takes is the first of the messages.
LEMMA Received ==
  ASSUME NEW s \in Seq(Messages), s # << >>
  PROVE  /\ Head(s) = s[1] /\ s[1] \in Messages
         /\ Tail(s) \in Seq(Messages) /\ Len(Tail(s)) = Len(s) - 1 /\ Len(s) \in Nat \ {0}
         /\ \A k \in 1 .. Len(Tail(s)) : k + 1 \in 1 .. Len(s) /\ Tail(s)[k] = s[k + 1]
BY HeadTailProperties, EmptySeq, ElementOfSeq

LEMMA NewsReceived ==
  ASSUME NEW s \in Seq(Messages), s # << >>, ~IsAnswer(s[1])
  PROVE  /\ Silent(s) => Silent(Tail(s))
         /\ \A types \in SUBSET Answers : OneAnswer(s, types) => OneAnswer(Tail(s), types)
         /\ \A r : OnlyOf(s, r) => OnlyOf(Tail(s), r) /\ s[1].room = r
         /\ \A r : ThenOnlyOf(s, r) => ThenOnlyOf(Tail(s), r)
<1> DEFINE t == Tail(s)
<1>1. /\ Len(t) = Len(s) - 1 /\ Len(s) \in Nat \ {0}
      /\ \A k \in 1 .. Len(t) : k + 1 \in 1 .. Len(s) /\ t[k] = s[k + 1]
  BY Received
<1> HIDE DEF t
<1>2. Silent(s) => Silent(t)
  BY <1>1 DEF Silent
<1>3. ASSUME NEW types \in SUBSET Answers, OneAnswer(s, types)
      PROVE  OneAnswer(t, types)
  <2>1. PICK k \in 1 .. Len(s) :
          s[k].type \in types /\ \A j \in 1 .. Len(s) : j # k => ~IsAnswer(s[j])
    BY <1>3 DEF OneAnswer
  <2>2. k # 1
    BY <2>1 DEF IsAnswer
  <2>3. k - 1 \in 1 .. Len(t) /\ t[k - 1] = s[k]
    BY <1>1, <2>2
  <2>4. \A j \in 1 .. Len(t) : j # k - 1 => ~IsAnswer(t[j])
    BY <1>1, <2>1
  <2> QED
    BY <2>1, <2>3, <2>4 DEF OneAnswer
<1>4. \A r : OnlyOf(s, r) => OnlyOf(t, r) /\ s[1].room = r
  BY <1>1 DEF OnlyOf
<1>5. ASSUME NEW r, ThenOnlyOf(s, r) PROVE ThenOnlyOf(t, r)
  <2>1. ASSUME NEW j \in 1 .. Len(t), NEW k \in 1 .. Len(t), j < k,
               t[j].type = "ROOM_SUCCESS", ~IsAnswer(t[k])
        PROVE  t[k].room = r
    <3>1. j + 1 \in 1 .. Len(s) /\ k + 1 \in 1 .. Len(s) /\ j + 1 < k + 1
          /\ t[j] = s[j + 1] /\ t[k] = s[k + 1]
      BY <1>1, <2>1
    <3> QED
      BY <1>5, <2>1, <3>1 DEF ThenOnlyOf
  <2> QED
    BY <2>1 DEF ThenOnlyOf
<1> QED
  BY <1>2, <1>3, <1>4, <1>5 DEF t

LEMMA AnswerReceived ==
  ASSUME NEW s \in Seq(Messages), s # << >>, IsAnswer(s[1])
  PROVE  /\ ~Silent(s)
         /\ \A types \in SUBSET Answers :
              OneAnswer(s, types) => s[1].type \in types /\ Silent(Tail(s))
         /\ \A r : ThenOnlyOf(s, r) /\ s[1].type = "ROOM_SUCCESS" => OnlyOf(Tail(s), r)
<1> DEFINE t == Tail(s)
<1>1. /\ Len(t) = Len(s) - 1 /\ Len(s) \in Nat \ {0}
      /\ \A k \in 1 .. Len(t) : k + 1 \in 1 .. Len(s) /\ t[k] = s[k + 1]
  BY Received
<1> HIDE DEF t
<1>2. 1 \in 1 .. Len(s) /\ \A k \in 1 .. Len(t) : k + 1 # 1 /\ 1 < k + 1
  BY <1>1
<1>3. ~Silent(s)
  BY <1>2 DEF Silent
<1>4. ASSUME NEW types \in SUBSET Answers, OneAnswer(s, types)
      PROVE  s[1].type \in types /\ Silent(t)
  <2>1. PICK k \in 1 .. Len(s) :
          s[k].type \in types /\ \A j \in 1 .. Len(s) : j # k => ~IsAnswer(s[j])
    BY <1>4 DEF OneAnswer
  <2>2. k = 1
    BY <1>2, <2>1
  <2> QED
    BY <1>1, <1>2, <2>1, <2>2 DEF Silent
<1>5. \A r : ThenOnlyOf(s, r) /\ s[1].type = "ROOM_SUCCESS" => OnlyOf(t, r)
  BY <1>1, <1>2 DEF ThenOnlyOf, OnlyOf
<1> QED
  BY <1>3, <1>4, <1>5 DEF t

LEMMA Readiness ==
  /\ DOMAIN ReadyIn = {"LOGIN", "ENTER_ROOM", "FIND_MATCH", "LEAVE_ROOM", "MOVE", "JUMP"}
  /\ ReadyIn["LOGIN"] = "CONNECTED"
  /\ ReadyIn["ENTER_ROOM"] = "LOBBY" /\ ReadyIn["FIND_MATCH"] = "LOBBY"
  /\ ReadyIn["LEAVE_ROOM"] = "IN_ROOM" /\ ReadyIn["MOVE"] = "IN_ROOM" /\ ReadyIn["JUMP"] = "IN_ROOM"
BY DEF ReadyIn

-----------------------------------------------------------------------------
(* Where the player is, as both sides see it.  Each polling loop of the    *)
(* main thread has a request on the way, an answer on the way, or the      *)
(* answer in loginStatus or roomStatus.                                    *)

ServerInv ==
  /\ InTurn(toServer, session)
  /\ players = IF session = "IN_ROOM" THEN {room} ELSE {}
  /\ session = "IN_ROOM" => room # 0
  /\ owed # Nothing => owed = "ROOM_SUCCESS" /\ session = "IN_ROOM" /\ toServer = << >>
  /\ room <= round
  /\ session = "IN_QUEUE" \/ EndsWith(toServer, RoomActions) => room < round

NoAnswerDue == owed = Nothing /\ Silent(toClient)

AtLogin ==
  main \in {"login", "connecting"} =>
    /\ session = IF isConnected THEN "CONNECTED" ELSE "NONE"
    /\ main = "login" => ~isConnected
    /\ toServer = << >> /\ NoAnswerDue /\ loginStatus = 0 /\ room = round

LoginReplied ==
  /\ toServer = << >> /\ owed = Nothing
  /\ \/ OneAnswer(toClient, {"LOGIN_SUCCESS"}) /\ session = "LOBBY"
     \/ OneAnswer(toClient, {"LOGIN_ERROR"})

AwaitingLogin ==
  main = "loggingIn" =>
    /\ room = round /\ session \in {"CONNECTED", "LOBBY"}
    /\ \/ loginStatus = 0 /\ EndsWith(toServer, {"LOGIN"}) /\ NoAnswerDue
       \/ loginStatus = 0 /\ LoginReplied
       \/ loginStatus = 1 /\ toServer = << >> /\ NoAnswerDue /\ session = "LOBBY"
       \/ loginStatus = -1 /\ toServer = << >> /\ NoAnswerDue

AtHome ==
  main \in {"top", "home"} =>
    /\ NoAnswerDue /\ room = round
    /\ EndsWith(toServer, {"LEAVE_ROOM"}) \/ (toServer = << >> /\ session = "LOBBY")
    /\ main = "home" => roomStatus = 0

Requested ==
  /\ EndsWith(toServer, RoomActions) \/ (toServer = << >> /\ session = "IN_QUEUE")
  /\ NoAnswerDue /\ room = round - 1

Admitted == owed = "ROOM_SUCCESS" /\ Silent(toClient) /\ room = round

RoomReplied ==
  /\ toServer = << >> /\ owed = Nothing
  /\ \/ /\ OneAnswer(toClient, {"ROOM_SUCCESS"}) /\ ThenOnlyOf(toClient, room)
        /\ session = "IN_ROOM" /\ room = round
     \/ OneAnswer(toClient, {"ROOM_ERROR", "MATCH_ERROR"}) /\ session = "LOBBY"

LetIn == session = "IN_ROOM" /\ room = round /\ NoAnswerDue /\ OnlyOf(toClient, room)

AwaitingRoom ==
  main = "waiting" =>
    \/ roomStatus = 0 /\ (Requested \/ Admitted \/ RoomReplied)
    \/ roomStatus = 1 /\ toServer = << >> /\ LetIn
    \/ roomStatus = -1 /\ toServer = << >> /\ NoAnswerDue /\ session = "LOBBY"

Playing ==
  main \in {"game", "left"} =>
    LetIn /\ roomStatus = 1 /\ (toServer # << >> => EndsWith(toServer, GameActions))

PhaseInv == AtLogin /\ AwaitingLogin /\ AtHome /\ AwaitingRoom /\ Playing

ProtocolInv == TypeOK /\ ServerInv /\ PhaseInv

LEMMA InitProtocol == Init => ProtocolInv
<1> SUFFICES ASSUME Init PROVE ProtocolInv
  OBVIOUS
<1>1. toServer \in Seq(Commands) /\ toClient \in Seq(Messages) /\ Len(toServer) = 0 /\ Len(toClient) = 0
  BY EmptySeq DEF Init
<1>2. localSnapshot \in Snapshot
  BY ClientAssumption, BoardsAssumption DEF Init, Snapshot
<1>3. room \in 0 .. MaxRounds /\ round \in 0 .. MaxRounds
  BY ClientAssumption DEF Init
<1>4. decided \in [Rounds -> BOOLEAN] /\ captures \in [Rounds -> Nat]
  BY DEF Init
<1>5. TypeOK
  BY <1>1, <1>2, <1>3, <1>4 DEF Init, TypeOK
<1>6. Silent(toClient) /\ ~EndsWith(toServer, RoomActions) /\ InTurn(toServer, session)
  BY <1>1 DEF Init, Silent, EndsWith, InTurn
<1>7. ServerInv /\ PhaseInv
  BY <1>6 DEF Init, ServerInv, PhaseInv, AtLogin, AwaitingLogin, AtHome, AwaitingRoom, Playing,
     NoAnswerDue
<1> QED
  BY <1>5, <1>7 DEF ProtocolInv

LEMMA EnterGameType ==
  ASSUME TypeOK, EnterGame, round # 0
  PROVE  TypeOK'
<1>1. main' = "game" /\ score' = 0 /\ selectedCell' = Nothing /\ wantsReturn' = FALSE
  BY DEF EnterGame
<1>2. UNCHANGED <<round, status, request, isConnected, network, dangling, toServer, toClient, server>>
  BY DEF EnterGame
<1>3. selectedCell' \in Cells \union {Nothing} /\ score' \in Nat /\ wantsReturn' \in BOOLEAN
  BY <1>1
<1>4. subscribers' \subseteq Rounds
  <2>1. round \in Rounds
    BY ClientAssumption DEF TypeOK, Rounds
  <2> QED
    BY <2>1 DEF TypeOK, EnterGame
<1> QED
  BY <1>1, <1>2, <1>3, <1>4 DEF TypeOK, server, network, status

\* Steps that put nothing on the way and take nothing from it.
LEMMA LocalType ==
  ASSUME ProtocolInv,
         \/ ConnectToServer \/ LoginAnswered \/ StartRound \/ Quit \/ RoomRefused \/ EnterGame
         \/ LeaveGame \/ ClickButton \/ ClickOutside \/ StoreSnapshot \/ on_open
  PROVE  TypeOK'
<1> USE DEF ProtocolInv, server, screen, network, bus, status
<1>1. CASE ConnectToServer
  BY <1>1 DEF TypeOK, ConnectToServer
<1>2. CASE LoginAnswered
  BY <1>2 DEF TypeOK, LoginAnswered
<1>3. CASE StartRound
  BY <1>3 DEF TypeOK, StartRound, Cleared
<1>4. CASE Quit
  BY <1>4 DEF TypeOK, Quit
<1>5. CASE RoomRefused
  BY <1>5 DEF TypeOK, RoomRefused
<1>6. CASE EnterGame
  <2>1. round # 0
    BY <1>6 DEF EnterGame, PhaseInv, AwaitingRoom, LetIn, ServerInv
  <2> QED
    BY <1>6, <2>1, EnterGameType
<1>7. CASE LeaveGame
  BY <1>7 DEF TypeOK, LeaveGame
<1>8. CASE ClickButton
  BY <1>8 DEF TypeOK, ClickButton
<1>9. CASE ClickOutside
  BY <1>9 DEF TypeOK, ClickOutside, Select
<1>10. CASE StoreSnapshot
  BY <1>10 DEF TypeOK, StoreSnapshot
<1>11. CASE on_open
  BY <1>11 DEF TypeOK, on_open
<1> QED
  BY <1>1, <1>2, <1>3, <1>4, <1>5, <1>6, <1>7, <1>8, <1>9, <1>10, <1>11

\* What is on the way, and what the server knows.
transit == <<toServer, toClient, session, owed, room, players, round>>

LEMMA TransitSame ==
  ASSUME ServerInv, UNCHANGED transit
  PROVE  /\ ServerInv'
         /\ NoAnswerDue' = NoAnswerDue /\ LoginReplied' = LoginReplied /\ Requested' = Requested
         /\ Admitted' = Admitted /\ RoomReplied' = RoomReplied /\ LetIn' = LetIn
         /\ \A actions : EndsWith(toServer, actions)' = EndsWith(toServer, actions)
<1>1. ServerInv'
  BY DEF transit, ServerInv, InTurn, EndsWith
<1> QED
  BY <1>1 DEF transit, NoAnswerDue, LoginReplied, Requested, Admitted, RoomReplied, LetIn

LEMMA LocalProtocol ==
  ASSUME ProtocolInv,
         \/ ConnectToServer \/ LoginAnswered \/ StartRound \/ Quit \/ RoomRefused \/ EnterGame
         \/ LeaveGame \/ ClickButton \/ ClickOutside \/ StoreSnapshot \/ on_open
  PROVE  ProtocolInv'
<1> USE DEF ProtocolInv
<1>1. TypeOK'
  BY LocalType
<1>2. CASE on_open
  <2>1. /\ main = "connecting" /\ ~isConnected /\ isConnected' = TRUE /\ session' = "CONNECTED"
        /\ UNCHANGED <<main, round, loginStatus, toServer, toClient, owed, room, players>>
    BY <1>2 DEF on_open, status
  <2>2. toServer = << >> /\ session = "NONE" /\ NoAnswerDue /\ loginStatus = 0 /\ room = round
    BY <2>1 DEF PhaseInv, AtLogin
  <2>3. InTurn(toServer, session)' /\ ~EndsWith(toServer, RoomActions)'
    BY <2>1, <2>2, EmptySeq DEF InTurn, EndsWith
  <2>4. ServerInv'
    BY <2>1, <2>2, <2>3 DEF ServerInv, NoAnswerDue
  <2>5. PhaseInv'
    BY <2>1, <2>2 DEF PhaseInv, AtLogin, AwaitingLogin, AtHome, AwaitingRoom, Playing, NoAnswerDue
  <2> QED
    BY <1>1, <2>4, <2>5
<1>3. ASSUME ~on_open, UNCHANGED transit, NoAnswerDue' = NoAnswerDue, LoginReplied' = LoginReplied,
             Requested' = Requested, Admitted' = Admitted, RoomReplied' = RoomReplied, LetIn' = LetIn,
             \A actions : EndsWith(toServer, actions)' = EndsWith(toServer, actions)
      PROVE  PhaseInv'
  <2> USE <1>3 DEF PhaseInv, AtLogin, AwaitingLogin, AtHome, AwaitingRoom, Playing, transit,
          server, screen, network, bus, status
  <2>1. CASE ConnectToServer
    BY <2>1 DEF ConnectToServer
  <2>2. CASE LoginAnswered
    BY <2>2 DEF LoginAnswered, TypeOK
  <2>3. CASE StartRound
    BY <2>3 DEF StartRound, Cleared
  <2>4. CASE Quit \/ RoomRefused
    BY <2>4 DEF Quit, RoomRefused
  <2>5. CASE EnterGame
    BY <2>5 DEF EnterGame
  <2>6. CASE LeaveGame
    BY <2>6 DEF LeaveGame
  <2>7. CASE ClickButton \/ ClickOutside \/ StoreSnapshot
    BY <2>7 DEF ClickButton, ClickOutside, Select, StoreSnapshot
  <2> QED
    BY <1>3, <2>1, <2>2, <2>3, <2>4, <2>5, <2>6, <2>7
<1>4. ~on_open => UNCHANGED transit
  BY DEF transit, ConnectToServer, LoginAnswered, StartRound, Quit, RoomRefused, EnterGame, LeaveGame,
     ClickButton, ClickOutside, Select, StoreSnapshot, server
<1> QED
  BY <1>1, <1>2, <1>3, <1>4, TransitSame

\* Steps of the main thread that send a command.
LEMMA SendFits ==
  ASSUME ProtocolInv, NEW a \in DOMAIN ReadyIn, NEW c \in Cells \union {Nothing}, Send(a, c),
         toServer = << >> => session = ReadyIn[a],
         toServer # << >> => Follows(toServer[Len(toServer)].action, a),
         UNCHANGED session
  PROVE  /\ toServer' \in Seq(Commands) /\ InTurn(toServer, session)' /\ toServer' # << >>
         /\ \A actions : EndsWith(toServer, actions)' <=> a \in actions
<1>1. Command(a, c) \in Commands /\ Command(a, c).action = a
  BY DEF Command, Commands
<1>2. toServer \in Seq(Commands) /\ InTurn(toServer, session)
  BY DEF ProtocolInv, TypeOK, ServerInv
<1>3. toServer' = Append(toServer, Command(a, c))
  BY DEF Send
<1>4. /\ InTurn(toServer', session)
      /\ \A actions : EndsWith(toServer', actions) <=> a \in actions
  BY <1>1, <1>2, <1>3, SendInTurn
<1>5. toServer' \in Seq(Commands) /\ toServer' # << >>
  BY <1>1, <1>2, <1>3, AppendProperties
<1> QED
  BY <1>4, <1>5

LEMMA SendLoginProtocol == ASSUME ProtocolInv, SendLogin PROVE ProtocolInv'
<1>1. /\ main = "connecting" /\ isConnected /\ main' = "loggingIn" /\ Send("LOGIN", Nothing)
      /\ UNCHANGED <<round, status, request, isConnected, screen, network, bus, toClient, server>>
  BY DEF SendLogin
<1>2. toServer = << >> /\ session = "CONNECTED" /\ NoAnswerDue /\ loginStatus = 0 /\ room = round
  BY <1>1 DEF ProtocolInv, PhaseInv, AtLogin
<1>3. /\ toServer' \in Seq(Commands) /\ InTurn(toServer, session)' /\ toServer' # << >>
      /\ \A actions : EndsWith(toServer, actions)' <=> "LOGIN" \in actions
  BY <1>1, <1>2, Readiness, SendFits DEF server
<1>4. TypeOK'
  BY <1>1, <1>3 DEF ProtocolInv, TypeOK, status, screen, network, bus, server
<1>5. EndsWith(toServer, {"LOGIN"})' /\ ~EndsWith(toServer, RoomActions)'
  BY <1>3 DEF RoomActions
<1>6. ServerInv'
  BY <1>1, <1>2, <1>3, <1>5 DEF ProtocolInv, ServerInv, NoAnswerDue, server
<1>7. PhaseInv'
  BY <1>1, <1>2, <1>5 DEF PhaseInv, AtLogin, AwaitingLogin, AtHome, AwaitingRoom, Playing, NoAnswerDue,
     server, status
<1> QED
  BY <1>4, <1>6, <1>7 DEF ProtocolInv

LEMMA RequestRoomProtocol ==
  ASSUME ProtocolInv, NEW action \in RoomActions, RequestRoom(action)
  PROVE  ProtocolInv'
<1>1. /\ main = "home" /\ round < MaxRounds /\ main' = "waiting" /\ round' = round + 1
      /\ request' = action /\ Send(action, Nothing)
      /\ UNCHANGED <<status, isConnected, screen, network, bus, toClient, server>>
  BY DEF RequestRoom
<1>2. /\ NoAnswerDue /\ room = round /\ roomStatus = 0
      /\ EndsWith(toServer, {"LEAVE_ROOM"}) \/ (toServer = << >> /\ session = "LOBBY")
  BY <1>1 DEF ProtocolInv, PhaseInv, AtHome
<1>3. action \in DOMAIN ReadyIn /\ ReadyIn[action] = "LOBBY" /\ Follows("LEAVE_ROOM", action)
  BY Readiness DEF RoomActions, Follows, GameActions
<1>4. /\ toServer' \in Seq(Commands) /\ InTurn(toServer, session)' /\ toServer' # << >>
      /\ \A actions : EndsWith(toServer, actions)' <=> action \in actions
  <2>1. toServer = << >> => session = ReadyIn[action]
    BY <1>2, <1>3 DEF EndsWith
  <2>2. toServer # << >> => Follows(toServer[Len(toServer)].action, action)
    BY <1>2, <1>3 DEF EndsWith
  <2> QED
    BY <1>1, <1>3, <2>1, <2>2, SendFits DEF server
<1>5. round' \in 0 .. MaxRounds
  BY <1>1, ClientAssumption DEF ProtocolInv, TypeOK
<1>6. TypeOK'
  BY <1>1, <1>4, <1>5 DEF ProtocolInv, TypeOK, RoomActions, status, screen, network, bus, server
<1>7. EndsWith(toServer, RoomActions)'
  BY <1>4
<1>8. room < round' /\ room <= round' /\ room = round' - 1
  BY <1>1, <1>2 DEF ProtocolInv, TypeOK
<1>9. ServerInv'
  BY <1>1, <1>2, <1>4, <1>8 DEF ProtocolInv, ServerInv, NoAnswerDue, server
<1>10. PhaseInv'
  BY <1>1, <1>2, <1>7, <1>8 DEF PhaseInv, AtLogin, AwaitingLogin, AtHome, AwaitingRoom, Requested, Playing,
     NoAnswerDue, server, status
<1> QED
  BY <1>6, <1>9, <1>10 DEF ProtocolInv

LEMMA SendLeaveProtocol == ASSUME ProtocolInv, SendLeave PROVE ProtocolInv'
<1>1. /\ main = "left" /\ main' = "top" /\ Send("LEAVE_ROOM", Nothing)
      /\ UNCHANGED <<round, status, request, isConnected, screen, network, bus, toClient, server>>
  BY DEF SendLeave
<1>2. LetIn /\ (toServer # << >> => EndsWith(toServer, GameActions))
  BY <1>1 DEF ProtocolInv, PhaseInv, Playing
<1>3. /\ toServer' \in Seq(Commands) /\ InTurn(toServer, session)' /\ toServer' # << >>
      /\ \A actions : EndsWith(toServer, actions)' <=> "LEAVE_ROOM" \in actions
  BY <1>1, <1>2, Readiness, SendFits DEF server, LetIn, EndsWith, Follows
<1>4. TypeOK'
  BY <1>1, <1>3 DEF ProtocolInv, TypeOK, status, screen, network, bus, server
<1>5. EndsWith(toServer, {"LEAVE_ROOM"})' /\ ~EndsWith(toServer, RoomActions)'
  BY <1>3 DEF RoomActions
<1>6. ServerInv'
  BY <1>1, <1>2, <1>3, <1>5 DEF ProtocolInv, ServerInv, LetIn, NoAnswerDue, server
<1>7. PhaseInv'
  BY <1>1, <1>2, <1>5 DEF PhaseInv, AtLogin, AwaitingLogin, AtHome, AwaitingRoom, Playing, LetIn, NoAnswerDue,
     server, status
<1> QED
  BY <1>4, <1>6, <1>7 DEF ProtocolInv

LEMMA GameCommandProtocol ==
  ASSUME ProtocolInv, NEW cell \in Cells, ClickCell(cell) \/ DoubleClick(cell)
  PROVE  ProtocolInv'
<1>1. /\ main = "game"
      /\ UNCHANGED <<main, round, status, request, isConnected, network, bus, toClient, server>>
  BY DEF ClickCell, DoubleClick
<1>2. LetIn /\ (toServer # << >> => EndsWith(toServer, GameActions)) /\ roomStatus = 1
  BY <1>1 DEF ProtocolInv, PhaseInv, Playing
<1>3. /\ wantsReturn' = wantsReturn /\ selectedCell' \in {selectedCell, cell, Nothing}
      /\ \/ UNCHANGED toServer
         \/ \E a \in GameActions, c \in {selectedCell, cell} : Send(a, c)
  BY DEF ClickCell, DoubleClick, Select, screen, GameActions
<1>4. selectedCell' \in Cells \union {Nothing} /\ wantsReturn' \in BOOLEAN
  BY <1>3 DEF ProtocolInv, TypeOK
<1>5. /\ toServer' \in Seq(Commands) /\ InTurn(toServer, session)'
      /\ toServer' # << >> => EndsWith(toServer, GameActions)'
      /\ ~EndsWith(toServer, RoomActions)'
  <2>1. CASE UNCHANGED toServer
    <3>1. ~EndsWith(toServer, RoomActions)
      BY <1>2 DEF EndsWith, RoomActions, GameActions
    <3> QED
      BY <1>1, <1>2, <2>1, <3>1 DEF ProtocolInv, TypeOK, ServerInv, InTurn, EndsWith, server
  <2>2. ASSUME NEW a \in GameActions, NEW c \in {selectedCell, cell}, Send(a, c)
        PROVE  /\ toServer' \in Seq(Commands) /\ InTurn(toServer, session)'
               /\ EndsWith(toServer, GameActions)' /\ ~EndsWith(toServer, RoomActions)'
    <3>1. a \in DOMAIN ReadyIn /\ ReadyIn[a] = "IN_ROOM" /\ c \in Cells \union {Nothing}
      BY Readiness DEF GameActions, ProtocolInv, TypeOK
    <3>2. toServer # << >> => Follows(toServer[Len(toServer)].action, a)
      BY <1>2 DEF EndsWith, Follows
    <3>3. session = "IN_ROOM" /\ UNCHANGED session
      BY <1>1, <1>2 DEF LetIn, server
    <3>4. /\ toServer' \in Seq(Commands) /\ InTurn(toServer, session)'
          /\ \A actions : EndsWith(toServer, actions)' <=> a \in actions
      BY <2>2, <3>1, <3>2, <3>3, SendFits
    <3> QED
      BY <3>4 DEF GameActions, RoomActions
  <2> QED
    BY <1>3, <2>1, <2>2
<1>6. TypeOK'
  BY <1>1, <1>4, <1>5 DEF ProtocolInv, TypeOK, status, network, bus, server
<1>7. ServerInv'
  BY <1>1, <1>2, <1>5 DEF ProtocolInv, ServerInv, LetIn, NoAnswerDue, server
<1>8. PhaseInv'
  BY <1>1, <1>2, <1>5 DEF PhaseInv, AtLogin, AwaitingLogin, AtHome, AwaitingRoom, Playing, LetIn, NoAnswerDue,
     server, status
<1> QED
  BY <1>6, <1>7, <1>8 DEF ProtocolInv

\* Steps of the network thread that take a message.
LEMMA HandleAnswerProtocol == ASSUME ProtocolInv, HandleAnswer PROVE ProtocolInv'
<1> DEFINE type == toClient[1].type
<1>1. /\ Alive /\ toClient # << >> /\ IsAnswer(toClient[1]) /\ toClient' = Tail(toClient)
      /\ type = "LOGIN_SUCCESS" => loginStatus' = 1
      /\ type = "LOGIN_ERROR" => loginStatus' = -1
      /\ type = "ROOM_SUCCESS" => roomStatus' = 1
      /\ type \in {"ROOM_ERROR", "MATCH_ERROR"} => roomStatus' = -1
      /\ loginStatus' \in {loginStatus, -1, 1} /\ roomStatus' \in {roomStatus, -1, 1}
      /\ UNCHANGED <<main, round, request, isConnected, screen, network, bus, toServer, server>>
      /\ toClient' \in Seq(Messages)
  BY Received DEF HandleAnswer, Receives, IsAnswer, ProtocolInv, TypeOK
<1>2. /\ ~Silent(toClient)
      /\ \A types \in SUBSET Answers :
           OneAnswer(toClient, types) => type \in types /\ Silent(toClient')
      /\ \A r : ThenOnlyOf(toClient, r) /\ type = "ROOM_SUCCESS" => OnlyOf(toClient', r)
  BY <1>1, AnswerReceived DEF ProtocolInv, TypeOK
<1> HIDE DEF type
<1>3. TypeOK'
  <2>1. loginStatus' \in {-1, 0, 1} /\ roomStatus' \in {-1, 0, 1}
    BY <1>1 DEF ProtocolInv, TypeOK
  <2> QED
    BY <1>1, <2>1 DEF ProtocolInv, TypeOK, screen, network, bus, server
<1>4. ServerInv'
  BY <1>1 DEF ProtocolInv, ServerInv, InTurn, EndsWith, server
<1>5. CASE main = "loggingIn"
  <2>1. LoginReplied /\ room = round
    BY <1>2, <1>5 DEF ProtocolInv, PhaseInv, AwaitingLogin, NoAnswerDue
  <2>2. {"LOGIN_SUCCESS"} \in SUBSET Answers /\ {"LOGIN_ERROR"} \in SUBSET Answers
    BY DEF Answers
  <2>3. /\ toServer = << >> /\ owed = Nothing /\ Silent(toClient')
        /\ \/ type = "LOGIN_SUCCESS" /\ session = "LOBBY"
           \/ type = "LOGIN_ERROR"
    BY <1>2, <2>1, <2>2 DEF LoginReplied
  <2>4. \/ loginStatus' = 1 /\ session = "LOBBY"
        \/ loginStatus' = -1
    BY <1>1, <2>3
  <2>5. /\ toServer' = << >> /\ NoAnswerDue' /\ session' = session /\ room' = round' /\ main' = main
    BY <1>1, <2>1, <2>3 DEF NoAnswerDue, server
  <2> QED
    BY <1>3, <1>4, <1>5, <2>4, <2>5 DEF ProtocolInv, PhaseInv, AtLogin, AwaitingLogin, AtHome,
       AwaitingRoom, Playing
<1>6. CASE main = "waiting"
  <2>1. roomStatus = 0 /\ RoomReplied
    BY <1>2, <1>6 DEF ProtocolInv, PhaseInv, AwaitingRoom, Requested, Admitted, LetIn, NoAnswerDue
  <2>2. {"ROOM_SUCCESS"} \in SUBSET Answers /\ {"ROOM_ERROR", "MATCH_ERROR"} \in SUBSET Answers
    BY DEF Answers
  <2>3. /\ toServer = << >> /\ owed = Nothing /\ Silent(toClient')
        /\ \/ type = "ROOM_SUCCESS" /\ OnlyOf(toClient', room) /\ session = "IN_ROOM" /\ room = round
           \/ type \in {"ROOM_ERROR", "MATCH_ERROR"} /\ session = "LOBBY"
    BY <1>2, <2>1, <2>2 DEF RoomReplied
  <2>4. \/ roomStatus' = 1 /\ OnlyOf(toClient', room) /\ session = "IN_ROOM" /\ room = round
        \/ roomStatus' = -1 /\ session = "LOBBY"
    BY <1>1, <2>3
  <2>5. /\ toServer' = << >> /\ NoAnswerDue' /\ main' = main
        /\ UNCHANGED <<session, room, round>>
    BY <1>1, <2>1, <2>3 DEF NoAnswerDue, server
  <2> QED
    BY <1>3, <1>4, <1>6, <2>4, <2>5 DEF ProtocolInv, PhaseInv, AtLogin, AwaitingLogin, AtHome,
       AwaitingRoom, Playing, LetIn
<1>7. CASE main \notin {"loggingIn", "waiting"}
  <2>1. main \in {"ended", "crashed"}
    BY <1>2, <1>7 DEF ProtocolInv, TypeOK, PhaseInv, AtLogin, AtHome, Playing, LetIn, NoAnswerDue
  <2> QED
    BY <1>1, <2>1 DEF Alive
<1> QED
  BY <1>3, <1>4, <1>5, <1>6, <1>7 DEF ProtocolInv

LEMMA ParseStateType == ASSUME TypeOK, ParseState PROVE TypeOK'
<1> DEFINE m == toClient[1]
<1>1. /\ m \in Messages /\ m = Head(toClient) /\ toClient' = Tail(toClient)
      /\ toClient' \in Seq(Messages)
  BY Received DEF ParseState, Receives, TypeOK
<1>2. /\ m.type \in {"STATE", "GAME_OVER_RESIGN"} /\ m.room \in 0 .. MaxRounds /\ m.over \in BOOLEAN
      /\ m.captured \in 0 .. 1
  BY <1>1 DEF ParseState, Messages
<1>3. /\ score' \in {score, Counted(m.captured)} /\ dangling' \in BOOLEAN /\ main' \in {main, "crashed"}
      /\ UNCHANGED <<round, status, request, isConnected, screen, localSnapshot, subscribers,
                     toServer, server>>
  BY <1>1 DEF ParseState, TypeOK
<1>4. PICK board \in Boards :
        incoming' = [type |-> m.type, snapshot |-> [room |-> m.room, over |-> m.over, board |-> board]]
  BY <1>1, BoardsAssumption DEF ParseState
<1> HIDE DEF m
<1>5. incoming' \in [type : {"STATE", "GAME_OVER_RESIGN"}, snapshot : Snapshot]
  BY <1>2, <1>4 DEF Snapshot
<1>6. score' \in Nat
  BY <1>2, <1>3 DEF Counted, TypeOK
<1> QED
  BY <1>1, <1>3, <1>5, <1>6 DEF TypeOK, status, screen, server

LEMMA ParseStateProtocol == ASSUME ProtocolInv, ParseState PROVE ProtocolInv'
<1>1. /\ toClient # << >> /\ ~IsAnswer(toClient[1]) /\ toClient' = Tail(toClient)
      /\ main' \in {main, "crashed"}
      /\ UNCHANGED <<round, status, isConnected, toServer, server>>
  BY Received DEF ParseState, Receives, IsAnswer, ProtocolInv, TypeOK
<1>2. /\ Silent(toClient) => Silent(toClient')
      /\ \A types \in SUBSET Answers : OneAnswer(toClient, types) => OneAnswer(toClient', types)
      /\ \A r : OnlyOf(toClient, r) => OnlyOf(toClient', r)
      /\ \A r : ThenOnlyOf(toClient, r) => ThenOnlyOf(toClient', r)
  BY <1>1, NewsReceived DEF ProtocolInv, TypeOK
<1>3. /\ {"ROOM_SUCCESS"} \in SUBSET Answers /\ {"ROOM_ERROR", "MATCH_ERROR"} \in SUBSET Answers
      /\ {"LOGIN_SUCCESS"} \in SUBSET Answers /\ {"LOGIN_ERROR"} \in SUBSET Answers
  BY DEF Answers
<1>4. ServerInv'
  BY <1>1 DEF ProtocolInv, ServerInv, InTurn, EndsWith, server
<1>5. /\ NoAnswerDue => NoAnswerDue'
      /\ LoginReplied => LoginReplied'
      /\ Requested => Requested'
      /\ Admitted => Admitted'
      /\ RoomReplied => RoomReplied'
      /\ LetIn => LetIn'
      /\ \A actions : EndsWith(toServer, actions)' = EndsWith(toServer, actions)
  BY <1>1, <1>2, <1>3 DEF NoAnswerDue, LoginReplied, Requested, Admitted, RoomReplied, LetIn, server, EndsWith
<1>6. PhaseInv'
  BY <1>1, <1>5 DEF ProtocolInv, PhaseInv, AtLogin, AwaitingLogin, AtHome, AwaitingRoom, Playing, server, status
<1> QED
  BY <1>4, <1>6, ParseStateType DEF ProtocolInv

\* Steps of the server that take a command.
LEMMA Handled ==
  ASSUME ProtocolInv, NEW a, Handles(a)
  PROVE  /\ owed = Nothing /\ toServer # << >> /\ toServer[1].action = a /\ a \in DOMAIN ReadyIn
         /\ session = ReadyIn[a]
         /\ toServer' = Tail(toServer) /\ toServer' \in Seq(Commands)
         /\ toServer' = << >> => \A actions : EndsWith(toServer, actions) <=> a \in actions
         /\ toServer' # << >> => /\ Follows(a, toServer'[1].action)
                                 /\ \A actions : EndsWith(toServer', actions) <=> EndsWith(toServer, actions)
         /\ \A other : (toServer' # << >> => other = ReadyIn[toServer'[1].action])
                          => InTurn(toServer', other)
<1>1. toServer \in Seq(Commands) /\ InTurn(toServer, session) /\ toServer # << >>
  BY DEF ProtocolInv, TypeOK, ServerInv, Handles
<1>2. Head(toServer) = toServer[1] /\ toServer[1] \in Commands
  BY <1>1, HandleInTurn
<1>3. owed = Nothing /\ toServer' = Tail(toServer) /\ toServer[1].action = a
  BY <1>2 DEF Handles
<1>4. a \in DOMAIN ReadyIn
  BY <1>2, <1>3 DEF Commands
<1> QED
  BY <1>1, <1>3, <1>4, HandleInTurn

\* Who is waiting when the last command on the way is action a.
LEMMA Sender ==
  ASSUME ProtocolInv, toServer # << >>, NEW a \in DOMAIN ReadyIn,
         \A actions : EndsWith(toServer, actions) <=> a \in actions
  PROVE  \/ main \in {"ended", "crashed"}
         \/ /\ a = "LOGIN" /\ main = "loggingIn" /\ session \in {"CONNECTED", "LOBBY"}
            /\ NoAnswerDue /\ loginStatus = 0 /\ room = round
         \/ /\ a \in RoomActions /\ main = "waiting"
            /\ NoAnswerDue /\ roomStatus = 0 /\ room = round - 1
         \/ /\ a = "LEAVE_ROOM" /\ main \in {"top", "home"}
            /\ NoAnswerDue /\ room = round /\ (main = "home" => roomStatus = 0)
         \/ /\ a \in GameActions /\ main \in {"game", "left"}
            /\ LetIn /\ roomStatus = 1
<1>1. /\ EndsWith(toServer, {"LOGIN"}) <=> a = "LOGIN"
      /\ EndsWith(toServer, {"LEAVE_ROOM"}) <=> a = "LEAVE_ROOM"
      /\ EndsWith(toServer, RoomActions) <=> a \in RoomActions
      /\ EndsWith(toServer, GameActions) <=> a \in GameActions
  OBVIOUS
<1>2. owed = Nothing
  BY DEF ProtocolInv, ServerInv
<1>3. CASE main \in {"login", "connecting"}
  BY <1>3 DEF ProtocolInv, PhaseInv, AtLogin
<1>4. CASE main = "loggingIn"
  BY <1>1, <1>4 DEF ProtocolInv, PhaseInv, AwaitingLogin, LoginReplied
<1>5. CASE main \in {"top", "home"}
  BY <1>1, <1>5 DEF ProtocolInv, PhaseInv, AtHome
<1>6. CASE main = "waiting"
  <2>1. ~RoomReplied
    BY DEF RoomReplied
  <2>2. ~Admitted
    BY <1>2, NothingAssumption DEF Admitted, Answers
  <2>3. Requested /\ roomStatus = 0
    BY <1>6, <2>1, <2>2 DEF ProtocolInv, PhaseInv, AwaitingRoom
  <2> QED
    BY <1>1, <1>6, <2>3 DEF Requested
<1>7. CASE main \in {"game", "left"}
  BY <1>1, <1>7 DEF ProtocolInv, PhaseInv, Playing
<1> QED
  BY <1>3, <1>4, <1>5, <1>6, <1>7 DEF ProtocolInv, TypeOK

LEMMA LastSent ==
  ASSUME ProtocolInv, toServer # << >>
  PROVE  \E a \in DOMAIN ReadyIn : \A actions : EndsWith(toServer, actions) <=> a \in actions
<1>1. Len(toServer) \in 1 .. Len(toServer) /\ toServer \in Seq(Commands)
  <2>1. toServer \in Seq(Commands)
    BY DEF ProtocolInv, TypeOK
  <2>2. Len(toServer) # 0 /\ Len(toServer) \in Nat
    BY <2>1, EmptySeq
  <2> QED
    BY <2>1, <2>2
<1> DEFINE a == toServer[Len(toServer)].action
<1>2. a \in DOMAIN ReadyIn
  <2>1. toServer[Len(toServer)] \in Commands
    BY <1>1, ElementOfSeq
  <2> QED
    BY <2>1 DEF Commands
<1>3. \A actions : EndsWith(toServer, actions) <=> a \in actions
  BY DEF EndsWith
<1> QED
  BY <1>2, <1>3

LEMMA OverPhase == ASSUME main' \in {"ended", "crashed"} PROVE PhaseInv'
BY DEF PhaseInv, AtLogin, AwaitingLogin, AtHome, AwaitingRoom, Playing

\* Of LOGIN, ENTER_ROOM and FIND_MATCH nothing follows before the answer.
LEMMA RequestHandled ==
  ASSUME ProtocolInv, NEW a \in RoomActions \union {"LOGIN"}, Handles(a)
  PROVE  /\ toServer' = << >> /\ toServer' \in Seq(Commands)
         /\ \A actions : EndsWith(toServer, actions) <=> a \in actions
         /\ \A state, actions : InTurn(toServer', state) /\ ~EndsWith(toServer', actions)
<1>1. toServer' = << >>
  BY Handled DEF Follows, RoomActions, GameActions
<1>2. \A state, actions : InTurn(toServer', state) /\ ~EndsWith(toServer', actions)
  BY <1>1, EmptySeq DEF InTurn, EndsWith
<1> QED
  BY <1>1, <1>2, Handled

LEMMA AnswerType ==
  ASSUME ProtocolInv, NEW type \in Answers, Silent(toClient), Reply(type), NEW r
  PROVE  /\ toClient' \in Seq(Messages)
         /\ OneAnswer(toClient', {type}) /\ ThenOnlyOf(toClient', r)
<1>1. Answer(type) \in Messages /\ IsAnswer(Answer(type)) /\ Answer(type).type = type
  BY ClientAssumption DEF Answer, Messages, IsAnswer
<1>2. toClient \in Seq(Messages) /\ toClient' = Append(toClient, Answer(type))
  BY DEF ProtocolInv, TypeOK, Reply
<1> QED
  BY <1>1, <1>2, AnswerSent, AppendProperties

\* An answer to somebody who has given up is put behind the others.
LEMMA ReplyType ==
  ASSUME ProtocolInv, NEW type \in Answers, Reply(type)
  PROVE  toClient' \in Seq(Messages)
<1>1. Answer(type) \in Messages
  BY ClientAssumption DEF Answer, Messages
<1> QED
  BY <1>1, AppendProperties DEF ProtocolInv, TypeOK, Reply

LEMMA HandleLoginProtocol == ASSUME ProtocolInv, HandleLogin PROVE ProtocolInv'
<1>1. /\ Handles("LOGIN") /\ session = "CONNECTED"
      /\ UNCHANGED <<clientSide, serverUp, owed, room, players, decided, captures>>
  BY DEF HandleLogin
<1>2. /\ toServer' = << >> /\ toServer' \in Seq(Commands)
      /\ \A actions : EndsWith(toServer, actions) <=> "LOGIN" \in actions
      /\ \A state, actions : InTurn(toServer', state) /\ ~EndsWith(toServer', actions)
      /\ toServer # << >> /\ owed = Nothing
  BY <1>1, RequestHandled, Handled
<1>3. PICK type \in {"LOGIN_SUCCESS", "LOGIN_ERROR"} :
        Reply(type) /\ session' = IF type = "LOGIN_SUCCESS" THEN "LOBBY" ELSE session
  BY DEF HandleLogin
<1>4. type \in Answers
  BY DEF Answers
<1>5. TypeOK'
  BY <1>1, <1>2, <1>3, <1>4, ReplyType DEF ProtocolInv, TypeOK, clientSide, status, screen, network, bus
<1>6. ServerInv'
  BY <1>1, <1>2, <1>3 DEF ProtocolInv, ServerInv, clientSide
<1>7. \/ main \in {"ended", "crashed"}
      \/ main = "loggingIn" /\ NoAnswerDue /\ loginStatus = 0 /\ room = round
  BY <1>2, Sender, Readiness DEF RoomActions, GameActions
<1>8. CASE main \in {"ended", "crashed"}
  <2>1. PhaseInv'
    BY <1>1, <1>8, OverPhase DEF clientSide
  <2> QED
    BY <1>5, <1>6, <2>1 DEF ProtocolInv
<1>9. CASE main = "loggingIn" /\ NoAnswerDue /\ loginStatus = 0 /\ room = round
  <2>1. OneAnswer(toClient', {type})
    BY <1>3, <1>4, <1>9, AnswerType DEF NoAnswerDue
  <2>2. \/ OneAnswer(toClient', {"LOGIN_SUCCESS"}) /\ session' = "LOBBY"
        \/ OneAnswer(toClient', {"LOGIN_ERROR"})
    BY <1>3, <2>1
  <2>3. LoginReplied'
    BY <1>1, <1>2, <2>2 DEF LoginReplied
  <2>4. UNCHANGED <<main, loginStatus, room, round>> /\ session' \in {"CONNECTED", "LOBBY"}
    BY <1>1, <1>3 DEF clientSide, status
  <2>5. PhaseInv'
    BY <1>9, <2>3, <2>4 DEF PhaseInv, AtLogin, AwaitingLogin, AtHome, AwaitingRoom, Playing
  <2> QED
    BY <1>5, <1>6, <2>5 DEF ProtocolInv
<1> QED
  BY <1>7, <1>8, <1>9

LEMMA HandleEnterProtocol == ASSUME ProtocolInv, HandleEnter PROVE ProtocolInv'
<1>1. /\ Handles("ENTER_ROOM") /\ session = "LOBBY"
      /\ UNCHANGED <<clientSide, serverUp, decided, captures>>
  BY DEF HandleEnter
<1>2. /\ toServer' = << >> /\ toServer' \in Seq(Commands)
      /\ \A actions : EndsWith(toServer, actions) <=> "ENTER_ROOM" \in actions
      /\ \A state, actions : InTurn(toServer', state) /\ ~EndsWith(toServer', actions)
      /\ toServer # << >> /\ owed = Nothing
  BY <1>1, RequestHandled, Handled DEF RoomActions
<1>3. room < round /\ players = {}
  BY <1>1, <1>2 DEF ProtocolInv, ServerInv, RoomActions
<1>4. TypeOK' /\ ServerInv'
  <2>1. CASE Admit /\ UNCHANGED toClient
    <3>1. room + 1 \in Rounds /\ room' = room + 1 /\ room' \in 0 .. MaxRounds /\ room' # 0 /\ room' <= round
      BY <1>3, <2>1, ClientAssumption DEF Admit, ProtocolInv, TypeOK, Rounds
    <3>2. players' = {room'} /\ session' = "IN_ROOM" /\ owed' = "ROOM_SUCCESS" /\ players' \subseteq Rounds
      BY <1>3, <2>1, <3>1 DEF Admit
    <3>3. TypeOK'
      BY <1>1, <1>2, <2>1, <3>1, <3>2 DEF ProtocolInv, TypeOK, Answers, clientSide, status, screen, network, bus
    <3> QED
      BY <1>1, <1>2, <3>1, <3>2, <3>3 DEF ServerInv, clientSide
  <2>2. CASE Reply("ROOM_ERROR") /\ UNCHANGED <<session, room, players, owed>>
    <3>1. toClient' \in Seq(Messages)
      BY <2>2, ReplyType DEF Answers
    <3>2. TypeOK'
      BY <1>1, <1>2, <2>2, <3>1 DEF ProtocolInv, TypeOK, clientSide, status, screen, network, bus
    <3> QED
      BY <1>1, <1>2, <1>3, <2>2, <3>2 DEF ProtocolInv, ServerInv, clientSide
  <2> QED
    BY <2>1, <2>2 DEF HandleEnter
<1>5. \/ main \in {"ended", "crashed"}
      \/ main = "waiting" /\ NoAnswerDue /\ roomStatus = 0 /\ room = round - 1
  BY <1>2, Sender, Readiness DEF RoomActions, GameActions
<1>6. CASE main \in {"ended", "crashed"}
  <2>1. PhaseInv'
    BY <1>1, <1>6, OverPhase DEF clientSide
  <2> QED
    BY <1>4, <2>1 DEF ProtocolInv
<1>7. CASE main = "waiting" /\ NoAnswerDue /\ roomStatus = 0 /\ room = round - 1
  <2>1. UNCHANGED <<main, roomStatus, round>>
    BY <1>1 DEF clientSide, status
  <2>2. Admitted' \/ RoomReplied'
    <3>1. CASE Admit /\ UNCHANGED toClient
      BY <1>7, <2>1, <3>1 DEF NoAnswerDue, Admitted, Admit, ProtocolInv, TypeOK
    <3>2. CASE Reply("ROOM_ERROR") /\ UNCHANGED <<session, owed>>
      <4>1. OneAnswer(toClient', {"ROOM_ERROR"})
        BY <1>7, <3>2, AnswerType DEF Answers, NoAnswerDue
      <4>2. OneAnswer(toClient', {"ROOM_ERROR", "MATCH_ERROR"})
        BY <4>1 DEF OneAnswer
      <4> QED
        BY <1>1, <1>2, <3>2, <4>2 DEF RoomReplied
    <3> QED
      BY <3>1, <3>2 DEF HandleEnter
  <2>3. PhaseInv'
    BY <1>7, <2>1, <2>2 DEF PhaseInv, AtLogin, AwaitingLogin, AtHome, AwaitingRoom, Playing
  <2> QED
    BY <1>4, <2>3 DEF ProtocolInv
<1> QED
  BY <1>5, <1>6, <1>7

LEMMA HandleFindMatchProtocol == ASSUME ProtocolInv, HandleFindMatch PROVE ProtocolInv'
<1>1. /\ Handles("FIND_MATCH") /\ session = "LOBBY" /\ session' = "IN_QUEUE"
      /\ UNCHANGED <<clientSide, toClient, serverUp, owed, room, players, decided, captures>>
  BY DEF HandleFindMatch
<1>2. /\ toServer' = << >> /\ toServer' \in Seq(Commands)
      /\ \A actions : EndsWith(toServer, actions) <=> "FIND_MATCH" \in actions
      /\ \A state, actions : InTurn(toServer', state) /\ ~EndsWith(toServer', actions)
      /\ toServer # << >> /\ owed = Nothing
  BY <1>1, RequestHandled, Handled DEF RoomActions
<1>3. room < round /\ players = {}
  BY <1>1, <1>2 DEF ProtocolInv, ServerInv, RoomActions
<1>4. TypeOK'
  BY <1>1, <1>2 DEF ProtocolInv, TypeOK, clientSide, status, screen, network, bus
<1>5. ServerInv'
  BY <1>1, <1>2, <1>3 DEF ProtocolInv, ServerInv, clientSide
<1>6. \/ main \in {"ended", "crashed"}
      \/ main = "waiting" /\ NoAnswerDue /\ roomStatus = 0 /\ room = round - 1
  BY <1>2, Sender, Readiness DEF RoomActions, GameActions
<1>7. CASE main \in {"ended", "crashed"}
  <2>1. PhaseInv'
    BY <1>1, <1>7, OverPhase DEF clientSide
  <2> QED
    BY <1>4, <1>5, <2>1 DEF ProtocolInv
<1>8. CASE main = "waiting" /\ NoAnswerDue /\ roomStatus = 0 /\ room = round - 1
  <2>1. UNCHANGED <<main, roomStatus, round, room, owed, toClient>>
    BY <1>1 DEF clientSide, status
  <2>2. Requested'
    BY <1>1, <1>2, <1>8, <2>1 DEF Requested, NoAnswerDue
  <2>3. PhaseInv'
    BY <1>8, <2>1, <2>2 DEF PhaseInv, AtLogin, AwaitingLogin, AtHome, AwaitingRoom, Playing
  <2> QED
    BY <1>4, <1>5, <2>3 DEF ProtocolInv
<1> QED
  BY <1>6, <1>7, <1>8

LEMMA HandleLeaveProtocol == ASSUME ProtocolInv, HandleLeave PROVE ProtocolInv'
<1>1. /\ Handles("LEAVE_ROOM") /\ session = "IN_ROOM" /\ session' = "LOBBY" /\ players' = {}
      /\ UNCHANGED <<clientSide, toClient, serverUp, owed, room, decided, captures>>
  BY DEF HandleLeave, removePlayer, StateAfterLeave, ProtocolInv, ServerInv
<1>2. /\ owed = Nothing /\ toServer # << >> /\ toServer' \in Seq(Commands)
      /\ toServer' = << >> => \A actions : EndsWith(toServer, actions) <=> "LEAVE_ROOM" \in actions
      /\ toServer' # << >> => /\ Follows("LEAVE_ROOM", toServer'[1].action)
                              /\ \A actions : EndsWith(toServer', actions) <=> EndsWith(toServer, actions)
      /\ \A other : (toServer' # << >> => other = ReadyIn[toServer'[1].action])
                       => InTurn(toServer', other)
  BY <1>1, Handled
<1>3. InTurn(toServer', "LOBBY")
  BY <1>2, Readiness DEF Follows, GameActions, RoomActions
<1>4. toServer' # << >> => EndsWith(toServer', RoomActions)
  <2>1. SUFFICES ASSUME toServer' # << >> PROVE EndsWith(toServer', RoomActions)
    OBVIOUS
  <2>2. toServer'[1].action \in RoomActions
    BY <1>2, <2>1 DEF Follows, GameActions
  <2>3. Tail(toServer') = << >>
    BY <1>2, <1>3, <2>1, <2>2, HandleInTurn DEF Follows, GameActions, RoomActions
  <2> QED
    BY <1>2, <1>3, <2>1, <2>2, <2>3, HandleInTurn
<1>5. TypeOK'
  BY <1>1, <1>2 DEF ProtocolInv, TypeOK, clientSide, status, screen, network, bus
<1>6. EndsWith(toServer', RoomActions) => EndsWith(toServer, RoomActions)
  BY <1>2 DEF EndsWith
<1>7. ServerInv'
  BY <1>1, <1>2, <1>3, <1>6 DEF ProtocolInv, ServerInv, clientSide
<1>8. PICK a \in DOMAIN ReadyIn : \A actions : EndsWith(toServer, actions) <=> a \in actions
  BY <1>2, LastSent
<1>9. /\ toServer' = << >> => a = "LEAVE_ROOM"
      /\ toServer' # << >> => a \in RoomActions /\ EndsWith(toServer', RoomActions)
  <2>1. a \in {a}
    OBVIOUS
  <2> QED
    BY <1>2, <1>4, <1>8, <2>1
<1>10. \/ main \in {"ended", "crashed"}
       \/ a \in RoomActions /\ main = "waiting" /\ NoAnswerDue /\ roomStatus = 0 /\ room = round - 1
       \/ /\ a = "LEAVE_ROOM" /\ main \in {"top", "home"}
          /\ NoAnswerDue /\ room = round /\ (main = "home" => roomStatus = 0)
  BY <1>2, <1>8, <1>9, Sender DEF GameActions, RoomActions
<1>11. UNCHANGED <<main, roomStatus, round, room, owed, toClient>>
  BY <1>1 DEF clientSide, status
<1>12. CASE main \in {"ended", "crashed"}
  <2>1. PhaseInv'
    BY <1>11, <1>12, OverPhase
  <2> QED
    BY <1>5, <1>7, <2>1 DEF ProtocolInv
<1>13. CASE a \in RoomActions /\ main = "waiting" /\ NoAnswerDue /\ roomStatus = 0 /\ room = round - 1
  <2>1. Requested'
    BY <1>9, <1>11, <1>13 DEF Requested, NoAnswerDue, RoomActions
  <2>2. PhaseInv'
    BY <1>11, <1>13, <2>1 DEF PhaseInv, AtLogin, AwaitingLogin, AtHome, AwaitingRoom, Playing
  <2> QED
    BY <1>5, <1>7, <2>2 DEF ProtocolInv
<1>14. CASE /\ a = "LEAVE_ROOM" /\ main \in {"top", "home"}
            /\ NoAnswerDue /\ room = round /\ (main = "home" => roomStatus = 0)
  <2>1. toServer' = << >> /\ session' = "LOBBY" /\ NoAnswerDue'
    BY <1>1, <1>9, <1>11, <1>14 DEF RoomActions, NoAnswerDue
  <2>2. PhaseInv'
    BY <1>11, <1>14, <2>1 DEF PhaseInv, AtLogin, AwaitingLogin, AtHome, AwaitingRoom, Playing
  <2> QED
    BY <1>5, <1>7, <2>2 DEF ProtocolInv
<1> QED
  BY <1>10, <1>12, <1>13, <1>14

LEMMA HandleCommandProtocol == ASSUME ProtocolInv, HandleCommand PROVE ProtocolInv'
<1>1. PICK a \in GameActions : Handles(a)
  BY DEF HandleCommand, GameActions
<1>2. session = "IN_ROOM" /\ UNCHANGED <<clientSide, toClient, server>>
  BY DEF HandleCommand
<1>3. /\ owed = Nothing /\ toServer # << >> /\ toServer' \in Seq(Commands)
      /\ toServer' = << >> => \A actions : EndsWith(toServer, actions) <=> a \in actions
      /\ toServer' # << >> => /\ Follows(a, toServer'[1].action)
                              /\ \A actions : EndsWith(toServer', actions) <=> EndsWith(toServer, actions)
      /\ \A other : (toServer' # << >> => other = ReadyIn[toServer'[1].action])
                       => InTurn(toServer', other)
  BY <1>1, Handled
<1>4. InTurn(toServer', "IN_ROOM")
  BY <1>3, Readiness DEF Follows, GameActions, RoomActions
<1>5. TypeOK'
  BY <1>2, <1>3 DEF ProtocolInv, TypeOK, clientSide, status, screen, network, bus, server
<1>6. EndsWith(toServer', RoomActions) => EndsWith(toServer, RoomActions)
  BY <1>3 DEF EndsWith
<1>7. ServerInv'
  BY <1>2, <1>3, <1>4, <1>6 DEF ProtocolInv, ServerInv, clientSide, server
<1>8. PICK b \in DOMAIN ReadyIn : \A actions : EndsWith(toServer, actions) <=> b \in actions
  BY <1>3, LastSent
<1>9. /\ toServer' = << >> => b \in GameActions
      /\ toServer' # << >> => \A actions : EndsWith(toServer', actions) <=> b \in actions
  <2>1. b \in {b}
    OBVIOUS
  <2> QED
    BY <1>3, <1>8, <2>1
<1>10. /\ UNCHANGED <<main, loginStatus, roomStatus, round, room, owed, toClient, session>>
       /\ NoAnswerDue' = NoAnswerDue /\ LetIn' = LetIn
  BY <1>2 DEF clientSide, status, server, NoAnswerDue, LetIn
<1>11. CASE main \in {"ended", "crashed"}
  <2>1. PhaseInv'
    BY <1>10, <1>11, OverPhase
  <2> QED
    BY <1>5, <1>7, <2>1 DEF ProtocolInv
<1>12. CASE /\ main = "loggingIn" /\ b = "LOGIN" /\ session \in {"CONNECTED", "LOBBY"}
            /\ NoAnswerDue /\ loginStatus = 0 /\ room = round
  <2>1. EndsWith(toServer', {"LOGIN"})
    BY <1>9, <1>12 DEF GameActions
  <2>2. PhaseInv'
    BY <1>10, <1>12, <2>1 DEF PhaseInv, AtLogin, AwaitingLogin, AtHome, AwaitingRoom, Playing
  <2> QED
    BY <1>5, <1>7, <2>2 DEF ProtocolInv
<1>13. CASE b \in RoomActions /\ main = "waiting" /\ NoAnswerDue /\ roomStatus = 0 /\ room = round - 1
  <2>1. EndsWith(toServer', RoomActions)
    BY <1>9, <1>13 DEF GameActions, RoomActions
  <2>2. Requested'
    BY <1>10, <1>13, <2>1 DEF Requested
  <2>3. PhaseInv'
    BY <1>10, <1>13, <2>2 DEF PhaseInv, AtLogin, AwaitingLogin, AtHome, AwaitingRoom, Playing
  <2> QED
    BY <1>5, <1>7, <2>3 DEF ProtocolInv
<1>14. CASE /\ b = "LEAVE_ROOM" /\ main \in {"top", "home"}
            /\ NoAnswerDue /\ room = round /\ (main = "home" => roomStatus = 0)
  <2>1. EndsWith(toServer', {"LEAVE_ROOM"})
    BY <1>9, <1>14 DEF GameActions
  <2>2. PhaseInv'
    BY <1>10, <1>14, <2>1 DEF PhaseInv, AtLogin, AwaitingLogin, AtHome, AwaitingRoom, Playing
  <2> QED
    BY <1>5, <1>7, <2>2 DEF ProtocolInv
<1>15. CASE b \in GameActions /\ main \in {"game", "left"} /\ LetIn /\ roomStatus = 1
  <2>1. toServer' # << >> => EndsWith(toServer', GameActions)
    BY <1>9, <1>15
  <2>2. PhaseInv'
    BY <1>10, <1>15, <2>1 DEF PhaseInv, AtLogin, AwaitingLogin, AtHome, AwaitingRoom, Playing
  <2> QED
    BY <1>5, <1>7, <2>2 DEF ProtocolInv
<1> QED
  BY <1>3, <1>8, <1>11, <1>12, <1>13, <1>14, <1>15, Sender

\* Steps of the server that send.
LEMMA AdmitServer ==
  ASSUME ProtocolInv, Admit, room < round, UNCHANGED round, players = {}, toServer' = << >>
  PROVE  /\ room' \in 0 .. MaxRounds /\ players' \subseteq Rounds /\ owed' \in Answers
         /\ session' = "IN_ROOM" /\ room' = room + 1
         /\ owed' = "ROOM_SUCCESS" /\ owed' # Nothing
         /\ ServerInv'
<1>1. room + 1 \in Rounds /\ room + 1 \in 0 .. MaxRounds /\ room + 1 # 0 /\ room + 1 <= round
  BY ClientAssumption DEF ProtocolInv, TypeOK, Rounds
<1>2. /\ room' = room + 1 /\ players' = {room'} /\ session' = "IN_ROOM"
      /\ owed' = "ROOM_SUCCESS" /\ owed' # Nothing /\ owed' \in Answers
  BY NothingAssumption DEF Admit, Answers
<1>3. InTurn(toServer, session)' /\ ~EndsWith(toServer, RoomActions)'
  BY EmptySeq DEF InTurn, EndsWith
<1> QED
  BY <1>1, <1>2, <1>3 DEF ServerInv

\* Only who asked for a match is in the queue.
LEMMA InQueue ==
  ASSUME ProtocolInv, session = "IN_QUEUE"
  PROVE  /\ toServer = << >> /\ owed = Nothing /\ room < round /\ players = {}
         /\ \/ main \in {"ended", "crashed"}
            \/ main = "waiting" /\ NoAnswerDue /\ roomStatus = 0 /\ room = round - 1
<1>1. toServer = << >>
  <2>1. SUFFICES ASSUME toServer # << >> PROVE FALSE
    OBVIOUS
  <2>2. toServer[1] \in Commands /\ session = ReadyIn[toServer[1].action]
    BY <2>1, HandleInTurn DEF ProtocolInv, TypeOK, ServerInv
  <2> QED
    BY <2>2, Readiness DEF Commands
<1>2. owed = Nothing /\ room < round /\ players = {}
  BY DEF ProtocolInv, ServerInv
<1>3. \A actions : ~EndsWith(toServer, actions)
  BY <1>1 DEF EndsWith
<1>4. main \notin {"login", "connecting", "loggingIn", "top", "home", "game", "left"}
  BY <1>1, <1>3 DEF ProtocolInv, PhaseInv, AtLogin, AwaitingLogin, AtHome, Playing, LetIn
<1>5. CASE main = "waiting"
  <2>1. ~RoomReplied /\ ~Admitted
    BY <1>1, <1>2, <1>5, NothingAssumption DEF RoomReplied, Admitted, Answers
  <2> QED
    BY <1>1, <1>2, <1>3, <1>5, <2>1 DEF ProtocolInv, PhaseInv, AwaitingRoom, LetIn, Requested
<1> QED
  BY <1>1, <1>2, <1>4, <1>5 DEF ProtocolInv, TypeOK

LEMMA MatchFoundProtocol == ASSUME ProtocolInv, MatchFound PROVE ProtocolInv'
<1>1. /\ session = "IN_QUEUE" /\ Admit
      /\ UNCHANGED <<clientSide, toServer, toClient, serverUp, decided, captures>>
  BY DEF MatchFound
<1>2. /\ toServer = << >> /\ room < round /\ players = {}
      /\ \/ main \in {"ended", "crashed"}
         \/ main = "waiting" /\ NoAnswerDue /\ roomStatus = 0 /\ room = round - 1
  BY <1>1, InQueue
<1>3. UNCHANGED <<main, roomStatus, round, toClient, toServer>>
  BY <1>1 DEF clientSide, status
<1>4. /\ room' \in 0 .. MaxRounds /\ players' \subseteq Rounds /\ owed' \in Answers
      /\ session' = "IN_ROOM" /\ room' = room + 1 /\ owed' = "ROOM_SUCCESS"
      /\ ServerInv'
  BY <1>1, <1>2, <1>3, AdmitServer
<1>5. TypeOK'
  BY <1>1, <1>4 DEF ProtocolInv, TypeOK, clientSide, status, screen, network, bus
<1>6. PhaseInv'
  <2>1. CASE main \in {"ended", "crashed"}
    BY <1>3, <2>1, OverPhase
  <2>2. CASE main = "waiting" /\ NoAnswerDue /\ roomStatus = 0 /\ room = round - 1
    <3>1. room' = round
      BY <1>4, <2>2 DEF ProtocolInv, TypeOK
    <3>2. Admitted'
      BY <1>3, <1>4, <2>2, <3>1 DEF Admitted, NoAnswerDue
    <3> QED
      BY <1>3, <2>2, <3>2 DEF PhaseInv, AtLogin, AwaitingLogin, AtHome, AwaitingRoom, Playing
  <2> QED
    BY <1>2, <2>1, <2>2
<1> QED
  BY <1>4, <1>5, <1>6 DEF ProtocolInv

LEMMA MatchTimeoutProtocol == ASSUME ProtocolInv, MatchTimeout PROVE ProtocolInv'
<1>1. /\ session = "IN_QUEUE" /\ session' = "LOBBY" /\ Reply("MATCH_ERROR")
      /\ UNCHANGED <<clientSide, toServer, serverUp, owed, room, players, decided, captures>>
  BY DEF MatchTimeout
<1>2. /\ toServer = << >> /\ owed = Nothing /\ room < round /\ players = {}
      /\ \/ main \in {"ended", "crashed"}
         \/ main = "waiting" /\ NoAnswerDue /\ roomStatus = 0 /\ room = round - 1
  BY <1>1, InQueue
<1>3. UNCHANGED <<main, roomStatus, round, toServer, owed, room, players>>
  BY <1>1 DEF clientSide, status
<1>4. toClient' \in Seq(Messages)
  BY <1>1, ReplyType DEF Answers
<1>5. TypeOK'
  BY <1>1, <1>4 DEF ProtocolInv, TypeOK, clientSide, status, screen, network, bus
<1>6. InTurn(toServer, session)' /\ ~EndsWith(toServer, RoomActions)'
  BY <1>2, <1>3, EmptySeq DEF InTurn, EndsWith
<1>7. ServerInv'
  BY <1>1, <1>2, <1>3, <1>6 DEF ProtocolInv, ServerInv
<1>8. PhaseInv'
  <2>1. CASE main \in {"ended", "crashed"}
    BY <1>3, <2>1, OverPhase
  <2>2. CASE main = "waiting" /\ NoAnswerDue /\ roomStatus = 0 /\ room = round - 1
    <3>1. OneAnswer(toClient', {"MATCH_ERROR"})
      BY <1>1, <2>2, AnswerType DEF Answers, NoAnswerDue
    <3>2. OneAnswer(toClient', {"ROOM_ERROR", "MATCH_ERROR"})
      BY <3>1 DEF OneAnswer
    <3>3. RoomReplied'
      BY <1>1, <1>2, <1>3, <3>2 DEF RoomReplied
    <3> QED
      BY <1>3, <2>2, <3>3 DEF PhaseInv, AtLogin, AwaitingLogin, AtHome, AwaitingRoom, Playing
  <2> QED
    BY <1>2, <2>1, <2>2
<1> QED
  BY <1>5, <1>7, <1>8 DEF ProtocolInv

LEMMA SendAnswerProtocol == ASSUME ProtocolInv, SendAnswer PROVE ProtocolInv'
<1>1. /\ owed # Nothing /\ Reply(owed) /\ owed' = Nothing
      /\ UNCHANGED <<clientSide, toServer, serverUp, session, room, players, decided, captures>>
  BY DEF SendAnswer
<1>2. owed = "ROOM_SUCCESS" /\ session = "IN_ROOM" /\ toServer = << >>
  BY <1>1 DEF ProtocolInv, ServerInv
<1>3. UNCHANGED <<main, roomStatus, round, toServer, room, players, session>>
  BY <1>1 DEF clientSide, status
<1>4. toClient' \in Seq(Messages) /\ "ROOM_SUCCESS" \in Answers
  BY <1>1, <1>2, ReplyType DEF Answers
<1>5. TypeOK'
  BY <1>1, <1>4 DEF ProtocolInv, TypeOK, clientSide, status, screen, network, bus
<1>6. InTurn(toServer, session)' /\ ~EndsWith(toServer, RoomActions)'
  BY <1>2, <1>3, EmptySeq DEF InTurn, EndsWith
<1>7. ServerInv'
  BY <1>1, <1>2, <1>3, <1>6 DEF ProtocolInv, ServerInv
<1>8. \A actions : ~EndsWith(toServer, actions)
  BY <1>2 DEF EndsWith
<1>9. main \in {"waiting", "ended", "crashed"}
  BY <1>1, <1>2, <1>8 DEF ProtocolInv, TypeOK, PhaseInv, AtLogin, AwaitingLogin, AtHome, Playing, LetIn,
     NoAnswerDue
<1>10. PhaseInv'
  <2>1. CASE main \in {"ended", "crashed"}
    BY <1>3, <2>1, OverPhase
  <2>2. CASE main = "waiting"
    <3>1. roomStatus = 0 /\ Admitted
      BY <1>1, <1>2, <1>8, <2>2 DEF ProtocolInv, PhaseInv, AwaitingRoom, Requested, RoomReplied, LetIn,
         NoAnswerDue
    <3>2. OneAnswer(toClient', {"ROOM_SUCCESS"}) /\ ThenOnlyOf(toClient', room)
      BY <1>1, <1>2, <1>4, <3>1, AnswerType DEF Admitted
    <3>3. RoomReplied'
      BY <1>1, <1>2, <1>3, <3>1, <3>2 DEF RoomReplied, Admitted
    <3> QED
      BY <1>3, <2>2, <3>1, <3>3 DEF PhaseInv, AtLogin, AwaitingLogin, AtHome, AwaitingRoom, Playing
  <2> QED
    BY <1>9, <2>1, <2>2
<1> QED
  BY <1>5, <1>7, <1>10 DEF ProtocolInv

\* A room sends to those in its player map: the player is in it.
LEMMA NewsProtocol ==
  ASSUME ProtocolInv, NEW m \in Messages, ~IsAnswer(m), m.room \in players,
         toClient' = Append(toClient, m),
         decided' \in [Rounds -> BOOLEAN], captures' \in [Rounds -> Nat],
         UNCHANGED <<clientSide, toServer, serverUp, session, owed, room, players>>
  PROVE  ProtocolInv'
<1>1. toClient' \in Seq(Messages)
  BY AppendProperties DEF ProtocolInv, TypeOK
<1>2. TypeOK'
  BY <1>1 DEF ProtocolInv, TypeOK, clientSide, status, screen, network, bus
<1>3. ServerInv'
  BY DEF ProtocolInv, ServerInv, InTurn, EndsWith, clientSide
<1>4. session = "IN_ROOM" /\ m.room = room
  BY DEF ProtocolInv, ServerInv
<1>5. /\ Silent(toClient) => Silent(toClient')
      /\ \A types \in SUBSET Answers : OneAnswer(toClient, types) => OneAnswer(toClient', types)
      /\ OnlyOf(toClient, room) => OnlyOf(toClient', room)
      /\ ThenOnlyOf(toClient, room) => ThenOnlyOf(toClient', room)
  BY <1>4, NewsSent DEF ProtocolInv, TypeOK
<1>6. /\ {"LOGIN_SUCCESS"} \in SUBSET Answers /\ {"LOGIN_ERROR"} \in SUBSET Answers
      /\ {"ROOM_SUCCESS"} \in SUBSET Answers /\ {"ROOM_ERROR", "MATCH_ERROR"} \in SUBSET Answers
  BY DEF Answers
<1>7. /\ NoAnswerDue => NoAnswerDue'
      /\ LoginReplied => LoginReplied'
      /\ Requested => Requested'
      /\ Admitted => Admitted'
      /\ RoomReplied => RoomReplied'
      /\ LetIn => LetIn'
      /\ \A actions : EndsWith(toServer, actions)' = EndsWith(toServer, actions)
  BY <1>5, <1>6 DEF NoAnswerDue, LoginReplied, Requested, Admitted, RoomReplied, LetIn, clientSide, EndsWith
<1>8. PhaseInv'
  BY <1>7 DEF ProtocolInv, PhaseInv, AtLogin, AwaitingLogin, AtHome, AwaitingRoom, Playing, clientSide, status
<1> QED
  BY <1>2, <1>3, <1>8 DEF ProtocolInv

LEMMA BroadcastProtocol == ASSUME ProtocolInv, NEW r \in players, Broadcast(r) PROVE ProtocolInv'
<1>1. PICK n \in 0 .. 1, over \in BOOLEAN :
        /\ toClient' = Append(toClient, State(r, over, n))
        /\ decided' = [decided EXCEPT ![r] = over]
        /\ captures' = [captures EXCEPT ![r] = @ + n]
  BY DEF Broadcast
<1>2. UNCHANGED <<clientSide, toServer, serverUp, session, owed, room, players>>
  BY DEF Broadcast
<1>3. r \in Rounds /\ r \in 0 .. MaxRounds
  BY ClientAssumption DEF ProtocolInv, TypeOK, Rounds
<1>4. State(r, over, n) \in Messages /\ ~IsAnswer(State(r, over, n)) /\ State(r, over, n).room = r
  BY <1>3 DEF State, Messages, IsAnswer, Answers
<1>5. decided' \in [Rounds -> BOOLEAN]
  BY <1>1 DEF ProtocolInv, TypeOK
<1>6. captures' \in [Rounds -> Nat]
  <2>1. captures \in [Rounds -> Nat] /\ captures[r] + n \in Nat
    BY <1>3 DEF ProtocolInv, TypeOK
  <2> QED
    BY <1>1, <2>1
<1> QED
  BY <1>1, <1>2, <1>4, <1>5, <1>6, NewsProtocol

LEMMA BroadcastResignProtocol ==
  ASSUME ProtocolInv, NEW r \in players, BroadcastResign(r)
  PROVE  ProtocolInv'
<1>1. /\ toClient' = Append(toClient, Resigned(r))
      /\ UNCHANGED <<clientSide, toServer, server>>
  BY DEF BroadcastResign
<1>2. r \in 0 .. MaxRounds
  BY ClientAssumption DEF ProtocolInv, TypeOK, Rounds
<1>3. Resigned(r) \in Messages /\ ~IsAnswer(Resigned(r)) /\ Resigned(r).room = r
  BY <1>2 DEF Resigned, Messages, IsAnswer, Answers
<1>4. decided' \in [Rounds -> BOOLEAN] /\ captures' \in [Rounds -> Nat]
  BY <1>1 DEF ProtocolInv, TypeOK, server
<1> QED
  BY <1>1, <1>3, <1>4, NewsProtocol DEF server

LEMMA NextProtocol == ASSUME ProtocolInv, [Next]_vars PROVE ProtocolInv'
<1>1. CASE \/ ConnectToServer \/ LoginAnswered \/ StartRound \/ Quit \/ RoomRefused \/ EnterGame
           \/ LeaveGame \/ ClickButton \/ ClickOutside \/ StoreSnapshot \/ on_open
  BY <1>1, LocalProtocol
<1>2. CASE SendLogin \/ SendLeave \/ \E action \in RoomActions : RequestRoom(action)
  BY <1>2, SendLoginProtocol, SendLeaveProtocol, RequestRoomProtocol
<1>3. CASE \E cell \in Cells : ClickCell(cell) \/ DoubleClick(cell)
  BY <1>3, GameCommandProtocol
<1>4. CASE HandleAnswer \/ ParseState
  BY <1>4, HandleAnswerProtocol, ParseStateProtocol
<1>5. CASE AsioThread
  BY <1>5, HandleLoginProtocol, HandleEnterProtocol, HandleFindMatchProtocol, HandleLeaveProtocol,
     HandleCommandProtocol, SendAnswerProtocol DEF AsioThread
<1>6. CASE Timer
  BY <1>6, MatchFoundProtocol, MatchTimeoutProtocol DEF Timer
<1>7. CASE Workers
  BY <1>7, BroadcastProtocol, BroadcastResignProtocol DEF Workers
<1>8. CASE UNCHANGED vars
  <2>1. TypeOK'
    BY <1>8 DEF ProtocolInv, TypeOK, vars, status, screen, network, bus, server
  <2>2. ServerInv' /\ UNCHANGED transit
    BY <1>8, TransitSame DEF ProtocolInv, transit, vars, server
  <2>3. PhaseInv'
    BY <1>8, <2>2, TransitSame DEF ProtocolInv, PhaseInv, AtLogin, AwaitingLogin, AtHome, AwaitingRoom,
       Playing, vars, status, server
  <2> QED
    BY <2>1, <2>2, <2>3 DEF ProtocolInv
<1> QED
  BY <1>1, <1>2, <1>3, <1>4, <1>5, <1>6, <1>7, <1>8
     DEF Next, Polls, User, NetworkThread, RoomActions

LEMMA Protocol == Spec => []ProtocolInv
BY InitProtocol, NextProtocol, PTL DEF Spec

\* Every variable of the client and of its session holds a value of its type.
THEOREM ClientTypeCorrect == Spec => []TypeOK
<1>1. ProtocolInv => TypeOK
  BY DEF ProtocolInv
<1> QED
  BY <1>1, Protocol, PTL

\* A command that is next finds the session in the state it is meant for:
\* on_message drops none, whatever the player does and the rooms send.
THEOREM PlayerAndServerAgree == Spec => []NothingDropped
<1>1. ASSUME ProtocolInv, toServer # << >> PROVE session = ReadyIn[Head(toServer).action]
  BY <1>1, HandleInTurn DEF ProtocolInv, TypeOK, ServerInv
<1>2. ProtocolInv => NothingDropped
  BY <1>1 DEF NothingDropped
<1> QED
  BY <1>2, Protocol, PTL

\* A game window is open only while the server has this player in the room
\* of this request, and in no other: no answer is taken for that to another
\* request.
THEOREM PlaysWhereItIs == Spec => []InTheRoomItPlays
<1>1. ProtocolInv => InTheRoomItPlays
  BY DEF ProtocolInv, PhaseInv, Playing, LetIn, ServerInv, InTheRoomItPlays
<1> QED
  BY <1>1, Protocol, PTL

-----------------------------------------------------------------------------
(* The rooms of the states on the way never decrease, and what is shown    *)
(* is not newer than they are.                                             *)

InOrder(s, low, high) ==
  /\ \A k \in 1 .. Len(s) : ~IsAnswer(s[k]) => low <= s[k].room /\ s[k].room <= high
  /\ \A j, k \in 1 .. Len(s) :
       j < k /\ ~IsAnswer(s[j]) /\ ~IsAnswer(s[k]) => s[j].room <= s[k].room

Newest == IF incoming = Nothing THEN localSnapshot.room ELSE incoming.snapshot.room

OrderInv ==
  /\ localSnapshot.room <= Newest /\ Newest <= room
  /\ InOrder(toClient, Newest, room)

LEMMA OrderSent ==
  ASSUME NEW s \in Seq(Messages), NEW m \in Messages, NEW low \in Int, NEW high \in Int, low <= high,
         InOrder(s, low, high), ~IsAnswer(m) => m.room = high
  PROVE  InOrder(Append(s, m), low, high)
<1> DEFINE t == Append(s, m)
<1>1. /\ Len(t) = Len(s) + 1 /\ Len(s) \in Nat
      /\ \A k \in 1 .. Len(s) : t[k] = s[k]
      /\ t[Len(s) + 1] = m
  BY AppendProperties, LenProperties
<1> HIDE DEF t
<1>2. \A k \in 1 .. Len(t) : k \in 1 .. Len(s) \/ k = Len(s) + 1
  BY <1>1
<1>3. \A k \in 1 .. Len(t) : ~IsAnswer(t[k]) => low <= t[k].room /\ t[k].room <= high
  BY <1>1, <1>2 DEF InOrder
<1>4. ASSUME NEW j \in 1 .. Len(t), NEW k \in 1 .. Len(t), j < k, ~IsAnswer(t[j]), ~IsAnswer(t[k])
      PROVE  t[j].room <= t[k].room
  <2>1. j \in 1 .. Len(s)
    BY <1>1, <1>4
  <2>2. CASE k = Len(s) + 1
    BY <1>1, <1>3, <1>4, <2>2
  <2>3. CASE k \in 1 .. Len(s)
    BY <1>1, <1>4, <2>1, <2>3 DEF InOrder
  <2> QED
    BY <1>2, <2>2, <2>3
<1> QED
  BY <1>3, <1>4 DEF InOrder, t

LEMMA OrderReceived ==
  ASSUME NEW s \in Seq(Messages), s # << >>, NEW low \in Int, NEW high \in Int, InOrder(s, low, high)
  PROVE  /\ IsAnswer(s[1]) => InOrder(Tail(s), low, high)
         /\ ~IsAnswer(s[1]) => /\ low <= s[1].room /\ s[1].room <= high
                               /\ InOrder(Tail(s), s[1].room, high)
<1> DEFINE t == Tail(s)
<1>1. /\ Len(t) = Len(s) - 1 /\ Len(s) \in Nat \ {0}
      /\ \A k \in 1 .. Len(t) : k + 1 \in 1 .. Len(s) /\ t[k] = s[k + 1]
  BY Received
<1> HIDE DEF t
<1>2. 1 \in 1 .. Len(s) /\ \A k \in 1 .. Len(t) : 1 < k + 1
  BY <1>1
<1>3. \A k \in 1 .. Len(t) : ~IsAnswer(t[k]) => low <= t[k].room /\ t[k].room <= high
  BY <1>1 DEF InOrder
<1>4. ASSUME NEW j \in 1 .. Len(t), NEW k \in 1 .. Len(t), j < k, ~IsAnswer(t[j]), ~IsAnswer(t[k])
      PROVE  t[j].room <= t[k].room
  <2>1. j + 1 \in 1 .. Len(s) /\ k + 1 \in 1 .. Len(s) /\ j + 1 < k + 1
        /\ t[j] = s[j + 1] /\ t[k] = s[k + 1]
    BY <1>1, <1>4
  <2> QED
    BY <1>4, <2>1 DEF InOrder
<1>5. ~IsAnswer(s[1]) => /\ low <= s[1].room /\ s[1].room <= high
                         /\ \A k \in 1 .. Len(t) : ~IsAnswer(t[k]) => s[1].room <= t[k].room
  BY <1>1, <1>2 DEF InOrder
<1> QED
  BY <1>3, <1>4, <1>5 DEF InOrder, t

LEMMA OrderWider ==
  ASSUME NEW s \in Seq(Messages), NEW low \in Int, NEW high \in Int, InOrder(s, low, high),
         NEW wider \in Int, NEW higher \in Int, wider <= low, high <= higher
  PROVE  InOrder(s, wider, higher)
<1>1. \A k \in 1 .. Len(s) : s[k].room \in Int
  <2>1. \A k \in 1 .. Len(s) : s[k] \in Messages
    BY ElementOfSeq
  <2> QED
    BY <2>1, ClientAssumption DEF Messages
<1> QED
  BY <1>1 DEF InOrder

LEMMA OrderBounds ==
  ASSUME TypeOK
  PROVE  /\ toClient \in Seq(Messages) /\ room \in Int /\ localSnapshot.room \in Int
         /\ Newest \in Int
         /\ incoming # Nothing => incoming.snapshot.room \in Int
BY ClientAssumption DEF TypeOK, Snapshot, Newest

\* Only the network thread changes what is shown, and only this step does.
LEMMA StoreOrder ==
  ASSUME ProtocolInv, OrderInv, StoreSnapshot
  PROVE  OrderInv' /\ localSnapshot'.room >= localSnapshot.room
<1>1. /\ incoming # Nothing /\ localSnapshot' = incoming.snapshot /\ incoming' = Nothing
      /\ UNCHANGED <<toClient, room>>
  BY DEF StoreSnapshot, server
<1>2. Newest = incoming.snapshot.room /\ Newest' = Newest /\ localSnapshot'.room = Newest
  BY <1>1 DEF Newest
<1> QED
  BY <1>1, <1>2, OrderBounds DEF OrderInv, ProtocolInv

LEMMA SendOrder ==
  ASSUME ProtocolInv, OrderInv, UNCHANGED <<localSnapshot, incoming>>, room' \in {room, room + 1},
         \/ UNCHANGED toClient
         \/ \E m \in Messages : /\ toClient' = Append(toClient, m)
                                /\ ~IsAnswer(m) => m.room = room
  PROVE  OrderInv'
<1>1. /\ toClient \in Seq(Messages) /\ room \in Int /\ Newest \in Int /\ Newest' = Newest
      /\ Newest <= room /\ InOrder(toClient, Newest, room)
  BY OrderBounds DEF ProtocolInv, OrderInv, Newest
<1>2. toClient' \in Seq(Messages) /\ InOrder(toClient', Newest, room)
  <2>1. CASE UNCHANGED toClient
    BY <1>1, <2>1
  <2>2. ASSUME NEW m \in Messages, toClient' = Append(toClient, m), ~IsAnswer(m) => m.room = room
        PROVE  toClient' \in Seq(Messages) /\ InOrder(toClient', Newest, room)
    BY <1>1, <2>2, OrderSent, AppendProperties
  <2> QED
    BY <2>1, <2>2
<1>3. InOrder(toClient', Newest', room')
  BY <1>1, <1>2, OrderWider
<1> QED
  BY <1>1, <1>3 DEF OrderInv

LEMMA ReceiveOrder ==
  ASSUME ProtocolInv, OrderInv, HandleAnswer \/ ParseState
  PROVE  OrderInv'
<1>1. /\ toClient \in Seq(Messages) /\ room \in Int /\ Newest \in Int /\ localSnapshot.room \in Int
      /\ Newest <= room /\ InOrder(toClient, Newest, room) /\ localSnapshot.room <= Newest
  BY OrderBounds DEF ProtocolInv, OrderInv
<1>2. toClient # << >> /\ incoming = Nothing /\ toClient' = Tail(toClient)
      /\ UNCHANGED <<localSnapshot, room>>
  BY DEF HandleAnswer, ParseState, Receives, network, server
<1>3. Head(toClient) = toClient[1] /\ toClient[1] \in Messages /\ toClient' \in Seq(Messages)
      /\ Newest = localSnapshot.room
  BY <1>1, <1>2, Received DEF Newest
<1>4. CASE HandleAnswer
  <2>1. IsAnswer(toClient[1]) /\ UNCHANGED incoming
    BY <1>3, <1>4 DEF HandleAnswer, IsAnswer, network
  <2>2. InOrder(toClient', Newest, room) /\ Newest' = Newest
    BY <1>1, <1>2, <2>1, OrderReceived DEF Newest
  <2> QED
    BY <1>1, <1>2, <2>2 DEF OrderInv
<1>5. CASE ParseState
  <2>1. ~IsAnswer(toClient[1])
    BY <1>3, <1>5 DEF ParseState, IsAnswer
  <2>2. incoming'.snapshot.room = toClient[1].room
    BY <1>3, <1>5 DEF ParseState
  <2>3. /\ Newest <= toClient[1].room /\ toClient[1].room <= room
        /\ InOrder(toClient', toClient[1].room, room) /\ toClient[1].room \in Int
    <3>1. toClient[1].room \in Int
      BY <1>3, ClientAssumption DEF Messages
    <3> QED
      BY <1>1, <1>2, <2>1, <3>1, OrderReceived
  <2>4. Newest' \in {Newest, toClient[1].room}
    BY <1>2, <1>3, <2>2 DEF Newest
  <2>5. InOrder(toClient', Newest', room)
    BY <1>1, <1>3, <2>3, <2>4, OrderWider
  <2> QED
    BY <1>1, <1>2, <1>3, <2>3, <2>4, <2>5 DEF OrderInv
<1> QED
  BY <1>4, <1>5

\* What the other steps put on the way: an answer, or a state of the room.
LEMMA Answering ==
  ASSUME TypeOK, NEW type \in Answers, Reply(type)
  PROVE  \E m \in Messages : IsAnswer(m) /\ m.captured = 0 /\ toClient' = Append(toClient, m)
<1>1. Answer(type) \in Messages /\ IsAnswer(Answer(type)) /\ Answer(type).captured = 0
  BY ClientAssumption DEF Answer, Messages, IsAnswer
<1> QED
  BY <1>1 DEF Reply

LEMMA ServerSends ==
  ASSUME ProtocolInv, AsioThread \/ Timer
  PROVE  /\ UNCHANGED <<main, round, localSnapshot, incoming, score, subscribers, captures>>
         /\ room' \in {room, room + 1}
         /\ \/ UNCHANGED toClient
            \/ \E m \in Messages : IsAnswer(m) /\ m.captured = 0 /\ toClient' = Append(toClient, m)
<1> USE DEF ProtocolInv, clientSide, network, bus
<1>1. CASE HandleLogin
  BY <1>1, Answering DEF HandleLogin, Answers
<1>2. CASE HandleEnter
  BY <1>2, Answering DEF HandleEnter, Admit, Answers
<1>3. CASE HandleFindMatch \/ HandleLeave \/ HandleCommand
  BY <1>3 DEF HandleFindMatch, HandleLeave, HandleCommand, server
<1>4. CASE SendAnswer
  BY <1>4, Answering DEF SendAnswer, TypeOK
<1>5. CASE MatchFound
  BY <1>5 DEF MatchFound, Admit
<1>6. CASE MatchTimeout
  BY <1>6, Answering DEF MatchTimeout, Answers
<1> QED
  BY <1>1, <1>2, <1>3, <1>4, <1>5, <1>6 DEF AsioThread, Timer

LEMMA WorkerSends ==
  ASSUME ProtocolInv, NEW r \in players, Broadcast(r) \/ BroadcastResign(r)
  PROVE  /\ UNCHANGED <<main, round, localSnapshot, incoming, score, subscribers, room>>
         /\ r = room /\ r \in Rounds
         /\ \E m \in Messages : /\ ~IsAnswer(m) /\ m.room = r /\ toClient' = Append(toClient, m)
                               /\ captures' = [captures EXCEPT ![r] = @ + m.captured]
<1>1. r = room /\ r \in Rounds /\ r \in 0 .. MaxRounds
  BY ClientAssumption DEF ProtocolInv, TypeOK, ServerInv, Rounds
<1>2. UNCHANGED <<main, round, localSnapshot, incoming, score, subscribers, room>>
  BY DEF Broadcast, BroadcastResign, clientSide, network, bus, server
<1>3. CASE Broadcast(r)
  <2>1. PICK n \in 0 .. 1, over \in BOOLEAN :
          /\ toClient' = Append(toClient, State(r, over, n))
          /\ captures' = [captures EXCEPT ![r] = @ + n]
    BY <1>3 DEF Broadcast
  <2>2. State(r, over, n) \in Messages /\ ~IsAnswer(State(r, over, n))
        /\ State(r, over, n).room = r /\ State(r, over, n).captured = n
    BY <1>1 DEF State, Messages, IsAnswer, Answers
  <2> QED
    BY <1>1, <1>2, <2>1, <2>2
<1>4. CASE BroadcastResign(r)
  <2>1. Resigned(r) \in Messages /\ ~IsAnswer(Resigned(r))
        /\ Resigned(r).room = r /\ Resigned(r).captured = 0
    BY <1>1 DEF Resigned, Messages, IsAnswer, Answers
  <2>2. captures' = captures /\ captures \in [Rounds -> Nat] /\ toClient' = Append(toClient, Resigned(r))
    BY <1>4 DEF BroadcastResign, server, ProtocolInv, TypeOK
  <2>3. captures' = [captures EXCEPT ![r] = @ + 0]
    BY <2>2
  <2> QED
    BY <1>1, <1>2, <2>1, <2>2, <2>3
<1> QED
  BY <1>3, <1>4

LEMMA InitOrder == Init => OrderInv
<1> SUFFICES ASSUME Init PROVE OrderInv
  OBVIOUS
<1>1. Len(toClient) = 0 /\ room = 0 /\ localSnapshot.room = 0 /\ incoming = Nothing
  BY DEF Init
<1> QED
  BY <1>1 DEF OrderInv, InOrder, Newest

LEMMA NextOrder ==
  ASSUME ProtocolInv, OrderInv, [Next]_vars
  PROVE  OrderInv' /\ localSnapshot'.room >= localSnapshot.room
<1>1. CASE StoreSnapshot
  BY <1>1, StoreOrder
<1>2. CASE HandleAnswer \/ ParseState
  <2>1. UNCHANGED localSnapshot
    BY <1>2 DEF HandleAnswer, ParseState, network
  <2> QED
    BY <1>2, <2>1, ReceiveOrder, OrderBounds DEF ProtocolInv
<1>3. CASE AsioThread \/ Timer
  BY <1>3, ServerSends, SendOrder, OrderBounds DEF ProtocolInv
<1>4. CASE Workers
  <2>1. PICK r \in players : Broadcast(r) \/ BroadcastResign(r)
    BY <1>4 DEF Workers
  <2> QED
    BY <2>1, WorkerSends, SendOrder, OrderBounds DEF ProtocolInv
<1>5. CASE Polls \/ User \/ on_open \/ UNCHANGED vars
  <2>1. UNCHANGED <<localSnapshot, incoming, toClient, room>>
    BY <1>5 DEF Polls, User, on_open, vars, SendLogin, LoginAnswered, StartRound, RoomRefused, EnterGame,
       SendLeave, ConnectToServer, Quit, LeaveGame, ClickButton, ClickOutside, RequestRoom, ClickCell,
       DoubleClick, network, server
  <2> QED
    BY <2>1, SendOrder, OrderBounds DEF ProtocolInv
<1> QED
  BY <1>1, <1>2, <1>3, <1>4, <1>5 DEF Next, NetworkThread

\* The board that is shown never goes back to a room that was left.
THEOREM ShownRoomsInOrder == Spec => BoardsInOrder
<1>1. ProtocolInv /\ OrderInv /\ [Next]_vars => OrderInv'
  BY NextOrder
<1>2. ProtocolInv /\ OrderInv /\ [Next]_vars => [localSnapshot'.room >= localSnapshot.room]_vars
  BY NextOrder
<1>3. Spec => []ProtocolInv
  BY Protocol
<1> QED
  BY <1>1, <1>2, <1>3, InitOrder, PTL DEF Spec, BoardsInOrder

-----------------------------------------------------------------------------
(* The captures that are on the way and those that are counted are, of     *)
(* each room, no more than the captures sent.                              *)

OnTheWay(s, r) == {k \in 1 .. Len(s) : s[k].room = r /\ s[k].captured = 1}

Scored(r) == IF main = "game" /\ r = round THEN score ELSE 0

ScoreInv == \A r \in Rounds : Cardinality(OnTheWay(toClient, r)) + Scored(r) <= captures[r]

LEMMA CountSize ==
  ASSUME NEW s \in Seq(Messages), NEW r
  PROVE  IsFiniteSet(OnTheWay(s, r)) /\ Cardinality(OnTheWay(s, r)) \in Nat
<1>1. IsFiniteSet(1 .. Len(s))
  BY FS_Interval, LenProperties
<1>2. OnTheWay(s, r) \subseteq 1 .. Len(s)
  BY DEF OnTheWay
<1> QED
  BY <1>1, <1>2, FS_Subset, FS_CardinalityType

LEMMA CountSent ==
  ASSUME NEW s \in Seq(Messages), NEW m \in Messages, NEW r
  PROVE  Cardinality(OnTheWay(Append(s, m), r)) =
           Cardinality(OnTheWay(s, r)) + (IF m.room = r THEN m.captured ELSE 0)
<1> DEFINE t == Append(s, m)
<1>1. /\ Len(t) = Len(s) + 1 /\ Len(s) \in Nat
      /\ \A k \in 1 .. Len(s) : t[k] = s[k]
      /\ t[Len(s) + 1] = m
  BY AppendProperties, LenProperties
<1> HIDE DEF t
<1>2. 1 .. Len(t) = 1 .. Len(s) \union {Len(s) + 1} /\ Len(s) + 1 \notin 1 .. Len(s)
  BY <1>1
<1>3. m.captured \in {0, 1}
  BY DEF Messages
<1>4. CASE m.room = r /\ m.captured = 1
  <2>1. OnTheWay(t, r) = OnTheWay(s, r) \union {Len(s) + 1} /\ Len(s) + 1 \notin OnTheWay(s, r)
    BY <1>1, <1>2, <1>4 DEF OnTheWay
  <2> QED
    BY <1>4, <2>1, CountSize, FS_AddElement DEF t
<1>5. CASE ~(m.room = r /\ m.captured = 1)
  <2>1. OnTheWay(t, r) = OnTheWay(s, r)
    BY <1>1, <1>2, <1>5 DEF OnTheWay
  <2>2. (IF m.room = r THEN m.captured ELSE 0) = 0
    BY <1>3, <1>5
  <2> QED
    BY <2>1, <2>2, CountSize DEF t
<1> QED
  BY <1>4, <1>5

LEMMA CountReceived ==
  ASSUME NEW s \in Seq(Messages), s # << >>, NEW r
  PROVE  Cardinality(OnTheWay(Tail(s), r)) + (IF s[1].room = r THEN s[1].captured ELSE 0)
           <= Cardinality(OnTheWay(s, r))
<1> DEFINE t == Tail(s)
           S == OnTheWay(s, r)
           T == OnTheWay(t, r)
           f == [k \in T |-> k + 1]
<1>1. /\ Len(t) = Len(s) - 1 /\ Len(s) \in Nat \ {0} /\ t \in Seq(Messages) /\ s[1] \in Messages
      /\ \A k \in 1 .. Len(t) : k + 1 \in 1 .. Len(s) /\ t[k] = s[k + 1]
  BY Received
<1>2. IsFiniteSet(S) /\ Cardinality(S) \in Nat /\ Cardinality(T) \in Nat
  BY <1>1, CountSize
<1> HIDE DEF t
<1>3. \A k \in T : k \in Nat /\ k + 1 \in S \ {1}
  BY <1>1 DEF OnTheWay
<1>4. f \in [T -> S \ {1}] /\ \A j, k \in T : f[j] = f[k] => j = k
  BY <1>3
<1>5. IsFiniteSet(S \ {1}) /\ Cardinality(S \ {1}) = IF 1 \in S THEN Cardinality(S) - 1 ELSE Cardinality(S)
  BY <1>2, FS_RemoveElement
<1>6. Cardinality(T) <= Cardinality(S \ {1})
  <2> HIDE DEF f, T, S
  <2>1. f \in Injection(T, S \ {1})
    BY <1>4 DEF Injection, IsInjective
  <2> QED
    BY <1>5, <2>1, FS_Injection
<1>7. 1 \in S <=> s[1].room = r /\ s[1].captured = 1
  BY <1>1 DEF OnTheWay
<1>8. s[1].captured \in {0, 1}
  BY <1>1 DEF Messages
<1> HIDE DEF S, T
<1>9. Cardinality(T) + (IF s[1].room = r THEN s[1].captured ELSE 0) <= Cardinality(S)
  BY <1>2, <1>5, <1>6, <1>7, <1>8
<1> QED
  BY <1>9 DEF S, T, t

LEMMA InitScore == Init => ScoreInv
<1> SUFFICES ASSUME Init, NEW r \in Rounds PROVE Cardinality(OnTheWay(toClient, r)) + Scored(r) <= captures[r]
  BY DEF ScoreInv
<1>1. Len(toClient) = 0 /\ captures[r] = 0 /\ Scored(r) = 0
  BY DEF Init, Scored
<1>2. OnTheWay(toClient, r) = {}
  BY <1>1 DEF OnTheWay
<1> QED
  BY <1>1, <1>2, FS_EmptySet

LEMMA ScoreBounds ==
  ASSUME TypeOK, NEW r \in Rounds
  PROVE  /\ toClient \in Seq(Messages) /\ captures \in [Rounds -> Nat]
         /\ captures[r] \in Nat /\ Scored(r) \in Nat /\ score \in Nat
         /\ Cardinality(OnTheWay(toClient, r)) \in Nat
BY CountSize DEF TypeOK, Scored

\* Of this game, what was on the way is counted: the room is that of the round.
LEMMA ReceiveScore ==
  ASSUME ProtocolInv, ScoreInv, HandleAnswer \/ ParseState
  PROVE  ScoreInv'
<1> SUFFICES ASSUME NEW r \in Rounds
             PROVE  Cardinality(OnTheWay(toClient', r)) + Scored(r)' <= captures'[r]
  BY DEF ScoreInv
<1> DEFINE m == toClient[1]
<1>1. /\ toClient \in Seq(Messages) /\ captures[r] \in Nat /\ Scored(r) \in Nat /\ score \in Nat
      /\ Cardinality(OnTheWay(toClient, r)) \in Nat
      /\ Cardinality(OnTheWay(toClient, r)) + Scored(r) <= captures[r]
  BY ScoreBounds DEF ProtocolInv, ScoreInv
<1>2. toClient # << >> /\ toClient' = Tail(toClient) /\ UNCHANGED <<captures, round>>
  BY DEF HandleAnswer, ParseState, Receives, server
<1>3. /\ Cardinality(OnTheWay(toClient', r)) + (IF m.room = r THEN m.captured ELSE 0)
           <= Cardinality(OnTheWay(toClient, r))
      /\ Cardinality(OnTheWay(toClient', r)) \in Nat
      /\ Head(toClient) = m /\ m.captured \in {0, 1}
  <2>1. Head(toClient) = m /\ m \in Messages /\ toClient' \in Seq(Messages)
    BY <1>1, <1>2, Received
  <2>2. m.captured \in {0, 1}
    BY <2>1 DEF Messages
  <2>3. Cardinality(OnTheWay(toClient', r)) \in Nat
    BY <2>1, CountSize
  <2> QED
    BY <1>1, <1>2, <2>1, <2>2, <2>3, CountReceived
<1> HIDE DEF m
<1>4. Scored(r)' <= Scored(r) + (IF m.room = r THEN m.captured ELSE 0) /\ Scored(r)' \in Nat
  <2>1. CASE HandleAnswer
    <3>1. Scored(r)' = Scored(r)
      BY <2>1 DEF HandleAnswer, Scored, bus
    <3> QED
      BY <1>1, <1>3, <3>1
  <2>2. CASE ParseState
    <3>1. /\ main' \in {main, "crashed"} /\ score' \in {score, score + m.captured} /\ ~IsAnswer(m)
      BY <1>3, <2>2 DEF ParseState, Counted, IsAnswer
    <3>2. CASE main = "game" /\ r = round
      <4>1. m.room = r
        BY <1>1, <1>2, <3>1, <3>2, NewsReceived DEF ProtocolInv, PhaseInv, Playing, LetIn, m
      <4> QED
        BY <1>1, <1>2, <1>3, <3>1, <3>2, <4>1 DEF Scored
    <3>3. CASE ~(main = "game" /\ r = round)
      BY <1>1, <1>2, <1>3, <3>1, <3>3 DEF Scored
    <3> QED
      BY <3>2, <3>3
  <2> QED
    BY <2>1, <2>2
<1>5. (IF m.room = r THEN m.captured ELSE 0) \in {0, 1}
  BY <1>3
<1> QED
  BY <1>1, <1>2, <1>3, <1>4, <1>5

LEMMA AnswerScore ==
  ASSUME ProtocolInv, ScoreInv, AsioThread \/ Timer
  PROVE  ScoreInv'
<1> SUFFICES ASSUME NEW r \in Rounds
             PROVE  Cardinality(OnTheWay(toClient', r)) + Scored(r)' <= captures'[r]
  BY DEF ScoreInv
<1>1. toClient \in Seq(Messages) /\ Cardinality(OnTheWay(toClient, r)) \in Nat
      /\ Cardinality(OnTheWay(toClient, r)) + Scored(r) <= captures[r]
  BY ScoreBounds DEF ProtocolInv, ScoreInv
<1>2. UNCHANGED <<main, round, score, captures>>
  BY ServerSends
<1>3. Cardinality(OnTheWay(toClient', r)) = Cardinality(OnTheWay(toClient, r))
  <2>1. CASE UNCHANGED toClient
    BY <2>1
  <2>2. ASSUME NEW m \in Messages, m.captured = 0, toClient' = Append(toClient, m)
        PROVE  Cardinality(OnTheWay(toClient', r)) = Cardinality(OnTheWay(toClient, r))
    <3>1. (IF m.room = r THEN m.captured ELSE 0) = 0
      BY <2>2
    <3> QED
      BY <1>1, <2>2, <3>1, CountSent
  <2> QED
    BY <2>1, <2>2, ServerSends
<1> QED
  BY <1>1, <1>2, <1>3 DEF Scored

LEMMA NewsScore ==
  ASSUME ProtocolInv, ScoreInv, Workers
  PROVE  ScoreInv'
<1> SUFFICES ASSUME NEW r \in Rounds
             PROVE  Cardinality(OnTheWay(toClient', r)) + Scored(r)' <= captures'[r]
  BY DEF ScoreInv
<1>1. PICK q \in players : Broadcast(q) \/ BroadcastResign(q)
  BY DEF Workers
<1>2. UNCHANGED <<main, round, score>> /\ q \in Rounds
  BY <1>1, WorkerSends
<1>3. PICK m \in Messages : /\ m.room = q /\ toClient' = Append(toClient, m)
                            /\ captures' = [captures EXCEPT ![q] = @ + m.captured]
  BY <1>1, WorkerSends
<1>4. /\ toClient \in Seq(Messages) /\ Cardinality(OnTheWay(toClient, r)) \in Nat
      /\ captures \in [Rounds -> Nat] /\ Scored(r) \in Nat
      /\ Cardinality(OnTheWay(toClient, r)) + Scored(r) <= captures[r]
  BY ScoreBounds DEF ProtocolInv, ScoreInv
<1>5. Cardinality(OnTheWay(toClient', r)) =
        Cardinality(OnTheWay(toClient, r)) + (IF m.room = r THEN m.captured ELSE 0)
  BY <1>3, <1>4, CountSent
<1>6. m.captured \in Nat
  BY DEF Messages
<1>7. captures'[r] = captures[r] + (IF m.room = r THEN m.captured ELSE 0)
  BY <1>2, <1>3, <1>4, <1>6
<1>8. Scored(r)' = Scored(r) /\ (IF m.room = r THEN m.captured ELSE 0) \in Nat
  BY <1>2, <1>6 DEF Scored
<1>9. captures[r] \in Nat
  BY <1>4
<1> QED
  BY <1>4, <1>5, <1>7, <1>8, <1>9

\* A new game starts at 0, and a game that was left is not counted any more.
LEMMA LocalScore ==
  ASSUME ProtocolInv, ScoreInv, Polls \/ User \/ on_open \/ StoreSnapshot \/ UNCHANGED vars
  PROVE  ScoreInv'
<1> SUFFICES ASSUME NEW r \in Rounds
             PROVE  Cardinality(OnTheWay(toClient', r)) + Scored(r)' <= captures'[r]
  BY DEF ScoreInv
<1>1. /\ Cardinality(OnTheWay(toClient, r)) \in Nat /\ captures[r] \in Nat /\ score \in Nat
      /\ Cardinality(OnTheWay(toClient, r)) + Scored(r) <= captures[r]
  BY ScoreBounds DEF ProtocolInv, ScoreInv
<1>2. UNCHANGED <<toClient, captures>>
  BY DEF Polls, User, on_open, vars, SendLogin, LoginAnswered, StartRound, RoomRefused, EnterGame,
     SendLeave, ConnectToServer, Quit, LeaveGame, ClickButton, ClickOutside, RequestRoom, ClickCell,
     DoubleClick, StoreSnapshot, server
<1>3. \/ main' # "game"
      \/ score' = 0
      \/ UNCHANGED <<main, round, score>>
  BY DEF Polls, User, on_open, vars, SendLogin, LoginAnswered, StartRound, RoomRefused, EnterGame,
     SendLeave, ConnectToServer, Quit, LeaveGame, ClickButton, ClickOutside, RequestRoom, ClickCell,
     DoubleClick, StoreSnapshot, bus
<1>4. Scored(r)' = 0 \/ Scored(r)' = Scored(r)
  BY <1>3 DEF Scored
<1>5. Scored(r) \in Nat
  BY <1>1 DEF Scored
<1> QED
  BY <1>1, <1>2, <1>4, <1>5

LEMMA NextScore == ASSUME ProtocolInv, ScoreInv, [Next]_vars PROVE ScoreInv'
BY ReceiveScore, AnswerScore, NewsScore, LocalScore DEF Next, NetworkThread

\* The score counts captures of the game that is on, at most once each:
\* no state of a room that was left reaches the managers of the next game.
THEOREM ScoreCountsThisGame == Spec => []ScoreIsOfThisGame
<1>1. ProtocolInv /\ ScoreInv /\ [Next]_vars => ScoreInv'
  BY NextScore
<1>2. ASSUME ProtocolInv, ScoreInv, main = "game" PROVE score <= captures[round]
  <2>1. round \in Rounds
    BY <1>2, ClientAssumption
       DEF ProtocolInv, TypeOK, Rounds, PhaseInv, Playing, LetIn, ServerInv
  <2>2. Cardinality(OnTheWay(toClient, round)) + score <= captures[round]
    BY <1>2, <2>1 DEF ScoreInv, Scored
  <2> QED
    BY <1>2, <2>1, <2>2, ScoreBounds DEF ProtocolInv
<1>3. ProtocolInv /\ ScoreInv => ScoreIsOfThisGame
  BY <1>2 DEF ScoreIsOfThisGame
<1> QED
  BY <1>1, <1>3, Protocol, InitScore, PTL DEF Spec

=============================================================================
