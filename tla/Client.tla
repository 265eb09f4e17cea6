------------------------------- MODULE Client -------------------------------
(***************************************************************************)
(* One player's program (client/game_application.cpp, network_client.cpp,  *)
(* input/controller.cpp, view/score_manager.cpp) and what the server does  *)
(* with its connection.  The client has two threads.  The main thread      *)
(* walks through the dialogs, polls loginStatus and roomStatus, and runs   *)
(* the game window:                                                        *)
(*                                                                         *)
(*   login -> connecting -> loggingIn -> top -> home -> waiting -> game    *)
(*                                        ^                          |     *)
(*                                        +------- left <------------+     *)
(*                                                                         *)
(* The network thread handles the messages of the connection in order.     *)
(* The server's side is the ClientSession that on_message and the timer    *)
(* work on, and the rooms whose player map holds the connection: their     *)
(* workers send states to it, under the mutex of that map.                 *)
(***************************************************************************)
EXTENDS Integers, Sequences

CONSTANTS Cells,        \* cells of the board that the player clicks on
          Boards,       \* what a snapshot may show: functions from Cells to Shown
          Nothing,      \* no cell, no piece, no message (std::nullopt)
          MaxRounds,    \* bound: games of a player
          MaxCaptures,  \* bound: captures of a game
          MaxInFlight   \* bound: at so many messages on the way, no state or command is added

Colors == {"White", "Black"}
Shown  == [color : Colors, idle : BOOLEAN] \union {Nothing}
Rounds == 1 .. MaxRounds

ASSUME ClientAssumption ==
  /\ Boards \subseteq [Cells -> Shown] /\ Nothing \notin Cells
  /\ MaxRounds \in Nat /\ MaxCaptures \in Nat /\ MaxInFlight \in Nat

EmptyBoard == [c \in Cells |-> Nothing]
ASSUME BoardsAssumption == EmptyBoard \in Boards

VARIABLES
  main,                     \* where the main thread is
  round,                    \* games this player has asked for
  loginStatus, roomStatus,  \* 0: no answer yet, 1: success, -1: error
  request,                  \* the request the main thread waits for
  isConnected,              \* NetworkClient::m_connected
  selectedCell, wantsReturn,\* Controller
  localSnapshot, incoming,  \* the shown state; the one the network thread is about to store
  subscribers,              \* the games whose managers subscribed to clientBus
  score,                    \* captures counted by the managers of the game that is on
  dangling,                 \* history: a subscriber that no longer exists was called
  toServer, toClient,       \* the two directions of the connection
  serverUp, session, owed,  \* the server runs; ClientSession.state; the answer not yet sent
  room, players,            \* rooms entered so far; those whose player map holds the connection
  decided, captures         \* per room: isGameOver; captures sent to this connection

screen  == <<selectedCell, wantsReturn>>
status  == <<loginStatus, roomStatus>>
network == <<localSnapshot, incoming>>
bus     == <<subscribers, score, dangling>>
server  == <<serverUp, session, owed, room, players, decided, captures>>
vars == <<main, round, status, request, isConnected, screen, network, bus,
          toServer, toClient, server>>

Command(action, cell) == [action |-> action, cell |-> cell]
Answers == {"LOGIN_SUCCESS", "LOGIN_ERROR", "ROOM_SUCCESS", "ROOM_ERROR", "MATCH_ERROR"}
ASSUME NothingAssumption == Nothing \notin Answers
Answer(type) == [type |-> type, room |-> 0, over |-> FALSE, captured |-> 0]
State(r, over, n) == [type |-> "STATE", room |-> r, over |-> over, captured |-> n]
Resigned(r) == [type |-> "GAME_OVER_RESIGN", room |-> r, over |-> FALSE, captured |-> 0]

Init ==
  /\ main = "login" /\ round = 0 /\ request = Nothing
  /\ loginStatus = 0 /\ roomStatus = 0
  /\ isConnected = FALSE
  /\ selectedCell = Nothing /\ wantsReturn = FALSE
  /\ localSnapshot = [room |-> 0, over |-> FALSE, board |-> EmptyBoard]
  /\ incoming = Nothing
  /\ subscribers = {} /\ score = 0 /\ dangling = FALSE
  /\ toServer = << >> /\ toClient = << >>
  /\ serverUp \in BOOLEAN
  /\ session = "NONE" /\ owed = Nothing
  /\ room = 0 /\ players = {}
  /\ decided = [r \in Rounds |-> FALSE] /\ captures = [r \in Rounds |-> 0]

-----------------------------------------------------------------------------
(* The main thread: performLogin, run, joinRoom.                           *)

Send(action, cell) == toServer' = Append(toServer, Command(action, cell))

\* The login dialog; connect() starts the network thread and returns.
ConnectToServer ==
  /\ main = "login"
  /\ main' = "connecting"
  /\ UNCHANGED <<round, status, request, isConnected, screen, network, bus,
                 toServer, toClient, server>>

SendLogin ==
  /\ main = "connecting" /\ isConnected
  /\ main' = "loggingIn"
  /\ Send("LOGIN", Nothing)
  /\ UNCHANGED <<round, status, request, isConnected, screen, network, bus, toClient, server>>

LoginAnswered ==
  /\ main = "loggingIn" /\ loginStatus # 0
  /\ main' = IF loginStatus = 1 THEN "top" ELSE "ended"
  /\ UNCHANGED <<round, status, request, isConnected, screen, network, bus,
                 toServer, toClient, server>>

\* Mutant of Cleared: the answer to the last request stays.
Kept(oldStatus) == oldStatus
Cleared(oldStatus) == 0

StartRound ==
  /\ main = "top"
  /\ main' = "home"
  /\ loginStatus' = Cleared(loginStatus) /\ roomStatus' = Cleared(roomStatus)
  /\ UNCHANGED <<round, request, isConnected, screen, network, bus,
                 toServer, toClient, server>>

\* The home and room dialogs: a named room, a random match, or the exit.
RequestRoom(action) ==
  /\ main = "home" /\ round < MaxRounds
  /\ main' = "waiting"
  /\ round' = round + 1
  /\ request' = action
  /\ Send(action, Nothing)
  /\ UNCHANGED <<status, isConnected, screen, network, bus, toClient, server>>

Quit ==
  /\ main \in {"login", "home"}
  /\ main' = "ended"
  /\ UNCHANGED <<round, status, request, isConnected, screen, network, bus,
                 toServer, toClient, server>>

RoomRefused ==
  /\ main = "waiting" /\ roomStatus = -1
  /\ main' = "ended"
  /\ UNCHANGED <<round, status, request, isConnected, screen, network, bus,
                 toServer, toClient, server>>

\* runGameLoop: new managers subscribe to the bus, a new Controller starts.
EnterGame ==
  /\ main = "waiting" /\ roomStatus = 1
  /\ main' = "game"
  /\ subscribers' = subscribers \union {round}
  /\ score' = 0
  /\ selectedCell' = Nothing /\ wantsReturn' = FALSE
  /\ UNCHANGED <<round, status, request, isConnected, network, dangling,
                 toServer, toClient, server>>

\* The button or the escape key.  The managers are destroyed, their
\* callbacks stay in clientBus, and localSnapshot keeps the last state.
LeaveGame ==
  /\ main = "game"
  /\ main' = "left"
  /\ UNCHANGED <<round, status, request, isConnected, screen, network, bus,
                 toServer, toClient, server>>

SendLeave ==
  /\ main = "left"
  /\ main' = "top"
  /\ Send("LEAVE_ROOM", Nothing)
  /\ UNCHANGED <<round, status, request, isConnected, screen, network, bus, toClient, server>>

-----------------------------------------------------------------------------
(* The Controller, on the main thread, reads localSnapshot without its     *)
(* mutex: each read sees the old or, while the network thread stores, the  *)
(* new one.                                                                *)

Visible == {localSnapshot} \union (IF incoming = Nothing THEN {} ELSE {incoming.snapshot})

Select(cell) == selectedCell' = cell /\ UNCHANGED <<wantsReturn, toServer>>

ClickButton ==
  /\ main = "game"
  /\ \E seen \in Visible : seen.over
  /\ wantsReturn' = TRUE
  /\ UNCHANGED <<main, round, status, request, isConnected, selectedCell, network, bus,
                 toServer, toClient, server>>

ClickOutside ==
  /\ main = "game"
  /\ \E seen \in Visible : ~seen.over
  /\ Select(Nothing)
  /\ UNCHANGED <<main, round, status, request, isConnected, network, bus, toClient, server>>

\* The reads of click(): the clicked cell, then the selected one.
ClickCell(cell) ==
  /\ main = "game" /\ Len(toServer) < MaxInFlight
  /\ \E seen1, seen2 \in Visible :
       LET clicked  == seen1.board[cell]
           selected == IF selectedCell = Nothing THEN Nothing ELSE seen2.board[selectedCell]
           friends  == clicked # Nothing /\ selected # Nothing /\ clicked.color = selected.color
       IN  /\ \E seen \in Visible : ~seen.over
           /\ \/ /\ selectedCell = Nothing \/ friends
                 /\ clicked # Nothing /\ clicked.idle
                 /\ Select(cell)
              \/ /\ selectedCell # Nothing /\ ~friends
                 /\ Send("MOVE", selectedCell)
                 /\ selectedCell' = Nothing
                 /\ UNCHANGED wantsReturn
  /\ UNCHANGED <<main, round, status, request, isConnected, network, bus, toClient, server>>

\* A double click; jump() looks at neither the snapshot nor the selection.
DoubleClick(cell) ==
  /\ main = "game" /\ Len(toServer) < MaxInFlight
  /\ Send("JUMP", cell)
  /\ UNCHANGED <<main, round, status, request, isConnected, screen, network, bus, toClient, server>>

-----------------------------------------------------------------------------
(* The network thread.                                                     *)

\* No handler for a failed connection is set: with no server, nothing happens.
on_open ==
  /\ main = "connecting" /\ ~isConnected /\ serverUp
  /\ isConnected' = TRUE
  /\ session' = "CONNECTED"
  /\ UNCHANGED <<main, round, status, request, screen, network, bus, toServer, toClient,
                 serverUp, owed, room, players, decided, captures>>

Alive == main \notin {"ended", "crashed"}
Receives == Alive /\ incoming = Nothing /\ toClient # << >>

HandleAnswer ==
  /\ Receives
  /\ LET type == Head(toClient).type
     IN  /\ type \in Answers
         /\ loginStatus' = CASE type = "LOGIN_SUCCESS" -> 1
                             [] type = "LOGIN_ERROR" -> -1
                             [] OTHER -> loginStatus
         /\ roomStatus' = CASE type = "ROOM_SUCCESS" -> 1
                            [] type \in {"ROOM_ERROR", "MATCH_ERROR"} -> -1
                            [] OTHER -> roomStatus
  /\ toClient' = Tail(toClient)
  /\ UNCHANGED <<main, round, request, isConnected, screen, network, bus, toServer, server>>

Counted(points) == score + points

LiveManagers == IF main = "game" THEN {round} ELSE {}

\* parseGameState publishes the events to every callback of the bus, also
\* those of managers that were destroyed: the process survives that or not.
\* Any other message, also GAME_OVER_RESIGN, is parsed as a state, with the
\* defaults for all that it lacks.
ParseState ==
  /\ Receives
  /\ LET m == Head(toClient)
         destroyed == IF m.captured = 0 THEN {} ELSE subscribers \ LiveManagers
     IN  /\ m.type \notin Answers
         /\ score' = IF LiveManagers \intersect subscribers = {} THEN score
                     ELSE Counted(m.captured)
         /\ dangling' = (dangling \/ destroyed # {})
         /\ main' \in {main} \union (IF destroyed = {} THEN {} ELSE {"crashed"})
         /\ \E board \in IF m.type = "STATE" THEN Boards ELSE {EmptyBoard} :
              incoming' = [type |-> m.type,
                           snapshot |-> [room |-> m.room, over |-> m.over, board |-> board]]
  /\ toClient' = Tail(toClient)
  /\ UNCHANGED <<round, status, request, isConnected, screen, localSnapshot, subscribers,
                 toServer, server>>

StoreSnapshot ==
  /\ Alive /\ incoming # Nothing
  /\ localSnapshot' = incoming.snapshot
  /\ incoming' = Nothing
  /\ UNCHANGED <<main, round, status, request, isConnected, screen, bus,
                 toServer, toClient, server>>

-----------------------------------------------------------------------------
(* The server: on_message, the timer, and the workers of the rooms.        *)

Reply(type) == toClient' = Append(toClient, Answer(type))

\* The asio thread handles a message when it has sent the last answer.
Handles(action) ==
  /\ owed = Nothing /\ toServer # << >> /\ Head(toServer).action = action
  /\ toServer' = Tail(toServer)

clientSide == <<main, round, status, request, isConnected, screen, network, bus>>

HandleLogin ==
  /\ session = "CONNECTED" /\ Handles("LOGIN")
  /\ \/ session' = "LOBBY" /\ Reply("LOGIN_SUCCESS")
     \/ UNCHANGED session /\ Reply("LOGIN_ERROR")
  /\ UNCHANGED <<clientSide, serverUp, owed, room, players, decided, captures>>

\* addPlayer; the answer follows, and the room may send before it.
Admit ==
  /\ session' = "IN_ROOM"
  /\ room' = room + 1
  /\ players' = players \union {room + 1}
  /\ owed' = "ROOM_SUCCESS"

HandleEnter ==
  /\ session = "LOBBY" /\ Handles("ENTER_ROOM")
  /\ \/ Admit /\ UNCHANGED toClient
     \/ Reply("ROOM_ERROR") /\ UNCHANGED <<session, room, players, owed>>
  /\ UNCHANGED <<clientSide, serverUp, decided, captures>>

HandleFindMatch ==
  /\ session = "LOBBY" /\ Handles("FIND_MATCH")
  /\ session' = "IN_QUEUE"
  /\ UNCHANGED <<clientSide, toClient, serverUp, owed, room, players, decided, captures>>

MatchFound ==
  /\ session = "IN_QUEUE" /\ owed = Nothing
  /\ Admit
  /\ UNCHANGED <<clientSide, toServer, toClient, serverUp, decided, captures>>

MatchTimeout ==
  /\ session = "IN_QUEUE" /\ owed = Nothing
  /\ session' = "LOBBY"
  /\ Reply("MATCH_ERROR")
  /\ UNCHANGED <<clientSide, toServer, serverUp, owed, room, players, decided, captures>>

SendAnswer ==
  /\ owed # Nothing
  /\ Reply(owed)
  /\ owed' = Nothing
  /\ UNCHANGED <<clientSide, toServer, serverUp, session, room, players, decided, captures>>

\* Mutant of removePlayer: the connection stays in the room's player map.
removeNobody(r) == players
removePlayer(r) == players \ {r}

\* Mutant of StateAfterLeave: client.state is not set.
StateUnset == session
StateAfterLeave == "LOBBY"

HandleLeave ==
  /\ session = "IN_ROOM" /\ Handles("LEAVE_ROOM")
  /\ players' = removePlayer(room)
  /\ session' = StateAfterLeave
  /\ UNCHANGED <<clientSide, toClient, serverUp, owed, room, decided, captures>>

\* What a command does to the game is GameEngine's matter.
HandleCommand ==
  /\ session = "IN_ROOM" /\ (Handles("MOVE") \/ Handles("JUMP"))
  /\ UNCHANGED <<clientSide, toClient, server>>

\* The state a message is meant for; in any other, on_message drops it.  No
\* message ever meets another (NothingDropped), so there is no action for it.
ReadyIn == [LOGIN |-> "CONNECTED", ENTER_ROOM |-> "LOBBY", FIND_MATCH |-> "LOBBY",
            LEAVE_ROOM |-> "IN_ROOM", MOVE |-> "IN_ROOM", JUMP |-> "IN_ROOM"]

\* GameSession::update: the state of the game, with what happened since the
\* last one, to the connections in the player map.
Broadcast(r) ==
  /\ r \in players /\ Len(toClient) < MaxInFlight
  /\ \E n \in 0 .. 1, over \in BOOLEAN :
       /\ decided[r] => over /\ n = 0
       /\ captures[r] + n <= MaxCaptures
       /\ toClient' = Append(toClient, State(r, over, n))
       /\ decided' = [decided EXCEPT ![r] = over]
       /\ captures' = [captures EXCEPT ![r] = @ + n]
  /\ UNCHANGED <<clientSide, toServer, serverUp, session, owed, room, players>>

\* Room::handleAutoResign, from the timer.
BroadcastResign(r) ==
  /\ r \in players /\ owed = Nothing /\ Len(toClient) < MaxInFlight
  /\ toClient' = Append(toClient, Resigned(r))
  /\ UNCHANGED <<clientSide, toServer, server>>

-----------------------------------------------------------------------------
Polls == SendLogin \/ LoginAnswered \/ StartRound \/ RoomRefused \/ EnterGame \/ SendLeave
User  == \/ ConnectToServer \/ Quit \/ LeaveGame \/ ClickButton \/ ClickOutside
         \/ \E action \in {"ENTER_ROOM", "FIND_MATCH"} : RequestRoom(action)
         \/ \E cell \in Cells : ClickCell(cell) \/ DoubleClick(cell)
NetworkThread == on_open \/ HandleAnswer \/ ParseState \/ StoreSnapshot
AsioThread == \/ HandleLogin \/ HandleEnter \/ HandleFindMatch \/ HandleLeave \/ HandleCommand
              \/ SendAnswer
Timer   == MatchFound \/ MatchTimeout
Workers == \E r \in players : Broadcast(r) \/ BroadcastResign(r)

Next == Polls \/ User \/ NetworkThread \/ AsioThread \/ Timer \/ Workers

Spec == Init /\ [][Next]_vars

\* The polling loops of the main thread, the network thread and the
\* server's asio thread are scheduled; the user and the rooms are free.
FairSpec == Spec /\ WF_vars(Polls) /\ WF_vars(NetworkThread) /\ WF_vars(AsioThread)

-----------------------------------------------------------------------------
(* Properties.                                                             *)

Commands == [action : DOMAIN ReadyIn, cell : Cells \union {Nothing}]
Messages == [type : Answers \union {"STATE", "GAME_OVER_RESIGN"}, room : 0 .. MaxRounds,
             over : BOOLEAN, captured : 0 .. 1]
Snapshot == [room : 0 .. MaxRounds, over : BOOLEAN, board : Boards]

\* Every variable holds a value of its type.
TypeOK ==
  /\ main \in {"login", "connecting", "loggingIn", "top", "home", "waiting", "game", "left",
               "ended", "crashed"}
  /\ round \in 0 .. MaxRounds
  /\ loginStatus \in {-1, 0, 1} /\ roomStatus \in {-1, 0, 1}
  /\ request \in {"ENTER_ROOM", "FIND_MATCH", Nothing}
  /\ isConnected \in BOOLEAN /\ wantsReturn \in BOOLEAN /\ dangling \in BOOLEAN
  /\ selectedCell \in Cells \union {Nothing}
  /\ localSnapshot \in Snapshot
  /\ incoming \in [type : {"STATE", "GAME_OVER_RESIGN"}, snapshot : Snapshot] \union {Nothing}
  /\ subscribers \subseteq Rounds /\ score \in Nat
  /\ toServer \in Seq(Commands) /\ toClient \in Seq(Messages)
  /\ serverUp \in BOOLEAN
  /\ session \in {"NONE", "CONNECTED", "LOBBY", "IN_QUEUE", "IN_ROOM"}
  /\ owed \in Answers \union {Nothing}
  /\ room \in 0 .. MaxRounds /\ players \subseteq Rounds
  /\ decided \in [Rounds -> BOOLEAN] /\ captures \in [Rounds -> Nat]

\* Client and server never disagree about where the player is: a message
\* that is next to be handled finds the session in the state it is meant
\* for, so that none is dropped.  (The server answers no dropped message,
\* and the client would wait for the answer forever.)
NothingDropped ==
  toServer # << >> /\ owed = Nothing => session = ReadyIn[Head(toServer).action]

\* A game window is open only for the room the server has put this player
\* in: an answer is never taken for the answer to a later request.
InTheRoomItPlays ==
  main = "game" => session = "IN_ROOM" /\ players = {round} /\ roomStatus = 1

\* The score that is shown counts captures of this game only: no state of
\* the room that was left reaches the managers of the next game.
ScoreIsOfThisGame == main = "game" => score <= captures[round]

\* The board never goes back to a room that was left.
BoardsInOrder == [][localSnapshot'.room >= localSnapshot.room]_vars

\* Somebody who creates or joins a room is let in or told why not.
EnterAnswered == main = "waiting" /\ request = "ENTER_ROOM" ~> main # "waiting"

\* "Opponent disconnected for 20 seconds. ... wins!" (room.cpp:40): when the
\* server announces the resignation, the client shows the game as over.
ResignationShown ==
  [][incoming # Nothing /\ incoming.type = "GAME_OVER_RESIGN" /\ incoming' = Nothing
       => localSnapshot'.over]_vars

=============================================================================
