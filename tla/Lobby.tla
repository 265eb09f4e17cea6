-------------------------------- MODULE Lobby --------------------------------
(***************************************************************************)
(* The connections, the matchmaking queue and the rooms of the server:     *)
(* NetworkServer, LobbyHandler, AuthHandler, Matchmaker, and the           *)
(* membership and grace-period part of Room and GameSession.               *)
(*                                                                         *)
(* All of it runs on the one asio thread: a message, an open or a close is *)
(* one step, taken while at = "idle".  The handler of the one-second timer *)
(* is long and calls back from the matchmaker into the server; it is       *)
(* modelled step by step and at says where it is:                          *)
(*                                                                         *)
(*   idle -> rooms -> timeouts -> pairs -> idle                            *)
(*                                                                         *)
(* Points in time are kept as ages, in timer periods.  A message that is   *)
(* refused or ignored (wrong password, room name taken or unknown, any     *)
(* message while IN_QUEUE, a game command) changes nothing here.  The      *)
(* rating a connection logs in with is drawn in Init: until the login      *)
(* nothing reads it.                                                       *)
(***************************************************************************)
EXTENDS Integers, Sequences, SequencesExt, FiniteSets

CONSTANTS Connections,       \* connection_hdl: never used again once closed
          Users, NoUser,     \* usernames, and the empty username of a fresh ClientSession
          Ratings,           \* the ratings the database may hold
          RoomNames,         \* names that clients send
          NoRoom,            \* the empty roomId, also of a session that is in no room
          MaxEloDiff,        \* MAX_ELO_DIFFERENCE
          QueueTimeout,      \* MATCHMAKING_TIMEOUT_SEC
          GracePeriod        \* the 20 s of checkAutoResign

ASSUME LobbyAssumption ==
  /\ Ratings \subseteq Nat
  /\ MaxEloDiff \in Nat
  /\ QueueTimeout \in Nat \ {0} /\ GracePeriod \in Nat \ {0}

Seats == {"White", "Black"}
Roles == Seats \union {"Spectator"}
Waiting == "Waiting..."

Names == Users \union {NoUser}
Ranked(u, v) == <<"Ranked", u, v>>
RoomIds == RoomNames \union { Ranked(u, v) : u, v \in Names }

\* A ranked room is never named by the empty string; a room that a client
\* creates may be (lobby_handler.cpp:10).
ASSUME RoomAssumption == \A u, v \in Names : Ranked(u, v) # NoRoom

VARIABLES
  socket,          \* of each connection: "new", "open", "closed"
  client,          \* connectedClients; state "None" where the map has no entry
  rating,          \* ClientSession.rating, also the copy in the queue
  queue,           \* Matchmaker.m_queue
  age,             \* seconds since QueuedPlayer.entryTime
  rooms,           \* RoomManager.m_rooms: name -> room
  at,              \* where the timer handler is
  waiting          \* Matchmaker.m_waitingCache, from index i on

vars == <<socket, client, rating, queue, age, rooms, at, waiting>>

ClientStates == {"CONNECTED", "LOBBY", "IN_QUEUE", "IN_ROOM"}
NoClient  == [state |-> "None", username |-> NoUser, roomId |-> NoRoom]
NewClient == [state |-> "CONNECTED", username |-> NoUser, roomId |-> NoRoom]

Init ==
  /\ socket = [c \in Connections |-> "new"]
  /\ client = [c \in Connections |-> NoClient]
  /\ rating \in [Connections -> Ratings]
  /\ queue = {}
  /\ age = [c \in Connections |-> 0]
  /\ rooms = [r \in {} |-> {}]
  /\ at = "idle"
  /\ waiting = << >>

-----------------------------------------------------------------------------
(* GameSession's players and seats, and Room's grace period.               *)

NewRoom ==
  [ players |-> [c \in Connections |-> "None"],    \* the map players, "None" where it has no entry
    taken   |-> [s \in Seats |-> FALSE],           \* whiteTaken, blackTaken
    name    |-> [s \in Seats |-> Waiting],         \* m_whiteName, m_blackName
    grace   |-> FALSE,                             \* m_isGracePeriodActive
    absent  |-> "White",                           \* m_disconnectedRole
    away    |-> 0 ]                                \* seconds since m_disconnectTime

FreeRole(room) == IF ~room.taken["White"] THEN "White"
                  ELSE IF ~room.taken["Black"] THEN "Black" ELSE "Spectator"

addClient(room, c, username) ==
  LET role == FreeRole(room)
  IN  [room EXCEPT !.players[c] = role,
                   !.taken = [s \in Seats |-> room.taken[s] \/ s = role],
                   !.name  = [s \in Seats |-> IF s = role THEN username ELSE room.name[s]]]

\* Mutant of removeClient: the seat stays taken.
keepSeat(room, c) == [room EXCEPT !.players[c] = "None"]

removeClient(room, c) ==
  LET role == room.players[c]
  IN  [room EXCEPT !.players[c] = "None",
                   !.taken = [s \in Seats |-> room.taken[s] /\ s # role],
                   !.name  = [s \in Seats |-> IF s = role THEN Waiting ELSE room.name[s]]]

\* Mutants of handlePlayerDisconnect: the player stays in the map; the role
\* is looked up after the removal.
startGraceOnly(room, c) ==
  IF room.players[c] \in Seats
  THEN [room EXCEPT !.grace = TRUE, !.absent = room.players[c], !.away = 0]
  ELSE room

roleAfterRemoval(room, c) ==
  LET gone == removeClient(room, c)
  IN  IF room.players[c] \in Seats
      THEN [gone EXCEPT !.grace = TRUE, !.absent = gone.players[c], !.away = 0]
      ELSE gone

handlePlayerDisconnect(room, c) ==
  IF room.players[c] \in Seats
  THEN [removeClient(room, c) EXCEPT !.grace = TRUE, !.absent = room.players[c], !.away = 0]
  ELSE removeClient(room, c)

\* The rooms with one more.
WithRoom(r, room) == [q \in DOMAIN rooms \union {r} |-> IF q = r THEN room ELSE rooms[q]]

InRoom(session, r) == [session EXCEPT !.roomId = r, !.state = "IN_ROOM"]

\* The client enters a room that exists.
EnterRoom(all, c, r) ==
  /\ client' = [client EXCEPT ![c] = InRoom(@, r)]
  /\ rooms' = [all EXCEPT ![r] = addClient(@, c, client[c].username)]

-----------------------------------------------------------------------------
(* Connections and messages.                                               *)

on_open(c) ==
  /\ at = "idle"
  /\ socket[c] = "new"
  /\ socket' = [socket EXCEPT ![c] = "open"]
  /\ client' = [client EXCEPT ![c] = NewClient]
  /\ UNCHANGED <<rating, queue, age, rooms, at, waiting>>

\* The player leaves its room for a grace period, unless the room is named by
\* the empty string, which reads as no room; the queue is not touched.
on_close(c) ==
  /\ at = "idle"
  /\ socket[c] = "open"
  /\ socket' = [socket EXCEPT ![c] = "closed"]
  /\ rooms' = IF client[c].roomId \in DOMAIN rooms \ {NoRoom}
              THEN [rooms EXCEPT ![client[c].roomId] = handlePlayerDisconnect(@, c)]
              ELSE rooms
  /\ client' = [client EXCEPT ![c] = NoClient]
  /\ UNCHANGED <<rating, queue, age, at, waiting>>

\* A message from c, whose session is in the given state.
Message(c, state) == at = "idle" /\ socket[c] = "open" /\ client[c].state = state

\* A new account, or the right password; the same user may be logged in twice.
handleLogin(c, u) ==
  /\ Message(c, "CONNECTED")
  /\ client' = [client EXCEPT ![c].username = u, ![c].state = "LOBBY"]
  /\ UNCHANGED <<socket, rating, queue, age, rooms, at, waiting>>

CreateRoom(c, r) ==
  /\ Message(c, "LOBBY")
  /\ r \notin DOMAIN rooms
  /\ EnterRoom(WithRoom(r, NewRoom), c, r)
  /\ UNCHANGED <<socket, rating, queue, age, at, waiting>>

JoinRoom(c, r) ==
  /\ Message(c, "LOBBY")
  /\ r \in DOMAIN rooms
  /\ EnterRoom(rooms, c, r)
  /\ UNCHANGED <<socket, rating, queue, age, at, waiting>>

FindMatch(c) ==
  /\ Message(c, "LOBBY")
  /\ client' = [client EXCEPT ![c].state = "IN_QUEUE"]
  /\ queue' = queue \union {c}
  /\ age' = [age EXCEPT ![c] = 0]
  /\ UNCHANGED <<socket, rating, rooms, at, waiting>>

\* LEAVE_ROOM: the seat is free at once and no grace period starts.
LeaveRoom(c) ==
  /\ Message(c, "IN_ROOM")
  /\ rooms' = [rooms EXCEPT ![client[c].roomId] = removeClient(@, c)]
  /\ client' = [client EXCEPT ![c].roomId = NoRoom, ![c].state = "LOBBY"]
  /\ UNCHANGED <<socket, rating, queue, age, at, waiting>>

-----------------------------------------------------------------------------
(* The timer: checkAllRoomsForTimeouts, then Matchmaker::processQueue.     *)

\* A second has passed.
Waited(c) == IF c \in queue THEN age[c] + 1 ELSE age[c]

TimerFires ==
  /\ at = "idle"
  /\ at' = "rooms"
  /\ age' = [c \in Connections |-> Waited(c)]
  /\ rooms' = [r \in DOMAIN rooms |->
                 [rooms[r] EXCEPT !.away = IF rooms[r].grace THEN @ + 1 ELSE @]]
  /\ UNCHANGED <<socket, client, rating, queue, waiting>>

\* Mutant of checkAutoResign: a second late.
resignsLate(room) == room.grace /\ room.away > GracePeriod

checkAutoResign(room) == room.grace /\ room.away >= GracePeriod

\* handleAutoResign tells the players that the absent one has lost.
AutoResign ==
  /\ at = "rooms"
  /\ \E r \in DOMAIN rooms :
       /\ checkAutoResign(rooms[r])
       /\ rooms' = [rooms EXCEPT ![r].grace = FALSE]
  /\ UNCHANGED <<socket, client, rating, queue, age, at, waiting>>

RoomsChecked ==
  /\ at = "rooms"
  /\ \A r \in DOMAIN rooms : ~checkAutoResign(rooms[r])
  /\ at' = "timeouts"
  /\ UNCHANGED <<socket, client, rating, queue, age, rooms, waiting>>

\* Mutant of WaitedTooLong: a second late.
WaitedLonger(c) == age[c] > QueueTimeout

WaitedTooLong(c) == age[c] >= QueueTimeout

\* connectedClients[hdl] makes an entry for a connection that has none.
SessionOf(c) == IF client[c].state = "None" THEN NewClient ELSE client[c]

onMatchTimeout ==
  /\ at = "timeouts"
  /\ \E c \in queue :
       /\ WaitedTooLong(c)
       /\ queue' = queue \ {c}
       /\ client' = [client EXCEPT ![c] = [SessionOf(c) EXCEPT !.state = "LOBBY"]]
  /\ UNCHANGED <<socket, rating, age, rooms, at, waiting>>

\* The players that stay, sorted by rating; equal ratings in any order.
SortedByRating(s) == \A i, j \in 1 .. Len(s) : i < j => rating[s[i]] <= rating[s[j]]

TimeoutsDone ==
  /\ at = "timeouts"
  /\ \A c \in queue : ~WaitedTooLong(c)
  /\ at' = "pairs"
  /\ \E s \in SetToSeqs(queue) : SortedByRating(s) /\ waiting' = s
  /\ UNCHANGED <<socket, client, rating, queue, age, rooms>>

\* Mutant of CloseEnough: the same rating only.
SameRating(c, d) == rating[d] = rating[c]

CloseEnough(c, d) == rating[d] - rating[c] <= MaxEloDiff

\* onMatchFound makes a room for the two, unless one of that name exists.
onMatchFound(c, d) ==
  LET clients == [client EXCEPT ![c] = SessionOf(c), ![d] = SessionOf(d)]
      r == Ranked(clients[c].username, clients[d].username)
      room == addClient(addClient(NewRoom, c, clients[c].username), d, clients[d].username)
  IN  IF r \in DOMAIN rooms
      THEN client' = clients /\ UNCHANGED rooms
      ELSE /\ client' = [clients EXCEPT ![c] = InRoom(clients[c], r),
                                         ![d] = InRoom(clients[d], r)]
           /\ rooms' = WithRoom(r, room)

\* The first two of the rest match: both leave the queue.
MatchFound ==
  /\ at = "pairs" /\ Len(waiting) >= 2
  /\ CloseEnough(waiting[1], waiting[2])
  /\ queue' = queue \ {waiting[1], waiting[2]}
  /\ waiting' = SubSeq(waiting, 3, Len(waiting))
  /\ onMatchFound(waiting[1], waiting[2])
  /\ UNCHANGED <<socket, rating, age, at>>

TooFarApart ==
  /\ at = "pairs" /\ Len(waiting) >= 2
  /\ ~CloseEnough(waiting[1], waiting[2])
  /\ waiting' = Tail(waiting)
  /\ UNCHANGED <<socket, client, rating, queue, age, rooms, at>>

QueueProcessed ==
  /\ at = "pairs" /\ Len(waiting) < 2
  /\ at' = "idle"
  /\ waiting' = << >>
  /\ UNCHANGED <<socket, client, rating, queue, age, rooms>>

-----------------------------------------------------------------------------
Handler ==
  \E c \in Connections :
    \/ on_open(c) \/ on_close(c) \/ FindMatch(c) \/ LeaveRoom(c)
    \/ \E u \in Users : handleLogin(c, u)
    \/ \E r \in RoomNames : CreateRoom(c, r)
    \/ \E r \in RoomIds : JoinRoom(c, r)

Timer == \/ TimerFires \/ AutoResign \/ RoomsChecked
         \/ onMatchTimeout \/ TimeoutsDone
         \/ MatchFound \/ TooFarApart \/ QueueProcessed

Next == Handler \/ Timer

Spec == Init /\ [][Next]_vars

\* The asio loop runs the timer handler to its end and fires it again.
FairSpec == Spec /\ WF_vars(Timer)

-----------------------------------------------------------------------------
(* Properties.                                                             *)

RoomType == [ players : [Connections -> Roles \union {"None"}],
              taken : [Seats -> BOOLEAN],
              name : [Seats -> Names \union {Waiting}],
              grace : BOOLEAN, absent : Seats, away : Nat ]

\* Every variable holds a value of its type.
TypeOK ==
  /\ socket \in [Connections -> {"new", "open", "closed"}]
  /\ client \in [Connections -> [state : ClientStates \union {"None"},
                                 username : Names, roomId : RoomIds \union {NoRoom}]]
  /\ rating \in [Connections -> Ratings]
  /\ queue \subseteq Connections
  /\ age \in [Connections -> Nat]
  /\ DOMAIN rooms \subseteq RoomIds
  /\ \A r \in DOMAIN rooms : rooms[r] \in RoomType
  /\ at \in {"idle", "rooms", "timeouts", "pairs"}
  /\ waiting \in Seq(Connections)

\* The room named by the empty string keeps whoever closes its connection in
\* it (network_server.cpp:77): the session is erased, the player and the seat
\* are not.
Erased(c) == socket[c] = "closed" /\ client[c] = NoClient
Forgotten(r) == { c \in Connections : r = NoRoom /\ Erased(c) }

\* The server and the rooms agree on who is where: a session is IN_ROOM with
\* a roomId exactly when that room, and no other, has it as a player; only
\* the forgotten may be players without a session.
MembershipAgrees ==
  \A r \in RoomIds : \A c \in Connections \ Forgotten(r) :
    (client[c].state = "IN_ROOM" /\ client[c].roomId = r)
      <=> (r \in DOMAIN rooms /\ rooms[r].players[c] # "None")

\* A seat is taken exactly when one player sits on it, under its username or
\* forgotten.
SeatsAgree ==
  \A r \in DOMAIN rooms : \A s \in Seats :
    LET sitting == { c \in Connections : rooms[r].players[c] = s }
    IN  IF rooms[r].taken[s]
        THEN \E c \in sitting : /\ sitting = {c}
                                /\ c \in Forgotten(r) \/ rooms[r].name[s] = client[c].username
        ELSE sitting = {} /\ rooms[r].name[s] = Waiting

\* Whoever is in the matchmaking queue is waiting for a match or has closed
\* its connection: nobody is matched out of a room or out of the lobby.
QueuedAreWaiting ==
  \A c \in queue : client[c].state = "IN_QUEUE" \/ socket[c] = "closed"

\* Between two timers nothing is overdue: nobody has been queued for the
\* timeout, and no grace period has run out.
NothingOverdue ==
  at = "idle" =>
    /\ \A c \in queue : age[c] < QueueTimeout
    /\ \A r \in DOMAIN rooms : rooms[r].grace => rooms[r].away < GracePeriod

PairsLeft ==
  { p \in queue \X queue : p[1] # p[2] /\ rating[p[2]] - rating[p[1]] \in 0 .. MaxEloDiff }

\* The greedy pass over the sorted queue leaves no pair that could have been
\* matched.
NoMatchLeft == [][at = "pairs" /\ at' = "idle" => PairsLeft = {}]_vars

\* What a player's session is to the outside, and the rooms it is in.
MemberOf(c) == { r \in DOMAIN rooms : rooms[r].players[c] # "None" }
Phase(c) ==
  CASE socket[c] = "new" -> "new"
    [] socket[c] = "open" ->
         CASE client[c].state = "CONNECTED" -> "connected"
           [] client[c].state = "LOBBY"     -> "lobby"
           [] client[c].state = "IN_ROOM"   -> "playing"
           [] OTHER                         -> IF c \in queue THEN "searching" ELSE "stranded"
    [] socket[c] = "closed" ->
         IF c \in queue THEN "goneSearching"
         ELSE IF MemberOf(c) # {} THEN "ghost" ELSE "gone"

Sessions == INSTANCE PlayerSession WITH
  Players <- Connections, Rooms <- RoomIds, Unnamed <- NoRoom,
  phase <- [c \in Connections |-> Phase(c)], member <- [c \in Connections |-> MemberOf(c)]

\* Whatever messages, closes and timers do between them, each session goes only
\* where PlayerSession lets it go: handlers, matchmaker and rooms, which keep
\* its state in three places, never tear it apart.
ImplementsSessions == Sessions!Spec

\* "Searching for a random match... (up to 60 seconds)"
\* (game_application.cpp:56): who asked for a match is answered.
FindMatchAnswered ==
  \A c \in Connections : client[c].state = "IN_QUEUE" ~> client[c].state # "IN_QUEUE"

\* "Opponent disconnected for 20 seconds" (room.cpp:40): when a room gives
\* the game to the opponent, the seat of the absent player is empty.
ResignsTheAbsent ==
  [][\A r \in DOMAIN rooms :
       rooms[r].grace /\ ~rooms'[r].grace => ~rooms[r].taken[rooms[r].absent]]_vars
=============================================================================
