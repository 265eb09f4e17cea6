----------------------------- MODULE LobbyProofs -----------------------------
(***************************************************************************)
(* Proofs about Lobby, for any number of connections, users and rooms and  *)
(* for every length of the timeout and of the grace period.                *)
(***************************************************************************)
EXTENDS Lobby, SequenceTheorems, FiniteSetTheorems, TLAPS

-----------------------------------------------------------------------------
(* Rooms.  What entering and leaving a room do to its record.              *)

LEMMA NewRoomType == NewRoom \in RoomType
BY DEF NewRoom, RoomType, Roles, Seats, Waiting

\* EXCEPT on a record, for the two triples of fields that change together.
LEMMA SeatUpdate ==
  ASSUME NEW P, NEW T, NEW N, NEW G, NEW A, NEW W,
         NEW room \in [players : P, taken : T, name : N, grace : G, absent : A, away : W],
         NEW p \in P, NEW t \in T, NEW n \in N
  PROVE  LET after == [room EXCEPT !.players = p, !.taken = t, !.name = n]
         IN  /\ after \in [players : P, taken : T, name : N, grace : G, absent : A, away : W]
             /\ after.players = p /\ after.taken = t /\ after.name = n
             /\ after.grace = room.grace /\ after.absent = room.absent
             /\ after.away = room.away
OBVIOUS

LEMMA GraceUpdate ==
  ASSUME NEW P, NEW T, NEW N, NEW G, NEW A, NEW W,
         NEW room \in [players : P, taken : T, name : N, grace : G, absent : A, away : W],
         NEW g \in G, NEW a \in A, NEW w \in W
  PROVE  LET after == [room EXCEPT !.grace = g, !.absent = a, !.away = w]
         IN  /\ after \in [players : P, taken : T, name : N, grace : G, absent : A, away : W]
             /\ after.players = room.players /\ after.taken = room.taken
             /\ after.name = room.name
             /\ after.grace = g /\ after.absent = a /\ after.away = w
OBVIOUS

LEMMA AwayUpdate ==
  ASSUME NEW P, NEW T, NEW N, NEW G, NEW A, NEW W,
         NEW room \in [players : P, taken : T, name : N, grace : G, absent : A, away : W],
         NEW w \in W
  PROVE  LET after == [room EXCEPT !.away = w]
         IN  /\ after \in [players : P, taken : T, name : N, grace : G, absent : A, away : W]
             /\ after.players = room.players /\ after.taken = room.taken
             /\ after.name = room.name /\ after.grace = room.grace /\ after.away = w
OBVIOUS

LEMMA RoomFields ==
  ASSUME NEW room \in RoomType
  PROVE  /\ room.players \in [Connections -> Roles \union {"None"}]
         /\ room.taken \in [Seats -> BOOLEAN]
         /\ room.name \in [Seats -> Names \union {Waiting}]
         /\ room.grace \in BOOLEAN /\ room.absent \in Seats /\ room.away \in Nat
BY DEF RoomType

LEMMA AddedPlayer ==
  ASSUME NEW room \in RoomType, NEW c \in Connections, NEW u \in Names
  PROVE  LET role == FreeRole(room)
             after == addClient(room, c, u)
         IN  /\ role \in Roles
             /\ after \in RoomType
             /\ after.players = [room.players EXCEPT ![c] = role]
             /\ after.taken = [s \in Seats |-> room.taken[s] \/ s = role]
             /\ after.name = [s \in Seats |-> IF s = role THEN u ELSE room.name[s]]
             /\ after.grace = room.grace /\ after.away = room.away
<1> DEFINE role == FreeRole(room)
           p == [room.players EXCEPT ![c] = role]
           t == [s \in Seats |-> room.taken[s] \/ s = role]
           n == [s \in Seats |-> IF s = role THEN u ELSE room.name[s]]
<1>1. role \in Roles
  BY DEF FreeRole, Roles, Seats
<1>2. p \in [Connections -> Roles \union {"None"}]
  BY <1>1, RoomFields
<1>3. t \in [Seats -> BOOLEAN] /\ n \in [Seats -> Names \union {Waiting}]
  BY RoomFields
<1>4. addClient(room, c, u) = [room EXCEPT !.players = p, !.taken = t, !.name = n]
  BY DEF addClient
<1> HIDE DEF role, p, t, n
<1>5. /\ [room EXCEPT !.players = p, !.taken = t, !.name = n] \in RoomType
      /\ LET after == [room EXCEPT !.players = p, !.taken = t, !.name = n]
         IN  /\ after.players = p /\ after.taken = t /\ after.name = n
             /\ after.grace = room.grace /\ after.away = room.away
  BY <1>2, <1>3, SeatUpdate DEF RoomType
<1> QED
  BY <1>1, <1>4, <1>5 DEF role, p, t, n

LEMMA RemovedPlayer ==
  ASSUME NEW room \in RoomType, NEW c \in Connections
  PROVE  LET role == room.players[c]
             after == removeClient(room, c)
         IN  /\ after \in RoomType
             /\ after.players = [room.players EXCEPT ![c] = "None"]
             /\ after.taken = [s \in Seats |-> room.taken[s] /\ s # role]
             /\ after.name = [s \in Seats |-> IF s = role THEN Waiting ELSE room.name[s]]
             /\ after.grace = room.grace /\ after.away = room.away
<1> DEFINE role == room.players[c]
           p == [room.players EXCEPT ![c] = "None"]
           t == [s \in Seats |-> room.taken[s] /\ s # role]
           n == [s \in Seats |-> IF s = role THEN Waiting ELSE room.name[s]]
<1>1. p \in [Connections -> Roles \union {"None"}]
  BY RoomFields
<1>2. t \in [Seats -> BOOLEAN] /\ n \in [Seats -> Names \union {Waiting}]
  BY RoomFields
<1>3. removeClient(room, c) = [room EXCEPT !.players = p, !.taken = t, !.name = n]
  BY DEF removeClient
<1> HIDE DEF role, p, t, n
<1>4. /\ [room EXCEPT !.players = p, !.taken = t, !.name = n] \in RoomType
      /\ LET after == [room EXCEPT !.players = p, !.taken = t, !.name = n]
         IN  /\ after.players = p /\ after.taken = t /\ after.name = n
             /\ after.grace = room.grace /\ after.away = room.away
  BY <1>1, <1>2, SeatUpdate DEF RoomType
<1> QED
  BY <1>3, <1>4 DEF role, p, t, n

LEMMA DisconnectedPlayer ==
  ASSUME NEW room \in RoomType, NEW c \in Connections
  PROVE  LET gone == removeClient(room, c)
             after == handlePlayerDisconnect(room, c)
         IN  /\ after \in RoomType
             /\ after.players = gone.players
             /\ after.taken = gone.taken
             /\ after.name = gone.name
             /\ after.away = 0 \/ (after.grace = room.grace /\ after.away = room.away)
<1>1. CASE room.players[c] \in Seats
  <2> DEFINE gone == removeClient(room, c)
             role == room.players[c]
  <2>1. gone \in RoomType /\ TRUE \in BOOLEAN /\ 0 \in Nat
    BY RemovedPlayer
  <2>2. handlePlayerDisconnect(room, c) = [gone EXCEPT !.grace = TRUE, !.absent = role, !.away = 0]
    BY <1>1 DEF handlePlayerDisconnect
  <2> HIDE DEF gone, role
  <2>3. LET after == [gone EXCEPT !.grace = TRUE, !.absent = role, !.away = 0]
        IN  /\ after \in RoomType
            /\ after.players = gone.players /\ after.taken = gone.taken
            /\ after.name = gone.name /\ after.away = 0
    BY <1>1, <2>1, GraceUpdate DEF RoomType, role
  <2> QED
    BY <2>2, <2>3 DEF gone
<1>2. CASE room.players[c] \notin Seats
  BY <1>2, RemovedPlayer DEF handlePlayerDisconnect
<1> QED
  BY <1>1, <1>2

-----------------------------------------------------------------------------
(* The clients.                                                            *)

ClientType == [state : ClientStates \union {"None"},
               username : Names, roomId : RoomIds \union {NoRoom}]

LEMMA ClientTypes ==
  /\ NoClient \in ClientType /\ NewClient \in ClientType
  /\ TypeOK => \A c \in Connections : SessionOf(c) \in ClientType
BY DEF NoClient, NewClient, ClientType, ClientStates, Names, SessionOf, TypeOK

LEMMA EnteredType ==
  ASSUME NEW session \in ClientType, NEW r \in RoomIds
  PROVE  InRoom(session, r) \in ClientType
BY DEF InRoom, ClientType, ClientStates

LEMMA MatchedRoomName ==
  ASSUME NEW u \in Names, NEW v \in Names
  PROVE  Ranked(u, v) \in RoomIds /\ Ranked(u, v) # NoRoom
BY RoomAssumption DEF RoomIds

(* What waiting holds: everybody in the queue, once, when it is made, and  *)
(* a rest of that afterwards.                                              *)

Injective(s) == \A i, j \in 1 .. Len(s) : i # j => s[i] # s[j]

LEMMA Arranged ==
  ASSUME NEW S, IsFiniteSet(S), NEW s \in SetToSeqs(S)
  PROVE  /\ s \in Seq(S) /\ Injective(s)
         /\ \A c \in S : \E i \in 1 .. Len(s) : s[i] = c
<1> DEFINE n == Cardinality(S)
<1>1. n \in Nat /\ s \in [1 .. n -> S] /\ \A i, j \in 1 .. n : i # j => s[i] # s[j]
  BY FS_CardinalityType DEF SetToSeqs
<1>2. s \in Seq(S) /\ Len(s) = n
  BY <1>1, SeqDef, LenProperties
<1>3. s \in Injection(1 .. n, S)
  BY <1>1 DEF Injection, IsInjective
<1>4. Cardinality(1 .. n) = n
  BY <1>1, FS_Interval
<1>5. s \in Surjection(1 .. n, S)
  BY <1>3, <1>4, FS_Injection
<1> QED
  BY <1>1, <1>2, <1>5 DEF Surjection, Injective

-----------------------------------------------------------------------------
(* Type correctness.  The queue is finite, since players come one by one.  *)

LobbyOK == TypeOK /\ IsFiniteSet(queue)

\* What the messages make of one client.
LEMMA SessionSteps ==
  ASSUME TypeOK, NEW c \in Connections
  PROVE  /\ \A u \in Users : [client EXCEPT ![c].username = u, ![c].state = "LOBBY"]
                              \in [Connections -> ClientType]
         /\ [client EXCEPT ![c].state = "IN_QUEUE"] \in [Connections -> ClientType]
         /\ [client EXCEPT ![c].roomId = NoRoom, ![c].state = "LOBBY"]
              \in [Connections -> ClientType]
         /\ \A r \in RoomIds : [client EXCEPT ![c] = InRoom(@, r)] \in [Connections -> ClientType]
<1>1. /\ \A cl \in ClientType : [cl EXCEPT !.state = "IN_QUEUE"] \in ClientType
      /\ \A cl \in ClientType, u \in Users :
           [cl EXCEPT !.username = u, !.state = "LOBBY"] \in ClientType
      /\ \A cl \in ClientType : [cl EXCEPT !.roomId = NoRoom, !.state = "LOBBY"] \in ClientType
  BY DEF ClientType, ClientStates, Names
<1>2. client \in [Connections -> ClientType]
  BY DEF TypeOK, ClientType
<1> HIDE DEF ClientType
<1> QED
  BY <1>1, <1>2, EnteredType

LEMMA InitLobby == Init => LobbyOK
<1> SUFFICES ASSUME Init PROVE LobbyOK
  OBVIOUS
<1>1. << >> \in Seq(Connections)
  OBVIOUS
<1>2. TypeOK
  BY <1>1, ClientTypes, LobbyAssumption DEF Init, TypeOK, ClientType
<1> QED
  BY <1>2, FS_EmptySet DEF Init, LobbyOK

LEMMA ConnectionType ==
  ASSUME LobbyOK, NEW c \in Connections, on_open(c) \/ on_close(c)
  PROVE  LobbyOK'
<1> USE DEF LobbyOK
<1>1. client' \in [Connections -> ClientType]
  BY ClientTypes DEF on_open, on_close, TypeOK, ClientType
<1>2. /\ DOMAIN rooms' \subseteq RoomIds
      /\ \A r \in DOMAIN rooms' : rooms'[r] \in RoomType
  <2>1. \A room \in RoomType : handlePlayerDisconnect(room, c) \in RoomType
    BY DisconnectedPlayer
  <2>2. CASE rooms' = rooms
    BY <2>2 DEF TypeOK
  <2>3. CASE /\ client[c].roomId \in DOMAIN rooms \ {NoRoom}
             /\ rooms' = [rooms EXCEPT ![client[c].roomId] = handlePlayerDisconnect(@, c)]
    BY <2>1, <2>3 DEF TypeOK
  <2> QED
    BY <2>2, <2>3 DEF on_open, on_close
<1> QED
  BY <1>1, <1>2 DEF on_open, on_close, TypeOK, ClientType

LEMMA EnterType ==
  ASSUME TypeOK, NEW c \in Connections, NEW r \in RoomIds, NEW all, r \in DOMAIN all,
         DOMAIN all \subseteq RoomIds, \A q \in DOMAIN all : all[q] \in RoomType,
         EnterRoom(all, c, r)
  PROVE  /\ client' \in [Connections -> ClientType]
         /\ DOMAIN rooms' \subseteq RoomIds
         /\ \A q \in DOMAIN rooms' : rooms'[q] \in RoomType
<1>1. client' \in [Connections -> ClientType]
  BY SessionSteps DEF EnterRoom
<1>2. client[c].username \in Names
  BY DEF TypeOK
<1>3. addClient(all[r], c, client[c].username) \in RoomType
  BY <1>2, AddedPlayer
<1> QED
  BY <1>1, <1>3 DEF EnterRoom

LEMMA MessageType ==
  ASSUME LobbyOK, NEW c \in Connections,
         \/ FindMatch(c) \/ LeaveRoom(c)
         \/ \E u \in Users : handleLogin(c, u)
         \/ \E r \in RoomNames : CreateRoom(c, r)
         \/ \E r \in RoomIds : JoinRoom(c, r)
  PROVE  LobbyOK'
<1> USE DEF LobbyOK
<1>1. CASE FindMatch(c)
  <2>1. client' \in [Connections -> ClientType]
    BY <1>1, SessionSteps DEF FindMatch
  <2>2. IsFiniteSet(queue')
    BY <1>1, FS_AddElement DEF FindMatch
  <2> QED
    BY <1>1, <2>1, <2>2 DEF FindMatch, TypeOK, ClientType
<1>2. CASE LeaveRoom(c)
  <2>1. client' \in [Connections -> ClientType]
    BY <1>2, SessionSteps DEF LeaveRoom
  <2>2. /\ DOMAIN rooms' \subseteq RoomIds
        /\ \A r \in DOMAIN rooms' : rooms'[r] \in RoomType
    BY <1>2, RemovedPlayer DEF LeaveRoom, TypeOK
  <2> QED
    BY <1>2, <2>1, <2>2 DEF LeaveRoom, TypeOK, ClientType
<1>3. CASE \E u \in Users : handleLogin(c, u)
  <2>1. PICK u \in Users : handleLogin(c, u)
    BY <1>3
  <2>2. client' \in [Connections -> ClientType]
    BY <2>1, SessionSteps DEF handleLogin
  <2> QED
    BY <2>1, <2>2 DEF handleLogin, TypeOK, ClientType
<1>4. CASE \E r \in RoomNames : CreateRoom(c, r)
  <2>1. PICK r \in RoomNames : CreateRoom(c, r)
    BY <1>4
  <2> DEFINE all == WithRoom(r, NewRoom)
  <2>2. r \in RoomIds /\ r \in DOMAIN all /\ DOMAIN all \subseteq RoomIds
    BY DEF WithRoom, RoomIds, TypeOK
  <2>3. \A q \in DOMAIN all : all[q] \in RoomType
    BY NewRoomType DEF WithRoom, TypeOK
  <2>4. EnterRoom(all, c, r)
    BY <2>1 DEF CreateRoom
  <2> HIDE DEF all
  <2>5. /\ client' \in [Connections -> ClientType]
        /\ DOMAIN rooms' \subseteq RoomIds
        /\ \A q \in DOMAIN rooms' : rooms'[q] \in RoomType
    BY <2>2, <2>3, <2>4, EnterType
  <2> QED
    BY <2>1, <2>5 DEF CreateRoom, TypeOK, ClientType
<1>5. CASE \E r \in RoomIds : JoinRoom(c, r)
  <2>1. PICK r \in RoomIds : JoinRoom(c, r)
    BY <1>5
  <2>2. /\ client' \in [Connections -> ClientType]
        /\ DOMAIN rooms' \subseteq RoomIds
        /\ \A q \in DOMAIN rooms' : rooms'[q] \in RoomType
    BY <2>1, EnterType DEF JoinRoom, TypeOK
  <2> QED
    BY <2>1, <2>2 DEF JoinRoom, TypeOK, ClientType
<1> QED
  BY <1>1, <1>2, <1>3, <1>4, <1>5

LEMMA RoomCheckType ==
  ASSUME LobbyOK, TimerFires \/ AutoResign \/ RoomsChecked
  PROVE  LobbyOK'
<1> USE DEF LobbyOK
<1>1. CASE TimerFires
  <2>1. age' \in [Connections -> Nat]
    BY <1>1 DEF TimerFires, Waited, TypeOK
  <2>2. \A r \in DOMAIN rooms :
          [rooms[r] EXCEPT !.away = IF rooms[r].grace THEN @ + 1 ELSE @] \in RoomType
    <3> SUFFICES ASSUME NEW r \in DOMAIN rooms
                 PROVE  [rooms[r] EXCEPT !.away = IF rooms[r].grace THEN @ + 1 ELSE @] \in RoomType
      OBVIOUS
    <3> DEFINE w == IF rooms[r].grace THEN rooms[r].away + 1 ELSE rooms[r].away
    <3>1. rooms[r] \in RoomType /\ w \in Nat
      BY RoomFields DEF TypeOK
    <3> HIDE DEF w
    <3>2. [rooms[r] EXCEPT !.away = w] \in RoomType
      BY <3>1, AwayUpdate DEF RoomType
    <3> QED
      BY <3>2 DEF w
  <2>3. DOMAIN rooms' \subseteq RoomIds /\ \A r \in DOMAIN rooms' : rooms'[r] \in RoomType
    BY <1>1, <2>2 DEF TimerFires, TypeOK
  <2> QED
    BY <1>1, <2>1, <2>3 DEF TimerFires, TypeOK
<1>2. CASE AutoResign
  <2>1. \A room \in RoomType : [room EXCEPT !.grace = FALSE] \in RoomType
    BY DEF RoomType
  <2>2. DOMAIN rooms' \subseteq RoomIds /\ \A r \in DOMAIN rooms' : rooms'[r] \in RoomType
    BY <1>2, <2>1 DEF AutoResign, TypeOK
  <2> QED
    BY <1>2, <2>2 DEF AutoResign, TypeOK
<1>3. CASE RoomsChecked
  BY <1>3 DEF RoomsChecked, TypeOK
<1> QED
  BY <1>1, <1>2, <1>3

LEMMA TimeoutType ==
  ASSUME LobbyOK, onMatchTimeout \/ TimeoutsDone
  PROVE  LobbyOK'
<1> USE DEF LobbyOK
<1>1. CASE onMatchTimeout
  <2>1. PICK c \in queue :
          /\ queue' = queue \ {c}
          /\ client' = [client EXCEPT ![c] = [SessionOf(c) EXCEPT !.state = "LOBBY"]]
    BY <1>1 DEF onMatchTimeout
  <2>2. c \in Connections
    BY DEF TypeOK
  <2>3. \A cl \in ClientType : [cl EXCEPT !.state = "LOBBY"] \in ClientType
    BY DEF ClientType, ClientStates
  <2>4. client' \in [Connections -> ClientType]
    BY <2>1, <2>2, <2>3, ClientTypes DEF TypeOK, ClientType
  <2>5. IsFiniteSet(queue')
    BY <2>1, FS_RemoveElement
  <2> QED
    BY <1>1, <2>1, <2>4, <2>5 DEF onMatchTimeout, TypeOK, ClientType
<1>2. CASE TimeoutsDone
  <2>1. waiting' \in Seq(queue)
    BY <1>2, Arranged DEF TimeoutsDone
  <2>2. waiting' \in Seq(Connections)
    BY <2>1 DEF TypeOK
  <2> QED
    BY <1>2, <2>2 DEF TimeoutsDone, TypeOK
<1> QED
  BY <1>1, <1>2

\* onMatchFound with its locals named.
LEMMA MatchOf ==
  ASSUME TypeOK, NEW c \in Connections, NEW d \in Connections, onMatchFound(c, d)
  PROVE  \E clients \in [Connections -> ClientType], r \in RoomIds :
           LET room == addClient(addClient(NewRoom, c, clients[c].username),
                                 d, clients[d].username)
           IN  /\ clients = [client EXCEPT ![c] = SessionOf(c), ![d] = SessionOf(d)]
               /\ room \in RoomType /\ r # NoRoom
               /\ \/ client' = clients /\ rooms' = rooms
                  \/ /\ r \notin DOMAIN rooms
                     /\ client' = [clients EXCEPT ![c] = InRoom(clients[c], r),
                                                  ![d] = InRoom(clients[d], r)]
                     /\ rooms' = WithRoom(r, room)
<1> DEFINE clients == [client EXCEPT ![c] = SessionOf(c), ![d] = SessionOf(d)]
           r == Ranked(clients[c].username, clients[d].username)
           room == addClient(addClient(NewRoom, c, clients[c].username), d, clients[d].username)
<1>1. clients \in [Connections -> ClientType]
  BY ClientTypes DEF TypeOK, ClientType
<1>2. clients[c].username \in Names /\ clients[d].username \in Names
  BY <1>1 DEF ClientType
<1>3. r \in RoomIds
  BY <1>2, MatchedRoomName
<1>named. r # NoRoom
  BY <1>2, MatchedRoomName
<1>4. room \in RoomType
  BY <1>2, AddedPlayer, NewRoomType
<1>5. \/ client' = clients /\ rooms' = rooms
      \/ /\ r \notin DOMAIN rooms
         /\ client' = [clients EXCEPT ![c] = InRoom(clients[c], r), ![d] = InRoom(clients[d], r)]
         /\ rooms' = WithRoom(r, room)
  BY Zenon DEF onMatchFound
<1> HIDE DEF r
<1> WITNESS clients \in [Connections -> ClientType], r \in RoomIds
<1> QED
  BY <1>named, <1>4, <1>5

LEMMA PairType ==
  ASSUME LobbyOK, MatchFound \/ TooFarApart \/ QueueProcessed
  PROVE  LobbyOK'
<1> USE DEF LobbyOK
<1>1. CASE MatchFound
  <2> DEFINE c == waiting[1]
             d == waiting[2]
  <2>1. c \in Connections /\ d \in Connections
    BY <1>1 DEF MatchFound, TypeOK
  <2>2. onMatchFound(c, d)
    BY <1>1 DEF MatchFound
  <2> HIDE DEF c, d
  <2>3. PICK clients \in [Connections -> ClientType], r \in RoomIds :
           LET room == addClient(addClient(NewRoom, c, clients[c].username),
                                 d, clients[d].username)
           IN  /\ room \in RoomType
               /\ \/ client' = clients /\ rooms' = rooms
                  \/ /\ client' = [clients EXCEPT ![c] = InRoom(clients[c], r),
                                                  ![d] = InRoom(clients[d], r)]
                     /\ rooms' = WithRoom(r, room)
    BY <2>1, <2>2, MatchOf
  <2>4. client' \in [Connections -> ClientType]
    BY <2>1, <2>3, EnteredType
  <2>5. DOMAIN rooms' \subseteq RoomIds /\ \A q \in DOMAIN rooms' : rooms'[q] \in RoomType
    BY <2>3 DEF WithRoom, TypeOK
  <2>6. waiting' \in Seq(Connections)
    BY <1>1 DEF MatchFound, TypeOK
  <2>7. queue' \subseteq queue /\ IsFiniteSet(queue')
    BY <1>1, FS_Subset DEF MatchFound
  <2> QED
    BY <1>1, <2>4, <2>5, <2>6, <2>7 DEF MatchFound, TypeOK, ClientType
<1>2. CASE TooFarApart
  <2>1. waiting' \in Seq(Connections)
    BY <1>2 DEF TooFarApart, TypeOK
  <2> QED
    BY <1>2, <2>1 DEF TooFarApart, TypeOK
<1>3. CASE QueueProcessed
  <2>1. << >> \in Seq(Connections)
    OBVIOUS
  <2> QED
    BY <1>3, <2>1 DEF QueueProcessed, TypeOK
<1> QED
  BY <1>1, <1>2, <1>3

LEMMA NextType == LobbyOK /\ [Next]_vars => LobbyOK'
<1> SUFFICES ASSUME LobbyOK, [Next]_vars PROVE LobbyOK'
  OBVIOUS
<1>1. CASE Handler
  BY <1>1, ConnectionType, MessageType DEF Handler
<1>2. CASE Timer
  BY <1>2, RoomCheckType, TimeoutType, PairType DEF Timer
<1>3. CASE UNCHANGED vars
  BY <1>3 DEF vars, LobbyOK, TypeOK
<1> QED
  BY <1>1, <1>2, <1>3 DEF Next

(* Every variable keeps its type, whatever the connections send and        *)
(* however the timer falls between the messages.                           *)
THEOREM LobbyTypeCorrect == Spec => []TypeOK
<1>1. LobbyOK => TypeOK
  BY DEF LobbyOK
<1> QED
  BY <1>1, InitLobby, NextType, PTL DEF Spec

-----------------------------------------------------------------------------
(* Who is where.  A message is about a client whose state says that it is  *)
(* in no room, or about one that is in the room its roomId names; what the *)
(* matchmaker pairs is queued or gone, and so in no room either.           *)

SessionsFit ==
  /\ \A c \in Connections :
       socket[c] = "new" => client[c] = NoClient /\ c \notin queue
  /\ \A c \in queue : \/ client[c].state = "IN_QUEUE"
                      \/ client[c] = NoClient /\ socket[c] = "closed"
  /\ \A c \in Connections : client[c].state = "IN_ROOM" => client[c].roomId \in RoomIds

WaitingFits ==
  /\ at # "pairs" => waiting = << >>
  /\ \A i \in 1 .. Len(waiting) : waiting[i] \in queue
  /\ Injective(waiting)

\* SeatsAgree for one room, in which the lost have no session any more.
SeatsFit(room, clients, lost) ==
  \A s \in Seats :
    LET sitting == { c \in Connections : room.players[c] = s }
    IN  IF room.taken[s]
        THEN \E c \in sitting : /\ sitting = {c}
                                /\ c \in lost \/ room.name[s] = clients[c].username
        ELSE sitting = {} /\ room.name[s] = Waiting

\* One player is as well known afterwards as it was before.
NameKept(d, clients, lost, after, gone) ==
  d \in gone \/ (d \notin lost /\ after[d].username = clients[d].username)

LEMMA SeatsOfNewRoom ==
  ASSUME NEW clients, NEW lost
  PROVE  SeatsFit(NewRoom, clients, lost)
BY DEF SeatsFit, NewRoom, Seats

LEMMA SeatsAfterAdd ==
  ASSUME NEW room \in RoomType, NEW clients, NEW lost, NEW after, NEW gone,
         NEW c \in Connections, NEW u \in Names,
         SeatsFit(room, clients, lost), room.players[c] = "None", after[c].username = u,
         \A d \in Connections \ {c} : room.players[d] # "None" =>
                                       NameKept(d, clients, lost, after, gone)
  PROVE  SeatsFit(addClient(room, c, u), after, gone)
<1> DEFINE role == FreeRole(room)
           new == addClient(room, c, u)
<1>1. /\ role \in Roles
      /\ new.players = [room.players EXCEPT ![c] = role]
      /\ new.taken = [s \in Seats |-> room.taken[s] \/ s = role]
      /\ new.name = [s \in Seats |-> IF s = role THEN u ELSE room.name[s]]
  BY AddedPlayer
<1>2. /\ room.players \in [Connections -> Roles \union {"None"}]
      /\ room.taken \in [Seats -> BOOLEAN]
  BY RoomFields
<1>3. role \in Seats => ~room.taken[role]
  BY DEF FreeRole, Seats
<1> HIDE DEF role, new
<1> SUFFICES ASSUME NEW s \in Seats
             PROVE  LET sitting == { d \in Connections : new.players[d] = s }
                    IN  IF new.taken[s]
                        THEN \E d \in sitting :
                               sitting = {d} /\ (d \in gone \/ new.name[s] = after[d].username)
                        ELSE sitting = {} /\ new.name[s] = Waiting
  BY DEF SeatsFit, new
<1> DEFINE before == { d \in Connections : room.players[d] = s }
           sitting == { d \in Connections : new.players[d] = s }
<1>4. IF room.taken[s]
      THEN \E d \in before :
             before = {d} /\ (d \in lost \/ room.name[s] = clients[d].username)
      ELSE before = {} /\ room.name[s] = Waiting
  BY DEF SeatsFit
<1>5. s # "None" /\ c \notin before
  BY DEF Seats
<1>6. CASE s = role
  <2>1. before = {}
    BY <1>3, <1>4, <1>6
  <2>2. \A d \in Connections : new.players[d] = s <=> d = c
    BY <1>1, <1>2, <1>6, <2>1
  <2>3. sitting = {c}
    BY <2>2
  <2>4. new.taken[s] /\ new.name[s] = u
    BY <1>1, <1>6
  <2> QED
    BY <2>3, <2>4
<1>7. CASE s # role
  <2>1. /\ sitting = before
        /\ new.taken[s] = room.taken[s] /\ new.name[s] = room.name[s]
    BY <1>1, <1>2, <1>5, <1>7
  <2>2. \A d \in before : NameKept(d, clients, lost, after, gone)
    BY <1>5
  <2> HIDE DEF before, sitting
  <2> QED
    BY <1>4, <2>1, <2>2 DEF sitting, NameKept
<1> QED
  BY <1>6, <1>7

LEMMA SeatsAfterRemove ==
  ASSUME NEW room \in RoomType, NEW clients, NEW lost, NEW after, NEW gone,
         NEW c \in Connections, SeatsFit(room, clients, lost),
         \A d \in Connections \ {c} : room.players[d] # "None" =>
                                       NameKept(d, clients, lost, after, gone)
  PROVE  SeatsFit(removeClient(room, c), after, gone)
<1> DEFINE role == room.players[c]
           new == removeClient(room, c)
<1>1. /\ new.players = [room.players EXCEPT ![c] = "None"]
      /\ new.taken = [s \in Seats |-> room.taken[s] /\ s # role]
      /\ new.name = [s \in Seats |-> IF s = role THEN Waiting ELSE room.name[s]]
  BY RemovedPlayer
<1>2. /\ room.players \in [Connections -> Roles \union {"None"}]
      /\ room.taken \in [Seats -> BOOLEAN]
  BY RoomFields
<1> HIDE DEF new
<1> SUFFICES ASSUME NEW s \in Seats
             PROVE  LET sitting == { d \in Connections : new.players[d] = s }
                    IN  IF new.taken[s]
                        THEN \E d \in sitting :
                               sitting = {d} /\ (d \in gone \/ new.name[s] = after[d].username)
                        ELSE sitting = {} /\ new.name[s] = Waiting
  BY DEF SeatsFit, new
<1> DEFINE before == { d \in Connections : room.players[d] = s }
           sitting == { d \in Connections : new.players[d] = s }
<1>3. IF room.taken[s]
      THEN \E d \in before :
             before = {d} /\ (d \in lost \/ room.name[s] = clients[d].username)
      ELSE before = {} /\ room.name[s] = Waiting
  BY DEF SeatsFit
<1>4. s # "None"
  BY DEF Seats
<1>5. CASE s = role
  <2>1. c \in before
    BY <1>5
  <2>2. before = {c}
    BY <1>3, <2>1
  <2>3. \A d \in Connections : new.players[d] # s
    BY <1>1, <1>2, <1>4, <1>5, <2>2
  <2>4. sitting = {}
    BY <2>3
  <2>5. ~new.taken[s] /\ new.name[s] = Waiting
    BY <1>1, <1>5
  <2> QED
    BY <2>4, <2>5
<1>6. CASE s # role
  <2>1. /\ sitting = before
        /\ new.taken[s] = room.taken[s] /\ new.name[s] = room.name[s]
    BY <1>1, <1>2, <1>4, <1>6
  <2>2. \A d \in before : NameKept(d, clients, lost, after, gone)
    BY <1>4, <1>6
  <2> HIDE DEF before, sitting
  <2> QED
    BY <1>3, <2>1, <2>2 DEF sitting, NameKept
<1> QED
  BY <1>5, <1>6

LEMMA SeatsKept ==
  ASSUME NEW room, NEW clients, NEW lost, NEW after, NEW gone, SeatsFit(room, clients, lost),
         \A d \in Connections : room.players[d] # "None" =>
                               NameKept(d, clients, lost, after, gone)
  PROVE  SeatsFit(room, after, gone)
<1> SUFFICES ASSUME NEW s \in Seats
             PROVE  LET sitting == { d \in Connections : room.players[d] = s }
                    IN  IF room.taken[s]
                        THEN \E d \in sitting :
                               sitting = {d} /\ (d \in gone \/ room.name[s] = after[d].username)
                        ELSE sitting = {} /\ room.name[s] = Waiting
  BY DEF SeatsFit
<1> DEFINE sitting == { d \in Connections : room.players[d] = s }
<1>1. IF room.taken[s]
      THEN \E d \in sitting :
             sitting = {d} /\ (d \in lost \/ room.name[s] = clients[d].username)
      ELSE sitting = {} /\ room.name[s] = Waiting
  BY DEF SeatsFit
<1>2. \A d \in sitting : NameKept(d, clients, lost, after, gone)
  BY DEF Seats
<1> HIDE DEF sitting
<1> QED
  BY <1>1, <1>2 DEF sitting, NameKept

LEMMA SeatsCopied ==
  ASSUME NEW room, NEW new, NEW clients, NEW lost, SeatsFit(room, clients, lost),
         new.players = room.players, new.taken = room.taken, new.name = room.name
  PROVE  SeatsFit(new, clients, lost)
BY DEF SeatsFit

\* Who is a player of no room; whoever is queued is.
Outside(c) == \A r \in DOMAIN rooms : rooms[r].players[c] = "None"
QueuedOutside == \A c \in queue : Outside(c)

Places == MembershipAgrees /\ SeatsAgree /\ QueuedOutside

LEMMA SeatsOfRooms ==
  /\ SeatsAgree <=> \A r \in DOMAIN rooms : SeatsFit(rooms[r], client, Forgotten(r))
  /\ SeatsAgree' <=> \A r \in DOMAIN rooms' : SeatsFit(rooms'[r], client', Forgotten(r)')
BY DEF SeatsAgree, SeatsFit

\* A session that a step leaves alone, and what follows for it.
Stays(d) == client'[d] = client[d] /\ socket'[d] = socket[d]

LEMMA ForgottenAre ==
  ASSUME NEW c \in Connections
  PROVE  /\ Stays(c) => \A r : c \in Forgotten(r)' <=> c \in Forgotten(r)
         /\ socket[c] # "closed" => \A r : c \notin Forgotten(r)
         /\ client[c].state # "None" => \A r : c \notin Forgotten(r)
         /\ client'[c].state # "None" => \A r : c \notin Forgotten(r)'
         /\ \A r : c \in Forgotten(r) => r = NoRoom
         /\ \A r : c \in Forgotten(r)' => r = NoRoom
BY DEF Stays, Forgotten, Erased, NoClient

LEMMA OutsideIs ==
  ASSUME TypeOK, Places, NEW c \in Connections, client[c].state # "IN_ROOM",
         c \in queue \/ socket[c] # "closed"
  PROVE  Outside(c)
<1>1. CASE c \in queue
  BY <1>1 DEF Places, QueuedOutside
<1>2. CASE socket[c] # "closed"
  BY <1>2, ForgottenAre DEF Places, MembershipAgrees, Outside, TypeOK
<1> QED
  BY <1>1, <1>2

LEMMA InRoomFields ==
  ASSUME NEW session \in ClientType, NEW r \in RoomIds
  PROVE  /\ InRoom(session, r).state = "IN_ROOM"
         /\ InRoom(session, r).roomId = r
         /\ InRoom(session, r).username = session.username
BY DEF InRoom, ClientType, ClientStates

\* Nobody enters or leaves a room: a step that changes sessions outside the
\* rooms only, or erases those of players in the room without a name, and of
\* the rooms the grace period only.
LEMMA NobodyMoves ==
  ASSUME TypeOK, Places, DOMAIN rooms' = DOMAIN rooms,
         \A r \in DOMAIN rooms : /\ rooms'[r].players = rooms[r].players
                                 /\ rooms'[r].taken = rooms[r].taken
                                 /\ rooms'[r].name = rooms[r].name,
         \A c \in Connections :
           \/ Stays(c)
           \/ Outside(c) /\ client'[c].state # "IN_ROOM"
           \/ /\ c \in Forgotten(NoRoom)' /\ client'[c].state # "IN_ROOM"
              /\ \A r \in DOMAIN rooms \ {NoRoom} : rooms[r].players[c] = "None",
         \A c \in queue' : c \in queue \/ Outside(c)
  PROVE  Places'
<1>1. ASSUME NEW r \in RoomIds, NEW c \in Connections, c \notin Forgotten(r)'
      PROVE  (client'[c].state = "IN_ROOM" /\ client'[c].roomId = r)
               <=> (r \in DOMAIN rooms' /\ rooms'[r].players[c] # "None")
  <2>1. CASE Stays(c)
    <3>1. c \notin Forgotten(r)
      BY <1>1, <2>1, ForgottenAre
    <3> QED
      BY <2>1, <3>1 DEF Places, MembershipAgrees, Stays
  <2>2. CASE Outside(c) /\ client'[c].state # "IN_ROOM"
    BY <2>2 DEF Outside
  <2>3. CASE /\ c \in Forgotten(NoRoom)' /\ client'[c].state # "IN_ROOM"
             /\ \A q \in DOMAIN rooms \ {NoRoom} : rooms[q].players[c] = "None"
    BY <1>1, <2>3
  <2> QED
    BY <2>1, <2>2, <2>3
<1>2. ASSUME NEW r \in DOMAIN rooms PROVE SeatsFit(rooms'[r], client', Forgotten(r)')
  <2>1. SeatsFit(rooms[r], client, Forgotten(r))
    BY SeatsOfRooms DEF Places
  <2>2. ASSUME NEW d \in Connections, rooms[r].players[d] # "None"
        PROVE  NameKept(d, client, Forgotten(r), client', Forgotten(r)')
    <3>1. CASE Stays(d)
      BY <3>1, ForgottenAre DEF NameKept, Stays
    <3>2. CASE ~Stays(d)
      BY <2>2, <3>2 DEF NameKept, Outside
    <3> QED
      BY <3>1, <3>2
  <2>3. SeatsFit(rooms[r], client', Forgotten(r)')
    BY <2>1, <2>2, SeatsKept
  <2> QED
    BY <2>3, SeatsCopied
<1>3. QueuedOutside'
  BY DEF Places, QueuedOutside, Outside
<1> QED
  BY <1>1, <1>2, <1>3, SeatsOfRooms DEF Places, MembershipAgrees

LEMMA SomeoneEnters ==
  ASSUME TypeOK, Places, NEW c \in Connections, Outside(c), c \notin queue, queue' = queue,
         NEW r \in RoomIds, NEW all, DOMAIN all = DOMAIN rooms \union {r},
         \A q \in DOMAIN rooms : all[q] = rooms[q],
         r \notin DOMAIN rooms => all[r] = NewRoom,
         EnterRoom(all, c, r), socket' = socket
  PROVE  Places'
<1> DEFINE u == client[c].username
           new == addClient(all[r], c, u)
<1>1. client[c] \in ClientType /\ u \in Names /\ client \in [Connections -> ClientType]
  BY DEF TypeOK, ClientType
<1>2. all[r] \in RoomType /\ SeatsFit(all[r], client, Forgotten(r))
  BY NewRoomType, SeatsOfNewRoom, SeatsOfRooms DEF TypeOK, Places
<1>3. /\ all[r].players[c] = "None"
      /\ \A d \in Connections \ Forgotten(r) :
           all[r].players[d] # "None" <=> client[d].state = "IN_ROOM" /\ client[d].roomId = r
  <2>1. CASE r \in DOMAIN rooms
    BY <2>1 DEF Places, MembershipAgrees, Outside
  <2>2. CASE r \notin DOMAIN rooms
    BY <2>2 DEF Places, MembershipAgrees, NewRoom
  <2> QED
    BY <2>1, <2>2
<1>4. /\ DOMAIN client' = Connections
      /\ client'[c].state = "IN_ROOM" /\ client'[c].roomId = r /\ client'[c].username = u
      /\ \A d \in Connections \ {c} : Stays(d)
  <2>1. client' = [client EXCEPT ![c] = InRoom(client[c], r)]
    BY DEF EnterRoom
  <2> QED
    BY <1>1, <2>1, InRoomFields DEF Stays
<1>5. /\ DOMAIN rooms' = DOMAIN rooms \union {r}
      /\ rooms'[r] = new
      /\ \A q \in DOMAIN rooms : q # r => rooms'[q] = rooms[q]
  BY DEF EnterRoom
<1>6. /\ new.players = [all[r].players EXCEPT ![c] = FreeRole(all[r])]
      /\ FreeRole(all[r]) # "None"
  <2> DEFINE old == all[r]
  <2>1. old \in RoomType /\ c \in Connections /\ u \in Names
    BY <1>1, <1>2
  <2> HIDE DEF old, u
  <2>2. FreeRole(old) \in Roles
        /\ addClient(old, c, u).players = [old.players EXCEPT ![c] = FreeRole(old)]
    BY <2>1, AddedPlayer
  <2> QED
    BY <2>2 DEF old, Roles, Seats
<1>7. all[r].players \in [Connections -> Roles \union {"None"}]
  BY <1>2, RoomFields
<1>8. \A q, d : d \in Connections \ {c} => NameKept(d, client, Forgotten(q), client', Forgotten(q)')
  BY <1>4, ForgottenAre DEF NameKept, Stays
<1>9. SeatsFit(new, client', Forgotten(r)')
  BY <1>1, <1>2, <1>3, <1>4, <1>8, SeatsAfterAdd
<1> HIDE DEF new, u
<1>10. ASSUME NEW q \in RoomIds, NEW d \in Connections, d \notin Forgotten(q)'
       PROVE  (client'[d].state = "IN_ROOM" /\ client'[d].roomId = q)
                <=> (q \in DOMAIN rooms' /\ rooms'[q].players[d] # "None")
  <2>1. CASE d = c
    <3>1. CASE q = r
      BY <1>4, <1>5, <1>6, <1>7, <2>1, <3>1
    <3>2. CASE q # r
      BY <1>4, <1>5, <2>1, <3>2 DEF Outside
    <3> QED
      BY <3>1, <3>2
  <2>2. CASE d # c
    <3>1. client'[d] = client[d] /\ d \notin Forgotten(q)
      BY <1>4, <1>10, <2>2, ForgottenAre DEF Stays
    <3>2. (client[d].state = "IN_ROOM" /\ client[d].roomId = q)
            <=> (q \in DOMAIN rooms /\ rooms[q].players[d] # "None")
      BY <3>1 DEF Places, MembershipAgrees
    <3>3. CASE q = r
      BY <1>3, <1>5, <1>6, <1>7, <2>2, <3>1, <3>3
    <3>4. CASE q # r
      BY <1>5, <3>1, <3>2, <3>4
    <3> QED
      BY <3>3, <3>4
  <2> QED
    BY <2>1, <2>2
<1>11. ASSUME NEW q \in DOMAIN rooms, q # r PROVE SeatsFit(rooms'[q], client', Forgotten(q)')
  <2>1. SeatsFit(rooms[q], client, Forgotten(q)) /\ rooms'[q] = rooms[q]
    BY <1>5, <1>11, SeatsOfRooms DEF Places
  <2>2. rooms[q].players[c] = "None"
    BY DEF Outside
  <2>3. \A d \in Connections : rooms[q].players[d] # "None" =>
                               NameKept(d, client, Forgotten(q), client', Forgotten(q)')
    BY <1>8, <2>2
  <2> QED
    BY <2>1, <2>3, SeatsKept
<1>12. QueuedOutside'
  <2> SUFFICES ASSUME NEW d \in queue, NEW q \in DOMAIN rooms'
               PROVE  rooms'[q].players[d] = "None"
    BY DEF QueuedOutside, Outside
  <2>1. d \in Connections /\ d # c /\ Outside(d)
    BY DEF TypeOK, Places, QueuedOutside
  <2>2. CASE q = r
    <3>1. all[r].players[d] = "None"
      BY <2>1 DEF Outside, NewRoom
    <3> QED
      BY <1>5, <1>6, <1>7, <2>1, <2>2, <3>1
  <2>3. CASE q # r
    BY <1>5, <2>1, <2>3 DEF Outside
  <2> QED
    BY <2>2, <2>3
<1> QED
  BY <1>5, <1>9, <1>10, <1>11, <1>12, SeatsOfRooms DEF Places, MembershipAgrees

LEMMA SomeoneLeaves ==
  ASSUME TypeOK, Places, NEW c \in Connections, NEW r \in DOMAIN rooms,
         \A q \in DOMAIN rooms \ {r} : rooms[q].players[c] = "None",
         NEW new, LET gone == removeClient(rooms[r], c)
                  IN  /\ new.players = gone.players /\ new.taken = gone.taken
                      /\ new.name = gone.name,
         rooms' = [rooms EXCEPT ![r] = new],
         client'[c].state # "IN_ROOM", queue' = queue,
         \A d \in Connections \ {c} : Stays(d)
  PROVE  Places'
<1> DEFINE gone == removeClient(rooms[r], c)
<1>1. rooms[r] \in RoomType /\ SeatsFit(rooms[r], client, Forgotten(r))
  BY SeatsOfRooms DEF TypeOK, Places
<1>2. new.players = [rooms[r].players EXCEPT ![c] = "None"]
  BY <1>1, RemovedPlayer
<1>3. rooms[r].players \in [Connections -> Roles \union {"None"}]
  BY <1>1, RoomFields
<1>4. \A q, d : d \in Connections \ {c} => NameKept(d, client, Forgotten(q), client', Forgotten(q)')
  BY ForgottenAre DEF NameKept, Stays
<1>5. SeatsFit(gone, client', Forgotten(r)')
  BY <1>1, <1>4, SeatsAfterRemove
<1>6. SeatsFit(new, client', Forgotten(r)')
  BY <1>5, SeatsCopied
<1>7. ASSUME NEW q \in RoomIds, NEW d \in Connections, d \notin Forgotten(q)'
      PROVE  (client'[d].state = "IN_ROOM" /\ client'[d].roomId = q)
               <=> (q \in DOMAIN rooms' /\ rooms'[q].players[d] # "None")
  <2>1. CASE d = c
    BY <1>2, <1>3, <2>1
  <2>2. CASE d # c
    <3>1. client'[d] = client[d] /\ d \notin Forgotten(q)
      BY <1>7, <2>2, ForgottenAre DEF Stays
    <3>2. (client[d].state = "IN_ROOM" /\ client[d].roomId = q)
            <=> (q \in DOMAIN rooms /\ rooms[q].players[d] # "None")
      BY <3>1 DEF Places, MembershipAgrees
    <3> QED
      BY <1>2, <1>3, <2>2, <3>1, <3>2
  <2> QED
    BY <2>1, <2>2
<1>8. ASSUME NEW q \in DOMAIN rooms, q # r PROVE SeatsFit(rooms'[q], client', Forgotten(q)')
  <2>1. SeatsFit(rooms[q], client, Forgotten(q)) /\ rooms'[q] = rooms[q]
    BY <1>8, SeatsOfRooms DEF Places
  <2>2. \A d \in Connections : rooms[q].players[d] # "None" =>
                               NameKept(d, client, Forgotten(q), client', Forgotten(q)')
    BY <1>4, <1>8
  <2> QED
    BY <2>1, <2>2, SeatsKept
<1>9. DOMAIN rooms' = DOMAIN rooms /\ rooms'[r] = new
  OBVIOUS
<1>10. QueuedOutside'
  <2> SUFFICES ASSUME NEW d \in queue, NEW q \in DOMAIN rooms
               PROVE  rooms'[q].players[d] = "None"
    BY <1>9 DEF QueuedOutside, Outside
  <2>1. d \in Connections /\ rooms[q].players[d] = "None"
    BY DEF TypeOK, Places, QueuedOutside, Outside
  <2>2. CASE q = r
    BY <1>2, <1>3, <1>9, <2>1, <2>2
  <2>3. CASE q # r
    BY <2>1, <2>3
  <2> QED
    BY <2>2, <2>3
<1> QED
  BY <1>6, <1>7, <1>8, <1>9, <1>10, SeatsOfRooms DEF Places, MembershipAgrees

MemberInv == LobbyOK /\ SessionsFit /\ WaitingFits /\ Places

LEMMA InitMembers == Init => MemberInv
<1> SUFFICES ASSUME Init PROVE MemberInv
  OBVIOUS
<1>1. SessionsFit
  BY DEF Init, SessionsFit, NoClient
<1>2. WaitingFits
  BY DEF Init, WaitingFits, Injective
<1>3. MembershipAgrees /\ SeatsAgree /\ QueuedOutside
  BY DEF Init, MembershipAgrees, SeatsAgree, QueuedOutside, NoClient
<1> QED
  BY <1>1, <1>2, <1>3, InitLobby DEF MemberInv, Places

LEMMA FreshStates == NoClient.state = "None" /\ NewClient.state = "CONNECTED"
BY DEF NoClient, NewClient

\* The state of a session after each of the changes the server makes.
LEMMA SessionStates ==
  ASSUME TypeOK, NEW c \in Connections
  PROVE  /\ NoClient.state = "None" /\ NewClient.state = "CONNECTED"
         /\ [SessionOf(c) EXCEPT !.state = "LOBBY"].state = "LOBBY"
         /\ SessionOf(c).state \in {client[c].state, "CONNECTED"}
         /\ \A u \in Users : [client EXCEPT ![c].username = u, ![c].state = "LOBBY"][c].state = "LOBBY"
         /\ [client EXCEPT ![c].state = "IN_QUEUE"][c].state = "IN_QUEUE"
         /\ [client EXCEPT ![c].roomId = NoRoom, ![c].state = "LOBBY"][c].state = "LOBBY"
<1>1. client[c] \in ClientType /\ SessionOf(c) \in ClientType
  BY ClientTypes DEF TypeOK, ClientType
<1>2. \A cl \in ClientType :
        /\ [cl EXCEPT !.state = "LOBBY"].state = "LOBBY"
        /\ [cl EXCEPT !.state = "IN_QUEUE"].state = "IN_QUEUE"
        /\ [cl EXCEPT !.roomId = NoRoom, !.state = "LOBBY"].state = "LOBBY"
        /\ \A u \in Users : [cl EXCEPT !.username = u, !.state = "LOBBY"].state = "LOBBY"
  BY DEF ClientType, ClientStates
<1>3. DOMAIN client = Connections
  BY DEF TypeOK
<1>4. SessionOf(c).state \in {client[c].state, "CONNECTED"}
  BY DEF SessionOf, NewClient
<1> HIDE DEF ClientType
<1> QED
  BY <1>1, <1>2, <1>3, <1>4 DEF NoClient, NewClient

LEMMA OthersUnchanged ==
  ASSUME NEW c \in Connections, NEW v, TypeOK, client' = [client EXCEPT ![c] = v]
  PROVE  /\ client'[c] = v /\ \A d \in Connections \ {c} : client'[d] = client[d]
BY DEF TypeOK

\* The step of one connection leaves the others alone.
LEMMA OthersStay ==
  ASSUME TypeOK, NEW c \in Connections, \A d \in Connections \ {c} : client'[d] = client[d],
         \/ socket' = socket
         \/ \E v : socket' = [socket EXCEPT ![c] = v]
  PROVE  \A d \in Connections \ {c} : Stays(d)
BY DEF TypeOK, Stays

LEMMA ConnectionMembers ==
  ASSUME MemberInv, NEW c \in Connections, on_open(c) \/ on_close(c)
  PROVE  MemberInv'
<1> USE DEF MemberInv, LobbyOK
<1>1. LobbyOK'
  BY ConnectionType
<1>2. WaitingFits'
  BY DEF on_open, on_close, WaitingFits
<1>3. CASE on_open(c)
  <2>1. client'[c] = NewClient /\ \A d \in Connections \ {c} : client'[d] = client[d]
    BY <1>3, OthersUnchanged DEF on_open
  <2>2. socket[c] = "new" /\ client[c] = NoClient /\ c \notin queue
    BY <1>3 DEF on_open, SessionsFit
  <2>3. SessionsFit'
    BY <1>3, <2>1, <2>2, FreshStates DEF on_open, SessionsFit, TypeOK
  <2>4. Outside(c) /\ \A d \in Connections \ {c} : Stays(d)
    BY <1>3, <2>1, <2>2, FreshStates, OutsideIs, OthersStay DEF on_open
  <2>5. Places'
    BY <1>3, <2>1, <2>4, FreshStates, NobodyMoves DEF on_open
  <2> QED
    BY <1>1, <1>2, <2>3, <2>5
<1>4. CASE on_close(c)
  <2>1. client'[c] = NoClient /\ \A d \in Connections \ {c} : client'[d] = client[d]
    BY <1>4, OthersUnchanged DEF on_close
  <2>2. SessionsFit'
    BY <1>4, <2>1, FreshStates DEF on_close, SessionsFit, TypeOK
  <2>3. /\ socket[c] = "open" /\ socket'[c] = "closed" /\ queue' = queue
        /\ \A d \in Connections \ {c} : Stays(d)
        /\ client'[c].state # "IN_ROOM"
    BY <1>4, <2>1, FreshStates, OthersStay DEF on_close, TypeOK
  <2>4. ASSUME NEW q \in DOMAIN rooms, rooms[q].players[c] # "None"
        PROVE  client[c].state = "IN_ROOM" /\ client[c].roomId = q
    BY <2>3, <2>4, ForgottenAre DEF Places, MembershipAgrees, TypeOK
  <2>5. CASE client[c].roomId \in DOMAIN rooms \ {NoRoom}
    <3> DEFINE r == client[c].roomId
               new == handlePlayerDisconnect(rooms[r], c)
               gone == removeClient(rooms[r], c)
    <3>1. rooms[r] \in RoomType
      BY <2>5 DEF TypeOK
    <3>2. new.players = gone.players /\ new.taken = gone.taken /\ new.name = gone.name
      BY <3>1, DisconnectedPlayer
    <3>3. rooms' = [rooms EXCEPT ![r] = new]
      BY <1>4, <2>5 DEF on_close
    <3> HIDE DEF new
    <3>4. Places'
      BY <2>3, <2>4, <2>5, <3>2, <3>3, SomeoneLeaves
    <3> QED
      BY <1>1, <1>2, <2>2, <3>4
  <2>6. CASE client[c].roomId \notin DOMAIN rooms \ {NoRoom}
    <3>1. rooms' = rooms
      BY <1>4, <2>6 DEF on_close
    <3>2. c \in Forgotten(NoRoom)'
      BY <2>1, <2>3 DEF Forgotten, Erased
    <3>3. \A q \in DOMAIN rooms \ {NoRoom} : rooms[q].players[c] = "None"
      BY <2>4, <2>6
    <3>4. Places'
      BY <2>3, <3>1, <3>2, <3>3, NobodyMoves
    <3> QED
      BY <1>1, <1>2, <2>2, <3>4
  <2> QED
    BY <2>5, <2>6
<1> QED
  BY <1>3, <1>4

LEMMA MessageMembers ==
  ASSUME MemberInv, NEW c \in Connections,
         \/ FindMatch(c) \/ LeaveRoom(c)
         \/ \E u \in Users : handleLogin(c, u)
         \/ \E r \in RoomNames : CreateRoom(c, r)
         \/ \E r \in RoomIds : JoinRoom(c, r)
  PROVE  MemberInv'
<1> USE DEF MemberInv, LobbyOK
<1>1. LobbyOK'
  BY MessageType
<1>2. WaitingFits'
  BY DEF FindMatch, LeaveRoom, handleLogin, CreateRoom, JoinRoom, Message, WaitingFits
<1>3. /\ socket[c] = "open" /\ socket' = socket
      /\ queue' = queue \/ (queue' = queue \union {c} /\ client'[c].state = "IN_QUEUE")
  BY SessionStates DEF FindMatch, LeaveRoom, handleLogin, CreateRoom, JoinRoom, Message
<1>4. ASSUME \A d \in Connections \ {c} : client'[d] = client[d],
             client[c].state # "IN_QUEUE",
             client'[c].state = "IN_ROOM" => client'[c].roomId \in RoomIds
      PROVE  SessionsFit'
  <2>1. c \notin queue
    BY <1>3, <1>4, SessionStates DEF SessionsFit
  <2> QED
    BY <1>3, <1>4, <2>1 DEF SessionsFit, TypeOK
<1>outside. client[c].state # "IN_ROOM" => Outside(c)
  BY <1>3, OutsideIs
<1>unqueued. client[c].state # "IN_QUEUE" => c \notin queue
  BY <1>3 DEF SessionsFit
<1>5. CASE FindMatch(c)
  <2>1. client'[c].state = "IN_QUEUE" /\ \A d \in Connections \ {c} : client'[d] = client[d]
    <3>1. client'[c].state = "IN_QUEUE"
      BY <1>5, SessionStates DEF FindMatch
    <3>2. \A d \in Connections \ {c} : client'[d] = client[d]
      BY <1>5 DEF FindMatch, TypeOK
    <3> QED
      BY <3>1, <3>2
  <2>2. Places'
    BY <1>3, <1>5, <1>outside, <2>1, OthersStay, NobodyMoves DEF FindMatch, Message
  <2> QED
    BY <1>1, <1>2, <1>4, <1>5, <2>1, <2>2 DEF FindMatch, Message
<1>6. CASE LeaveRoom(c)
  <2> DEFINE r == client[c].roomId
             new == removeClient(rooms[r], c)
  <2>1. client'[c].state = "LOBBY" /\ \A d \in Connections \ {c} : client'[d] = client[d]
    <3>1. client'[c].state = "LOBBY"
      BY <1>6, SessionStates DEF LeaveRoom
    <3>2. \A d \in Connections \ {c} : client'[d] = client[d]
      BY <1>6 DEF LeaveRoom, TypeOK
    <3> QED
      BY <3>1, <3>2
  <2>2. r \in DOMAIN rooms /\ \A q \in DOMAIN rooms \ {r} : rooms[q].players[c] = "None"
    BY <1>3, <1>6, ForgottenAre DEF LeaveRoom, Message, SessionsFit, Places, MembershipAgrees, TypeOK
  <2>3. rooms' = [rooms EXCEPT ![r] = new]
    BY <1>6 DEF LeaveRoom
  <2>4. queue' = queue /\ \A d \in Connections \ {c} : Stays(d)
    BY <1>3, <1>6, <2>1, OthersStay DEF LeaveRoom
  <2> HIDE DEF new
  <2>5. Places'
    BY <2>1, <2>2, <2>3, <2>4, SomeoneLeaves DEF new
  <2> QED
    BY <1>1, <1>2, <1>4, <1>6, <2>1, <2>5 DEF LeaveRoom, Message
<1>7. CASE \E u \in Users : handleLogin(c, u)
  <2>1. client'[c].state = "LOBBY" /\ \A d \in Connections \ {c} : client'[d] = client[d]
    <3>1. client'[c].state = "LOBBY"
      <4>1. PICK u \in Users : client' = [client EXCEPT ![c].username = u, ![c].state = "LOBBY"]
        BY <1>7 DEF handleLogin
      <4> QED
        BY <4>1, SessionStates
    <3>2. \A d \in Connections \ {c} : client'[d] = client[d]
      BY <1>7 DEF handleLogin, TypeOK
    <3> QED
      BY <3>1, <3>2
  <2>2. Places'
    BY <1>3, <1>7, <1>outside, <2>1, OthersStay, NobodyMoves DEF handleLogin, Message
  <2> QED
    BY <1>1, <1>2, <1>4, <1>7, <2>1, <2>2 DEF handleLogin, Message
<1>8. ASSUME NEW r \in RoomIds, NEW all, EnterRoom(all, c, r), client[c].state = "LOBBY"
      PROVE  SessionsFit'
  <2>1. client[c] \in ClientType
    BY DEF TypeOK, ClientType
  <2>2. /\ client'[c] = InRoom(client[c], r)
        /\ \A d \in Connections \ {c} : client'[d] = client[d]
    BY <1>8 DEF EnterRoom, TypeOK
  <2>3. client'[c].roomId = r
    BY <2>1, <2>2, InRoomFields
  <2> QED
    BY <1>4, <1>8, <2>2, <2>3
<1>9. CASE \E r \in RoomNames : CreateRoom(c, r)
  <2>1. PICK r \in RoomNames : CreateRoom(c, r)
    BY <1>9
  <2> DEFINE all == WithRoom(r, NewRoom)
  <2>2. /\ r \in RoomIds /\ DOMAIN all = DOMAIN rooms \union {r} /\ r \notin DOMAIN rooms
        /\ \A q \in DOMAIN rooms : all[q] = rooms[q]
        /\ all[r] = NewRoom
    BY <2>1 DEF CreateRoom, WithRoom, RoomIds
  <2>3. EnterRoom(all, c, r) /\ client[c].state = "LOBBY" /\ queue' = queue
    BY <2>1 DEF CreateRoom, Message
  <2> HIDE DEF all
  <2>4. Places'
    BY <1>3, <1>outside, <1>unqueued, <2>2, <2>3, SomeoneEnters
  <2> QED
    BY <1>1, <1>2, <1>8, <2>2, <2>3, <2>4
<1>10. CASE \E r \in RoomIds : JoinRoom(c, r)
  <2>1. PICK r \in RoomIds : JoinRoom(c, r)
    BY <1>10
  <2>2. /\ EnterRoom(rooms, c, r) /\ client[c].state = "LOBBY" /\ r \in DOMAIN rooms
        /\ queue' = queue
    BY <2>1 DEF JoinRoom, Message
  <2>3. DOMAIN rooms = DOMAIN rooms \union {r}
    BY <2>2
  <2>4. Places'
    BY <1>3, <1>outside, <1>unqueued, <2>2, <2>3, SomeoneEnters
  <2> QED
    BY <1>1, <1>2, <1>8, <2>2, <2>4
<1> QED
  BY <1>5, <1>6, <1>7, <1>9, <1>10

\* The timer changes no player and no seat.
LEMMA CheckKeepsSeats ==
  ASSUME LobbyOK, TimerFires \/ AutoResign \/ RoomsChecked
  PROVE  /\ DOMAIN rooms' = DOMAIN rooms
         /\ \A r \in DOMAIN rooms : /\ rooms'[r].players = rooms[r].players
                                    /\ rooms'[r].taken = rooms[r].taken
                                    /\ rooms'[r].name = rooms[r].name
<1> USE DEF LobbyOK
<1>1. CASE TimerFires
  <2>1. DOMAIN rooms' = DOMAIN rooms
    BY <1>1 DEF TimerFires
  <2>2. ASSUME NEW r \in DOMAIN rooms
        PROVE  /\ rooms'[r].players = rooms[r].players
               /\ rooms'[r].taken = rooms[r].taken
               /\ rooms'[r].name = rooms[r].name
    <3> DEFINE w == IF rooms[r].grace THEN rooms[r].away + 1 ELSE rooms[r].away
    <3>1. rooms[r] \in RoomType /\ w \in Nat
      BY RoomFields DEF TypeOK
    <3>2. rooms'[r] = [rooms[r] EXCEPT !.away = w]
      BY <1>1 DEF TimerFires
    <3> HIDE DEF w
    <3> QED
      BY <3>1, <3>2, AwayUpdate DEF RoomType
  <2> QED
    BY <2>1, <2>2
<1>2. CASE AutoResign
  <2>1. PICK q \in DOMAIN rooms : rooms' = [rooms EXCEPT ![q].grace = FALSE]
    BY <1>2 DEF AutoResign
  <2>2. rooms[q] \in RoomType
    BY DEF TypeOK
  <2>3. LET after == [rooms[q] EXCEPT !.grace = FALSE]
        IN  /\ after.players = rooms[q].players /\ after.taken = rooms[q].taken
            /\ after.name = rooms[q].name
    BY <2>2 DEF RoomType
  <2> QED
    BY <2>1, <2>3
<1>3. CASE RoomsChecked
  BY <1>3 DEF RoomsChecked
<1> QED
  BY <1>1, <1>2, <1>3

LEMMA RoomCheckMembers ==
  ASSUME MemberInv, TimerFires \/ AutoResign \/ RoomsChecked
  PROVE  MemberInv'
<1> USE DEF MemberInv, LobbyOK
<1>1. LobbyOK'
  BY RoomCheckType
<1>2. /\ client' = client /\ socket' = socket /\ queue' = queue /\ waiting' = waiting
      /\ at # "pairs" /\ at' # "pairs"
  BY DEF TimerFires, AutoResign, RoomsChecked
<1>3. SessionsFit' /\ WaitingFits'
  BY <1>2 DEF SessionsFit, WaitingFits
<1>4. Places'
  BY <1>2, CheckKeepsSeats, NobodyMoves DEF Stays
<1> QED
  BY <1>1, <1>3, <1>4

LEMMA TimeoutMembers ==
  ASSUME MemberInv, onMatchTimeout \/ TimeoutsDone
  PROVE  MemberInv'
<1> USE DEF MemberInv, LobbyOK
<1>1. LobbyOK'
  BY TimeoutType
<1>2. CASE onMatchTimeout
  <2>1. PICK c \in queue :
          /\ queue' = queue \ {c}
          /\ client' = [client EXCEPT ![c] = [SessionOf(c) EXCEPT !.state = "LOBBY"]]
    BY <1>2 DEF onMatchTimeout
  <2>2. c \in Connections
    BY DEF TypeOK
  <2>3. client'[c].state = "LOBBY" /\ \A d \in Connections \ {c} : client'[d] = client[d]
    <3> DEFINE new == [SessionOf(c) EXCEPT !.state = "LOBBY"]
    <3>1. new.state = "LOBBY"
      BY <2>2, SessionStates
    <3>2. client' = [client EXCEPT ![c] = new]
      BY <2>1
    <3> HIDE DEF new
    <3> QED
      BY <2>2, <3>1, <3>2, OthersUnchanged
  <2>4. Outside(c)
    BY DEF Places, QueuedOutside
  <2>5. socket[c] # "new" /\ socket' = socket /\ rooms' = rooms
    BY <1>2, <2>2 DEF onMatchTimeout, SessionsFit
  <2>6. SessionsFit'
    BY <2>1, <2>3, <2>5 DEF SessionsFit, TypeOK
  <2>7. WaitingFits'
    BY <1>2 DEF onMatchTimeout, WaitingFits, Injective
  <2>8. Places'
    BY <2>1, <2>2, <2>3, <2>4, <2>5, OthersStay, NobodyMoves
  <2> QED
    BY <1>1, <2>6, <2>7, <2>8
<1>3. CASE TimeoutsDone
  <2>1. /\ client' = client /\ socket' = socket /\ queue' = queue /\ rooms' = rooms
        /\ at' = "pairs" /\ waiting' \in SetToSeqs(queue)
    BY <1>3 DEF TimeoutsDone
  <2>2. waiting' \in Seq(queue) /\ Injective(waiting')
    BY <2>1, Arranged
  <2>3. WaitingFits'
    BY <2>1, <2>2 DEF WaitingFits, Injective
  <2>4. SessionsFit' /\ Places'
    BY <2>1, NobodyMoves DEF SessionsFit, Stays
  <2> QED
    BY <1>1, <2>3, <2>4
<1> QED
  BY <1>2, <1>3

LEMMA NewPair ==
  ASSUME TypeOK, Places, NEW c \in queue, NEW d \in queue, c # d, queue' = queue \ {c, d},
         NEW r \in RoomIds, r \notin DOMAIN rooms,
         NEW clients \in [Connections -> ClientType],
         client'[c] = InRoom(clients[c], r), client'[d] = InRoom(clients[d], r),
         \A e \in Connections \ {c, d} : Stays(e),
         rooms' = WithRoom(r, addClient(addClient(NewRoom, c, clients[c].username),
                                        d, clients[d].username))
  PROVE  /\ Places'
         /\ \A e \in {c, d} : client'[e].state = "IN_ROOM" /\ client'[e].roomId = r
         /\ \A e \in Connections \ {c, d} : rooms'[r].players[e] = "None"
<1> DEFINE u == clients[c].username
           v == clients[d].username
           half == addClient(NewRoom, c, u)
           room == addClient(half, d, v)
<1>0. c \in Connections /\ d \in Connections /\ Outside(c) /\ Outside(d)
  BY DEF TypeOK, Places, QueuedOutside
<1>1. u \in Names /\ v \in Names /\ clients[c] \in ClientType /\ clients[d] \in ClientType
  BY <1>0 DEF ClientType
<1>2. /\ \A e \in Connections \ {c, d} : client'[e] = client[e]
      /\ \A q, e : e \in Connections \ {c, d} =>
           /\ e \in Forgotten(q)' <=> e \in Forgotten(q)
           /\ NameKept(e, client, Forgotten(q), client', Forgotten(q)')
  BY ForgottenAre DEF NameKept, Stays
<1>3. \A e \in {c, d} : /\ client'[e].state = "IN_ROOM" /\ client'[e].roomId = r
                        /\ client'[e].username = clients[e].username
  BY <1>0, <1>1, InRoomFields
<1> HIDE DEF u, v
<1>4. /\ half \in RoomType
      /\ half.players = [NewRoom.players EXCEPT ![c] = FreeRole(NewRoom)]
      /\ FreeRole(NewRoom) \in Roles
  BY <1>0, <1>1, NewRoomType, AddedPlayer
<1>5. NewRoom.players = [e \in Connections |-> "None"]
  BY DEF NewRoom
<1>6. \A e \in Connections : half.players[e] # "None" <=> e = c
  BY <1>0, <1>4, <1>5 DEF Roles, Seats
<1>7. SeatsFit(half, clients, {})
  BY <1>0, <1>1, <1>5, NewRoomType, SeatsOfNewRoom, SeatsAfterAdd DEF u
<1> HIDE DEF half
<1>8. /\ room.players = [half.players EXCEPT ![d] = FreeRole(half)]
      /\ FreeRole(half) \in Roles
  <2>1. \A old \in RoomType : /\ FreeRole(old) \in Roles
                              /\ addClient(old, d, v).players
                                  = [old.players EXCEPT ![d] = FreeRole(old)]
    BY <1>0, <1>1, AddedPlayer
  <2> QED
    BY <1>4, <2>1
<1>9. half.players \in [Connections -> Roles \union {"None"}]
  BY <1>4, RoomFields
<1>10. \A e \in Connections : room.players[e] # "None" <=> e \in {c, d}
  BY <1>0, <1>6, <1>8, <1>9 DEF Roles, Seats
<1>11. SeatsFit(room, client', Forgotten(r)')
  <2> HIDE DEF room
  <2>1. half.players[d] = "None"
    BY <1>0, <1>6
  <2>2. client'[d].username = v /\ client'[c].username = clients[c].username
    BY <1>3 DEF v
  <2>3. \A e \in Connections \ {d} : half.players[e] # "None" =>
                                     NameKept(e, clients, {}, client', Forgotten(r)')
    BY <1>6, <2>2 DEF NameKept
  <2> QED
    <3>1. /\ half \in RoomType /\ d \in Connections /\ v \in Names
          /\ SeatsFit(half, clients, {}) /\ half.players[d] = "None" /\ client'[d].username = v
      BY <1>0, <1>1, <1>4, <1>7, <2>1, <2>2
    <3>2. SeatsFit(addClient(half, d, v), client', Forgotten(r)')
      BY <2>3, <3>1, SeatsAfterAdd
    <3> QED
      BY <3>2 DEF room
<1>12. /\ DOMAIN rooms' = DOMAIN rooms \union {r} /\ rooms'[r] = room
       /\ \A q \in DOMAIN rooms : rooms'[q] = rooms[q]
  BY DEF WithRoom, half, u, v
<1> HIDE DEF room
<1>13. ASSUME NEW e \in Connections, NEW q \in RoomIds, e \notin Forgotten(q)'
       PROVE  (client'[e].state = "IN_ROOM" /\ client'[e].roomId = q)
                <=> (q \in DOMAIN rooms' /\ rooms'[q].players[e] # "None")
  <2>1. CASE e \in {c, d}
    <3>1. q \in DOMAIN rooms => rooms[q].players[e] = "None"
      BY <1>0, <2>1 DEF Outside
    <3> QED
      BY <1>3, <1>10, <1>12, <2>1, <3>1
  <2>2. CASE e \notin {c, d}
    <3>1. (client[e].state = "IN_ROOM" /\ client[e].roomId = q)
            <=> (q \in DOMAIN rooms /\ rooms[q].players[e] # "None")
      BY <1>2, <1>13, <2>2 DEF Places, MembershipAgrees
    <3> QED
      BY <1>2, <1>10, <1>12, <2>2, <3>1
  <2> QED
    BY <2>1, <2>2
<1>14. ASSUME NEW q \in DOMAIN rooms PROVE SeatsFit(rooms'[q], client', Forgotten(q)')
  <2>1. SeatsFit(rooms[q], client, Forgotten(q)) /\ rooms'[q] = rooms[q]
    BY <1>12, SeatsOfRooms DEF Places
  <2>2. rooms[q].players[c] = "None" /\ rooms[q].players[d] = "None"
    BY <1>0 DEF Outside
  <2>3. \A e \in Connections : rooms[q].players[e] # "None" =>
                               NameKept(e, client, Forgotten(q), client', Forgotten(q)')
    BY <1>2, <2>2
  <2> DEFINE same == rooms[q]
  <2>4. /\ SeatsFit(same, client, Forgotten(q))
        /\ \A e \in Connections : same.players[e] # "None" =>
                                  NameKept(e, client, Forgotten(q), client', Forgotten(q)')
    BY <2>1, <2>3
  <2> HIDE DEF same
  <2>5. SeatsFit(same, client', Forgotten(q)')
    BY <2>4, SeatsKept
  <2> QED
    BY <2>1, <2>5 DEF same
<1>15. QueuedOutside'
  <2> SUFFICES ASSUME NEW e \in queue', NEW q \in DOMAIN rooms'
               PROVE  rooms'[q].players[e] = "None"
    BY DEF QueuedOutside, Outside
  <2>1. e \in Connections /\ e \notin {c, d} /\ Outside(e)
    BY DEF TypeOK, Places, QueuedOutside
  <2> QED
    BY <1>10, <1>12, <2>1 DEF Outside
<1>16. \A e \in Connections \ {c, d} : rooms'[r].players[e] = "None"
  BY <1>10, <1>12
<1> QED
  BY <1>3, <1>11, <1>12, <1>13, <1>14, <1>15, <1>16, SeatsOfRooms DEF Places, MembershipAgrees

LEMMA PairMembers ==
  ASSUME MemberInv, MatchFound \/ TooFarApart \/ QueueProcessed
  PROVE  MemberInv'
<1> USE DEF MemberInv, LobbyOK
<1>1. LobbyOK'
  BY PairType
<1>2. CASE MatchFound
  <2> DEFINE c == waiting[1]
             d == waiting[2]
  <2>1. /\ 2 <= Len(waiting) /\ c \in queue /\ d \in queue /\ c # d
        /\ c \in Connections /\ d \in Connections
    BY <1>2 DEF MatchFound, WaitingFits, Injective, TypeOK
  <2>2. /\ socket' = socket /\ queue' = queue \ {c, d} /\ at' = at /\ at = "pairs"
        /\ waiting' = SubSeq(waiting, 3, Len(waiting))
    BY <1>2 DEF MatchFound
  <2>3. onMatchFound(c, d)
    BY <1>2 DEF MatchFound
  <2>4. WaitingFits'
    <3>1. /\ waiting \in Seq(Connections) /\ Len(waiting) \in Nat
      BY DEF TypeOK
    <3>2. /\ Len(waiting') = Len(waiting) - 2
          /\ \A i \in 1 .. Len(waiting') : waiting'[i] = waiting[i + 2]
      <4>1. \A i \in 3 .. Len(waiting) : waiting[i] \in Connections
        BY <3>1
      <4> DEFINE rest == SubSeq(waiting, 3, Len(waiting))
      <4>2. Len(rest) = IF 3 <= Len(waiting) THEN Len(waiting) - 3 + 1 ELSE 0
        BY <3>1, <4>1, SubSeqProperties
      <4>3. \A i \in 1 .. Len(waiting) - 3 + 1 : rest[i] = waiting[3 + i - 1]
        BY <3>1, <4>1, SubSeqProperties
      <4>4. waiting' = rest
        BY <2>2
      <4> HIDE DEF rest
      <4>5. Len(rest) = Len(waiting) - 2
        <5> DEFINE n == Len(waiting)
        <5>1. n \in Nat /\ 2 <= n
          BY <2>1, <3>1
        <5>2. Len(rest) = IF 3 <= n THEN n - 3 + 1 ELSE 0
          BY <4>2
        <5> HIDE DEF n
        <5>3. Len(rest) = n - 2
          BY <5>1, <5>2
        <5> QED
          BY <5>3 DEF n
      <4>6. 1 .. Len(rest) = 1 .. Len(waiting) - 3 + 1
        BY <3>1, <4>5
      <4>7. \A i \in 1 .. Len(rest) : rest[i] = waiting[i + 2]
        BY <3>1, <4>3, <4>6
      <4> QED
        BY <4>4, <4>5, <4>7
    <3> QED
      BY <2>1, <2>2, <3>1, <3>2 DEF WaitingFits, Injective
  <2> HIDE DEF c, d
  <2>5. PICK clients \in [Connections -> ClientType], r \in RoomIds :
           LET room == addClient(addClient(NewRoom, c, clients[c].username),
                                 d, clients[d].username)
           IN  /\ clients = [client EXCEPT ![c] = SessionOf(c), ![d] = SessionOf(d)]
               /\ \/ client' = clients /\ rooms' = rooms
                  \/ /\ r \notin DOMAIN rooms
                     /\ client' = [clients EXCEPT ![c] = InRoom(clients[c], r),
                                                  ![d] = InRoom(clients[d], r)]
                     /\ rooms' = WithRoom(r, room)
    BY <2>1, <2>3, MatchOf
  <2>6. /\ client[c].state # "IN_ROOM" /\ client[d].state # "IN_ROOM"
        /\ Outside(c) /\ Outside(d)
        /\ socket[c] # "new" /\ socket[d] # "new"
    BY <2>1, FreshStates DEF SessionsFit, Places, QueuedOutside
  <2>7. clients[c].state # "IN_ROOM" /\ clients[d].state # "IN_ROOM"
    BY <2>1, <2>5, <2>6, SessionStates
  <2>8. \A e \in Connections \ {c, d} : clients[e] = client[e]
    BY <2>5
  <2>9. CASE client' = clients /\ rooms' = rooms
    <3>1. SessionsFit'
      BY <2>1, <2>2, <2>6, <2>7, <2>8, <2>9 DEF SessionsFit, TypeOK
    <3>2. Places'
      BY <2>2, <2>6, <2>7, <2>8, <2>9, NobodyMoves DEF Stays
    <3> QED
      BY <1>1, <2>4, <3>1, <3>2
  <2>10. CASE /\ r \notin DOMAIN rooms
              /\ client' = [clients EXCEPT ![c] = InRoom(clients[c], r),
                                           ![d] = InRoom(clients[d], r)]
              /\ rooms' = WithRoom(r, addClient(addClient(NewRoom, c, clients[c].username),
                                                d, clients[d].username))
    <3>1. /\ client'[c] = InRoom(clients[c], r) /\ client'[d] = InRoom(clients[d], r)
          /\ \A e \in Connections \ {c, d} : Stays(e)
      BY <2>1, <2>2, <2>8, <2>10 DEF Stays
    <3>2. /\ Places'
          /\ \A e \in {c, d} : client'[e].state = "IN_ROOM" /\ client'[e].roomId = r
      BY <2>1, <2>2, <2>10, <3>1, NewPair
    <3>3. SessionsFit'
      BY <2>1, <2>2, <2>6, <3>1, <3>2 DEF SessionsFit, TypeOK, Stays
    <3> QED
      BY <1>1, <2>4, <3>2, <3>3
  <2> QED
    BY <2>5, <2>9, <2>10
<1>3. CASE TooFarApart \/ QueueProcessed
  <2>1. client' = client /\ socket' = socket /\ queue' = queue /\ rooms' = rooms
    BY <1>3 DEF TooFarApart, QueueProcessed
  <2>2. SessionsFit' /\ Places'
    BY <2>1, NobodyMoves DEF SessionsFit, Stays
  <2>3. WaitingFits'
    <3>1. CASE TooFarApart
      <4>1. waiting \in Seq(Connections) /\ waiting # << >> /\ waiting' = Tail(waiting)
        BY <3>1 DEF TooFarApart, TypeOK
      <4>2. /\ Len(waiting) \in Nat /\ Len(waiting') = Len(waiting) - 1
            /\ \A i \in 1 .. Len(waiting') : waiting'[i] = waiting[i + 1]
        BY <4>1, HeadTailProperties
      <4> QED
        BY <3>1, <2>1, <4>2 DEF TooFarApart, WaitingFits, Injective
    <3>2. CASE QueueProcessed
      BY <3>2 DEF QueueProcessed, WaitingFits, Injective
    <3> QED
      BY <1>3, <3>1, <3>2
  <2> QED
    BY <1>1, <2>2, <2>3
<1> QED
  BY <1>2, <1>3

LEMMA NextMembers == MemberInv /\ [Next]_vars => MemberInv'
<1> SUFFICES ASSUME MemberInv, [Next]_vars PROVE MemberInv'
  OBVIOUS
<1>1. CASE Handler
  BY <1>1, ConnectionMembers, MessageMembers DEF Handler
<1>2. CASE Timer
  BY <1>2, RoomCheckMembers, TimeoutMembers, PairMembers DEF Timer
<1>3. CASE UNCHANGED vars
  <2>1. LobbyOK' /\ SessionsFit' /\ WaitingFits'
    BY <1>3 DEF vars, MemberInv, LobbyOK, TypeOK, SessionsFit, WaitingFits
  <2>2. Places'
    BY <1>3 DEF vars, MemberInv, Places, MembershipAgrees, SeatsAgree, QueuedOutside, Outside,
                Forgotten, Erased
  <2> QED
    BY <2>1, <2>2 DEF MemberInv
<1> QED
  BY <1>1, <1>2, <1>3 DEF Next

LEMMA Members == Spec => []MemberInv
BY InitMembers, NextMembers, PTL DEF Spec

(* The sessions of the server and the players of the rooms, which are      *)
(* updated by different handlers, always agree on who is in which room;    *)
(* the room without a name, and it alone, keeps who closes a connection.   *)
THEOREM ServerKnowsWhoIsWhere == Spec => []MembershipAgrees
<1>1. MemberInv => MembershipAgrees
  BY DEF MemberInv, Places
<1> QED
  BY <1>1, Members, PTL

(* A seat is never given twice, nor kept for one who has left, but for     *)
(* whoever closed its connection in the room without a name.               *)
THEOREM SeatsAreGivenOnce == Spec => []SeatsAgree
<1>1. MemberInv => SeatsAgree
  BY DEF MemberInv, Places
<1> QED
  BY <1>1, Members, PTL

(* Whoever can be matched is waiting for a match or is gone.               *)
THEOREM NobodyIsMatchedAway == Spec => []QueuedAreWaiting
<1>1. MemberInv => QueuedAreWaiting
  BY DEF MemberInv, SessionsFit, QueuedAreWaiting
<1> QED
  BY <1>1, Members, PTL

-----------------------------------------------------------------------------
(* The timer.  What it has checked stays so until it has finished, as no   *)
(* message is handled meanwhile, and messages start every count at zero.   *)

Punctual ==
  /\ at # "rooms" => \A r \in DOMAIN rooms : rooms[r].grace => rooms[r].away < GracePeriod
  /\ at \in {"idle", "pairs"} => \A c \in queue : age[c] < QueueTimeout

PunctualInv == LobbyOK /\ Punctual

LEMMA FreshRoom == ~NewRoom.grace
BY DEF NewRoom

LEMMA MessagesAreInTime ==
  ASSUME PunctualInv, Handler
  PROVE  Punctual'
<1> USE DEF PunctualInv, LobbyOK
<1>1. /\ at = "idle" /\ at' = "idle"
      /\ \A c \in queue' : age'[c] < QueueTimeout
  <2>1. at = "idle" /\ at' = "idle"
    BY DEF Handler, on_open, on_close, FindMatch, LeaveRoom, handleLogin, CreateRoom,
           JoinRoom, Message
  <2>2. \/ queue' = queue /\ age' = age
        \/ \E c \in Connections : queue' = queue \union {c} /\ age' = [age EXCEPT ![c] = 0]
    BY DEF Handler, on_open, on_close, FindMatch, LeaveRoom, handleLogin, CreateRoom, JoinRoom
  <2> QED
    BY <2>1, <2>2, LobbyAssumption DEF Punctual, TypeOK
<1>2. PICK c \in Connections :
        \/ on_open(c) \/ on_close(c) \/ FindMatch(c) \/ LeaveRoom(c)
        \/ \E u \in Users : handleLogin(c, u)
        \/ \E r \in RoomNames : CreateRoom(c, r)
        \/ \E r \in RoomIds : JoinRoom(c, r)
  BY DEF Handler
<1>3. \A r \in DOMAIN rooms : rooms[r] \in RoomType /\ (rooms[r].grace => rooms[r].away < GracePeriod)
  BY <1>1 DEF TypeOK, Punctual
<1>4. ASSUME NEW r \in DOMAIN rooms'
      PROVE  rooms'[r].grace => rooms'[r].away < GracePeriod
  <2>1. CASE on_close(c)
    <3>1. CASE rooms' = rooms
      BY <1>3, <1>4, <3>1
    <3>2. CASE /\ client[c].roomId \in DOMAIN rooms \ {NoRoom}
               /\ rooms' = [rooms EXCEPT ![client[c].roomId] = handlePlayerDisconnect(@, c)]
      <4> DEFINE q == client[c].roomId
                 after == handlePlayerDisconnect(rooms[q], c)
      <4>1. after.away = 0 \/ (after.grace = rooms[q].grace /\ after.away = rooms[q].away)
        BY <1>3, <3>2, DisconnectedPlayer
      <4>2. rooms'[q] = after /\ DOMAIN rooms' = DOMAIN rooms
            /\ \A o \in DOMAIN rooms : o # q => rooms'[o] = rooms[o]
        BY <3>2
      <4> HIDE DEF after, q
      <4>3. CASE r = q
        <5>1. CASE after.away = 0
          BY <4>2, <4>3, <5>1, LobbyAssumption
        <5>2. CASE after.grace = rooms[q].grace /\ after.away = rooms[q].away
          BY <1>3, <1>4, <4>2, <4>3, <5>2
        <5> QED
          BY <4>1, <5>1, <5>2
      <4>4. CASE r # q
        BY <1>3, <1>4, <4>2, <4>4
      <4> QED
        BY <4>3, <4>4
    <3> QED
      BY <2>1, <3>1, <3>2 DEF on_close
  <2>2. CASE LeaveRoom(c)
    <3> DEFINE q == client[c].roomId
               after == removeClient(rooms[q], c)
    <3>1. /\ DOMAIN rooms' = DOMAIN rooms
          /\ q \in DOMAIN rooms => rooms'[q] = after
          /\ \A o \in DOMAIN rooms : o # q => rooms'[o] = rooms[o]
      BY <2>2 DEF LeaveRoom
    <3>2. q \in DOMAIN rooms => after.grace = rooms[q].grace /\ after.away = rooms[q].away
      BY <1>3, RemovedPlayer
    <3> HIDE DEF after, q
    <3> QED
      BY <1>3, <1>4, <3>1, <3>2
  <2>3. ASSUME NEW q \in RoomIds, NEW all, EnterRoom(all, c, q),
               q \in DOMAIN all, all[q] \in RoomType,
               DOMAIN all = DOMAIN rooms \union {q},
               \A o \in DOMAIN all : \/ o \in DOMAIN rooms /\ all[o] = rooms[o]
                                     \/ all[o] = NewRoom
        PROVE  rooms'[r].grace => rooms'[r].away < GracePeriod
    <3> DEFINE u == client[c].username
               after == addClient(all[q], c, u)
               old == all[q]
    <3>1. u \in Names
      BY DEF TypeOK
    <3>2. /\ DOMAIN rooms' = DOMAIN all /\ rooms'[q] = after
          /\ \A o \in DOMAIN all : o # q => rooms'[o] = all[o]
      BY <2>3 DEF EnterRoom
    <3>3. old \in RoomType /\ after = addClient(old, c, u)
      BY <2>3
    <3> HIDE DEF u, after, old
    <3>4. after.grace = old.grace /\ after.away = old.away
      BY <3>1, <3>3, AddedPlayer
    <3>5. \A o \in DOMAIN all : all[o].grace => all[o].away < GracePeriod
      BY <1>3, <2>3, FreshRoom
    <3> QED
      BY <1>4, <2>3, <3>2, <3>4, <3>5 DEF old
  <2>4. CASE \E q \in RoomNames : CreateRoom(c, q)
    <3>1. PICK q \in RoomNames : CreateRoom(c, q)
      BY <2>4
    <3> DEFINE all == WithRoom(q, NewRoom)
    <3>2. /\ q \in RoomIds /\ q \in DOMAIN all /\ all[q] \in RoomType
          /\ DOMAIN all = DOMAIN rooms \union {q}
          /\ \A o \in DOMAIN all : \/ o \in DOMAIN rooms /\ all[o] = rooms[o]
                                   \/ all[o] = NewRoom
      BY NewRoomType DEF WithRoom, RoomIds
    <3>3. EnterRoom(all, c, q)
      BY <3>1 DEF CreateRoom
    <3> HIDE DEF all
    <3> QED
      BY <2>3, <3>2, <3>3
  <2>5. CASE \E q \in RoomIds : JoinRoom(c, q)
    <3>1. PICK q \in RoomIds : JoinRoom(c, q)
      BY <2>5
    <3>2. EnterRoom(rooms, c, q) /\ q \in DOMAIN rooms
      BY <3>1 DEF JoinRoom
    <3>3. DOMAIN rooms = DOMAIN rooms \union {q}
      BY <3>2
    <3> QED
      BY <1>3, <2>3, <3>2, <3>3
  <2>6. CASE on_open(c) \/ FindMatch(c) \/ \E u \in Users : handleLogin(c, u)
    BY <1>3, <1>4, <2>6 DEF on_open, FindMatch, handleLogin
  <2> QED
    BY <1>2, <2>1, <2>2, <2>4, <2>5, <2>6
<1> QED
  BY <1>1, <1>4 DEF Punctual

LEMMA TimerIsInTime ==
  ASSUME PunctualInv, Timer
  PROVE  Punctual'
<1> USE DEF PunctualInv, LobbyOK
<1>1. CASE TimerFires \/ AutoResign
  BY <1>1 DEF TimerFires, AutoResign, Punctual
<1>2. CASE RoomsChecked
  BY <1>2, LobbyAssumption, RoomFields DEF RoomsChecked, Punctual, checkAutoResign, TypeOK
<1>3. CASE onMatchTimeout
  BY <1>3 DEF onMatchTimeout, Punctual
<1>4. CASE TimeoutsDone
  BY <1>4, LobbyAssumption DEF TimeoutsDone, Punctual, WaitedTooLong, TypeOK
<1>5. CASE MatchFound
  <2> DEFINE c == waiting[1]
             d == waiting[2]
  <2>1. /\ c \in Connections /\ d \in Connections /\ onMatchFound(c, d)
        /\ at = "pairs" /\ at' = at /\ age' = age /\ queue' \subseteq queue
    BY <1>5 DEF MatchFound, TypeOK
  <2> HIDE DEF c, d
  <2>2. PICK clients \in [Connections -> ClientType], r \in RoomIds :
          \/ rooms' = rooms
          \/ rooms' = WithRoom(r, addClient(addClient(NewRoom, c, clients[c].username),
                                            d, clients[d].username))
    BY <2>1, MatchOf
  <2> DEFINE half == addClient(NewRoom, c, clients[c].username)
             room == addClient(half, d, clients[d].username)
  <2>3. clients[c].username \in Names /\ clients[d].username \in Names
    BY <2>1 DEF ClientType
  <2>4. \A old \in RoomType, e \in Connections, u \in Names :
          addClient(old, e, u) \in RoomType /\ addClient(old, e, u).grace = old.grace
    BY AddedPlayer
  <2>5. half \in RoomType /\ ~half.grace
    BY <2>1, <2>3, <2>4, NewRoomType, FreshRoom
  <2> HIDE DEF half
  <2>6. ~room.grace
    BY <2>1, <2>3, <2>4, <2>5
  <2>7. \A q \in DOMAIN rooms' : (q \in DOMAIN rooms /\ rooms'[q] = rooms[q]) \/ rooms'[q] = room
    BY <2>2 DEF WithRoom, half
  <2> HIDE DEF room
  <2> QED
    BY <2>1, <2>6, <2>7 DEF Punctual
<1>6. CASE TooFarApart \/ QueueProcessed
  BY <1>6 DEF TooFarApart, QueueProcessed, Punctual
<1> QED
  BY <1>1, <1>2, <1>3, <1>4, <1>5, <1>6 DEF Timer

(* Between two timers nobody has been kept waiting for longer than the     *)
(* timeout and no grace period has run out.                                *)
THEOREM TimeoutsAreKept == Spec => []NothingOverdue
<1>1. Init => PunctualInv
  BY InitLobby DEF Init, PunctualInv, Punctual
<1>2. PunctualInv /\ [Next]_vars => PunctualInv'
  <2> SUFFICES ASSUME PunctualInv, [Next]_vars PROVE PunctualInv'
    OBVIOUS
  <2>1. LobbyOK'
    BY NextType DEF PunctualInv
  <2>2. CASE UNCHANGED vars
    BY <2>1, <2>2 DEF vars, PunctualInv, Punctual
  <2> QED
    BY <2>1, <2>2, MessagesAreInTime, TimerIsInTime DEF Next, PunctualInv
<1>3. PunctualInv => NothingOverdue
  BY DEF PunctualInv, Punctual, NothingOverdue
<1> QED
  BY <1>1, <1>2, <1>3, PTL DEF Spec

-----------------------------------------------------------------------------
(* The pairing.  Whoever the pass has skipped is too far from everybody    *)
(* who is still queued: those before it were skipped or matched, and those *)
(* after it have a rating at least as high as the first of them.           *)

FarApart(c, d) == rating[d] - rating[c] > MaxEloDiff \/ rating[c] - rating[d] > MaxEloDiff

StillWaiting(c) == \E i \in 1 .. Len(waiting) : waiting[i] = c

Skipped ==
  at = "pairs" =>
    /\ SortedByRating(waiting)
    /\ \A c, d \in queue : c # d /\ ~StillWaiting(c) => FarApart(c, d)

PairingInv == MemberInv /\ Skipped

LEMMA MatchSkips ==
  ASSUME PairingInv, MatchFound
  PROVE  Skipped'
<1>1. /\ waiting \in Seq(Connections) /\ Len(waiting) \in Nat /\ 2 <= Len(waiting)
      /\ waiting' = SubSeq(waiting, 3, Len(waiting)) /\ rating' = rating
      /\ queue' = queue \ {waiting[1], waiting[2]} /\ at = "pairs"
  BY DEF MatchFound, PairingInv, MemberInv, LobbyOK, TypeOK
<1> DEFINE n == Len(waiting)
<1>2. \A i \in 3 .. n : waiting[i] \in Connections
  BY <1>1
<1>3. Len(waiting') = IF 3 <= n THEN n - 3 + 1 ELSE 0
  BY <1>1, <1>2, SubSeqProperties
<1>4. \A i \in 1 .. n - 3 + 1 : waiting'[i] = waiting[3 + i - 1]
  BY <1>1, <1>2, SubSeqProperties
<1>5. n \in Nat /\ 2 <= n
  BY <1>1
<1> HIDE DEF n
<1>6. Len(waiting') = n - 2
  BY <1>3, <1>5
<1>7. \A i \in 1 .. n - 2 : waiting'[i] = waiting[i + 2]
  BY <1>4, <1>5
<1>8. SortedByRating(waiting)'
  BY <1>1, <1>5, <1>6, <1>7 DEF PairingInv, Skipped, SortedByRating, n
<1>9. ASSUME NEW c \in queue', StillWaiting(c) PROVE StillWaiting(c)'
  <2>1. PICK i \in 1 .. n : waiting[i] = c
    BY <1>9 DEF StillWaiting, n
  <2>2. i # 1 /\ i # 2
    BY <1>1, <2>1
  <2>3. i - 2 \in 1 .. n - 2 /\ (i - 2) + 2 = i
    BY <1>5, <2>2
  <2>4. waiting'[i - 2] = c
    BY <1>7, <2>1, <2>3
  <2> QED
    BY <1>6, <2>3, <2>4 DEF StillWaiting
<1>10. queue' \subseteq queue
  BY <1>1
<1>11. \A c, d \in queue' : c # d /\ ~StillWaiting(c)' => FarApart(c, d)'
  BY <1>1, <1>9, <1>10 DEF PairingInv, Skipped, FarApart
<1> QED
  BY <1>8, <1>11 DEF Skipped

LEMMA SkipSkips ==
  ASSUME PairingInv, TooFarApart
  PROVE  Skipped'
<1>1. /\ waiting \in Seq(Connections) /\ Len(waiting) \in Nat /\ 2 <= Len(waiting)
      /\ waiting' = Tail(waiting) /\ rating' = rating /\ queue' = queue /\ at = "pairs"
      /\ rating[waiting[2]] - rating[waiting[1]] > MaxEloDiff
  <2>1. /\ waiting \in Seq(Connections) /\ Len(waiting) \in Nat /\ 2 <= Len(waiting)
        /\ waiting' = Tail(waiting) /\ rating' = rating /\ queue' = queue /\ at = "pairs"
        /\ ~(rating[waiting[2]] - rating[waiting[1]] <= MaxEloDiff)
    BY DEF TooFarApart, CloseEnough, PairingInv, MemberInv, LobbyOK, TypeOK
  <2>2. \A c \in Connections : rating[c] \in Nat
    BY LobbyAssumption DEF PairingInv, MemberInv, LobbyOK, TypeOK
  <2>3. waiting[1] \in Connections /\ waiting[2] \in Connections
    BY <2>1
  <2> QED
    BY <2>1, <2>2, <2>3, LobbyAssumption
<1> DEFINE n == Len(waiting)
<1>2. waiting # << >>
  BY <1>1
<1>3. Len(waiting') = n - 1 /\ \A i \in 1 .. Len(waiting') : waiting'[i] = waiting[i + 1]
  BY <1>1, <1>2, HeadTailProperties
<1>4. n \in Nat /\ 2 <= n /\ \A i \in 1 .. n : waiting[i] \in Connections
  BY <1>1
<1>5. \A c \in Connections : rating[c] \in Nat
  BY LobbyAssumption DEF PairingInv, MemberInv, LobbyOK, TypeOK
<1>6. \A i, j \in 1 .. n : i < j => rating[waiting[i]] <= rating[waiting[j]]
  BY <1>1 DEF PairingInv, Skipped, SortedByRating
<1> HIDE DEF n
<1>7. SortedByRating(waiting)'
  BY <1>1, <1>3, <1>4, <1>6 DEF SortedByRating
<1>8. ASSUME NEW i \in 2 .. n PROVE FarApart(waiting[1], waiting[i])
  <2>1. 2 \in 1 .. n /\ i \in 1 .. n /\ 1 \in 1 .. n
    BY <1>4
  <2>2. rating[waiting[2]] <= rating[waiting[i]]
    BY <1>4, <1>5, <1>6, <2>1
  <2>3. /\ rating[waiting[1]] \in Nat /\ rating[waiting[2]] \in Nat
        /\ rating[waiting[i]] \in Nat
    BY <1>4, <1>5, <2>1
  <2> QED
    BY <1>1, <2>2, <2>3, LobbyAssumption DEF FarApart
<1>9. ASSUME NEW c \in queue, NEW d \in queue, c # d, ~StillWaiting(c)'
      PROVE  FarApart(c, d)
  <2>1. CASE ~StillWaiting(c)
    BY <1>1, <1>9, <2>1 DEF PairingInv, Skipped
  <2>2. CASE StillWaiting(c)
    <3>1. PICK i \in 1 .. n : waiting[i] = c
      BY <2>2 DEF StillWaiting, n
    <3>2. i = 1
      <4>1. i # 1 => i - 1 \in 1 .. n - 1 /\ (i - 1) + 1 = i
        BY <1>4
      <4>2. i # 1 => waiting'[i - 1] = c
        BY <1>3, <3>1, <4>1
      <4> QED
        BY <1>3, <1>9, <4>1, <4>2 DEF StillWaiting
    <3>3. CASE StillWaiting(d)
      <4>1. PICK j \in 1 .. n : waiting[j] = d
        BY <3>3 DEF StillWaiting, n
      <4>2. j \in 2 .. n
        BY <1>4, <1>9, <3>1, <3>2, <4>1
      <4> QED
        BY <1>8, <3>1, <3>2, <4>1, <4>2
    <3>4. CASE ~StillWaiting(d)
      BY <1>1, <1>9, <3>4 DEF PairingInv, Skipped, FarApart
    <3> QED
      BY <3>3, <3>4
  <2> QED
    BY <2>1, <2>2
<1> QED
  BY <1>1, <1>7, <1>9 DEF Skipped, FarApart

LEMMA NextPairing == PairingInv /\ [Next]_vars => PairingInv'
<1> SUFFICES ASSUME PairingInv, [Next]_vars PROVE Skipped'
  BY NextMembers DEF PairingInv
<1>1. CASE Handler
  <2>1. at' = "idle"
    BY <1>1 DEF Handler, on_open, on_close, FindMatch, LeaveRoom, handleLogin, CreateRoom,
                JoinRoom, Message
  <2> QED
    BY <2>1 DEF Skipped
<1>2. CASE TimerFires \/ AutoResign \/ RoomsChecked \/ onMatchTimeout \/ QueueProcessed
  BY <1>2 DEF TimerFires, AutoResign, RoomsChecked, onMatchTimeout, QueueProcessed, Skipped
<1>3. CASE TimeoutsDone
  <2>1. /\ waiting' \in SetToSeqs(queue) /\ SortedByRating(waiting') /\ rating' = rating
        /\ queue' = queue /\ IsFiniteSet(queue)
    BY <1>3 DEF TimeoutsDone, PairingInv, MemberInv, LobbyOK
  <2>2. \A c \in queue : StillWaiting(c)'
    BY <2>1, Arranged DEF StillWaiting
  <2> QED
    BY <2>1, <2>2 DEF Skipped, SortedByRating
<1>4. CASE MatchFound \/ TooFarApart
  BY <1>4, MatchSkips, SkipSkips
<1>5. CASE UNCHANGED vars
  BY <1>5 DEF vars, PairingInv, Skipped, SortedByRating, StillWaiting, FarApart
<1> QED
  BY <1>1, <1>2, <1>3, <1>4, <1>5 DEF Next, Timer

(* When the pass over the queue ends, no two players are left in it whose  *)
(* ratings are close enough, although it only ever looks at neighbours.    *)
THEOREM PairingIsMaximal == Spec => NoMatchLeft
<1>1. Init => PairingInv
  BY InitMembers DEF Init, PairingInv, Skipped
<1>2. ASSUME PairingInv, [Next]_vars, at = "pairs", at' = "idle"
      PROVE  PairsLeft = {}
  <2>1. QueueProcessed
    BY <1>2 DEF Next, Handler, Timer, vars, on_open, on_close, FindMatch, LeaveRoom, handleLogin,
                CreateRoom, JoinRoom, Message, TimerFires, AutoResign, RoomsChecked,
                onMatchTimeout, TimeoutsDone, MatchFound, TooFarApart
  <2>2. Len(waiting) \in Nat /\ Len(waiting) < 2
    BY <2>1 DEF QueueProcessed, PairingInv, MemberInv, LobbyOK, TypeOK
  <2>3. \A c, d \in queue : c # d => ~StillWaiting(c) \/ ~StillWaiting(d)
    BY <2>2 DEF StillWaiting
  <2>4. \A c, d \in queue : c # d => FarApart(c, d)
    BY <1>2, <2>3 DEF PairingInv, Skipped, FarApart
  <2>5. \A c \in queue : rating[c] \in Nat
    BY <1>2, LobbyAssumption DEF PairingInv, MemberInv, LobbyOK, TypeOK
  <2> QED
    BY <2>4, <2>5, LobbyAssumption DEF FarApart, PairsLeft
<1>3. PairingInv /\ [Next]_vars => [at = "pairs" /\ at' = "idle" => PairsLeft = {}]_vars
  BY <1>2
<1> QED
  BY <1>1, <1>3, NextPairing, PTL DEF Spec, NoMatchLeft

-----------------------------------------------------------------------------
(* The sessions: the refinement of PlayerSession.                          *)

\* Where a session is, by the fields of the server.
PhaseFits(c) ==
  /\ socket[c] = "new" => Phase(c) = "new"
  /\ socket[c] = "open" =>
       /\ client[c].state = "CONNECTED" => Phase(c) = "connected"
       /\ client[c].state = "LOBBY" => Phase(c) = "lobby"
       /\ client[c].state = "IN_ROOM" => Phase(c) = "playing"
       /\ client[c].state \in {"IN_QUEUE", "None"} =>
            Phase(c) = IF c \in queue THEN "searching" ELSE "stranded"
  /\ socket[c] = "closed" =>
       Phase(c) = IF c \in queue THEN "goneSearching"
                  ELSE IF MemberOf(c) # {} THEN "ghost" ELSE "gone"

LEMMA PhaseOf ==
  ASSUME NEW c \in Connections
  PROVE  PhaseFits(c) /\ PhaseFits(c)'
BY DEF Phase, PhaseFits

MemberFits(c) ==
  /\ client[c].state = "IN_ROOM" => MemberOf(c) = {client[c].roomId}
  /\ client[c].state # "IN_ROOM" /\ ~Erased(c) => MemberOf(c) = {}
  /\ Erased(c) => MemberOf(c) \subseteq {NoRoom}
  /\ c \in queue => MemberOf(c) = {}

LEMMA MemberIs ==
  ASSUME MemberInv, NEW c \in Connections
  PROVE  MemberFits(c)
<1>1. \A r \in RoomIds : c \notin Forgotten(r) =>
        ((client[c].state = "IN_ROOM" /\ client[c].roomId = r)
           <=> (r \in DOMAIN rooms /\ rooms[r].players[c] # "None"))
  BY DEF MemberInv, Places, MembershipAgrees
<1>2. DOMAIN rooms \subseteq RoomIds /\ (client[c].state = "IN_ROOM" => client[c].roomId \in RoomIds)
  BY DEF MemberInv, LobbyOK, TypeOK, SessionsFit
<1>3. \A r : c \in Forgotten(r) <=> r = NoRoom /\ Erased(c)
  BY DEF Forgotten
<1>4. Erased(c) => client[c].state # "IN_ROOM"
  BY DEF Erased, NoClient
<1>5. c \in queue => MemberOf(c) = {}
  BY DEF MemberInv, Places, QueuedOutside, Outside, MemberOf
<1> QED
  BY <1>1, <1>2, <1>3, <1>4, <1>5 DEF MemberFits, MemberOf

LEMMA MemberIsNext ==
  ASSUME MemberInv', NEW c \in Connections
  PROVE  MemberFits(c)'
<1>1. \A r \in RoomIds : c \notin Forgotten(r)' =>
        ((client'[c].state = "IN_ROOM" /\ client'[c].roomId = r)
           <=> (r \in DOMAIN rooms' /\ rooms'[r].players[c] # "None"))
  BY DEF MemberInv, Places, MembershipAgrees
<1>2. DOMAIN rooms' \subseteq RoomIds /\ (client'[c].state = "IN_ROOM" => client'[c].roomId \in RoomIds)
  BY DEF MemberInv, LobbyOK, TypeOK, SessionsFit
<1>3. \A r : c \in Forgotten(r)' <=> r = NoRoom /\ Erased(c)'
  BY DEF Forgotten
<1>4. Erased(c)' => client'[c].state # "IN_ROOM"
  BY DEF Erased, NoClient
<1>5. c \in queue' => MemberOf(c)' = {}
  BY DEF MemberInv, Places, QueuedOutside, Outside, MemberOf
<1> QED
  BY <1>1, <1>2, <1>3, <1>4, <1>5 DEF MemberFits, MemberOf

Known(c) == PhaseFits(c) /\ MemberFits(c)

LEMMA SessionKnown ==
  ASSUME MemberInv, MemberInv', NEW c \in Connections
  PROVE  /\ Known(c) /\ Known(c)'
         /\ socket[c] \in {"new", "open", "closed"}
         /\ client[c].state \in ClientStates \union {"None"}
         /\ c \in queue => client[c].state = "IN_QUEUE" \/ (client[c].state = "None" /\ socket[c] = "closed")
         /\ socket[c] = "new" => client[c].state = "None" /\ c \notin queue
         /\ client[c].state = "IN_ROOM" => client[c].roomId \in RoomIds
         /\ client'[c].state = "IN_ROOM" => client'[c].roomId \in RoomIds
         /\ Erased(c) => socket[c] = "closed" /\ client[c].state = "None"
         /\ Erased(c)' => socket'[c] = "closed" /\ client'[c].state = "None"
<1>1. Known(c) /\ Known(c)'
  BY PhaseOf, MemberIs, MemberIsNext DEF Known
<1>2. socket[c] \in {"new", "open", "closed"} /\ client[c].state \in ClientStates \union {"None"}
  BY DEF MemberInv, LobbyOK, TypeOK
<1>3. /\ c \in queue => client[c].state = "IN_QUEUE" \/ (client[c].state = "None" /\ socket[c] = "closed")
      /\ socket[c] = "new" => client[c].state = "None" /\ c \notin queue
  BY FreshStates DEF MemberInv, SessionsFit
<1>4. /\ client[c].state = "IN_ROOM" => client[c].roomId \in RoomIds
      /\ client'[c].state = "IN_ROOM" => client'[c].roomId \in RoomIds
  BY DEF MemberInv, SessionsFit
<1>5. /\ Erased(c) => socket[c] = "closed" /\ client[c].state = "None"
      /\ Erased(c)' => socket'[c] = "closed" /\ client'[c].state = "None"
  BY DEF Erased, NoClient
<1> QED
  BY <1>1, <1>2, <1>3, <1>4, <1>5

\* A player that a step neither adds to a room nor removes from one.
PlayerStays(d) ==
  /\ \A r \in DOMAIN rooms : r \in DOMAIN rooms' /\ rooms'[r].players[d] = rooms[r].players[d]
  /\ \A r \in DOMAIN rooms' : r \notin DOMAIN rooms => rooms'[r].players[d] = "None"

LEMMA MemberStays ==
  ASSUME NEW d, PlayerStays(d)
  PROVE  MemberOf(d)' = MemberOf(d)
BY DEF PlayerStays, MemberOf

Same(c) == Stays(c) /\ PlayerStays(c) /\ (c \in queue' <=> c \in queue)

LEMMA SameSession ==
  ASSUME NEW c \in Connections, Same(c)
  PROVE  Phase(c)' = Phase(c) /\ MemberOf(c)' = MemberOf(c)
<1>1. MemberOf(c)' = MemberOf(c)
  BY MemberStays DEF Same
<1>2. Phase(c)' = Phase(c)
  BY <1>1 DEF Same, Stays, Phase
<1> QED
  BY <1>1, <1>2

\* What a room makes of one player does not touch the others.
LEMMA RoomMates ==
  ASSUME NEW room \in RoomType, NEW c \in Connections, NEW d \in Connections, c # d,
         NEW u \in Names
  PROVE  /\ addClient(room, c, u).players[d] = room.players[d]
         /\ removeClient(room, c).players[d] = room.players[d]
         /\ handlePlayerDisconnect(room, c).players[d] = room.players[d]
<1>1. addClient(room, c, u).players = [room.players EXCEPT ![c] = FreeRole(room)]
  BY AddedPlayer
<1>2. removeClient(room, c).players = [room.players EXCEPT ![c] = "None"]
  BY RemovedPlayer
<1>3. handlePlayerDisconnect(room, c).players = removeClient(room, c).players
  BY DisconnectedPlayer
<1>4. room.players \in [Connections -> Roles \union {"None"}]
  BY RoomFields
<1> QED
  BY <1>1, <1>2, <1>3, <1>4

\* A handler moves the player whose message or connection it handles only.
LEMMA OthersPlayOn ==
  ASSUME TypeOK, NEW c \in Connections, NEW d \in Connections, c # d,
         \/ on_open(c) \/ on_close(c) \/ FindMatch(c) \/ LeaveRoom(c)
         \/ \E u \in Users : handleLogin(c, u)
         \/ \E r \in RoomNames : CreateRoom(c, r)
         \/ \E r \in RoomIds : JoinRoom(c, r)
  PROVE  PlayerStays(d)
<1>1. CASE rooms' = rooms
  BY <1>1 DEF PlayerStays
<1>2. ASSUME NEW r, NEW new, rooms' = [rooms EXCEPT ![r] = new],
             r \in DOMAIN rooms => new.players[d] = rooms[r].players[d]
      PROVE  PlayerStays(d)
  BY <1>2 DEF PlayerStays
<1>3. ASSUME NEW r, NEW all, EnterRoom(all, c, r), DOMAIN all = DOMAIN rooms \union {r},
             \A q \in DOMAIN rooms : all[q] = rooms[q],
             r \notin DOMAIN rooms => all[r] = NewRoom
      PROVE  PlayerStays(d)
  <2> DEFINE u == client[c].username
             new == addClient(all[r], c, u)
  <2>1. all[r] \in RoomType /\ u \in Names
    BY <1>3, NewRoomType DEF TypeOK
  <2>2. new.players[d] = all[r].players[d]
    BY <2>1, RoomMates
  <2>3. NewRoom.players[d] = "None"
    BY DEF NewRoom
  <2>4. rooms' = [all EXCEPT ![r] = new]
    BY <1>3 DEF EnterRoom
  <2> HIDE DEF new
  <2> QED
    BY <1>3, <2>2, <2>3, <2>4 DEF PlayerStays
<1>4. \A r \in DOMAIN rooms :
        /\ removeClient(rooms[r], c).players[d] = rooms[r].players[d]
        /\ handlePlayerDisconnect(rooms[r], c).players[d] = rooms[r].players[d]
  BY RoomMates DEF TypeOK, Names
<1>5. CASE on_close(c)
  BY <1>1, <1>2, <1>4, <1>5 DEF on_close
<1>6. CASE LeaveRoom(c)
  BY <1>2, <1>4, <1>6 DEF LeaveRoom
<1>7. CASE \E r \in RoomNames : CreateRoom(c, r)
  <2>1. PICK r \in RoomNames : r \notin DOMAIN rooms /\ EnterRoom(WithRoom(r, NewRoom), c, r)
    BY <1>7 DEF CreateRoom
  <2> DEFINE all == WithRoom(r, NewRoom)
  <2>2. /\ DOMAIN all = DOMAIN rooms \union {r} /\ all[r] = NewRoom
        /\ \A q \in DOMAIN rooms : all[q] = rooms[q]
    BY <2>1 DEF WithRoom
  <2>3. EnterRoom(all, c, r)
    BY <2>1
  <2> HIDE DEF all
  <2> QED
    BY <1>3, <2>2, <2>3
<1>8. CASE \E r \in RoomIds : JoinRoom(c, r)
  <2>1. PICK r \in RoomIds : r \in DOMAIN rooms /\ EnterRoom(rooms, c, r)
    BY <1>8 DEF JoinRoom
  <2>2. DOMAIN rooms = DOMAIN rooms \union {r}
    BY <2>1
  <2> QED
    BY <1>3, <2>1, <2>2
<1>9. CASE on_open(c) \/ FindMatch(c) \/ \E u \in Users : handleLogin(c, u)
  BY <1>1, <1>9 DEF on_open, FindMatch, handleLogin
<1> QED
  BY <1>5, <1>6, <1>7, <1>8, <1>9

LEMMA NobodyMoved ==
  ASSUME MemberInv, MemberInv', \A c \in Connections : Same(c)
  PROVE  UNCHANGED Sessions!vars
<1>1. \A c \in Connections : Phase(c)' = Phase(c) /\ MemberOf(c)' = MemberOf(c)
  BY SameSession
<1> QED
  BY <1>1 DEF Sessions!vars

\* A step that changes the session of one player.
LEMMA OneMoves ==
  ASSUME MemberInv, MemberInv', NEW c \in Connections,
         \A d \in Connections \ {c} : Same(d),
         NEW next, NEW in, Phase(c)' = next, MemberOf(c)' = in
  PROVE  Sessions!Moves(c, next, in)
<1>1. \A d \in Connections \ {c} : Phase(d)' = Phase(d) /\ MemberOf(d)' = MemberOf(d)
  BY SameSession
<1> QED
  BY <1>1 DEF Sessions!Moves

LEMMA ConnectionRefined ==
  ASSUME MemberInv, MemberInv', NEW c \in Connections, on_open(c) \/ on_close(c)
  PROVE  Sessions!Alone(c)
<1>1. /\ c \in queue' <=> c \in queue
      /\ \/ socket[c] = "new" /\ socket'[c] = "open" /\ client'[c].state = "CONNECTED"
         \/ socket[c] = "open" /\ socket'[c] = "closed" /\ client'[c].state = "None"
  BY FreshStates DEF on_open, on_close, MemberInv, LobbyOK, TypeOK
<1>2. \A d \in Connections \ {c} : Same(d)
  <2>1. TypeOK /\ \A d \in Connections \ {c} : client'[d] = client[d]
    BY DEF on_open, on_close, MemberInv, LobbyOK, TypeOK
  <2>2. \A d \in Connections \ {c} : Stays(d)
    BY <2>1, OthersStay DEF on_open, on_close
  <2>3. \A d \in Connections \ {c} : PlayerStays(d)
    BY <2>1, OthersPlayOn
  <2>4. queue' = queue
    BY DEF on_open, on_close
  <2> QED
    BY <2>2, <2>3, <2>4 DEF Same
<1>3. CASE socket[c] = "new"
  <2>1. Phase(c) = "new" /\ Phase(c)' = "connected" /\ MemberOf(c)' = {}
    BY <1>1, <1>3, SessionKnown DEF Known, PhaseFits, MemberFits
  <2>2. Sessions!Open(c)
    BY <1>2, <2>1, OneMoves DEF Sessions!Open
  <2> QED
    BY <2>2 DEF Sessions!Alone
<1>4. CASE socket[c] = "open"
  <2>1. Phase(c) = IF c \in queue THEN "searching"
                   ELSE CASE client[c].state = "CONNECTED" -> "connected"
                          [] client[c].state = "LOBBY" -> "lobby"
                          [] client[c].state = "IN_ROOM" -> "playing"
                          [] OTHER -> "stranded"
    BY <1>4, SessionKnown DEF Known, PhaseFits, ClientStates
  <2>2. Phase(c)' = IF c \in queue THEN "goneSearching"
                    ELSE IF MemberOf(c)' # {} THEN "ghost" ELSE "gone"
    BY <1>1, <1>4, SessionKnown DEF Known, PhaseFits
  <2>3. MemberOf(c)' \subseteq {NoRoom} /\ (c \in queue => MemberOf(c)' = {})
    BY <1>1, <1>4, SessionKnown DEF Known, MemberFits
  <2>4. /\ client[c].state # "IN_ROOM" => MemberOf(c) = {}
        /\ client[c].state = "IN_ROOM" => MemberOf(c) = {client[c].roomId}
    BY <1>4, SessionKnown DEF Known, MemberFits
  <2>5. on_close(c)
    BY <1>4 DEF on_open
  <2>6. CASE MemberOf(c) = {NoRoom}
    <3>1. client[c].state = "IN_ROOM" /\ client[c].roomId = NoRoom
      BY <2>4, <2>6
    <3>2. rooms' = rooms
      BY <2>5, <3>1 DEF on_close
    <3>3. MemberOf(c)' = {NoRoom}
      BY <2>6, <3>2 DEF MemberOf
    <3>4. c \notin queue
      BY <3>1, SessionKnown
    <3>5. Phase(c) = "playing" /\ Phase(c)' = "ghost"
      BY <2>1, <2>2, <3>1, <3>3, <3>4
    <3>6. Sessions!Close(c)
      BY <1>2, <2>6, <3>3, <3>5, OneMoves DEF Sessions!Close
    <3> QED
      BY <3>6 DEF Sessions!Alone
  <2>7. CASE MemberOf(c) # {NoRoom}
    <3>1. MemberOf(c)' = {}
      <4>1. CASE NoRoom \in MemberOf(c)'
        <5>1. NoRoom \in DOMAIN rooms /\ rooms[NoRoom].players[c] # "None"
          BY <2>5, <4>1 DEF MemberOf, on_close
        <5> QED
          BY <2>4, <2>7, <5>1 DEF MemberOf
      <4> QED
        BY <2>3, <4>1
    <3>2. CASE c \in queue
      <4>1. Sessions!Close(c)
        BY <1>2, <2>1, <2>2, <3>1, <3>2, OneMoves DEF Sessions!Close
      <4> QED
        BY <4>1 DEF Sessions!Alone
    <3>3. CASE c \notin queue
      <4>1. /\ Phase(c) \in {"connected", "lobby", "stranded", "playing"}
            /\ Phase(c)' = "gone"
        BY <2>1, <2>2, <3>1, <3>3
      <4>2. Sessions!Close(c)
        BY <1>2, <2>7, <3>1, <4>1, OneMoves DEF Sessions!Close
      <4> QED
        BY <4>2 DEF Sessions!Alone
    <3> QED
      BY <3>2, <3>3
  <2> QED
    BY <2>6, <2>7
<1> QED
  BY <1>1, <1>3, <1>4

\* What a message does to the session of its sender, in terms of its state.
LEMMA MessageRefined ==
  ASSUME MemberInv, MemberInv', NEW c \in Connections,
         \/ FindMatch(c) \/ LeaveRoom(c)
         \/ \E u \in Users : handleLogin(c, u)
         \/ \E r \in RoomNames : CreateRoom(c, r)
         \/ \E r \in RoomIds : JoinRoom(c, r)
  PROVE  Sessions!Alone(c)
<1>1. /\ socket[c] = "open" /\ socket' = socket
      /\ \A d \in Connections \ {c} : client'[d] = client[d] /\ (d \in queue' <=> d \in queue)
  BY DEF FindMatch, LeaveRoom, handleLogin, CreateRoom, JoinRoom, EnterRoom, Message,
         MemberInv, LobbyOK, TypeOK
<1>3. TypeOK
  BY DEF MemberInv, LobbyOK
<1>2. \A d \in Connections \ {c} : Same(d)
  BY <1>1, <1>3, OthersPlayOn DEF Same, Stays
<1>4. CASE FindMatch(c)
  <2>1. client[c].state = "LOBBY" /\ client'[c].state = "IN_QUEUE" /\ c \in queue'
    BY <1>3, <1>4, SessionStates DEF FindMatch, Message
  <2>2. Phase(c) = "lobby" /\ Phase(c)' = "searching" /\ MemberOf(c)' = {}
    BY <1>1, <2>1, SessionKnown DEF Known, PhaseFits, MemberFits
  <2>3. Sessions!Search(c)
    BY <1>2, <2>2, OneMoves DEF Sessions!Search
  <2> QED
    BY <2>3 DEF Sessions!Alone
<1>5. CASE LeaveRoom(c)
  <2>1. client[c].state = "IN_ROOM" /\ client'[c].state = "LOBBY"
    BY <1>3, <1>5, SessionStates DEF LeaveRoom, Message
  <2>2. Phase(c) = "playing" /\ Phase(c)' = "lobby" /\ MemberOf(c)' = {}
    BY <1>1, <2>1, SessionKnown DEF Known, PhaseFits, MemberFits
  <2>3. Sessions!Leave(c)
    BY <1>2, <2>2, OneMoves DEF Sessions!Leave
  <2> QED
    BY <2>3 DEF Sessions!Alone
<1>6. CASE \E u \in Users : handleLogin(c, u)
  <2>1. client[c].state = "CONNECTED" /\ client'[c].state = "LOBBY"
    <3>1. PICK u \in Users : handleLogin(c, u)
      BY <1>6
    <3> QED
      BY <1>3, <3>1, SessionStates DEF handleLogin, Message
  <2>2. Phase(c) = "connected" /\ Phase(c)' = "lobby" /\ MemberOf(c)' = {}
    BY <1>1, <2>1, SessionKnown DEF Known, PhaseFits, MemberFits
  <2>3. Sessions!Login(c)
    BY <1>2, <2>2, OneMoves DEF Sessions!Login
  <2> QED
    BY <2>3 DEF Sessions!Alone
<1>7. ASSUME NEW r \in RoomIds, NEW all, EnterRoom(all, c, r), client[c].state = "LOBBY"
      PROVE  Sessions!Alone(c)
  <2>1. client'[c].state = "IN_ROOM"
    <3>1. client[c] \in ClientType /\ client'[c] = InRoom(client[c], r)
      BY <1>3, <1>7 DEF EnterRoom, TypeOK, ClientType
    <3> QED
      BY <3>1, InRoomFields
  <2>2. client'[c].roomId \in RoomIds
    BY <2>1, SessionKnown
  <2>3. Phase(c) = "lobby" /\ Phase(c)' = "playing" /\ MemberOf(c)' = {client'[c].roomId}
    BY <1>1, <1>7, <2>1, SessionKnown DEF Known, PhaseFits, MemberFits
  <2>4. Sessions!Enter(c)
    BY <1>2, <2>2, <2>3, OneMoves DEF Sessions!Enter
  <2> QED
    BY <2>4 DEF Sessions!Alone
<1>8. CASE \E r \in RoomNames : CreateRoom(c, r)
  <2>1. PICK r \in RoomNames : CreateRoom(c, r)
    BY <1>8
  <2> DEFINE all == WithRoom(r, NewRoom)
  <2>2. r \in RoomIds /\ EnterRoom(all, c, r) /\ client[c].state = "LOBBY"
    BY <2>1 DEF CreateRoom, Message, RoomIds
  <2> HIDE DEF all
  <2> QED
    BY <1>7, <2>2
<1>9. CASE \E r \in RoomIds : JoinRoom(c, r)
  BY <1>7, <1>9 DEF JoinRoom, Message
<1> QED
  BY <1>4, <1>5, <1>6, <1>8, <1>9

LEMMA TimeoutRefined ==
  ASSUME MemberInv, MemberInv', onMatchTimeout
  PROVE  \E c \in Connections : Sessions!Alone(c)
<1>1. PICK c \in queue :
        /\ queue' = queue \ {c}
        /\ client' = [client EXCEPT ![c] = [SessionOf(c) EXCEPT !.state = "LOBBY"]]
  BY DEF onMatchTimeout
<1>2. c \in Connections /\ TypeOK /\ socket' = socket
  BY DEF MemberInv, LobbyOK, TypeOK, onMatchTimeout
<1>3. client'[c].state = "LOBBY" /\ \A d \in Connections \ {c} : client'[d] = client[d]
  <2> DEFINE new == [SessionOf(c) EXCEPT !.state = "LOBBY"]
  <2>1. new.state = "LOBBY" /\ client' = [client EXCEPT ![c] = new]
    BY <1>1, <1>2, SessionStates
  <2> HIDE DEF new
  <2> QED
    BY <1>2, <2>1, OthersUnchanged
<1>4. \A d \in Connections \ {c} : Same(d)
  BY <1>1, <1>2, <1>3 DEF Same, Stays, PlayerStays, onMatchTimeout
<1>5. MemberOf(c)' = {} /\ c \notin queue'
  BY <1>1, <1>2, <1>3, SessionKnown DEF Known, MemberFits
<1>6. CASE socket[c] = "open"
  <2>1. Phase(c) = "searching" /\ Phase(c)' = "lobby"
    BY <1>1, <1>2, <1>3, <1>6, SessionKnown DEF Known, PhaseFits
  <2>2. Sessions!GiveUp(c)
    BY <1>2, <1>4, <1>5, <2>1, OneMoves DEF Sessions!GiveUp
  <2> QED
    BY <1>2, <2>2 DEF Sessions!Alone
<1>7. CASE socket[c] = "closed"
  <2>1. Phase(c) = "goneSearching" /\ Phase(c)' = "gone"
    BY <1>1, <1>2, <1>3, <1>5, <1>7, SessionKnown DEF Known, PhaseFits
  <2>2. Sessions!Forget(c)
    BY <1>2, <1>4, <1>5, <2>1, OneMoves DEF Sessions!Forget
  <2> QED
    BY <1>2, <2>2 DEF Sessions!Alone
<1> QED
  BY <1>1, <1>2, <1>6, <1>7, SessionKnown

\* A step that changes the sessions of two.
LEMMA TwoMove ==
  ASSUME MemberInv, MemberInv', NEW c \in Connections, NEW d \in Connections, c # d,
         \A e \in Connections \ {c, d} : Same(e),
         NEW s, NEW t, Phase(c)' = s, Phase(d)' = t
  PROVE  /\ [e \in Connections |-> Phase(e)]'
              = [[e \in Connections |-> Phase(e)] EXCEPT ![c] = s, ![d] = t]
         /\ \A r : MemberOf(c)' = {r} /\ MemberOf(d)' = {r} =>
              [e \in Connections |-> MemberOf(e)]'
                = [[e \in Connections |-> MemberOf(e)] EXCEPT ![c] = {r}, ![d] = {r}]
         /\ MemberOf(c)' = MemberOf(c) /\ MemberOf(d)' = MemberOf(d) =>
              UNCHANGED [e \in Connections |-> MemberOf(e)]
<1>1. \A e \in Connections \ {c, d} : Phase(e)' = Phase(e) /\ MemberOf(e)' = MemberOf(e)
  BY SameSession
<1>2. [e \in Connections |-> Phase(e)]'
        = [[e \in Connections |-> Phase(e)] EXCEPT ![c] = s, ![d] = t]
  BY <1>1
<1>3. ASSUME NEW r, MemberOf(c)' = {r}, MemberOf(d)' = {r}
      PROVE  [e \in Connections |-> MemberOf(e)]'
               = [[e \in Connections |-> MemberOf(e)] EXCEPT ![c] = {r}, ![d] = {r}]
  BY <1>1, <1>3
<1>4. ASSUME MemberOf(c)' = MemberOf(c), MemberOf(d)' = MemberOf(d)
      PROVE  UNCHANGED [e \in Connections |-> MemberOf(e)]
  BY <1>1, <1>4
<1> QED
  BY <1>2, <1>3, <1>4

\* What the matchmaker does to the two it takes out of its queue.
LEMMA TwoTaken ==
  ASSUME MemberInv, MemberInv', NEW c \in Connections, NEW d \in Connections, c # d,
         \A e \in Connections \ {c, d} : Same(e),
         Phase(c) \in {"searching", "goneSearching"},
         Phase(d) \in {"searching", "goneSearching"},
         MemberOf(c) = {}, MemberOf(d) = {}
  PROVE  /\ /\ Phase(c)' = (IF Phase(c) = "searching" THEN "stranded" ELSE "gone")
            /\ Phase(d)' = (IF Phase(d) = "searching" THEN "stranded" ELSE "gone")
            /\ MemberOf(c)' = {} /\ MemberOf(d)' = {}
            => Sessions!Strand(c, d)
         /\ \A r \in RoomIds :
              /\ Phase(c)' = (IF Phase(c) = "searching" THEN "playing" ELSE "ghost")
              /\ Phase(d)' = (IF Phase(d) = "searching" THEN "playing" ELSE "ghost")
              /\ r # NoRoom /\ MemberOf(c)' = {r} /\ MemberOf(d)' = {r}
              /\ \A e \in Connections : r \notin MemberOf(e)
              => Sessions!Match(c, d)
<1> DEFINE phases == [e \in Connections |-> Phase(e)]
           members == [e \in Connections |-> MemberOf(e)]
<1>1. Sessions!Queued(c) /\ Sessions!Queued(d)
  BY DEF Sessions!Queued
<1>2. /\ Sessions!Matched(c) = (IF Phase(c) = "searching" THEN "playing" ELSE "ghost")
      /\ Sessions!Matched(d) = (IF Phase(d) = "searching" THEN "playing" ELSE "ghost")
      /\ Sessions!Unmatched(c) = (IF Phase(c) = "searching" THEN "stranded" ELSE "gone")
      /\ Sessions!Unmatched(d) = (IF Phase(d) = "searching" THEN "stranded" ELSE "gone")
  BY DEF Sessions!Matched, Sessions!Unmatched
<1>3. /\ phases' = [phases EXCEPT ![c] = Phase(c)', ![d] = Phase(d)']
      /\ \A r : MemberOf(c)' = {r} /\ MemberOf(d)' = {r} =>
           members' = [members EXCEPT ![c] = {r}, ![d] = {r}]
      /\ MemberOf(c)' = MemberOf(c) /\ MemberOf(d)' = MemberOf(d) => members' = members
  BY TwoMove
<1>4. ASSUME Phase(c)' = Sessions!Unmatched(c), Phase(d)' = Sessions!Unmatched(d),
             MemberOf(c)' = {}, MemberOf(d)' = {}
      PROVE  Sessions!Strand(c, d)
  <2>1. phases' = [phases EXCEPT ![c] = Sessions!Unmatched(c), ![d] = Sessions!Unmatched(d)]
    BY <1>3, <1>4
  <2>2. members' = members
    BY <1>3, <1>4
  <2> QED
    BY <1>1, <2>1, <2>2 DEF Sessions!Strand
<1>5. ASSUME NEW r \in RoomIds, r # NoRoom, Phase(c)' = Sessions!Matched(c), Phase(d)' = Sessions!Matched(d),
             MemberOf(c)' = {r}, MemberOf(d)' = {r}, \A e \in Connections : r \notin MemberOf(e)
      PROVE  Sessions!Match(c, d)
  <2>1. phases' = [phases EXCEPT ![c] = Sessions!Matched(c), ![d] = Sessions!Matched(d)]
    BY <1>3, <1>5
  <2>2. members' = [members EXCEPT ![c] = {r}, ![d] = {r}]
    BY <1>3, <1>5
  <2>3. \A e \in Connections : r \notin members[e]
    BY <1>5
  <2> QED
    BY <1>1, <1>5, <2>1, <2>2, <2>3 DEF Sessions!Match
<1> QED
  BY <1>2, <1>4, <1>5

\* The matchmaker calls onMatchFound for two that are in its queue.
LEMMA MatchRefined ==
  ASSUME MemberInv, MemberInv', MatchFound
  PROVE  \E c, d \in Connections : Sessions!Match(c, d) \/ Sessions!Strand(c, d)
<1>0. PICK c \in Connections, d \in Connections : waiting[1] = c /\ waiting[2] = d
  BY DEF MatchFound, MemberInv, LobbyOK, WaitingFits, TypeOK
<1>1. TypeOK /\ c \in queue /\ d \in queue /\ c # d
  BY <1>0 DEF MatchFound, MemberInv, LobbyOK, WaitingFits, Injective, TypeOK
<1>2. socket' = socket /\ queue' = queue \ {c, d} /\ onMatchFound(c, d)
  BY <1>0 DEF MatchFound
<1>3. PICK clients \in [Connections -> ClientType], r \in RoomIds :
         LET room == addClient(addClient(NewRoom, c, clients[c].username), d, clients[d].username)
         IN  /\ clients = [client EXCEPT ![c] = SessionOf(c), ![d] = SessionOf(d)]
             /\ r # NoRoom
             /\ \/ client' = clients /\ rooms' = rooms
                \/ /\ r \notin DOMAIN rooms
                   /\ client' = [clients EXCEPT ![c] = InRoom(clients[c], r),
                                                ![d] = InRoom(clients[d], r)]
                   /\ rooms' = WithRoom(r, room)
  BY <1>1, <1>2, MatchOf
<1>4. /\ clients[c].state \in {client[c].state, "CONNECTED"}
      /\ clients[d].state \in {client[d].state, "CONNECTED"}
      /\ client[c].state # "None" => clients[c] = client[c]
      /\ client[d].state # "None" => clients[d] = client[d]
      /\ \A e \in Connections \ {c, d} : clients[e] = client[e]
  BY <1>1, <1>3, SessionStates DEF SessionOf
<1> DEFINE Pair == /\ r \notin DOMAIN rooms
                   /\ client' = [clients EXCEPT ![c] = InRoom(clients[c], r),
                                                ![d] = InRoom(clients[d], r)]
                   /\ rooms' = WithRoom(r, addClient(addClient(NewRoom, c, clients[c].username),
                                                     d, clients[d].username))
<1>5. \A e \in Connections \ {c, d} : Same(e)
  <2>1. \A e \in Connections \ {c, d} : Stays(e) /\ (e \in queue' <=> e \in queue)
    BY <1>1, <1>2, <1>3, <1>4 DEF Stays
  <2>2. CASE rooms' = rooms
    BY <2>1, <2>2 DEF Same, PlayerStays
  <2>3. CASE Pair
    <3>1. client'[c] = InRoom(clients[c], r) /\ client'[d] = InRoom(clients[d], r)
      BY <1>1, <1>3, <2>3
    <3>2. \A e \in Connections \ {c, d} : rooms'[r].players[e] = "None"
      BY <1>1, <1>2, <2>1, <2>3, <3>1, NewPair DEF MemberInv
    <3>3. /\ DOMAIN rooms' = DOMAIN rooms \union {r}
          /\ \A q \in DOMAIN rooms : rooms'[q] = rooms[q]
      BY <2>3 DEF WithRoom
    <3> QED
      BY <2>1, <2>3, <3>2, <3>3 DEF Same, PlayerStays
  <2> QED
    BY <1>3, <2>2, <2>3
<1>6. /\ Phase(c) = IF socket[c] = "open" THEN "searching" ELSE "goneSearching"
      /\ Phase(d) = IF socket[d] = "open" THEN "searching" ELSE "goneSearching"
      /\ socket[c] \in {"open", "closed"} /\ socket[d] \in {"open", "closed"}
      /\ MemberOf(c) = {} /\ MemberOf(d) = {}
  BY <1>1, SessionKnown DEF Known, PhaseFits, MemberFits
<1>7. CASE client' = clients /\ rooms' = rooms
  <2>1. /\ client'[c].state # "IN_ROOM" /\ client'[d].state # "IN_ROOM"
        /\ socket[c] = "open" => client'[c].state = "IN_QUEUE"
        /\ socket[d] = "open" => client'[d].state = "IN_QUEUE"
    BY <1>1, <1>4, <1>7, SessionKnown
  <2>2. /\ Phase(c)' = IF socket[c] = "open" THEN "stranded" ELSE "gone"
        /\ Phase(d)' = IF socket[d] = "open" THEN "stranded" ELSE "gone"
        /\ MemberOf(c)' = {} /\ MemberOf(d)' = {}
    <3>1. /\ socket' = socket /\ c \notin queue' /\ d \notin queue'
          /\ \A e \in {c, d} : PhaseFits(e)'
      BY <1>1, <1>2, SessionKnown DEF Known
    <3>2. MemberOf(c)' = {} /\ MemberOf(d)' = {}
      BY <1>6, <1>7 DEF MemberOf
    <3> QED
      BY <1>6, <2>1, <3>1, <3>2 DEF PhaseFits
  <2>3. Sessions!Strand(c, d)
    BY <1>1, <1>5, <1>6, <2>2, TwoTaken
  <2> QED
    BY <1>1, <2>3
<1>8. CASE Pair
  <2>1. \A e \in {c, d} : client'[e].state = "IN_ROOM" /\ client'[e].roomId = r
    <3>1. clients[c] \in ClientType /\ clients[d] \in ClientType
      BY <1>1, <1>3
    <3>2. client'[c] = InRoom(clients[c], r) /\ client'[d] = InRoom(clients[d], r)
      BY <1>1, <1>3, <1>8
    <3> QED
      BY <3>1, <3>2, InRoomFields
  <2>2. /\ Phase(c)' = IF socket[c] = "open" THEN "playing" ELSE "ghost"
        /\ Phase(d)' = IF socket[d] = "open" THEN "playing" ELSE "ghost"
        /\ MemberOf(c)' = {r} /\ MemberOf(d)' = {r}
    BY <1>1, <1>2, <1>6, <2>1, SessionKnown DEF Known, PhaseFits, MemberFits
  <2>3. \A e \in Connections : r \notin MemberOf(e)
    BY <1>8 DEF MemberOf
  <2>4. Sessions!Match(c, d)
    BY <1>1, <1>3, <1>5, <1>6, <2>2, <2>3, TwoTaken
  <2> QED
    BY <1>1, <2>4
<1> QED
  BY <1>3, <1>7, <1>8

\* The server's sessions go only where PlayerSession lets them go, however
\* messages, closes and timers fall: nobody is in two rooms, in a room
\* unasked, or comes back from a closed connection; and whoever is led astray
\* was taken from the queue without a room, or after it had disconnected, or
\* has closed its connection in the room without a name.
THEOREM LobbyImplementsSessions == Spec => ImplementsSessions
<1>1. Init => Sessions!Init
  <2> SUFFICES ASSUME Init PROVE Sessions!Init
    OBVIOUS
  <2>1. \A c \in Connections : Phase(c) = "new" /\ MemberOf(c) = {}
    BY DEF Init, Phase, MemberOf
  <2> QED
    BY <2>1 DEF Sessions!Init
<1>2. MemberInv /\ [Next]_vars => [Sessions!Next]_(Sessions!vars)
  <2> SUFFICES ASSUME MemberInv, MemberInv', [Next]_vars
               PROVE  Sessions!Next \/ UNCHANGED Sessions!vars
    BY NextMembers
  <2>1. CASE Handler
    BY <2>1, ConnectionRefined, MessageRefined DEF Handler, Sessions!Next
  <2>2. CASE onMatchTimeout
    BY <2>2, TimeoutRefined DEF Sessions!Next
  <2>3. CASE MatchFound
    BY <2>3, MatchRefined DEF Sessions!Next
  <2>4. CASE \/ TimerFires \/ AutoResign \/ RoomsChecked \/ TimeoutsDone
             \/ TooFarApart \/ QueueProcessed \/ UNCHANGED vars
    <3>1. client' = client /\ socket' = socket /\ queue' = queue
      BY <2>4 DEF TimerFires, AutoResign, RoomsChecked, TimeoutsDone, TooFarApart, QueueProcessed, vars
    <3>2. \A c \in Connections : PlayerStays(c)
      <4>1. CASE TimerFires \/ AutoResign \/ RoomsChecked
        BY <4>1, CheckKeepsSeats DEF PlayerStays, MemberInv
      <4>2. CASE TimeoutsDone \/ TooFarApart \/ QueueProcessed \/ UNCHANGED vars
        BY <4>2 DEF TimeoutsDone, TooFarApart, QueueProcessed, vars, PlayerStays
      <4> QED
        BY <2>4, <4>1, <4>2
    <3> QED
      BY <3>1, <3>2, NobodyMoved DEF Same, Stays
  <2> QED
    BY <2>1, <2>2, <2>3, <2>4 DEF Next, Timer
<1> QED
  BY <1>1, <1>2, InitMembers, NextMembers, PTL DEF Spec, ImplementsSessions, Sessions!Spec
=============================================================================
