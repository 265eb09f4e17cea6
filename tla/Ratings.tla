------------------------------ MODULE Ratings ------------------------------
(***************************************************************************)
(* Who wins and loses rating points at the end of a game.                  *)
(*                                                                         *)
(* GameSession::processGameOver reads the two names of the room, looks     *)
(* both up in the Users table, and writes two rows: four accesses, with    *)
(* the names read again for each.  It holds no lock.  Meanwhile the        *)
(* network thread changes the names (addClient, removeClient), other       *)
(* workers do the same for this room (SessionPool), and others do it for   *)
(* another room of the same user.  The names are strings that are read     *)
(* without the lock they are written under: who reads during a change may  *)
(* see the old name, the new one, or no name that has an account.          *)
(* Each call of UserRepository is one statement, and atomic.               *)
(***************************************************************************)
EXTENDS Integers, FiniteSets

CONSTANTS Users, Rooms, Workers,
          Waiting,           \* "Waiting...", the name in an empty seat: an account may have it
          NoUser,            \* what a torn name reads as: no account has it
          StartRating,       \* of a new account
          Thresholds,        \* leads of the loser from which on the winner gets one point more
          MaxSeatings        \* bound: seats change this often

ASSUME RatingsAssumption ==
  /\ NoUser \notin Users \union {Waiting} /\ "None" \notin Rooms
  /\ StartRating \in Int
  /\ IsFiniteSet(Thresholds) /\ Thresholds \subseteq Int

Colors == {"White", "Black"}
Opponent(color) == CHOOSE other \in Colors : other # color

VARIABLES
  row,           \* the Users table: the rating of each account
  taken,         \* whiteTaken and blackTaken of each room
  name,          \* m_whiteName and m_blackName of each room
  change,        \* the seat the network thread is renaming, if any
  winner,        \* of each room: the snapshot's winner, "None" while the game is on
  eloUpdated,    \* of each room
  at, room,      \* of each worker: where it is in update, and for which room
  seen,          \* of each worker: whiteUser and blackUser
  gained, lost,  \* history: points that the updates gave to and took from each account
  crossed,       \* history: accounts that got a rating computed from another account's
  steady,        \* history: rooms where no seat has changed since the king fell
  rated,         \* history: the accounts that each room's game has rated
  settlements,   \* history: how often each worker has rated each room's game
  seatings       \* bound

tableVars   == <<row, gained, lost, crossed, rated>>
seatVars    == <<taken, name, change, seatings>>
workVars    == <<at, room, seen, settlements>>
vars == <<tableVars, seatVars, winner, steady, eloUpdated, workVars>>

Accounts == DOMAIN row
NoChange == [room |-> "None", color |-> "None", user |-> NoUser]
NotFound == [user |-> NoUser, rating |-> 0]

Init ==
  /\ row = [u \in {} |-> 0]
  /\ taken = [r \in Rooms |-> [c \in Colors |-> FALSE]]
  /\ name = [r \in Rooms |-> [c \in Colors |-> Waiting]]
  /\ change = NoChange
  /\ winner = [r \in Rooms |-> "None"]
  /\ eloUpdated = [r \in Rooms |-> FALSE]
  /\ at = [w \in Workers |-> "idle"]
  /\ room \in [Workers -> Rooms]
  /\ seen = [w \in Workers |-> [c \in Colors |-> NotFound]]
  /\ gained = [u \in Users |-> 0] /\ lost = [u \in Users |-> 0]
  /\ crossed = {}
  /\ steady = {}
  /\ rated = [r \in Rooms |-> {}]
  /\ settlements = [r \in Rooms |-> [w \in Workers |-> 0]]
  /\ seatings = 0

-----------------------------------------------------------------------------
(* The network thread: accounts and seats.                                 *)

\* AuthHandler::handleLogin of a new name, UserRepository::create: any name,
\* the one of an empty seat too.
create(u) ==
  /\ u \notin Accounts
  /\ row' = [v \in Accounts \union {u} |-> IF v = u THEN StartRating ELSE row[v]]
  /\ UNCHANGED <<gained, lost, crossed, rated, seatVars, winner, steady, eloUpdated, workVars>>

BeginChange(r, c, u, takes) ==
  /\ change = NoChange /\ seatings < MaxSeatings
  /\ taken' = [taken EXCEPT ![r][c] = takes]
  /\ change' = [room |-> r, color |-> c, user |-> u]
  /\ seatings' = seatings + 1
  /\ steady' = steady \ {r}
  /\ UNCHANGED <<tableVars, name, winner, eloUpdated, workVars>>

\* addClient: the first free seat.  Someone may sit in any number of seats.
addClient(r, u) ==
  \E c \in Colors :
    /\ ~taken[r][c]
    /\ c = "Black" => taken[r]["White"]
    /\ BeginChange(r, c, u, TRUE)

removeClient(r, c) == taken[r][c] /\ BeginChange(r, c, Waiting, FALSE)

EndChange ==
  /\ change # NoChange
  /\ name' = [name EXCEPT ![change.room][change.color] = change.user]
  /\ change' = NoChange
  /\ UNCHANGED <<tableVars, taken, seatings, winner, steady, eloUpdated, workVars>>

NetworkThread ==
  \/ \E u \in Users : create(u)
  \/ \E r \in Rooms, u \in Accounts : addClient(r, u)
  \/ \E r \in Rooms, c \in Colors : removeClient(r, c)
  \/ EndChange

\* What a worker reads of a name.
NamesRead(r, c) ==
  {name[r][c]} \union IF change.room = r /\ change.color = c THEN {change.user, NoUser} ELSE {}

-----------------------------------------------------------------------------
(* The engine captures a king, which GameEngine models.                    *)

KingFalls(r) ==
  /\ winner[r] = "None"
  /\ \E c \in Colors : winner' = [winner EXCEPT ![r] = c]
  /\ steady' = IF change.room = r THEN steady ELSE steady \union {r}
  /\ UNCHANGED <<tableVars, seatVars, eloUpdated, workVars>>

-----------------------------------------------------------------------------
(* GameSession::update of a game that is over, and processGameOver         *)

Goto(w, label) == at' = [at EXCEPT ![w] = label]

\* Mutant of ToRate: does not look at eloUpdated.
IsOver(r) == winner[r] # "None"
ToRate(r) == winner[r] # "None" /\ ~eloUpdated[r]

BeginRating(w, r) ==
  /\ at[w] = "idle" /\ ToRate(r)
  /\ room' = [room EXCEPT ![w] = r]
  /\ Goto(w, "findWhite")
  /\ UNCHANGED <<tableVars, seatVars, winner, steady, eloUpdated, seen, settlements>>

\* UserRepository::getByUsername
getByUsername(u) == IF u \in Accounts THEN [user |-> u, rating |-> row[u]] ELSE NotFound

Find(w, c, here, next) ==
  /\ at[w] = here
  /\ \E u \in NamesRead(room[w], c) : seen' = [seen EXCEPT ![w][c] = getByUsername(u)]
  /\ Goto(w, next)
  /\ UNCHANGED <<tableVars, seatVars, winner, steady, eloUpdated, room, settlements>>

\* Mutant of BothFound: the opponent may be missing.
OneFound(w) == \E c \in Colors : seen[w][c] # NotFound
BothFound(w) == \A c \in Colors : seen[w][c] # NotFound

\* No account has the name: nobody gets or loses points.
GiveUp(w) ==
  /\ at[w] = "test" /\ ~BothFound(w)
  /\ Goto(w, "mark")
  /\ UNCHANGED <<tableVars, seatVars, winner, steady, eloUpdated, room, seen, settlements>>

Compute(w) ==
  /\ at[w] = "test" /\ BothFound(w)
  /\ settlements' = [settlements EXCEPT ![room[w]][w] = @ + 1]
  /\ Goto(w, "writeWhite")
  /\ UNCHANGED <<tableVars, seatVars, winner, steady, eloUpdated, room, seen>>

\* kFactor * (score - expected) of the winner, cut off towards 0, which grows by
\* one at each threshold.
Gain(lead) == Cardinality({ t \in Thresholds : t <= lead })

\* The loser loses what the winner gets: the two floats are cut off separately,
\* but to the same number for any ratings less than 3000 apart.
Stake(w) ==
  LET win == winner[room[w]]
  IN  Gain(seen[w][Opponent(win)].rating - seen[w][win].rating)

\* Mutant of NewRating: adds to the opponent's rating.
FromOpponent(w, c) ==
  seen[w][Opponent(c)].rating + (IF c = winner[room[w]] THEN Stake(w) ELSE -Stake(w))
NewRating(w, c) ==
  seen[w][c].rating + (IF c = winner[room[w]] THEN Stake(w) ELSE -Stake(w))

HasRow(u) == u \in Accounts

\* UserRepository::updateRating of the name that is in the seat by now; a name
\* without a row changes nothing.
updateRating(w, c, u) ==
  IF HasRow(u)
  THEN /\ row' = [row EXCEPT ![u] = NewRating(w, c)]
       /\ gained' = IF c = winner[room[w]] THEN [gained EXCEPT ![u] = @ + Stake(w)] ELSE gained
       /\ lost' = IF c = winner[room[w]] THEN lost ELSE [lost EXCEPT ![u] = @ + Stake(w)]
       /\ crossed' = IF u = seen[w][c].user THEN crossed ELSE crossed \union {u}
       /\ rated' = [rated EXCEPT ![room[w]] = @ \union {u}]
  ELSE UNCHANGED tableVars

Write(w, c, here, next) ==
  /\ at[w] = here
  /\ \E u \in NamesRead(room[w], c) : updateRating(w, c, u)
  /\ Goto(w, next)
  /\ UNCHANGED <<seatVars, winner, steady, eloUpdated, room, seen, settlements>>

\* Mutant of Marks: only a game that has been rated.
MarksRated(w) == BothFound(w)
\* update sets eloUpdated whatever processGameOver did.
Marks(w) == TRUE

Mark(w) ==
  /\ at[w] = "mark"
  /\ eloUpdated' = [eloUpdated EXCEPT ![room[w]] = Marks(w)]
  /\ Goto(w, "idle")
  /\ UNCHANGED <<tableVars, seatVars, winner, steady, room, seen, settlements>>

Worker(w) ==
  \/ \E r \in Rooms : BeginRating(w, r)
  \/ Find(w, "White", "findWhite", "findBlack")
  \/ Find(w, "Black", "findBlack", "test")
  \/ GiveUp(w) \/ Compute(w)
  \/ Write(w, "White", "writeWhite", "writeBlack")
  \/ Write(w, "Black", "writeBlack", "mark")
  \/ Mark(w)

Next == NetworkThread \/ (\E r \in Rooms : KingFalls(r)) \/ (\E w \in Workers : Worker(w))

Spec == Init /\ [][Next]_vars

\* The timer gives the workers an update of every room again and again, and some
\* worker that can step is scheduled.
FairSpec == Spec /\ WF_vars(\E w \in Workers : Worker(w))

-----------------------------------------------------------------------------
(* Properties.                                                             *)

Found == [user : Users \union {NoUser}, rating : Int]

\* Every variable holds a value of its type.
TypeOK ==
  /\ Accounts \subseteq Users /\ row \in [Accounts -> Int]
  /\ taken \in [Rooms -> [Colors -> BOOLEAN]]
  /\ name \in [Rooms -> [Colors -> Accounts \union {Waiting}]]
  /\ change \in {NoChange} \union [room : Rooms, color : Colors, user : Accounts \union {Waiting}]
  /\ winner \in [Rooms -> Colors \union {"None"}]
  /\ eloUpdated \in [Rooms -> BOOLEAN]
  /\ at \in [Workers -> {"idle", "findWhite", "findBlack", "test", "writeWhite", "writeBlack", "mark"}]
  /\ room \in [Workers -> Rooms]
  /\ seen \in [Workers -> [Colors -> Found]]
  /\ gained \in [Users -> Nat] /\ lost \in [Users -> Nat]
  /\ crossed \subseteq Accounts
  /\ steady \subseteq Rooms
  /\ rated \in [Rooms -> SUBSET Accounts]
  /\ settlements \in [Rooms -> [Workers -> Nat]]

\* However the updates of several workers and rooms overlap, and although one
\* may overwrite what another has just written: an account never has more
\* points than it started with and has won, nor fewer than that less what it
\* has lost, unless somebody else sat down in a seat while it was rated.
PointsAreEarned ==
  \A u \in Accounts \ crossed : /\ row[u] <= StartRating + gained[u]
                                /\ row[u] >= StartRating - lost[u]

\* While the seats of a room have not changed since the king fell, its game
\* rates nobody but the names in its seats, and only if both of them are
\* accounts.  Once it is settled, two players who held the seats have both been
\* rated.  The name of an empty seat may be an account, and that is rated too.
Players(r) == {name[r][c] : c \in Colors}
HoldersAreRated ==
  \A r \in steady :
    /\ rated[r] \subseteq Players(r)
    /\ rated[r] # {} => Players(r) \subseteq Accounts
    /\ eloUpdated[r] /\ (\A c \in Colors : taken[r][c]) => rated[r] = Players(r)

\* A game may be rated by several workers, but by none of them twice.
SettledOncePerWorker == \A r \in Rooms, w \in Workers : settlements[r][w] <= 1

\* A game that is decided is settled in the end.
DecidedIsSettled == \A r \in Rooms : winner[r] # "None" ~> eloUpdated[r]
=============================================================================
