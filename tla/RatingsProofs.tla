---------------------------- MODULE RatingsProofs ----------------------------
(***************************************************************************)
(* Proofs about Ratings for any number of accounts, rooms and workers, any *)
(* number of seat changes and any table of points.                         *)
(***************************************************************************)
EXTENDS Ratings, FiniteSetTheorems, TLAPS

LEMMA OpponentIsOther ==
  /\ Opponent("White") = "Black" /\ Opponent("Black") = "White"
  /\ \A c \in Colors : Opponent(c) \in Colors
BY DEF Opponent, Colors

LEMMA GainIsNatural == ASSUME NEW lead \in Int PROVE Gain(lead) \in Nat
<1>1. IsFiniteSet({ t \in Thresholds : t <= lead })
  BY RatingsAssumption, FS_Subset
<1> QED
  BY <1>1, FS_CardinalityType DEF Gain

-----------------------------------------------------------------------------
(* Type correctness.                                                       *)

Rating == {"findWhite", "findBlack", "test", "writeWhite", "writeBlack", "mark"}

\* Only a decided game is rated, and whoever was found has an account.
RatesDecided ==
  \A w \in Workers : /\ at[w] \in Rating => winner[room[w]] \in Colors
                     /\ \A c \in Colors : seen[w][c].user \in Accounts \union {NoUser}

\* Whoever takes a seat has an account.
NextName(r, c) == IF change.room = r /\ change.color = c THEN change.user ELSE name[r][c]
SeatsKnown == \A r \in Rooms, c \in Colors : taken[r][c] => NextName(r, c) \in Accounts

RatingsOK == TypeOK /\ RatesDecided /\ SeatsKnown

LEMMA StakeIsNatural ==
  ASSUME RatingsOK, NEW w \in Workers, at[w] \in Rating
  PROVE  /\ Stake(w) \in Nat
         /\ \A c \in Colors : NewRating(w, c) \in Int
<1>1. winner[room[w]] \in Colors
  BY DEF RatingsOK, RatesDecided
<1>2. \A c \in Colors : seen[w][c].rating \in Int
  BY DEF RatingsOK, TypeOK, Found
<1>3. Stake(w) \in Nat
  <2> DEFINE win == winner[room[w]]
             lead == seen[w][Opponent(win)].rating - seen[w][win].rating
  <2>1. lead \in Int
    BY <1>1, <1>2, OpponentIsOther
  <2>2. Stake(w) = Gain(lead)
    BY DEF Stake
  <2> QED
    BY <2>1, <2>2, GainIsNatural
<1> QED
  BY <1>2, <1>3 DEF NewRating

LEMMA InitRatings == Init => RatingsOK
<1> SUFFICES ASSUME Init PROVE RatingsOK
  OBVIOUS
<1>1. Accounts = {}
  BY DEF Init, Accounts
<1>2. TypeOK
  BY <1>1 DEF Init, TypeOK, Colors, Found, NotFound
<1>3. RatesDecided
  BY <1>1 DEF Init, RatesDecided, NotFound, Rating
<1>4. SeatsKnown
  BY DEF Init, SeatsKnown
<1> QED
  BY <1>2, <1>3, <1>4 DEF RatingsOK

\* A step that changes no seat, and forgets no account, disturbs no seat's name.
LEMMA SeatsUndisturbed ==
  ASSUME SeatsKnown, UNCHANGED <<taken, name, change>>, Accounts \subseteq Accounts'
  PROVE  SeatsKnown'
BY DEF SeatsKnown, NextName

LEMMA NetworkRatings ==
  ASSUME RatingsOK, NetworkThread
  PROVE  RatingsOK'
<1>1. ASSUME NEW u \in Users, create(u) PROVE RatingsOK'
  <2>1. Accounts' = Accounts \union {u} /\ row' \in [Accounts' -> Int]
    BY <1>1, RatingsAssumption DEF create, RatingsOK, TypeOK, Accounts
  <2>2. SeatsKnown'
    BY <1>1, <2>1, SeatsUndisturbed DEF create, seatVars, RatingsOK
  <2>3. TypeOK' /\ RatesDecided'
    BY <1>1, <2>1 DEF create, seatVars, workVars, RatingsOK, TypeOK, RatesDecided
  <2> QED
    BY <2>2, <2>3 DEF RatingsOK
<1>2. ASSUME NEW r \in Rooms, NEW c \in Colors, NEW u \in Accounts \union {Waiting},
             NEW takes \in BOOLEAN, takes => u \in Accounts, BeginChange(r, c, u, takes)
      PROVE  RatingsOK'
  <2>1. /\ change = NoChange /\ taken' = [taken EXCEPT ![r][c] = takes]
        /\ change' = [room |-> r, color |-> c, user |-> u] /\ name' = name
        /\ Accounts' = Accounts /\ UNCHANGED <<tableVars, winner, eloUpdated, workVars>>
        /\ steady' = steady \ {r}
    BY <1>2 DEF BeginChange, tableVars, Accounts
  <2>2. taken \in [Rooms -> [Colors -> BOOLEAN]]
    BY DEF RatingsOK, TypeOK
  <2>3. change.room \notin Rooms
    BY <2>1, RatingsAssumption DEF NoChange
  <2>4. ASSUME NEW q \in Rooms, NEW d \in Colors, taken'[q][d] PROVE NextName(q, d)' \in Accounts
    <3>1. CASE q = r /\ d = c
      BY <1>2, <2>1, <2>2, <2>4, <3>1 DEF NextName
    <3>2. CASE ~(q = r /\ d = c)
      <4>1. taken[q][d]
        BY <2>1, <2>2, <2>4, <3>2
      <4> QED
        BY <2>1, <2>3, <3>2, <4>1 DEF NextName, RatingsOK, SeatsKnown
    <3> QED
      BY <3>1, <3>2
  <2>5. SeatsKnown'
    BY <2>1, <2>4 DEF SeatsKnown
  <2>6. taken' \in [Rooms -> [Colors -> BOOLEAN]]
    BY <2>1, <2>2
  <2>7. TypeOK' /\ RatesDecided'
    BY <2>1, <2>6 DEF tableVars, workVars, RatingsOK, TypeOK, RatesDecided
  <2> QED
    BY <2>5, <2>7 DEF RatingsOK
<1>3. ASSUME EndChange PROVE RatingsOK'
  <2>1. change.room \in Rooms /\ change.color \in Colors
        /\ change.user \in Accounts \union {Waiting}
    BY <1>3 DEF EndChange, RatingsOK, TypeOK
  <2>2. /\ name' = [name EXCEPT ![change.room][change.color] = change.user]
        /\ change' = NoChange /\ taken' = taken /\ Accounts' = Accounts
        /\ UNCHANGED <<tableVars, winner, steady, eloUpdated, workVars>>
        /\ name \in [Rooms -> [Colors -> Accounts \union {Waiting}]]
    BY <1>3 DEF EndChange, tableVars, Accounts, RatingsOK, TypeOK
  <2>3. name' \in [Rooms -> [Colors -> Accounts \union {Waiting}]]
    BY <2>1, <2>2
  <2>4. \A q \in Rooms, d \in Colors : NextName(q, d)' = NextName(q, d)
    <3>1. \A q \in Rooms : change'.room # q
      BY <2>2, RatingsAssumption DEF NoChange
    <3> QED
      BY <2>1, <2>2, <3>1 DEF NextName
  <2>5. SeatsKnown'
    BY <2>2, <2>4 DEF RatingsOK, SeatsKnown
  <2>6. TypeOK' /\ RatesDecided'
    BY <2>2, <2>3 DEF tableVars, workVars, RatingsOK, TypeOK, RatesDecided
  <2> QED
    BY <2>5, <2>6 DEF RatingsOK
<1> QED
  BY <1>1, <1>2, <1>3 DEF NetworkThread, addClient, removeClient

LEMMA FallRatings ==
  ASSUME RatingsOK, NEW r \in Rooms, KingFalls(r)
  PROVE  RatingsOK'
BY SeatsUndisturbed
DEF RatingsOK, TypeOK, RatesDecided, Accounts, KingFalls, tableVars, seatVars, workVars

LEMMA WriteRatings ==
  ASSUME RatingsOK, NEW w \in Workers, NEW c \in Colors, at[w] \in Rating,
         NEW u \in Accounts \union {Waiting, NoUser}, updateRating(w, c, u)
  PROVE  /\ Accounts' = Accounts
         /\ row' \in [Accounts -> Int]
         /\ gained' \in [Users -> Nat] /\ lost' \in [Users -> Nat]
         /\ crossed' \subseteq Accounts /\ rated' \in [Rooms -> SUBSET Accounts]
<1>1. Stake(w) \in Nat /\ NewRating(w, c) \in Int
  BY StakeIsNatural
<1>2. room[w] \in Rooms
  BY DEF RatingsOK, TypeOK
<1>3. CASE u \in Accounts
  <2>1. /\ row' = [row EXCEPT ![u] = NewRating(w, c)]
        /\ gained' \in {gained, [gained EXCEPT ![u] = @ + Stake(w)]}
        /\ lost' \in {lost, [lost EXCEPT ![u] = @ + Stake(w)]}
        /\ crossed' \in {crossed, crossed \union {u}}
        /\ rated' = [rated EXCEPT ![room[w]] = @ \union {u}]
    BY <1>3 DEF updateRating, HasRow
  <2>2. /\ row \in [Accounts -> Int] /\ u \in Users
        /\ gained \in [Users -> Nat] /\ lost \in [Users -> Nat]
        /\ crossed \subseteq Accounts /\ rated \in [Rooms -> SUBSET Accounts]
    BY <1>3 DEF RatingsOK, TypeOK
  <2>3. row' \in [Accounts -> Int] /\ Accounts' = Accounts
    BY <1>1, <2>1, <2>2 DEF Accounts
  <2>4. gained' \in [Users -> Nat]
    BY <1>1, <2>1, <2>2
  <2>5. lost' \in [Users -> Nat]
    BY <1>1, <2>1, <2>2
  <2>6. crossed' \subseteq Accounts /\ rated' \in [Rooms -> SUBSET Accounts]
    BY <1>2, <1>3, <2>1, <2>2
  <2> QED
    BY <2>3, <2>4, <2>5, <2>6
<1>4. CASE u \notin Accounts
  BY <1>4 DEF updateRating, HasRow, tableVars, RatingsOK, TypeOK, Accounts
<1> QED
  BY <1>3, <1>4

LEMMA WorkerRatings ==
  ASSUME RatingsOK, NEW w \in Workers, Worker(w)
  PROVE  RatingsOK'
<1>0. /\ room[w] \in Rooms /\ at \in [Workers -> Rating \union {"idle"}]
      /\ seen \in [Workers -> [Colors -> Found]]
      /\ name \in [Rooms -> [Colors -> Accounts \union {Waiting}]]
  BY DEF RatingsOK, TypeOK, Rating
<1>1. ASSUME NEW r \in Rooms, BeginRating(w, r) PROVE RatingsOK'
  BY <1>1, SeatsUndisturbed DEF BeginRating, ToRate, Goto, tableVars, seatVars,
              RatingsOK, TypeOK, RatesDecided, Accounts, Rating
<1>2. ASSUME NEW c \in Colors PROVE NamesRead(room[w], c) \subseteq Accounts \union {Waiting, NoUser}
  BY <1>0 DEF NamesRead, RatingsOK, TypeOK, NoChange
<1>3. ASSUME NEW c \in Colors, NEW here \in Rating, NEW next \in Rating, Find(w, c, here, next)
      PROVE  RatingsOK'
  <2>1. PICK u \in NamesRead(room[w], c) : seen' = [seen EXCEPT ![w][c] = getByUsername(u)]
    BY <1>3 DEF Find
  <2>2. getByUsername(u) \in Found /\ getByUsername(u).user \in Accounts \union {NoUser}
    BY DEF getByUsername, NotFound, Found, RatingsOK, TypeOK, Accounts
  <2>3. seen' \in [Workers -> [Colors -> Found]]
    BY <1>0, <2>1, <2>2
  <2>4. \A v \in Workers, d \in Colors : seen'[v][d].user \in Accounts \union {NoUser}
    BY <1>0, <2>1, <2>2 DEF RatingsOK, RatesDecided
  <2>5. at' \in [Workers -> Rating \union {"idle"}] /\ \A v \in Workers : at'[v] \in Rating => at[v] \in Rating
    BY <1>0, <1>3 DEF Find, Goto
  <2> QED
    BY <1>3, <2>3, <2>4, <2>5, SeatsUndisturbed
    DEF Find, tableVars, seatVars, RatingsOK, TypeOK, RatesDecided, Accounts, Rating
<1>4. CASE GiveUp(w) \/ Mark(w)
  BY <1>0, <1>4, SeatsUndisturbed DEF GiveUp, Mark, Marks, Goto, tableVars, seatVars,
                    RatingsOK, TypeOK, RatesDecided, Accounts, Rating
<1>5. CASE Compute(w)
  BY <1>0, <1>5, SeatsUndisturbed DEF Compute, Goto, tableVars, seatVars,
                    RatingsOK, TypeOK, RatesDecided, Accounts, Rating
<1>6. ASSUME NEW c \in Colors, NEW here \in Rating, NEW next \in Rating, Write(w, c, here, next)
      PROVE  RatingsOK'
  <2>1. PICK u \in Accounts \union {Waiting, NoUser} : updateRating(w, c, u)
    BY <1>2, <1>6 DEF Write
  <2>2. at[w] \in Rating
    BY <1>6 DEF Write
  <2>3. /\ Accounts' = Accounts
        /\ row' \in [Accounts -> Int]
        /\ gained' \in [Users -> Nat] /\ lost' \in [Users -> Nat]
        /\ crossed' \subseteq Accounts /\ rated' \in [Rooms -> SUBSET Accounts]
    BY <2>1, <2>2, WriteRatings
  <2>4. at' \in [Workers -> Rating \union {"idle"}] /\ \A v \in Workers : at'[v] \in Rating => at[v] \in Rating
    BY <1>0, <1>6 DEF Write, Goto
  <2>5. UNCHANGED <<seatVars, winner, steady, eloUpdated, room, seen, settlements>>
    BY <1>6 DEF Write
  <2> QED
    BY <2>3, <2>4, <2>5, SeatsUndisturbed DEF seatVars, RatingsOK, TypeOK, RatesDecided, Rating
<1>7. "White" \in Colors /\ "Black" \in Colors
  BY DEF Colors
<1> QED
  BY <1>1, <1>3, <1>4, <1>5, <1>6, <1>7 DEF Worker, Rating

LEMMA NextRatings == RatingsOK /\ [Next]_vars => RatingsOK'
<1> SUFFICES ASSUME RatingsOK, [Next]_vars PROVE RatingsOK'
  OBVIOUS
<1>1. CASE UNCHANGED vars
  BY <1>1, SeatsUndisturbed
  DEF vars, tableVars, seatVars, workVars, RatingsOK, TypeOK, RatesDecided, Accounts
<1> QED
  BY <1>1, NetworkRatings, FallRatings, WorkerRatings DEF Next

\* Whatever the network thread and the workers do, every variable has its type.
THEOREM RatingsTypeCorrect == Spec => []TypeOK
<1>1. RatingsOK => TypeOK
  BY DEF RatingsOK
<1> QED
  BY <1>1, InitRatings, NextRatings, PTL DEF Spec

-----------------------------------------------------------------------------
(* Points.  What a worker has read of an account that nobody else's rating *)
(* has reached was earned when it was read, and the history of an account  *)
(* only grows: so it is still earned when the worker writes.               *)

Earned(u, points) == points <= StartRating + gained[u] /\ points >= StartRating - lost[u]

SeenEarned == \A w \in Workers, c \in Colors :
                seen[w][c].user \in Accounts \ crossed => Earned(seen[w][c].user, seen[w][c].rating)

PointsInv == SeenEarned /\ \A u \in Accounts \ crossed : Earned(u, row[u])

LEMMA PointsUndisturbed ==
  ASSUME RatingsOK, PointsInv, UNCHANGED <<tableVars, seen>>
  PROVE  PointsInv'
BY DEF PointsInv, SeenEarned, Earned, tableVars, Accounts

LEMMA CreatePoints ==
  ASSUME RatingsOK, PointsInv, NEW u \in Users, create(u)
  PROVE  PointsInv'
<1>1. /\ Accounts' = Accounts \union {u} /\ row'[u] = StartRating /\ u \notin Accounts
      /\ \A v \in Accounts : row'[v] = row[v]
      /\ UNCHANGED <<gained, lost, crossed, seen>>
  BY DEF create, Accounts, workVars
<1>2. gained[u] \in Nat /\ lost[u] \in Nat /\ StartRating \in Int
  BY RatingsAssumption DEF RatingsOK, TypeOK
<1>3. \A w \in Workers, c \in Colors : seen[w][c].user # u
  BY <1>1, RatingsAssumption DEF RatingsOK, RatesDecided
<1>4. SeenEarned'
  BY <1>1, <1>3 DEF PointsInv, SeenEarned, Earned
<1>5. \A v \in Accounts' \ crossed' : Earned(v, row[v])'
  BY <1>1, <1>2 DEF PointsInv, Earned
<1> QED
  BY <1>4, <1>5 DEF PointsInv

LEMMA FindPoints ==
  ASSUME RatingsOK, PointsInv, NEW w \in Workers, NEW c \in Colors,
         NEW here, NEW next, Find(w, c, here, next)
  PROVE  PointsInv'
<1>1. PICK u : seen' = [seen EXCEPT ![w][c] = getByUsername(u)]
  BY DEF Find
<1>2. seen \in [Workers -> [Colors -> Found]] /\ UNCHANGED tableVars
  BY DEF RatingsOK, TypeOK, Find
<1>3. getByUsername(u).user \in Accounts \ crossed
        => Earned(getByUsername(u).user, getByUsername(u).rating)
  BY RatingsAssumption DEF getByUsername, NotFound, PointsInv, RatingsOK, TypeOK
<1>4. \A v \in Workers, d \in Colors :
        seen'[v][d] = IF v = w /\ d = c THEN getByUsername(u) ELSE seen[v][d]
  BY <1>1, <1>2
<1>5. SeenEarned'
  BY <1>2, <1>3, <1>4 DEF PointsInv, SeenEarned, Earned, tableVars, Accounts
<1>6. \A v \in Accounts' \ crossed' : Earned(v, row[v])'
  BY <1>2 DEF PointsInv, Earned, tableVars, Accounts
<1> QED
  BY <1>5, <1>6 DEF PointsInv

LEMMA WritePoints ==
  ASSUME RatingsOK, PointsInv, NEW w \in Workers, NEW c \in Colors, at[w] \in Rating,
         NEW u \in Accounts, updateRating(w, c, u), seen' = seen
  PROVE  PointsInv'
<1> DEFINE win == c = winner[room[w]]
<1>1. Stake(w) \in Nat
  BY StakeIsNatural
<1>2. /\ row' = [row EXCEPT ![u] = NewRating(w, c)]
      /\ gained' = IF win THEN [gained EXCEPT ![u] = @ + Stake(w)] ELSE gained
      /\ lost' = IF win THEN lost ELSE [lost EXCEPT ![u] = @ + Stake(w)]
      /\ crossed' = IF u = seen[w][c].user THEN crossed ELSE crossed \union {u}
  BY DEF updateRating, HasRow
<1>3. /\ row \in [Accounts -> Int] /\ Accounts \subseteq Users /\ StartRating \in Int
      /\ gained \in [Users -> Nat] /\ lost \in [Users -> Nat]
      /\ \A v \in Workers, d \in Colors : seen[v][d].rating \in Int
  BY RatingsAssumption DEF RatingsOK, TypeOK, Found
<1>4. \A v \in Users : /\ gained[v] \in Nat /\ gained'[v] \in Nat /\ gained'[v] >= gained[v]
                       /\ lost[v] \in Nat /\ lost'[v] \in Nat /\ lost'[v] >= lost[v]
  <2>1. CASE win
    BY <1>1, <1>2, <1>3, <2>1
  <2>2. CASE ~win
    BY <1>1, <1>2, <1>3, <2>2
  <2> QED
    BY <2>1, <2>2
<1>5. Accounts' = Accounts /\ crossed \subseteq crossed'
  BY <1>2, <1>3 DEF Accounts
<1>6. ASSUME NEW v \in Accounts, NEW points \in Int, Earned(v, points) PROVE Earned(v, points)'
  BY <1>3, <1>4, <1>6 DEF Earned
<1>7. SeenEarned'
  BY <1>3, <1>5, <1>6 DEF PointsInv, SeenEarned
<1>8. ASSUME NEW v \in Accounts' \ crossed' PROVE Earned(v, row[v])'
  <2>1. CASE v # u
    <3>1. row'[v] = row[v] /\ v \in Accounts \ crossed /\ row[v] \in Int
      BY <1>2, <1>3, <1>5, <1>8, <2>1
    <3>2. Earned(v, row[v])
      BY <3>1 DEF PointsInv
    <3> QED
      BY <1>3, <1>4, <3>1, <3>2 DEF Earned
  <2>2. CASE v = u
    <3>1. seen[w][c].user = u /\ u \notin crossed
      BY <1>2, <1>5, <1>8, <2>2
    <3>2. Earned(u, seen[w][c].rating) /\ seen[w][c].rating \in Int
      BY <1>3, <3>1 DEF PointsInv, SeenEarned
    <3>3. row'[u] = NewRating(w, c) /\ u \in Users
      BY <1>2, <1>3
    <3>4. CASE win
      <4>1. gained'[u] = gained[u] + Stake(w) /\ lost'[u] = lost[u]
            /\ row'[u] = seen[w][c].rating + Stake(w)
        BY <1>2, <1>3, <3>3, <3>4 DEF NewRating
      <4> QED
        BY <1>1, <1>3, <1>4, <2>2, <3>2, <3>3, <4>1 DEF Earned
    <3>5. CASE ~win
      <4>1. gained'[u] = gained[u] /\ lost'[u] = lost[u] + Stake(w)
            /\ row'[u] = seen[w][c].rating - Stake(w)
        BY <1>1, <1>2, <1>3, <3>2, <3>3, <3>5 DEF NewRating
      <4> QED
        BY <1>1, <1>3, <1>4, <2>2, <3>2, <3>3, <4>1 DEF Earned
    <3> QED
      BY <3>4, <3>5
  <2> QED
    BY <2>1, <2>2
<1> QED
  BY <1>7, <1>8 DEF PointsInv

LEMMA NextPoints == RatingsOK /\ PointsInv /\ [Next]_vars => PointsInv'
<1> SUFFICES ASSUME RatingsOK, PointsInv, [Next]_vars PROVE PointsInv'
  OBVIOUS
<1>1. CASE UNCHANGED vars
  BY <1>1, PointsUndisturbed DEF vars, workVars
<1>2. CASE NetworkThread
  BY <1>2, PointsUndisturbed, CreatePoints
  DEF NetworkThread, addClient, removeClient, BeginChange, EndChange, workVars
<1>3. ASSUME NEW r \in Rooms, KingFalls(r) PROVE PointsInv'
  BY <1>3, PointsUndisturbed DEF KingFalls, workVars
<1>4. ASSUME NEW w \in Workers, Worker(w) PROVE PointsInv'
  <2>1. CASE GiveUp(w) \/ Compute(w) \/ Mark(w) \/ \E r \in Rooms : BeginRating(w, r)
    BY <2>1, PointsUndisturbed DEF GiveUp, Compute, Mark, BeginRating
  <2>2. ASSUME NEW c \in Colors, NEW here, NEW next, Find(w, c, here, next) PROVE PointsInv'
    BY <2>2, FindPoints
  <2>3. ASSUME NEW c \in Colors, NEW here \in Rating, NEW next, Write(w, c, here, next)
        PROVE  PointsInv'
    <3>1. PICK u : updateRating(w, c, u)
      BY <2>3 DEF Write
    <3>2. at[w] \in Rating /\ seen' = seen
      BY <2>3 DEF Write
    <3> QED
      BY <3>1, <3>2, WritePoints, PointsUndisturbed DEF updateRating, HasRow
  <2> QED
    BY <1>4, <2>1, <2>2, <2>3 DEF Worker, Colors, Rating
<1> QED
  BY <1>1, <1>2, <1>3, <1>4 DEF Next

\* However many workers and rooms rate an account at once, and whatever they
\* overwrite: it has no point that no game gave it, and lacks none that no game
\* took, unless it sat down while another account was rated.
THEOREM NobodyGetsFreePoints == Spec => []PointsAreEarned
<1>1. Init => PointsInv
  BY RatingsAssumption DEF Init, PointsInv, SeenEarned, Accounts
<1>2. PointsInv => PointsAreEarned
  BY DEF PointsInv, Earned, PointsAreEarned
<1> QED
  BY <1>1, <1>2, InitRatings, NextRatings, NextPoints, PTL DEF Spec

-----------------------------------------------------------------------------
(* How often.  A worker that has rated a game is still at it, or has marked *)
(* the game, and does not come back to a game that is marked.               *)

Settled(r, w) ==
  \/ settlements[r][w] = 0
  \/ /\ settlements[r][w] = 1
     /\ IF room[w] = r /\ at[w] \in Rating THEN at[w] \in {"writeWhite", "writeBlack", "mark"}
                                           ELSE eloUpdated[r]

SettledInv == \A r \in Rooms, w \in Workers : Settled(r, w)

LEMMA SettledUndisturbed ==
  ASSUME SettledInv, UNCHANGED <<at, room, settlements, eloUpdated>>
  PROVE  SettledInv'
BY DEF SettledInv, Settled

LEMMA NextSettled == RatingsOK /\ SettledInv /\ [Next]_vars => SettledInv'
<1> SUFFICES ASSUME RatingsOK, SettledInv, [Next]_vars PROVE SettledInv'
  OBVIOUS
<1>0. /\ at \in [Workers -> Rating \union {"idle"}] /\ room \in [Workers -> Rooms]
      /\ eloUpdated \in [Rooms -> BOOLEAN] /\ settlements \in [Rooms -> [Workers -> Nat]]
  BY DEF RatingsOK, TypeOK, Rating
<1>1. CASE UNCHANGED vars
  BY <1>1, SettledUndisturbed DEF vars, workVars
<1>2. CASE NetworkThread
  BY <1>2, SettledUndisturbed
  DEF NetworkThread, create, addClient, removeClient, BeginChange, EndChange, workVars
<1>3. ASSUME NEW r \in Rooms, KingFalls(r) PROVE SettledInv'
  BY <1>3, SettledUndisturbed DEF KingFalls, workVars
<1>4. ASSUME NEW w \in Workers, Worker(w) PROVE SettledInv'
  <2> USE DEF SettledInv, Settled, Rating
  <2>1. ASSUME NEW r \in Rooms, BeginRating(w, r) PROVE SettledInv'
    BY <1>0, <2>1 DEF BeginRating, ToRate, Goto
  <2>2. ASSUME NEW c, NEW here \in {"findWhite", "findBlack"},
               NEW next \in {"findBlack", "test"}, Find(w, c, here, next)
        PROVE  SettledInv'
    BY <1>0, <2>2 DEF Find, Goto
  <2>3. CASE GiveUp(w)
    BY <1>0, <2>3 DEF GiveUp, Goto
  <2>4. CASE Compute(w)
    <3>1. /\ at[w] = "test" /\ at' = [at EXCEPT ![w] = "writeWhite"]
          /\ settlements' = [settlements EXCEPT ![room[w]][w] = @ + 1]
          /\ UNCHANGED <<room, eloUpdated>>
      BY <2>4 DEF Compute, Goto
    <3>2. settlements[room[w]][w] = 0
      BY <1>0, <3>1
    <3>3. \A r \in Rooms, v \in Workers :
            settlements'[r][v] = IF r = room[w] /\ v = w THEN 1 ELSE settlements[r][v]
      BY <1>0, <3>1, <3>2
    <3> QED
      BY <1>0, <3>1, <3>3
  <2>5. ASSUME NEW c, NEW here \in {"writeWhite", "writeBlack"},
               NEW next \in {"writeBlack", "mark"}, Write(w, c, here, next)
        PROVE  SettledInv'
    BY <1>0, <2>5 DEF Write, Goto
  <2>6. CASE Mark(w)
    BY <1>0, <2>6 DEF Mark, Marks, Goto
  <2> QED
    BY <1>4, <2>1, <2>2, <2>3, <2>4, <2>5, <2>6 DEF Worker
<1> QED
  BY <1>1, <1>2, <1>3, <1>4 DEF Next

\* For any number of workers, rooms and seat changes: no worker rates a game
\* twice, although nothing keeps two of them from rating it at the same time.
THEOREM NoWorkerRatesTwice == Spec => []SettledOncePerWorker
<1>1. Init => SettledInv
  BY DEF Init, SettledInv, Settled
<1>2. RatingsOK /\ SettledInv => SettledOncePerWorker
  BY DEF SettledInv, Settled, SettledOncePerWorker
<1> QED
  BY <1>1, <1>2, InitRatings, NextRatings, NextSettled, PTL DEF Spec

-----------------------------------------------------------------------------
(* Whom.  While no seat changes, every worker reads the names in the seats, *)
(* finds those that are accounts, and writes to none unless both are.       *)

Known(r) == \A c \in Colors : name[r][c] \in Accounts
Full(r) == \A c \in Colors : taken[r][c]

\* The account of the name in the seat, or none, if the name may have none.
HasFound(w, r, c) == /\ seen[w][c].user \in {name[r][c], NoUser}
                     /\ Full(r) => seen[w][c].user = name[r][c]

\* What a worker that rates room r has found, and what it has written.
Finds(w, r) ==
  room[w] = r =>
    /\ at[w] \in Rating \ {"findWhite"} => HasFound(w, r, "White")
    /\ at[w] \in Rating \ {"findWhite", "findBlack"} => HasFound(w, r, "Black")
    /\ at[w] \in {"writeWhite", "writeBlack"} => Known(r)
    /\ at[w] \in {"writeBlack", "mark"} /\ Full(r) => name[r]["White"] \in rated[r]
    /\ at[w] = "mark" /\ Full(r) => name[r]["Black"] \in rated[r]

Holders(r) ==
  /\ winner[r] # "None" /\ change.room # r
  /\ rated[r] \subseteq Players(r)
  /\ rated[r] # {} => Known(r)
  /\ \A w \in Workers : Finds(w, r)
  /\ eloUpdated[r] /\ Full(r) => \A c \in Colors : name[r][c] \in rated[r]

HoldersInv ==
  /\ \A r \in Rooms : winner[r] = "None" => rated[r] = {} /\ ~eloUpdated[r]
  /\ \A w \in Workers, c \in Colors : seen[w][c].user = NoUser => seen[w][c] = NotFound
  /\ \A r \in steady : Holders(r)

\* Players who hold both seats have accounts.
LEMMA FullIsKnown ==
  ASSUME RatingsOK, NEW r \in Rooms, change.room # r, Full(r)
  PROVE  Known(r)
BY DEF RatingsOK, SeatsKnown, NextName, Full, Known

LEMMA FallHolders ==
  ASSUME RatingsOK, HoldersInv, NEW q \in Rooms, KingFalls(q)
  PROVE  HoldersInv'
<1>1. /\ winner[q] = "None" /\ winner'[q] \in Colors
      /\ \A r \in Rooms \ {q} : winner'[r] = winner[r]
      /\ steady' = IF change.room = q THEN steady ELSE steady \union {q}
      /\ UNCHANGED <<tableVars, seatVars, eloUpdated, workVars>>
  BY DEF KingFalls, RatingsOK, TypeOK
<1>2. \A w \in Workers : room[w] = q => at[w] \notin Rating
  BY <1>1 DEF RatingsOK, RatesDecided, Colors
<1>3. rated[q] = {} /\ ~eloUpdated[q] /\ q \notin steady
  BY <1>1 DEF HoldersInv, Holders
<1>4. ASSUME NEW r \in steady PROVE Holders(r)'
  <2>1. r \in Rooms /\ r # q /\ Holders(r)
    BY <1>3 DEF HoldersInv, RatingsOK, TypeOK
  <2> QED
    BY <1>1, <2>1
    DEF Holders, Finds, Full, Known, HasFound, Players, Accounts, tableVars, seatVars, workVars
<1>5. CASE change.room # q
  <2>1. Holders(q)'
    BY <1>1, <1>2, <1>3, <1>5
    DEF Holders, Finds, Full, Known, HasFound, Players, Accounts, tableVars, seatVars,
        workVars, Colors, Rating
  <2> QED
    BY <1>1, <1>3, <1>4, <2>1 DEF HoldersInv, tableVars, workVars, Colors
<1> QED
  BY <1>1, <1>3, <1>4, <1>5 DEF HoldersInv, tableVars, workVars, Colors

LEMMA NetworkHolders ==
  ASSUME RatingsOK, HoldersInv, NetworkThread
  PROVE  HoldersInv'
<1>1. ASSUME NEW u \in Users, create(u) PROVE HoldersInv'
  <2>1. Accounts \subseteq Accounts'
    BY <1>1 DEF create, Accounts
  <2> QED
    BY <1>1, <2>1
    DEF create, HoldersInv, Holders, Finds, Full, Known, HasFound, Players, Accounts,
        seatVars, workVars
<1>2. ASSUME NEW q \in Rooms, NEW c, NEW u, NEW takes, BeginChange(q, c, u, takes)
      PROVE  HoldersInv'
  <2>1. /\ steady' = steady \ {q} /\ change'.room = q
        /\ UNCHANGED <<tableVars, name, winner, eloUpdated, workVars>>
    BY <1>2 DEF BeginChange
  <2>2. ASSUME NEW r \in steady' PROVE Holders(r)'
    <3>1. Holders(r) /\ r # q /\ r \in Rooms
      BY <2>1 DEF HoldersInv, RatingsOK, TypeOK
    <3>2. taken'[r] = taken[r]
      BY <1>2, <3>1 DEF BeginChange, RatingsOK, TypeOK
    <3> QED
      BY <2>1, <3>1, <3>2
      DEF Holders, Finds, Full, Known, HasFound, Players, Accounts, tableVars, workVars
  <2> QED
    BY <2>1, <2>2 DEF HoldersInv, tableVars, workVars
<1>3. ASSUME EndChange PROVE HoldersInv'
  <2>1. /\ name' = [name EXCEPT ![change.room][change.color] = change.user]
        /\ change'.room = "None" /\ steady' = steady
        /\ UNCHANGED <<tableVars, winner, eloUpdated, workVars>>
    BY <1>3 DEF EndChange, NoChange
  <2>2. ASSUME NEW r \in steady' PROVE Holders(r)'
    <3>1. Holders(r) /\ r \in Rooms
      BY <2>1 DEF HoldersInv, RatingsOK, TypeOK
    <3>2. name'[r] = name[r]
      BY <2>1, <3>1 DEF Holders, RatingsOK, TypeOK
    <3>3. change'.room # r
      BY <2>1, <3>1, RatingsAssumption
    <3>4. UNCHANGED <<rated[r], taken, winner[r], eloUpdated[r], at, room, seen, Accounts>>
      BY <1>3, <2>1 DEF EndChange, tableVars, workVars, Accounts
    <3> QED
      BY <3>1, <3>2, <3>3, <3>4 DEF Holders, Finds, Full, Known, HasFound, Players, Accounts
  <2> QED
    BY <2>1, <2>2 DEF HoldersInv, tableVars, workVars
<1> QED
  BY <1>1, <1>2, <1>3 DEF NetworkThread, addClient, removeClient

LEMMA BeginHolders ==
  ASSUME RatingsOK, HoldersInv, NEW w \in Workers, NEW q \in Rooms, BeginRating(w, q)
  PROVE  HoldersInv'
<1>1. /\ at' = [at EXCEPT ![w] = "findWhite"] /\ room' = [room EXCEPT ![w] = q]
      /\ UNCHANGED <<tableVars, seatVars, winner, steady, eloUpdated, seen>>
      /\ at \in [Workers -> Rating \union {"idle"}] /\ room \in [Workers -> Rooms]
  BY DEF BeginRating, Goto, RatingsOK, TypeOK, Rating
<1>2. ASSUME NEW r \in steady, NEW v \in Workers PROVE Finds(v, r)'
  <2>1. Finds(v, r)
    BY DEF HoldersInv, Holders
  <2> QED
    BY <1>1, <2>1
    DEF Finds, Full, Known, HasFound, Players, Accounts, tableVars, seatVars, Rating
<1> QED
  BY <1>1, <1>2
  DEF HoldersInv, Holders, Full, Known, HasFound, Players, Accounts, tableVars, seatVars

\* A step of a worker inside processGameOver that writes no row.
LEMMA StepHolders ==
  ASSUME RatingsOK, HoldersInv, NEW w \in Workers,
         UNCHANGED <<tableVars, seatVars, winner, steady, eloUpdated, room, seen>>,
         NEW label, at' = [at EXCEPT ![w] = label],
         \A r \in steady : Finds(w, r)'
  PROVE  HoldersInv'
<1>1. at \in [Workers -> Rating \union {"idle"}]
  BY DEF RatingsOK, TypeOK, Rating
<1>2. ASSUME NEW r \in steady, NEW v \in Workers PROVE Finds(v, r)'
  <2>1. Finds(v, r)
    BY DEF HoldersInv, Holders
  <2>2. CASE v # w
    BY <1>1, <2>1, <2>2
    DEF Finds, Full, Known, HasFound, Players, Accounts, tableVars, seatVars
  <2> QED
    BY <2>2
<1> QED
  BY <1>2
  DEF HoldersInv, Holders, Full, Known, HasFound, Players, Accounts, tableVars, seatVars

LEMMA FindHolders ==
  ASSUME RatingsOK, HoldersInv, NEW w \in Workers,
         \/ Find(w, "White", "findWhite", "findBlack")
         \/ Find(w, "Black", "findBlack", "test")
  PROVE  HoldersInv'
<1>1. PICK c \in Colors, here \in Rating, next \in Rating :
        /\ Find(w, c, here, next)
        /\ \/ c = "White" /\ here = "findWhite" /\ next = "findBlack"
           \/ c = "Black" /\ here = "findBlack" /\ next = "test"
  BY DEF Colors, Rating
<1>2. PICK u \in NamesRead(room[w], c) : seen' = [seen EXCEPT ![w][c] = getByUsername(u)]
  BY <1>1 DEF Find
<1>3. /\ at[w] = here /\ at' = [at EXCEPT ![w] = next]
      /\ UNCHANGED <<tableVars, seatVars, winner, steady, eloUpdated, room>>
      /\ at \in [Workers -> Rating \union {"idle"}]
      /\ seen \in [Workers -> [Colors -> Found]]
      /\ name \in [Rooms -> [Colors -> Accounts \union {Waiting}]] /\ steady \subseteq Rooms
      /\ Accounts \subseteq Users
  BY <1>1 DEF Find, Goto, RatingsOK, TypeOK, Rating
<1>4. \A v \in Workers, d \in Colors :
        seen'[v][d] = IF v = w /\ d = c THEN getByUsername(u) ELSE seen[v][d]
  BY <1>2, <1>3
<1>5. getByUsername(u).user = NoUser => getByUsername(u) = NotFound
  BY <1>3, RatingsAssumption DEF getByUsername, NotFound
<1>6. ASSUME NEW r \in steady, room[w] = r
      PROVE  /\ getByUsername(u).user \in {name[r][c], NoUser}
             /\ Full(r) => getByUsername(u).user = name[r][c]
  <2>1. Holders(r) /\ r \in Rooms
    BY <1>3 DEF HoldersInv
  <2>2. u = name[r][c]
    BY <1>6, <2>1 DEF NamesRead, Holders
  <2>3. Full(r) => u \in Accounts
    BY <2>1, <2>2, FullIsKnown DEF Holders, Known
  <2> QED
    BY <2>2, <2>3 DEF getByUsername, NotFound
<1>7. ASSUME NEW r \in steady, NEW v \in Workers PROVE Finds(v, r)'
  <2>1. Finds(v, r)
    BY DEF HoldersInv, Holders
  <2>2. CASE v # w
    BY <1>3, <1>4, <2>1, <2>2
    DEF Finds, Full, Known, HasFound, Players, Accounts, tableVars, seatVars, Colors
  <2>3. CASE v = w /\ room[w] = r
    BY <1>1, <1>3, <1>4, <1>6, <2>1, <2>3
    DEF Finds, Full, Known, HasFound, Players, Accounts, tableVars, seatVars, Colors, Rating
  <2>4. CASE v = w /\ room[w] # r
    BY <1>3, <2>4 DEF Finds
  <2> QED
    BY <2>2, <2>3, <2>4
<1>8. \A v \in Workers, d \in Colors : seen'[v][d].user = NoUser => seen'[v][d] = NotFound
  BY <1>4, <1>5 DEF HoldersInv
<1> QED
  BY <1>3, <1>7, <1>8
  DEF HoldersInv, Holders, Full, Known, HasFound, Players, Accounts, tableVars, seatVars

LEMMA TestHolders ==
  ASSUME RatingsOK, HoldersInv, NEW w \in Workers, GiveUp(w) \/ Compute(w)
  PROVE  HoldersInv'
<1>1. /\ at[w] = "test" /\ at \in [Workers -> Rating \union {"idle"}]
      /\ UNCHANGED <<tableVars, seatVars, winner, steady, eloUpdated, room, seen>>
  BY DEF GiveUp, Compute, RatingsOK, TypeOK, Rating
<1>2. ASSUME NEW r \in steady, room[w] = r
      PROVE  /\ BothFound(w) => Known(r)
             /\ Full(r) => BothFound(w)
  <2>1. Finds(w, r) /\ Holders(r) /\ r \in Rooms
    BY DEF HoldersInv, Holders, RatingsOK, TypeOK
  <2>2. \A c \in Colors : HasFound(w, r, c)
    BY <1>1, <1>2, <2>1 DEF Finds, Rating, Colors
  <2>3. \A c \in Colors : seen[w][c] # NotFound <=> seen[w][c].user # NoUser
    BY DEF HoldersInv, NotFound
  <2>4. \A c \in Colors : seen[w][c].user \in Accounts \union {NoUser}
    BY DEF RatingsOK, RatesDecided
  <2>5. BothFound(w) => Known(r)
    BY <2>2, <2>3, <2>4 DEF BothFound, Known, HasFound
  <2>6. Full(r) => Known(r) /\ NoUser \notin Accounts
    BY <2>1, FullIsKnown, RatingsAssumption DEF Holders, RatingsOK, TypeOK
  <2>7. Full(r) => BothFound(w)
    BY <2>2, <2>3, <2>6 DEF BothFound, Known, HasFound
  <2> QED
    BY <2>5, <2>7
<1>3. CASE GiveUp(w)
  <2>1. at' = [at EXCEPT ![w] = "mark"] /\ ~BothFound(w)
    BY <1>3 DEF GiveUp, Goto
  <2>2. ASSUME NEW r \in steady PROVE Finds(w, r)'
    BY <1>1, <1>2, <2>1
    DEF HoldersInv, Holders, Finds, Full, Known, HasFound, Players, Accounts, tableVars,
        seatVars, Rating
  <2> QED
    BY <1>1, <2>1, <2>2, StepHolders
<1>4. CASE Compute(w)
  <2>1. at' = [at EXCEPT ![w] = "writeWhite"] /\ BothFound(w)
    BY <1>4 DEF Compute, Goto
  <2>2. ASSUME NEW r \in steady PROVE Finds(w, r)'
    BY <1>1, <1>2, <2>1
    DEF HoldersInv, Holders, Finds, Full, Known, HasFound, Players, Accounts, tableVars,
        seatVars, Rating
  <2> QED
    BY <1>1, <2>1, <2>2, StepHolders
<1> QED
  BY <1>3, <1>4

LEMMA WriteHolders ==
  ASSUME RatingsOK, HoldersInv, NEW w \in Workers,
         \/ Write(w, "White", "writeWhite", "writeBlack")
         \/ Write(w, "Black", "writeBlack", "mark")
  PROVE  HoldersInv'
<1>1. PICK c \in Colors, here \in Rating, next \in Rating :
        /\ Write(w, c, here, next)
        /\ \/ c = "White" /\ here = "writeWhite" /\ next = "writeBlack"
           \/ c = "Black" /\ here = "writeBlack" /\ next = "mark"
  BY DEF Colors, Rating
<1>2. PICK u \in NamesRead(room[w], c) : updateRating(w, c, u)
  BY <1>1 DEF Write
<1>3. /\ at[w] = here /\ at' = [at EXCEPT ![w] = next]
      /\ UNCHANGED <<seatVars, winner, steady, eloUpdated, room, seen>>
      /\ at \in [Workers -> Rating \union {"idle"}] /\ room[w] \in Rooms
      /\ name \in [Rooms -> [Colors -> Accounts \union {Waiting}]] /\ steady \subseteq Rooms
      /\ Accounts \subseteq Users /\ rated \in [Rooms -> SUBSET Accounts]
  BY <1>1 DEF Write, Goto, RatingsOK, TypeOK, Rating
<1>4. /\ rated' = IF u \in Accounts THEN [rated EXCEPT ![room[w]] = @ \union {u}] ELSE rated
      /\ Accounts' = Accounts
  BY <1>2 DEF updateRating, HasRow, tableVars, Accounts
<1>5. \A r \in Rooms : rated[r] \subseteq rated'[r] /\ (r # room[w] => rated'[r] = rated[r])
  BY <1>3, <1>4
<1>6. winner[room[w]] # "None"
  BY <1>1, <1>3 DEF RatingsOK, RatesDecided, Colors
<1>7. ASSUME NEW r \in steady, room[w] = r
      PROVE  u = name[r][c] /\ Known(r) /\ rated'[r] = rated[r] \union {name[r][c]}
  <2>1. Holders(r) /\ r \in Rooms
    BY <1>3 DEF HoldersInv
  <2>2. u = name[r][c]
    BY <1>7, <2>1 DEF NamesRead, Holders
  <2>3. Known(r)
    <3>1. at[w] \in {"writeWhite", "writeBlack"}
      BY <1>1, <1>3
    <3> QED
      BY <1>7, <2>1, <3>1 DEF Holders, Finds
  <2>4. u \in Accounts
    BY <2>2, <2>3 DEF Known
  <2> QED
    BY <1>3, <1>4, <1>7, <2>1, <2>2, <2>3, <2>4
<1>8. ASSUME NEW r \in steady, NEW v \in Workers PROVE Finds(v, r)'
  <2>1. Finds(v, r) /\ r \in Rooms
    BY <1>3 DEF HoldersInv, Holders
  <2>2. CASE v # w
    BY <1>3, <1>4, <1>5, <2>1, <2>2 DEF Finds, Full, Known, HasFound, seatVars
  <2>3. CASE v = w /\ room[w] = r
    BY <1>1, <1>3, <1>5, <1>4, <1>7, <2>1, <2>3
    DEF Finds, Full, Known, HasFound, seatVars, Rating
  <2>4. CASE v = w /\ room[w] # r
    BY <1>3, <2>4 DEF Finds
  <2> QED
    BY <2>2, <2>3, <2>4
<1>9. ASSUME NEW r \in steady PROVE Holders(r)'
  <2>1. Holders(r) /\ r \in Rooms
    BY <1>3 DEF HoldersInv
  <2>2. rated'[r] \subseteq Players(r) /\ (rated'[r] # {} => Known(r))
    <3>1. CASE room[w] = r
      BY <1>7, <2>1, <3>1 DEF Holders, Players
    <3>2. CASE room[w] # r
      BY <1>5, <2>1, <3>2 DEF Holders
    <3> QED
      BY <3>1, <3>2
  <2>3. /\ winner' = winner /\ change' = change /\ name' = name /\ taken' = taken
        /\ eloUpdated' = eloUpdated /\ Accounts' = Accounts
    BY <1>3, <1>4 DEF seatVars
  <2>4. Players(r)' = Players(r) /\ Known(r)' = Known(r) /\ Full(r)' = Full(r)
    BY <2>3 DEF Players, Known, Full
  <2>5. \A v \in Workers : Finds(v, r)'
    BY <1>8
  <2>6. (eloUpdated[r] /\ Full(r) => \A k \in Colors : name[r][k] \in rated[r])'
    <3>1. eloUpdated[r] /\ Full(r) => \A k \in Colors : name[r][k] \in rated[r]
      BY <2>1 DEF Holders
    <3>2. rated[r] \subseteq rated'[r]
      BY <1>5, <2>1
    <3> QED
      BY <2>3, <2>4, <3>1, <3>2
  <2>7. winner[r] # "None" /\ change.room # r
    BY <2>1 DEF Holders
  <2> QED
    BY <2>2, <2>3, <2>4, <2>5, <2>6, <2>7 DEF Holders
<1> QED
  BY <1>3, <1>5, <1>6, <1>9 DEF HoldersInv

LEMMA MarkHolders ==
  ASSUME RatingsOK, HoldersInv, NEW w \in Workers, Mark(w)
  PROVE  HoldersInv'
<1>1. /\ at[w] = "mark" /\ at' = [at EXCEPT ![w] = "idle"]
      /\ eloUpdated' = [eloUpdated EXCEPT ![room[w]] = TRUE]
      /\ UNCHANGED <<tableVars, seatVars, winner, steady, room, seen>>
      /\ at \in [Workers -> Rating \union {"idle"}] /\ room[w] \in Rooms
      /\ eloUpdated \in [Rooms -> BOOLEAN] /\ steady \subseteq Rooms
  BY DEF Mark, Marks, Goto, RatingsOK, TypeOK, Rating
<1>2. winner[room[w]] # "None"
  BY <1>1 DEF RatingsOK, RatesDecided, Rating, Colors
<1>3. ASSUME NEW r \in steady PROVE Holders(r)'
  <2>1. Holders(r) /\ r \in Rooms
    BY <1>1 DEF HoldersInv
  <2>2. ASSUME NEW v \in Workers PROVE Finds(v, r)'
    BY <1>1, <2>1
    DEF Holders, Finds, Full, Known, HasFound, Players, Accounts, tableVars, seatVars, Rating
  <2>3. (room[w] = r /\ Full(r)) => \A c \in Colors : name[r][c] \in rated[r]
    BY <1>1, <2>1 DEF Holders, Finds, Colors
  <2> QED
    BY <1>1, <2>1, <2>2, <2>3
    DEF Holders, Full, Known, HasFound, Players, Accounts, tableVars, seatVars
<1> QED
  BY <1>1, <1>2, <1>3 DEF HoldersInv, tableVars

LEMMA NextHolders == RatingsOK /\ HoldersInv /\ [Next]_vars => HoldersInv'
<1> SUFFICES ASSUME RatingsOK, HoldersInv, [Next]_vars PROVE HoldersInv'
  OBVIOUS
<1>1. CASE UNCHANGED vars
  BY <1>1
  DEF vars, tableVars, seatVars, workVars, HoldersInv, Holders, Finds, Full, Known,
      HasFound, Players, Accounts
<1>2. ASSUME NEW w \in Workers, Worker(w) PROVE HoldersInv'
  BY <1>2, BeginHolders, FindHolders, TestHolders, WriteHolders, MarkHolders DEF Worker
<1> QED
  BY <1>1, <1>2, NetworkHolders, FallHolders DEF Next

\* For any number of workers, rooms and seat changes: a game whose seats do not
\* change after its end rates the names in them and nobody else, both if the
\* seats are taken, and none unless both are accounts.
THEOREM PlayersAreRated == Spec => []HoldersAreRated
<1>1. Init => HoldersInv
  BY DEF Init, HoldersInv, NotFound
<1>2. RatingsOK /\ HoldersInv => HoldersAreRated
  <2> SUFFICES ASSUME RatingsOK, HoldersInv, NEW r \in steady
      PROVE  /\ rated[r] \subseteq Players(r)
             /\ rated[r] # {} => Players(r) \subseteq Accounts
             /\ eloUpdated[r] /\ (\A c \in Colors : taken[r][c]) => rated[r] = Players(r)
    BY DEF HoldersAreRated
  <2>1. Holders(r)
    BY DEF HoldersInv
  <2> QED
    BY <2>1 DEF Holders, Full, Known, Players
<1> QED
  BY <1>1, <1>2, InitRatings, NextRatings, NextHolders, PTL DEF Spec

=============================================================================
