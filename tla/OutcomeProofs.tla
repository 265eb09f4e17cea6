---------------------------- MODULE OutcomeProofs ----------------------------
(***************************************************************************)
(* Who is captured and who has won, for every board, every set of pieces   *)
(* and every choice of the times.  The engine is seen as four sets of      *)
(* pieces: those on the board, in flight, dead in flight, and landing.     *)
(* Every step of it is one of the few effects on these sets below.         *)
(***************************************************************************)
EXTENDS GameEngineProofs, FiniteSetTheorems, WellFoundedInduction

DeadIn(ms, p)  == \E k \in 1 .. Len(ms) : ms[k].piece = p /\ ms[k].isDead
AliveIn(ms, p) == \E k \in 1 .. Len(ms) : ms[k].piece = p /\ ~ms[k].isDead
Dead(p) == DeadIn(activeMotions, p)

KingsStay == \A p \in Pieces : kind[p] = "King" <=> InitialKind[p] = "King"

SameBoard    == \A p \in Pieces : OnBoard(p)' <=> OnBoard(p)
SameFlights  == \A p \in Pieces : Flying(p)' <=> Flying(p)
SameDead     == \A p \in Pieces : Dead(p)' <=> Dead(p)
SameLandings == \A p \in Pieces : LandingNow(p)' <=> LandingNow(p)

\* Nothing is captured, and nobody moves; whoever wakes up was resting.
Quiet ==
  /\ SameBoard /\ SameFlights /\ SameDead /\ SameLandings
  /\ at = "air" => at' = "air"
  /\ \A p \in Pieces : pieceState'[p] \in {pieceState[p], "Idle"}
  /\ UNCHANGED <<kind, gameVars, history>>

\* Piece p takes off.
Lifts(p) ==
  /\ OnBoard(p) /\ pieceState[p] = "Idle" /\ ~isGameOver
  /\ at # "air"
  /\ \A q \in Pieces : /\ OnBoard(q)' <=> OnBoard(q) /\ q # p
                       /\ Flying(q)' <=> Flying(q) \/ q = p
                       /\ q # p => pieceState'[q] = pieceState[q]
  /\ SameDead /\ SameLandings
  /\ UNCHANGED <<kind, gameVars, history>>

\* Captor c takes v from the board.
TakesFromBoard(c, v) ==
  /\ OnBoard(v) /\ Enemies(v, c) /\ at # "air"
  /\ \A q \in Pieces : OnBoard(q)' <=> OnBoard(q) /\ q # v
  /\ SameFlights /\ SameDead /\ SameLandings
  /\ captured' = captured \union {v}
  /\ DecideFor(Color[c], isFatalDeath(kind[v]))
  /\ UNCHANGED <<kind, pieceState, lost>>

\* The flying pieces of vs are killed, one by a captor, or two by each other.
KillsInFlight(vs) ==
  /\ vs # {} /\ at = "air" /\ at' = "air"
  /\ \A v \in vs : Flying(v)
  /\ SameBoard /\ SameFlights /\ SameLandings
  /\ \A q \in Pieces : Dead(q)' <=> Dead(q) \/ q \in vs
  /\ captured' = captured \union vs
  /\ isGameOver' = (isGameOver \/ \E v \in vs : isFatalDeath(kind[v]))
  /\ \/ winner' = winner
     \/ \E v \in vs : isFatalDeath(kind[v]) /\ winner' = Opponent(Color[v])
  /\ UNCHANGED <<kind, pieceState, lost>>

Judges ==
  /\ SameBoard /\ SameFlights /\ SameDead /\ SameLandings
  /\ at = "air" /\ at' # "air"
  /\ isGameOver' = (isGameOver \/ \E p \in Pieces : Dead(p) /\ isFatalDeath(kind[p]))
  /\ \/ /\ winner' = winner
        /\ ~\E p \in Pieces : Dead(p) /\ isFatalDeath(kind[p])
     \/ \E p \in Pieces : Dead(p) /\ isFatalDeath(kind[p]) /\ winner' = Opponent(Color[p])
  /\ UNCHANGED <<kind, pieceState, history>>

\* A dead motion is cleaned up.
Vanishes(p) ==
  /\ Dead(p) /\ at # "air"
  /\ \A q \in Pieces : /\ Flying(q)' <=> Flying(q) /\ q # p
                       /\ Dead(q)' <=> Dead(q) /\ q # p
  /\ SameBoard /\ SameLandings
  /\ UNCHANGED <<kind, pieceState, gameVars, history>>

Descends(p) ==
  /\ Flying(p) /\ ~Dead(p) /\ at # "air"
  /\ \A q \in Pieces : /\ Flying(q)' <=> Flying(q) /\ q # p
                       /\ LandingNow(q)' <=> LandingNow(q) \/ q = p
  /\ SameBoard /\ SameDead
  /\ UNCHANGED <<kind, pieceState, gameVars, history>>

\* Piece p comes down to the board, or is lost, and rests; the pieces of vs are taken.
ComesDown(p, vs) ==
  /\ LandingNow(p) /\ at # "air" /\ p \notin vs
  /\ \A v \in vs : OnBoard(v) /\ Enemies(v, p)
  /\ \A q \in Pieces : /\ q # p => (OnBoard(q)' <=> OnBoard(q) /\ q \notin vs)
                       /\ LandingNow(q)' <=> LandingNow(q) /\ q # p
                       /\ q # p => pieceState'[q] = pieceState[q]
                       /\ kind'[q] = "King" <=> kind[q] = "King"
  /\ pieceState'[p] \in RestStates
  /\ SameFlights /\ SameDead
  /\ lost' = lost \union {q \in {p} : ~OnBoard(q)'}
  /\ captured' = captured \union vs
  /\ isGameOver' = (isGameOver \/ \E v \in vs : isFatalDeath(kind[v]))
  /\ winner' = IF \E v \in vs : isFatalDeath(kind[v]) THEN Color[p] ELSE winner

Effect ==
  \/ Quiet \/ Judges
  \/ \E p \in Pieces : Lifts(p) \/ Vanishes(p) \/ Descends(p)
  \/ \E c, v \in Pieces : TakesFromBoard(c, v)
  \/ \E vs \in SUBSET Pieces : KillsInFlight(vs)
  \/ \E p \in Pieces : ComesDown(p, {}) \/ \E v \in Pieces : ComesDown(p, {v})

-----------------------------------------------------------------------------
(* Each action has one of these effects.                                   *)

LEMMA AliveOrDead ==
  ASSUME NEW ms, NoTwins(ms), NEW p
  PROVE  AliveIn(ms, p) <=> Carries(ms, p) /\ ~DeadIn(ms, p)
BY DEF NoTwins, AliveIn, DeadIn, Carries

LEMMA SameSets ==
  /\ UNCHANGED grid => SameBoard
  /\ UNCHANGED activeMotions => SameFlights /\ SameDead
  /\ UNCHANGED arrivals => SameLandings
BY DEF SameBoard, SameFlights, SameDead, SameLandings, OnBoard, Flying, Dead, LandingNow

\* Motions that are rewritten keep their piece and whether they are dead.
LEMMA SameMotions ==
  ASSUME Len(activeMotions') = Len(activeMotions),
         \A n \in Indices : /\ activeMotions'[n].piece = activeMotions[n].piece
                            /\ activeMotions'[n].isDead = activeMotions[n].isDead
  PROVE  SameFlights /\ SameDead
BY DEF SameFlights, SameDead, Flying, Dead, Carries, DeadIn, Indices

LEMMA OneKept ==
  ASSUME TypeOK, NEW n \in Indices, NEW m,
         m.piece = activeMotions[n].piece, m.isDead = activeMotions[n].isDead,
         activeMotions' = [activeMotions EXCEPT ![n] = m]
  PROVE  SameFlights /\ SameDead
<1>1. /\ Len(activeMotions') = Len(activeMotions)
      /\ \A k \in Indices : /\ activeMotions'[k].piece = activeMotions[k].piece
                            /\ activeMotions'[k].isDead = activeMotions[k].isDead
  BY MotionsAt DEF TypeOK, Indices
<1> QED
  BY <1>1, SameMotions

LEMMA TakeOffEffect ==
  ASSUME TypeOK, OnePlace, NEW source \in Cells, NEW destination \in Cells,
         NEW duration \in Int, NEW type \in MotionTypes, at = "free",
         MayTakeOff(source), TakeOff(source, destination, duration, type)
  PROVE  \E p \in Pieces : Lifts(p)
<1> DEFINE p == grid[source]
           m == NewMotion(p, source, destination, currentTime, duration, type)
<1>1. p \in Pieces /\ p # NoPiece /\ getPiece(grid, source) = p /\ OnBoard(p)
  BY CellFacts, GetPieceType DEF MayTakeOff, OnBoard
<1>2. m \in Motions /\ m.piece = p /\ ~m.isDead
  BY <1>1, CellFacts DEF NewMotion, Motions, TypeOK
<1>3. /\ grid' = removePiece(grid, source)
      /\ activeMotions' = Append(activeMotions, m)
      /\ UNCHANGED arrivals
      /\ pieceState' = [pieceState EXCEPT ![p] = "Move"]
      /\ pieceState[p] = "Idle" /\ ~isGameOver
      /\ UNCHANGED <<kind, gameVars, history>>
  BY <1>1 DEF TakeOff, MayTakeOff
<1>4. \A q \in Pieces : OnBoard(q)' <=> OnBoard(q) /\ q # p
  <2> HIDE DEF p
  <2>1. p = grid[source]
    BY DEF p
  <2> QED
    BY <1>1, <1>3, <2>1, EmptiedCell DEF OnePlace
<1> HIDE DEF p, m
<1>5. /\ Len(activeMotions) \in Nat /\ Len(activeMotions') = Len(activeMotions) + 1
      /\ \A k \in 1 .. Len(activeMotions) : activeMotions'[k] = activeMotions[k]
      /\ activeMotions'[Len(activeMotions) + 1] = m
  BY <1>2, <1>3, AppendProperties, LenProperties DEF TypeOK
<1>6. \A q \in Pieces : Flying(q)' <=> Flying(q) \/ q = p
  BY <1>2, <1>5 DEF Flying, Carries
<1>7. SameDead
  BY <1>2, <1>5 DEF SameDead, Dead, DeadIn
<1>8. SameLandings
  BY <1>3, SameSets
<1>9. \A q \in Pieces : q # p => pieceState'[q] = pieceState[q]
  BY <1>3 DEF TypeOK
<1> QED
  BY <1>1, <1>3, <1>4, <1>6, <1>7, <1>8, <1>9 DEF Lifts

LEMMA RequestEffect ==
  ASSUME TypeOK, OnePlace, Request
  PROVE  Effect
<1>1. CASE requestMove
  BY <1>1, MovesFromType, MoveDurationType, TakeOffEffect DEF requestMove, MotionTypes, Effect
<1>2. CASE requestJump
  BY <1>2, EngineAssumption, TakeOffEffect DEF requestJump, MotionTypes, Effect
<1>3. CASE RequestRejected
  BY <1>3, SameSets DEF RequestRejected, vars, pieceVars, Quiet, Effect
<1> QED
  BY <1>1, <1>2, <1>3 DEF Request

LEMMA TimeEffect ==
  ASSUME TypeOK, WaitCall \/ WaitEnd \/ AdvanceTime
  PROVE  Effect
<1>1. Quiet
  BY SameSets DEF Quiet, WaitCall, WaitBegin, WaitEnd, AdvanceTime, pieceVars
<1> QED
  BY <1>1 DEF Effect

LEMMA GroundEffect ==
  ASSUME TypeOK, OnePlace, CheckGround
  PROVE  Effect
<1>1. CASE GroundCapture
  <2>1. PICK k \in Indices :
          LET m == activeMotions[k]
              victim == getPiece(grid, CellNow(m))
          IN  /\ NextGroundHit(k)
              /\ FacesEnemy(m)
              /\ grid' = removePiece(grid, CellNow(m))
              /\ captured' = captured \union {victim}
              /\ DecideFor(Color[m.piece], isFatalDeath(kind[victim]))
    BY <1>1 DEF GroundCapture, Indices
  <2> DEFINE pos == CellNow(activeMotions[k])
             c == activeMotions[k].piece
             v == grid[pos]
  <2>2. pos \in Position /\ getPiece(grid, pos) # NoPiece
    BY <2>1, MotionsAt, MotionUpdates DEF NextGroundHit, HitsGround
  <2>3. pos \in Cells /\ grid[pos] # NoPiece /\ getPiece(grid, pos) = v
    BY <2>2, GetPieceType
  <2>4. v \in Pieces /\ c \in Pieces /\ OnBoard(v)
    BY <2>2, <2>3, GetPieceType, MotionsAt DEF OnBoard
  <2>5. /\ Enemies(v, c)
        /\ captured' = captured \union {v}
        /\ DecideFor(Color[c], isFatalDeath(kind[v]))
        /\ grid' = removePiece(grid, pos)
    BY <2>1, <2>3 DEF FacesEnemy
  <2>6. \A q \in Pieces : OnBoard(q)' <=> OnBoard(q) /\ q # v
    <3> HIDE DEF pos
    <3> QED
      BY <2>3, <2>5, EmptiedCell DEF OnePlace
  <2> HIDE DEF v, c
  <2>7. TakesFromBoard(c, v)
    BY <1>1, <2>4, <2>5, <2>6, SameSets DEF TakesFromBoard, GroundCapture, pieceVars
  <2> QED
    BY <2>4, <2>7 DEF Effect
<1>2. CASE GroundBlocked
  <2>1. PICK k \in Indices :
          activeMotions' = [activeMotions EXCEPT ![k] =
             [activeMotions[k] EXCEPT !.destination = CellBefore(activeMotions[k]),
                                      !.arrivalTime = currentTime]]
    BY <1>2 DEF GroundBlocked, Indices
  <2> DEFINE m == [activeMotions[k] EXCEPT !.destination = CellBefore(activeMotions[k]),
                                           !.arrivalTime = currentTime]
  <2>2. m.piece = activeMotions[k].piece /\ m.isDead = activeMotions[k].isDead
    BY MotionsAt DEF Motions
  <2> HIDE DEF m
  <2>3. SameFlights /\ SameDead
    BY <2>1, <2>2, OneKept DEF m
  <2>4. Quiet
    BY <1>2, <2>3, SameSets DEF Quiet, GroundBlocked, pieceVars
  <2> QED
    BY <2>4 DEF Effect
<1>3. CASE GroundDone
  <2>1. Quiet
    BY <1>3, SameSets DEF Quiet, GroundDone, pieceVars
  <2> QED
    BY <2>1 DEF Effect
<1> QED
  BY <1>1, <1>2, <1>3 DEF CheckGround

\* Marking the motions of ks dead kills their pieces.
LEMMA MarkedDead ==
  ASSUME TypeOK, OnePlace, NEW ks \in SUBSET Indices,
         Len(activeMotions') = Len(activeMotions),
         \A n \in Indices : /\ activeMotions'[n].piece = activeMotions[n].piece
                            /\ activeMotions'[n].isDead <=> (activeMotions[n].isDead \/ n \in ks)
  PROVE  /\ SameFlights
         /\ \A q \in Pieces : Dead(q)' <=> Dead(q) \/ q \in {activeMotions[n].piece : n \in ks}
<1>1. SameFlights
  BY DEF SameFlights, Flying, Carries, Indices
<1>2. \A q \in Pieces : Dead(q)' <=> Dead(q) \/ \E n \in ks : activeMotions[n].piece = q
  BY DEF Dead, DeadIn, Indices
<1> QED
  BY <1>1, <1>2

\* An enemy is of the other color.
LEMMA EnemyColors ==
  ASSUME NEW p \in Pieces, NEW q \in Pieces, Enemies(p, q)
  PROVE  Color[p] = Opponent(Color[q])
BY ColorAssumption DEF Enemies, Opponent, Colors

LEMMA AirKillEffect ==
  ASSUME TypeOK, OnePlace, AirKill
  PROVE  Effect
<1> DEFINE Killed(u, v) ==
        LET p == activeMotions[v].piece
        IN  /\ Kills(activeMotions[u], activeMotions[v])
            /\ activeMotions' = [activeMotions EXCEPT ![v] = [@ EXCEPT !.isDead = TRUE]]
            /\ captured' = captured \union {p}
            /\ DecideFor(Color[activeMotions[u].piece], isFatalDeath(kind[p]))
<1>1. \E k, l \in Indices : \E u, v \in {k, l} : Killed(u, v)
  BY Zenon DEF AirKill
<1>2. PICK u \in Indices, v \in Indices : Killed(u, v)
  <2> HIDE DEF Killed
  <2> QED
    BY <1>1
<1> DEFINE p == activeMotions[v].piece
           c == activeMotions[u].piece
<1>3. /\ p \in Pieces /\ c \in Pieces /\ Enemies(c, p) /\ Flying(p)
      /\ captured' = captured \union {p}
      /\ DecideFor(Color[c], isFatalDeath(kind[p]))
  BY <1>2, MotionsAt DEF Kills, Flying, Carries, Indices
<1>4. /\ Len(activeMotions') = Len(activeMotions)
      /\ \A n \in Indices : /\ activeMotions'[n].piece = activeMotions[n].piece
                            /\ activeMotions'[n].isDead <=> (activeMotions[n].isDead \/ n \in {v})
  <2>1. activeMotions' = [activeMotions EXCEPT ![v] = [activeMotions[v] EXCEPT !.isDead = TRUE]]
    BY <1>2, MotionsAt
  <2>2. /\ [activeMotions[v] EXCEPT !.isDead = TRUE].piece = activeMotions[v].piece
        /\ [activeMotions[v] EXCEPT !.isDead = TRUE].isDead = TRUE
    BY MotionsAt DEF Motions
  <2> QED
    BY <2>1, <2>2, MotionsAt DEF TypeOK, Indices
<1>5. /\ SameFlights
      /\ \A q \in Pieces : Dead(q)' <=> Dead(q) \/ q \in {activeMotions[n].piece : n \in {v}}
  BY <1>4, MarkedDead
<1>6. {activeMotions[n].piece : n \in {v}} = {p}
  OBVIOUS
<1> HIDE DEF p, c
<1>7. /\ isGameOver' = (isGameOver \/ \E w \in {p} : isFatalDeath(kind[w]))
      /\ \/ winner' = winner
         \/ \E w \in {p} : isFatalDeath(kind[w]) /\ winner' = Opponent(Color[w])
  <2>1. Color[c] = Opponent(Color[p])
    BY <1>3, EnemyColors
  <2> QED
    BY <1>3, <2>1 DEF DecideFor, isFatalDeath
<1>8. KillsInFlight({p})
  BY <1>3, <1>5, <1>6, <1>7, SameSets DEF KillsInFlight, AirKill, pieceVars
<1> QED
  BY <1>3, <1>8 DEF Effect

LEMMA AirKillBothEffect ==
  ASSUME TypeOK, OnePlace, AirKillBoth
  PROVE  Effect
<1>1. PICK k \in Indices, l \in Indices :
        LET p == activeMotions[k].piece
            q == activeMotions[l].piece
        IN  /\ activeMotions' = [activeMotions EXCEPT ![k] = [@ EXCEPT !.isDead = TRUE],
                                                      ![l] = [@ EXCEPT !.isDead = TRUE]]
            /\ captured' = captured \union {p, q}
            /\ isGameOver' = (isGameOver \/ isFatalDeath(kind[p]) \/ isFatalDeath(kind[q]))
  BY DEF AirKillBoth
<1> DEFINE p == activeMotions[k].piece
           q == activeMotions[l].piece
           once == [activeMotions EXCEPT ![k] = [activeMotions[k] EXCEPT !.isDead = TRUE]]
<1>2. p \in Pieces /\ q \in Pieces /\ Flying(p) /\ Flying(q)
  BY MotionsAt DEF Flying, Carries, Indices
<1>3. /\ Len(activeMotions') = Len(activeMotions)
      /\ \A n \in Indices : /\ activeMotions'[n].piece = activeMotions[n].piece
                            /\ activeMotions'[n].isDead <=> (activeMotions[n].isDead \/ n \in {k, l})
  <2>1. activeMotions' = [once EXCEPT ![l] = [once[l] EXCEPT !.isDead = TRUE]]
    BY <1>1, MotionsAt
  <2>2. \A m \in Motions : /\ [m EXCEPT !.isDead = TRUE] \in Motions
                           /\ [m EXCEPT !.isDead = TRUE].piece = m.piece
                           /\ [m EXCEPT !.isDead = TRUE].isDead = TRUE
    BY DEF Motions
  <2>3. /\ DOMAIN once = Indices /\ Len(once) = Len(activeMotions)
        /\ \A n \in Indices : /\ once[n] \in Motions
                              /\ once[n].piece = activeMotions[n].piece
                              /\ once[n].isDead <=> (activeMotions[n].isDead \/ n = k)
    BY <2>2, MotionsAt DEF TypeOK, Indices
  <2> HIDE DEF once
  <2>4. /\ DOMAIN activeMotions' = Indices
        /\ \A n \in Indices : activeMotions'[n] = IF n = l THEN [once[l] EXCEPT !.isDead = TRUE] ELSE once[n]
    BY <2>1, <2>3
  <2>5. Len(activeMotions') = Len(activeMotions)
    BY <2>1, <2>3, MotionsAt DEF Indices
  <2>6. ASSUME NEW n \in Indices
        PROVE  /\ activeMotions'[n].piece = activeMotions[n].piece
               /\ activeMotions'[n].isDead <=> (activeMotions[n].isDead \/ n \in {k, l})
    <3>1. CASE n = l
      <4>1. activeMotions'[n].piece = once[n].piece /\ activeMotions'[n].isDead = TRUE
        BY <2>2, <2>3, <2>4, <3>1
      <4> QED
        BY <2>3, <3>1, <4>1
    <3>2. CASE n # l
      <4>1. activeMotions'[n] = once[n]
        BY <2>4, <3>2
      <4> QED
        BY <2>3, <3>2, <4>1
    <3> QED
      BY <3>1, <3>2
  <2> QED
    BY <2>5, <2>6
<1>4. /\ SameFlights
      /\ \A r \in Pieces : Dead(r)' <=> Dead(r) \/ r \in {activeMotions[n].piece : n \in {k, l}}
  BY <1>3, MarkedDead
<1>5. {activeMotions[n].piece : n \in {k, l}} = {p, q}
  OBVIOUS
<1>6. captured' = captured \union {p, q}
  BY <1>1
<1>7. isGameOver' = (isGameOver \/ \E w \in {p, q} : isFatalDeath(kind[w]))
  BY <1>1 DEF isFatalDeath
<1> HIDE DEF p, q
<1>8. KillsInFlight({p, q})
  BY <1>2, <1>4, <1>5, <1>6, <1>7, SameSets DEF KillsInFlight, AirKillBoth, pieceVars
<1> QED
  BY <1>2, <1>8 DEF Effect

\* A nonempty set of indices has a largest one: the last dead king.
LEMMA LastOfIndices ==
  ASSUME NEW n \in Nat, NEW S \in SUBSET (1 .. n), S # {}
  PROVE  Max(S) \in S
<1> DEFINE Above(x) == {y \in S : y > x}
           Tails == {Above(x) : x \in S}
           R == StrictSubsetOrdering(S)
<1>1. IsFiniteSet(S)
  <2>1. IsFiniteSet(1 .. n)
    BY FS_Interval
  <2> QED
    BY <2>1, FS_Subset
<1>2. IsWellFoundedOn(R, SUBSET S)
  BY <1>1, FS_FiniteSubsetsOfFinite, FS_StrictSubsetOrderingWellFounded
<1>3. Tails \subseteq SUBSET S /\ Tails # {}
  OBVIOUS
<1>4. PICK T \in Tails : \A U \in Tails : <<U, T>> \notin R
  <2> HIDE DEF R, Tails
  <2> QED
    BY <1>2, <1>3, WFMin
<1>5. PICK x \in S : T = Above(x)
  BY <1>4
<1>6. \A y \in S : x >= y
  <2>0. x \in Int /\ \A y \in S : y \in Int
    OBVIOUS
  <2> SUFFICES ASSUME NEW y \in S, y > x PROVE FALSE
    BY <2>0
  <2>1. Above(y) \in Tails /\ Above(x) \in Tails
    OBVIOUS
  <2>2. Above(y) \subseteq Above(x) /\ y \in Above(x) /\ y \notin Above(y)
    <3>1. \A z \in S : z > y => z > x
      BY <2>0
    <3>2. ~(y > y)
      BY <2>0
    <3> QED
      BY <3>1, <3>2
  <2>3. <<Above(y), Above(x)>> \in R
    <3>1. Above(x) \subseteq S /\ Above(y) \subseteq S
      OBVIOUS
    <3> HIDE DEF Above
    <3> QED
      BY <2>2, <3>1 DEF StrictSubsetOrdering
  <2> QED
    BY <1>4, <1>5, <2>1, <2>3
<1> QED
  BY <1>6 DEF Max

LEMMA JudgeEffect ==
  ASSUME TypeOK, OnePlace, JudgeDead
  PROVE  Effect
<1>1. Len(activeMotions) \in Nat /\ DeadFatal \subseteq 1 .. Len(activeMotions)
  BY MotionsAt DEF DeadFatal, Indices
<1>2. DeadFatal # {} <=> \E p \in Pieces : Dead(p) /\ isFatalDeath(kind[p])
  BY MotionsAt DEF DeadFatal, Dead, DeadIn, Indices
<1>3. DeadFatal # {} => \E p \in Pieces : /\ Dead(p) /\ isFatalDeath(kind[p])
                                          /\ winner' = Opponent(Color[p])
  <2> SUFFICES ASSUME DeadFatal # {}
               PROVE  \E p \in Pieces : /\ Dead(p) /\ isFatalDeath(kind[p])
                                        /\ winner' = Opponent(Color[p])
    OBVIOUS
  <2>1. Max(DeadFatal) \in DeadFatal
    BY <1>1, LastOfIndices
  <2> DEFINE n == Max(DeadFatal)
  <2>2. winner' = Opponent(Color[activeMotions[n].piece])
    BY DEF JudgeDead
  <2> HIDE DEF n
  <2>3. n \in Indices /\ activeMotions[n].isDead /\ isFatalDeath(kind[activeMotions[n].piece])
    BY <2>1 DEF DeadFatal, n
  <2>4. activeMotions[n].piece \in Pieces /\ Dead(activeMotions[n].piece)
    BY <2>3, MotionsAt DEF Dead, DeadIn, Indices
  <2> QED
    BY <2>2, <2>3, <2>4
<1>4. DeadFatal = {} => winner' = winner
  BY DEF JudgeDead
<1>5. isGameOver' = (isGameOver \/ \E p \in Pieces : Dead(p) /\ isFatalDeath(kind[p]))
  BY <1>2 DEF JudgeDead
<1>6. Judges
  BY <1>2, <1>3, <1>4, <1>5, SameSets DEF Judges, JudgeDead, pieceVars
<1> QED
  BY <1>6 DEF Effect

LEMMA AirEffect ==
  ASSUME TypeOK, OnePlace, CheckAir
  PROVE  Effect
<1>1. CASE AirStop
  <2>1. PICK n \in Indices : activeMotions' = [activeMotions EXCEPT ![n] = CutShort(activeMotions[n])]
    BY <1>1 DEF AirStop
  <2>2. /\ CutShort(activeMotions[n]).piece = activeMotions[n].piece
        /\ CutShort(activeMotions[n]).isDead = activeMotions[n].isDead
    BY MotionsAt DEF Motions, CutShort
  <2>3. SameFlights /\ SameDead
    BY <2>1, <2>2, OneKept
  <2>4. Quiet
    BY <1>1, <2>3, SameSets DEF Quiet, AirStop, pieceVars
  <2> QED
    BY <2>4 DEF Effect
<1> QED
  BY <1>1, AirKillEffect, AirKillBothEffect, JudgeEffect DEF CheckAir

\* A vector without its motion k has lost the piece of k, and nothing else.
LEMMA RetireEffect ==
  ASSUME TypeOK, OnePlace, Retire
  PROVE  Effect
<1> DEFINE Rest(k) == RemoveAt(activeMotions, k)
<1>0. ASSUME NEW k \in Indices
      PROVE  /\ \A p : Carries(Rest(k), p) <=> Flying(p) /\ p # activeMotions[k].piece
             /\ \A p : DeadIn(Rest(k), p) <=> Dead(p) /\ p # activeMotions[k].piece
  <2>1. k \in 1 .. Len(activeMotions) /\ activeMotions \in Seq(Motions) /\ NoTwins(activeMotions)
    BY DEF Indices, TypeOK, OnePlace
  <2>2. /\ Rest(k) \in Seq(Motions)
        /\ Len(Rest(k)) = Len(activeMotions) - 1
        /\ \A l \in 1 .. (Len(activeMotions) - 1) :
             Rest(k)[l] = IF l < k THEN activeMotions[l] ELSE activeMotions[l + 1]
    BY <2>1, RemoveAtProperties
  <2> HIDE DEF Rest
  <2>3. \A p : Carries(Rest(k), p) <=> Flying(p) /\ p # activeMotions[k].piece
    BY <2>1, <2>2, WithoutFacts DEF Flying
  <2>4. \A l \in 1 .. Len(Rest(k)) :
           \E n \in 1 .. Len(activeMotions) : n # k /\ Rest(k)[l] = activeMotions[n]
    BY <2>1, <2>2, MotionsAt
  <2>5. \A n \in 1 .. Len(activeMotions) :
           n # k => \E l \in 1 .. Len(Rest(k)) : Rest(k)[l] = activeMotions[n]
    <3> SUFFICES ASSUME NEW n \in 1 .. Len(activeMotions), n # k
                 PROVE  \E l \in 1 .. Len(Rest(k)) : Rest(k)[l] = activeMotions[n]
      OBVIOUS
    <3>1. CASE n < k
      <4>1. n \in 1 .. Len(Rest(k)) /\ Rest(k)[n] = activeMotions[n]
        BY <2>1, <2>2, <3>1, MotionsAt
      <4> QED
        BY <4>1
    <3>2. CASE n > k
      <4>1. n - 1 \in 1 .. Len(Rest(k)) /\ Rest(k)[n - 1] = activeMotions[n]
        BY <2>1, <2>2, <3>2, MotionsAt
      <4> QED
        BY <4>1
    <3> QED
      BY <2>1, <3>1, <3>2, MotionsAt
  <2>6. ASSUME NEW p, DeadIn(Rest(k), p)
        PROVE  Dead(p) /\ p # activeMotions[k].piece
    BY <2>1, <2>4, <2>6 DEF DeadIn, Dead, NoTwins
  <2>7. ASSUME NEW p, Dead(p), p # activeMotions[k].piece
        PROVE  DeadIn(Rest(k), p)
    BY <2>1, <2>5, <2>7 DEF DeadIn, Dead
  <2> QED
    BY <2>3, <2>6, <2>7
<1> HIDE DEF Rest
<1>1. CASE CleanupDead
  <2>1. PICK k \in Indices : activeMotions[k].isDead /\ activeMotions' = Rest(k)
    BY <1>1 DEF CleanupDead, IsFirst, IsDead, Rest
  <2> DEFINE p == activeMotions[k].piece
  <2>2. p \in Pieces /\ Dead(p)
    BY <2>1, MotionsAt DEF Dead, DeadIn, Indices
  <2>3. \A q \in Pieces : /\ Flying(q)' <=> Flying(q) /\ q # p
                          /\ Dead(q)' <=> Dead(q) /\ q # p
    BY <1>0, <2>1 DEF Flying, Dead
  <2> HIDE DEF p
  <2>4. Vanishes(p)
    BY <1>1, <2>2, <2>3, SameSets DEF Vanishes, CleanupDead, pieceVars
  <2> QED
    BY <2>2, <2>4 DEF Effect
<1>2. CASE PopArrived
  <2>1. PICK k \in Indices : /\ arrivals' = Append(arrivals, activeMotions[k])
                             /\ activeMotions' = Rest(k)
    BY <1>2 DEF PopArrived, Rest
  <2> DEFINE m == activeMotions[k]
             p == m.piece
  <2>2. m \in Motions /\ p \in Pieces /\ Flying(p)
    BY MotionsAt DEF Flying, Carries, Indices
  <2>3. \A q : ~Dead(q)
    BY <1>2 DEF PopArrived, IsDead, Dead, DeadIn, Indices
  <2>4. \A q \in Pieces : LandingNow(q)' <=> LandingNow(q) \/ q = p
    <3>1. ~Carries(arrivals, p)
      BY <2>2 DEF OnePlace, LandingNow
    <3> QED
      BY <2>1, <2>2, <3>1, AppendFacts DEF OnePlace, TypeOK, LandingNow
  <2>5. \A q \in Pieces : /\ Flying(q)' <=> Flying(q) /\ q # p
                          /\ Dead(q)' <=> Dead(q) /\ q # p
    BY <1>0, <2>1 DEF Flying, Dead
  <2> HIDE DEF p, m
  <2>6. Descends(p)
    BY <1>2, <2>2, <2>3, <2>4, <2>5, SameSets DEF Descends, PopArrived, pieceVars, SameDead
  <2> QED
    BY <2>2, <2>6 DEF Effect
<1>3. CASE PopDone
  <2>1. Quiet
    BY <1>3, SameSets DEF Quiet, PopDone, pieceVars
  <2> QED
    BY <2>1 DEF Effect
<1> QED
  BY <1>1, <1>2, <1>3 DEF Retire

\* The parts of a landing that do not depend on what stands on the cell.
LEMMA TouchDownEffect ==
  ASSUME TypeOK, OnePlace, arrivals # << >>, TouchDown(arrivals[1])
  PROVE  /\ arrivals[1].piece \in Pieces
         /\ LandingNow(arrivals[1].piece) /\ ~OnBoard(arrivals[1].piece)
         /\ pieceState'[arrivals[1].piece] \in RestStates
         /\ \A q \in Pieces : /\ LandingNow(q)' <=> LandingNow(q) /\ q # arrivals[1].piece
                              /\ q # arrivals[1].piece => pieceState'[q] = pieceState[q]
                              /\ kind'[q] = "King" <=> kind[q] = "King"
<1> DEFINE m == arrivals[1]
<1>1. /\ m.piece \in Pieces /\ ~OnBoard(m.piece)
      /\ \A q : LandingNow(q)' <=> LandingNow(q) /\ q # m.piece
  BY LandingFirst DEF TouchDown
<1>2. LandingNow(m.piece)
  BY ArrivalsAt DEF LandingNow, Carries
<1>3. RestAfter(m) \in RestStates
  BY DEF RestAfter, RestStates
<1>4. pieceState' = [pieceState EXCEPT ![m.piece] = RestAfter(m)]
  BY DEF TouchDown
<1>5. kind' = [kind EXCEPT ![m.piece] = KindOnArrival(kind[m.piece], m.destination)]
  BY <1>1 DEF TouchDown, TypeOK
<1>6. KindOnArrival(kind[m.piece], m.destination) = "King" <=> kind[m.piece] = "King"
  BY DEF KindOnArrival
<1> HIDE DEF m
<1>7. /\ pieceState'[m.piece] \in RestStates
      /\ \A q \in Pieces : /\ q # m.piece => pieceState'[q] = pieceState[q]
                           /\ kind'[q] = "King" <=> kind[q] = "King"
  BY <1>1, <1>3, <1>4, <1>5, <1>6 DEF TypeOK
<1> QED
  BY <1>1, <1>2, <1>7 DEF m

\* A landing piece on the board g that is left when the pieces of vs are taken.
LEMMA LandedEffect ==
  ASSUME TypeOK, OnePlace, Landing, TouchDown(arrivals[1]), UNCHANGED activeMotions,
         NEW vs \in SUBSET Pieces, \A v \in vs : OnBoard(v) /\ Enemies(v, arrivals[1].piece),
         NEW g \in [Cells -> Pieces \union {NoPiece}], NoTwinsOnGrid(g),
         \A q \in Pieces : Stands(g, q) <=> OnBoard(q) /\ q \notin vs,
         NEW pos \in Position, grid' = addPiece(g, arrivals[1].piece, pos),
         lost' = IF CanAdd(g, pos) THEN lost ELSE lost \union {arrivals[1].piece},
         captured' = captured \union vs,
         isGameOver' = (isGameOver \/ \E v \in vs : isFatalDeath(kind[v])),
         winner' = IF \E v \in vs : isFatalDeath(kind[v]) THEN Color[arrivals[1].piece] ELSE winner
  PROVE  ComesDown(arrivals[1].piece, vs)
<1> DEFINE p == arrivals[1].piece
<1>1. /\ p \in Pieces /\ LandingNow(p) /\ ~OnBoard(p)
      /\ pieceState'[p] \in RestStates
      /\ \A q \in Pieces : /\ LandingNow(q)' <=> LandingNow(q) /\ q # p
                           /\ q # p => pieceState'[q] = pieceState[q]
                           /\ kind'[q] = "King" <=> kind[q] = "King"
  BY TouchDownEffect DEF Landing
<1>2. at # "air"
  BY DEF Landing
<1>3. /\ \A v \in vs : OnBoard(v) /\ Enemies(v, p)
      /\ grid' = addPiece(g, p, pos)
      /\ lost' = IF CanAdd(g, pos) THEN lost ELSE lost \union {p}
      /\ winner' = IF \E v \in vs : isFatalDeath(kind[v]) THEN Color[p] ELSE winner
  OBVIOUS
<1> HIDE DEF p
<1>4. \A q \in Pieces : OnBoard(q)' <=> (OnBoard(q) /\ q \notin vs) \/ (q = p /\ CanAdd(g, pos))
  <2>1. \A q \in Pieces : Stands(addPiece(g, p, pos), q)
                             <=> Stands(g, q) \/ (q = p /\ CanAdd(g, pos))
    BY <1>1, AddPieceFacts
  <2>2. \A q : OnBoard(q)' <=> Stands(addPiece(g, p, pos), q)
    BY <1>3 DEF OnBoard, Stands
  <2>3. \A q \in Pieces : Stands(g, q) <=> OnBoard(q) /\ q \notin vs
    OBVIOUS
  <2> QED
    BY <2>1, <2>2, <2>3
<1>5. {q \in {p} : ~OnBoard(q)'} = IF CanAdd(g, pos) THEN {} ELSE {p}
  BY <1>1, <1>4
<1>6. p \notin vs
  BY <1>1
<1>7. lost' = lost \union {q \in {p} : ~OnBoard(q)'}
  BY <1>3, <1>5
<1>8. \A q \in Pieces : q # p => (OnBoard(q)' <=> OnBoard(q) /\ q \notin vs)
  BY <1>4
<1>9. ComesDown(p, vs)
  BY <1>1, <1>2, <1>3, <1>6, <1>7, <1>8, SameSets DEF ComesDown
<1> QED
  BY <1>9 DEF p

LEMMA LandEffect ==
  ASSUME TypeOK, OnePlace, Land
  PROVE  Effect
<1> DEFINE m == arrivals[1]
           p == m.piece
<1>0. /\ grid \in [Cells -> Pieces \union {NoPiece}] /\ NoTwinsOnGrid(grid)
      /\ \A q \in Pieces : Stands(grid, q) <=> OnBoard(q)
  BY DEF TypeOK, OnePlace, Stands, OnBoard
<1>1. CASE LandOnEmpty
  <2>1. /\ Landing /\ TouchDown(m) /\ UNCHANGED activeMotions
        /\ grid' = addPiece(grid, p, m.destination)
        /\ lost' = IF CanAdd(grid, m.destination) THEN lost ELSE lost \union {p}
        /\ UNCHANGED <<captured, isGameOver, winner>>
    BY <1>1 DEF LandOnEmpty, gameVars
  <2>2. m.destination \in Position /\ p \in Pieces
    BY <2>1, ArrivalsAt DEF Landing
  <2>3. /\ captured' = captured \union {}
        /\ isGameOver' = (isGameOver \/ \E v \in {} : isFatalDeath(kind[v]))
        /\ winner' = IF \E v \in {} : isFatalDeath(kind[v]) THEN Color[p] ELSE winner
        /\ {} \in SUBSET Pieces /\ \A v \in {} : OnBoard(v) /\ Enemies(v, p)
        /\ \A q \in Pieces : Stands(grid, q) <=> OnBoard(q) /\ q \notin {}
    BY <1>0, <2>1 DEF TypeOK
  <2>4. ComesDown(p, {})
    BY <1>0, <2>1, <2>2, <2>3, LandedEffect
  <2> QED
    BY <2>2, <2>4 DEF Effect
<1>2. CASE LandOnEnemy
  <2> DEFINE v == getPiece(grid, m.destination)
             g == removePiece(grid, m.destination)
  <2>1. /\ Landing /\ TouchDown(m) /\ UNCHANGED activeMotions
        /\ v # NoPiece /\ Enemies(v, p)
        /\ grid' = addPiece(g, p, m.destination)
        /\ captured' = captured \union {v}
        /\ DecideFor(Color[p], isFatalDeath(kind[v]))
        /\ UNCHANGED lost
    BY <1>2 DEF LandOnEnemy
  <2>2. m.destination \in Position /\ p \in Pieces
    BY <2>1, ArrivalsAt DEF Landing
  <2>3. m.destination \in Cells /\ grid[m.destination] = v /\ v \in Pieces
    BY <2>1, <2>2, GetPieceType
  <2>4. OnBoard(v)
    BY <2>3 DEF OnBoard
  <2>5. /\ g \in [Cells -> Pieces \union {NoPiece}] /\ NoTwinsOnGrid(g)
        /\ g[m.destination] = NoPiece
        /\ \A q \in Pieces : Stands(g, q) <=> OnBoard(q) /\ q \notin {v}
    <3>1. grid[m.destination] # NoPiece
      BY <2>1, <2>3
    <3> HIDE DEF m
    <3>2. /\ g \in [Cells -> Pieces \union {NoPiece}] /\ NoTwinsOnGrid(g)
          /\ g[m.destination] = NoPiece
          /\ \A q \in Pieces : Stands(g, q) <=> Stands(grid, q) /\ q # grid[m.destination]
      BY <1>0, <2>3, <3>1, RemovePieceFacts
    <3> HIDE DEF g, v
    <3> QED
      BY <1>0, <2>3, <3>2
  <2>6. CanAdd(g, m.destination)
    BY <2>3, <2>5, CellFacts DEF CanAdd
  <2> HIDE DEF g, v
  <2>7. /\ lost' = IF CanAdd(g, m.destination) THEN lost ELSE lost \union {p}
        /\ isGameOver' = (isGameOver \/ \E w \in {v} : isFatalDeath(kind[w]))
        /\ winner' = IF \E w \in {v} : isFatalDeath(kind[w]) THEN Color[p] ELSE winner
    BY <2>1, <2>6 DEF DecideFor, isFatalDeath
  <2>8. {v} \in SUBSET Pieces /\ \A w \in {v} : OnBoard(w) /\ Enemies(w, p)
    BY <2>1, <2>3, <2>4
  <2>9. ComesDown(p, {v})
    BY <2>1, <2>2, <2>5, <2>7, <2>8, LandedEffect
  <2> QED
    BY <2>2, <2>3, <2>9 DEF Effect
<1>3. CASE LandBounced
  <2>1. /\ Landing /\ TouchDown(m) /\ UNCHANGED activeMotions
        /\ grid' = addPiece(grid, p, BounceCell(m))
        /\ lost' = IF CanAdd(grid, BounceCell(m)) THEN lost ELSE lost \union {p}
        /\ UNCHANGED <<captured, isGameOver, winner>>
    BY <1>3 DEF LandBounced, gameVars
  <2>2. BounceCell(m) \in Position /\ p \in Pieces
    BY <2>1, ArrivalsAt, BounceCellType DEF Landing
  <2>3. /\ captured' = captured \union {}
        /\ isGameOver' = (isGameOver \/ \E v \in {} : isFatalDeath(kind[v]))
        /\ winner' = IF \E v \in {} : isFatalDeath(kind[v]) THEN Color[p] ELSE winner
        /\ {} \in SUBSET Pieces /\ \A v \in {} : OnBoard(v) /\ Enemies(v, p)
        /\ \A q \in Pieces : Stands(grid, q) <=> OnBoard(q) /\ q \notin {}
    BY <1>0, <2>1 DEF TypeOK
  <2>4. ComesDown(p, {})
    BY <1>0, <2>1, <2>2, <2>3, LandedEffect
  <2> QED
    BY <2>2, <2>4 DEF Effect
<1>4. CASE WakeRested
  <2>1. \A q \in Pieces : pieceState'[q] \in {pieceState[q], "Idle"}
    BY <1>4 DEF WakeRested
  <2>2. Quiet
    BY <1>4, <2>1, SameSets DEF Quiet, WakeRested
  <2> QED
    BY <2>2 DEF Effect
<1> QED
  BY <1>1, <1>2, <1>3, <1>4 DEF Land

LEMMA EveryStepHasAnEffect ==
  TypeOK /\ OnePlace /\ [Next]_vars => Effect
<1> SUFFICES ASSUME TypeOK, OnePlace, [Next]_vars PROVE Effect
  OBVIOUS
<1>1. CASE UNCHANGED vars
  BY <1>1, SameSets DEF vars, pieceVars, Quiet, Effect
<1>2. CASE Request
  BY <1>2, RequestEffect
<1>3. CASE WaitCall \/ WaitEnd \/ AdvanceTime
  BY <1>3, TimeEffect
<1>4. CASE CheckGround
  BY <1>4, GroundEffect
<1>5. CASE CheckAir
  BY <1>5, AirEffect
<1>6. CASE Retire
  BY <1>6, RetireEffect
<1>7. CASE Land
  BY <1>7, LandEffect
<1> QED
  BY <1>1, <1>2, <1>3, <1>4, <1>5, <1>6, <1>7 DEF Next, WaitStep

-----------------------------------------------------------------------------
(* The invariant.                                                          *)

DeadAreCaptured == \A p \in Pieces : Dead(p) => p \in captured

KingsAgainst(color) == {p \in Pieces : InitialKind[p] = "King" /\ Color[p] = Opponent(color)}
WinnerTookOne == winner \in Colors => captured \intersect KingsAgainst(winner) # {}

\* Two kings that fall together end the game before anybody has won it.
JudgedSoon == isGameOver /\ winner = "None"
                => at = "air" /\ \E p \in Pieces : Dead(p) /\ isFatalDeath(kind[p])

NeverBoth == captured \intersect lost = {}

OutcomeInv == /\ TypeOK /\ OnePlace
              /\ KingsStay /\ DeadAreCaptured /\ Accounted /\ NeverBoth
              /\ GameOverIffKingCaptured /\ WinnerTookOne /\ JudgedSoon

LEMMA InPlaySets ==
  ASSUME OnePlace
  PROVE  \A p \in Pieces : InPlay(p) <=> OnBoard(p) \/ (Flying(p) /\ ~Dead(p)) \/ LandingNow(p)
<1>1. \A p : AliveIn(activeMotions, p) <=> Flying(p) /\ ~Dead(p)
  BY AliveOrDead DEF OnePlace, Flying, Dead
<1> QED
  BY <1>1 DEF InPlay, FlyingAlive, AliveIn, Indices

LEMMA InPlaySetsNext ==
  ASSUME OnePlace'
  PROVE  \A p \in Pieces :
           InPlay(p)' <=> OnBoard(p)' \/ (Flying(p)' /\ ~Dead(p)') \/ LandingNow(p)'
<1>1. \A p : AliveIn(activeMotions', p) <=> Carries(activeMotions', p) /\ ~DeadIn(activeMotions', p)
  BY AliveOrDead DEF OnePlace
<1>2. \A p : /\ FlyingAlive(p)' <=> AliveIn(activeMotions', p)
             /\ Flying(p)' <=> Carries(activeMotions', p)
             /\ Dead(p)' <=> DeadIn(activeMotions', p)
  BY DEF FlyingAlive, AliveIn, Flying, Dead, Indices
<1> QED
  BY <1>1, <1>2 DEF InPlay

LEMMA EffectKings ==
  ASSUME KingsStay, Effect
  PROVE  KingsStay'
BY DEF Effect, KingsStay, Quiet, Judges, Lifts, Vanishes, Descends, TakesFromBoard,
       KillsInFlight, ComesDown

LEMMA EffectDead ==
  ASSUME DeadAreCaptured, Effect
  PROVE  DeadAreCaptured'
BY DEF Effect, DeadAreCaptured, Quiet, Judges, Lifts, Vanishes, Descends, TakesFromBoard,
       KillsInFlight, ComesDown, SameDead, history

LEMMA EffectAccounted ==
  ASSUME TypeOK, OnePlace, OnePlace', DeadAreCaptured, Accounted, Effect
  PROVE  Accounted'
<1> DEFINE Was(p) == OnBoard(p) \/ (Flying(p) /\ ~Dead(p)) \/ LandingNow(p)
<1>1. \A p \in Pieces : Was(p) <=> p \notin captured \union lost
  BY InPlaySets DEF Accounted
<1>2. CASE Quiet \/ Judges
  BY <1>1, <1>2, InPlaySetsNext
  DEF Quiet, Judges, SameBoard, SameFlights, SameDead, SameLandings, history, Accounted
<1>3. ASSUME NEW q \in Pieces, Lifts(q)
      PROVE  Accounted'
  <2>1. ~Flying(q) /\ ~Dead(q)
    BY <1>3 DEF Lifts, OnePlace, Flying, Dead, Carries, DeadIn
  <2> QED
    BY <1>1, <1>3, <2>1, InPlaySetsNext
    DEF Lifts, SameDead, SameLandings, history, Accounted
<1>4. ASSUME NEW q \in Pieces, Vanishes(q) \/ Descends(q)
      PROVE  Accounted'
  BY <1>1, <1>4, InPlaySetsNext
  DEF Vanishes, Descends, SameBoard, SameDead, SameLandings, history, Accounted
<1>5. ASSUME NEW c \in Pieces, NEW v \in Pieces, TakesFromBoard(c, v)
      PROVE  Accounted'
  <2>1. ~Flying(v) /\ ~LandingNow(v)
    BY <1>5 DEF TakesFromBoard, OnePlace
  <2> QED
    BY <1>1, <1>5, <2>1, InPlaySetsNext
    DEF TakesFromBoard, SameFlights, SameDead, SameLandings, Accounted
<1>6. ASSUME NEW vs \in SUBSET Pieces, KillsInFlight(vs)
      PROVE  Accounted'
  <2>1. \A v \in vs : ~OnBoard(v) /\ ~LandingNow(v)
    BY <1>6 DEF KillsInFlight, OnePlace
  <2> QED
    BY <1>1, <1>6, <2>1, InPlaySetsNext
    DEF KillsInFlight, SameBoard, SameFlights, SameLandings, Accounted
<1>7. ASSUME NEW q \in Pieces, NEW vs \in SUBSET Pieces, ComesDown(q, vs)
      PROVE  Accounted'
  <2>1. ~Flying(q) /\ \A v \in vs : ~Flying(v) /\ ~LandingNow(v)
    BY <1>7 DEF ComesDown, OnePlace
  <2> QED
    BY <1>1, <1>7, <2>1, InPlaySetsNext
    DEF ComesDown, SameFlights, SameDead, Accounted
<1>8. \A v \in Pieces : {v} \in SUBSET Pieces
  OBVIOUS
<1> QED
  BY <1>2, <1>3, <1>4, <1>5, <1>6, <1>7, <1>8 DEF Effect

\* Victims are in play, and so is a piece that is lost.
LEMMA EffectNeverBoth ==
  ASSUME OnePlace, DeadAreCaptured, Accounted, NeverBoth, Effect
  PROVE  NeverBoth'
<1>1. \A p \in Pieces : OnBoard(p) \/ (Flying(p) /\ ~Dead(p)) \/ LandingNow(p)
                          <=> p \notin captured \union lost
  BY InPlaySets DEF Accounted
<1>2. CASE UNCHANGED history
  BY <1>2 DEF NeverBoth, history
<1>3. ASSUME NEW c \in Pieces, NEW v \in Pieces, TakesFromBoard(c, v)
      PROVE  NeverBoth'
  BY <1>1, <1>3 DEF TakesFromBoard, NeverBoth
<1>4. ASSUME NEW vs \in SUBSET Pieces, KillsInFlight(vs)
      PROVE  NeverBoth'
  BY <1>1, <1>4 DEF KillsInFlight, DeadAreCaptured, NeverBoth
<1>5. ASSUME NEW p \in Pieces, NEW vs \in SUBSET Pieces, ComesDown(p, vs)
      PROVE  NeverBoth'
  BY <1>1, <1>5 DEF ComesDown, NeverBoth
<1>6. \A v \in Pieces : {v} \in SUBSET Pieces
  OBVIOUS
<1> QED
  BY <1>2, <1>3, <1>4, <1>5, <1>6 DEF Effect, Quiet, Judges, Lifts, Vanishes, Descends

\* Who is captured, whether that ends the game, and who wins by it.
Fatal(vs) == \E v \in vs : InitialKind[v] = "King"

LEMMA EffectCaptures ==
  ASSUME TypeOK, KingsStay, DeadAreCaptured, GameOverIffKingCaptured, Effect
  PROVE  \E vs \in SUBSET Pieces :
           /\ captured' = captured \union vs
           /\ isGameOver' = (isGameOver \/ Fatal(vs))
<1>1. CASE Quiet \/ \E p \in Pieces : Lifts(p) \/ Vanishes(p) \/ Descends(p)
  <2>1. captured' = captured \union {} /\ isGameOver' = (isGameOver \/ Fatal({}))
    BY <1>1 DEF Quiet, Lifts, Vanishes, Descends, gameVars, history, Fatal, TypeOK
  <2> QED
    BY <2>1
<1>2. CASE Judges
  <2>1. (\E p \in Pieces : Dead(p) /\ isFatalDeath(kind[p])) => isGameOver
    BY DEF DeadAreCaptured, GameOverIffKingCaptured, KingsStay, isFatalDeath
  <2>2. captured' = captured \union {} /\ isGameOver' = (isGameOver \/ Fatal({}))
    BY <1>2, <2>1 DEF Judges, history, Fatal, TypeOK
  <2> QED
    BY <2>2
<1>3. ASSUME NEW c \in Pieces, NEW v \in Pieces, TakesFromBoard(c, v)
      PROVE  captured' = captured \union {v} /\ isGameOver' = (isGameOver \/ Fatal({v}))
  BY <1>3 DEF TakesFromBoard, DecideFor, Fatal, KingsStay, isFatalDeath
<1>4. ASSUME NEW vs \in SUBSET Pieces, KillsInFlight(vs)
      PROVE  captured' = captured \union vs /\ isGameOver' = (isGameOver \/ Fatal(vs))
  BY <1>4 DEF KillsInFlight, Fatal, KingsStay, isFatalDeath
<1>5. ASSUME NEW p \in Pieces, NEW vs \in SUBSET Pieces, ComesDown(p, vs)
      PROVE  captured' = captured \union vs /\ isGameOver' = (isGameOver \/ Fatal(vs))
  BY <1>5 DEF ComesDown, Fatal, KingsStay, isFatalDeath
<1>6. \A v \in Pieces : {v} \in SUBSET Pieces
  OBVIOUS
<1> QED
  BY <1>1, <1>2, <1>3, <1>4, <1>5, <1>6 DEF Effect

LEMMA EffectOver ==
  ASSUME TypeOK, KingsStay, DeadAreCaptured, GameOverIffKingCaptured, Effect
  PROVE  GameOverIffKingCaptured'
<1>1. PICK vs \in SUBSET Pieces : /\ captured' = captured \union vs
                                  /\ isGameOver' = (isGameOver \/ Fatal(vs))
  BY EffectCaptures
<1> QED
  BY <1>1 DEF GameOverIffKingCaptured, Fatal

\* Whoever becomes the winner does so by a king of the other color.
LEMMA NewWinner ==
  ASSUME TypeOK, KingsStay, DeadAreCaptured, Effect
  PROVE  \/ winner' = winner
         \/ winner' \in Colors /\ captured' \intersect KingsAgainst(winner') # {}
<1>1. ASSUME NEW p \in Pieces, p \in captured', isFatalDeath(kind[p]),
             winner' \in Colors, Color[p] = Opponent(winner')
      PROVE  captured' \intersect KingsAgainst(winner') # {}
  BY <1>1 DEF KingsAgainst, KingsStay, isFatalDeath
<1>2. \A p \in Pieces : /\ Opponent(Color[p]) \in Colors
                        /\ Color[p] = Opponent(Opponent(Color[p]))
                        /\ Color[p] \in Colors
  BY ColorAssumption DEF Opponent, Colors
<1>3. CASE Quiet \/ \E p \in Pieces : Lifts(p) \/ Vanishes(p) \/ Descends(p)
  BY <1>3 DEF Quiet, Lifts, Vanishes, Descends, gameVars
<1>4. CASE Judges
  <2>1. winner' = winner \/ \E p \in Pieces : /\ p \in captured' /\ isFatalDeath(kind[p])
                                              /\ winner' = Opponent(Color[p])
    BY <1>4 DEF Judges, DeadAreCaptured, history
  <2> QED
    BY <1>1, <1>2, <2>1
<1>5. ASSUME NEW c \in Pieces, NEW v \in Pieces, TakesFromBoard(c, v), winner' # winner
      PROVE  winner' \in Colors /\ captured' \intersect KingsAgainst(winner') # {}
  <2>1. winner' = Color[c] /\ isFatalDeath(kind[v]) /\ v \in captured'
    BY <1>5 DEF TakesFromBoard, DecideFor
  <2>2. Color[v] = Opponent(Color[c])
    BY <1>5, EnemyColors DEF TakesFromBoard
  <2> QED
    BY <1>1, <1>2, <2>1, <2>2
<1>6. ASSUME NEW vs \in SUBSET Pieces, KillsInFlight(vs), winner' # winner
      PROVE  winner' \in Colors /\ captured' \intersect KingsAgainst(winner') # {}
  <2>1. \E v \in vs : v \in captured' /\ isFatalDeath(kind[v]) /\ winner' = Opponent(Color[v])
    BY <1>6 DEF KillsInFlight
  <2> QED
    BY <1>1, <1>2, <2>1
<1>7. ASSUME NEW p \in Pieces, NEW vs \in SUBSET Pieces, ComesDown(p, vs), winner' # winner
      PROVE  winner' \in Colors /\ captured' \intersect KingsAgainst(winner') # {}
  <2>1. PICK v \in vs : v \in captured' /\ isFatalDeath(kind[v]) /\ Enemies(v, p)
    BY <1>7 DEF ComesDown
  <2>2. winner' = Color[p]
    BY <1>7 DEF ComesDown
  <2>3. Color[v] = Opponent(Color[p])
    BY <2>1, EnemyColors
  <2> QED
    BY <1>1, <1>2, <2>1, <2>2, <2>3
<1>8. \A v \in Pieces : {v} \in SUBSET Pieces
  OBVIOUS
<1> QED
  BY <1>3, <1>4, <1>5, <1>6, <1>7, <1>8 DEF Effect

LEMMA EffectWinner ==
  ASSUME TypeOK, TypeOK', KingsStay, DeadAreCaptured, GameOverIffKingCaptured, WinnerTookOne, Effect
  PROVE  WinnerTookOne'
<1>1. captured \subseteq captured'
  BY EffectCaptures
<1>2. CASE winner' = winner
  <2>1. KingsAgainst(winner') = KingsAgainst(winner)
    BY <1>2
  <2> QED
    BY <1>1, <1>2, <2>1 DEF WinnerTookOne, KingsAgainst
<1>3. CASE winner' # winner
  BY <1>3, NewWinner DEF WinnerTookOne, KingsAgainst
<1> QED
  BY <1>2, <1>3

\* A game that ends without a winner has a dead king in the air until it is judged.
LEMMA EffectJudged ==
  ASSUME TypeOK, KingsStay, DeadAreCaptured, GameOverIffKingCaptured, JudgedSoon, Effect
  PROVE  JudgedSoon'
<1> SUFFICES ASSUME isGameOver', winner' = "None"
             PROVE  at' = "air" /\ \E p \in Pieces : Dead(p)' /\ isFatalDeath(kind'[p])
  BY DEF JudgedSoon
<1>0. winner = "None"
  BY NewWinner DEF Colors
<1>1. isGameOver => at = "air" /\ \E p \in Pieces : Dead(p) /\ isFatalDeath(kind[p])
  BY <1>0 DEF JudgedSoon
<1>2. \A p \in Pieces : Opponent(Color[p]) # "None" /\ Color[p] # "None"
  BY ColorAssumption DEF Opponent, Colors
<1>3. CASE Quiet
  BY <1>1, <1>3 DEF Quiet, SameDead, gameVars
<1>4. CASE Judges
  BY <1>1, <1>2, <1>4 DEF Judges
<1>5. ASSUME NEW p \in Pieces, Lifts(p) \/ Vanishes(p) \/ Descends(p)
      PROVE  FALSE
  BY <1>1, <1>5 DEF Lifts, Vanishes, Descends, gameVars
<1>6. ASSUME NEW c \in Pieces, NEW v \in Pieces, TakesFromBoard(c, v)
      PROVE  FALSE
  BY <1>1, <1>2, <1>6 DEF TakesFromBoard, DecideFor, isFatalDeath
<1>7. ASSUME NEW vs \in SUBSET Pieces, KillsInFlight(vs)
      PROVE  at' = "air" /\ \E p \in Pieces : Dead(p)' /\ isFatalDeath(kind'[p])
  BY <1>1, <1>7 DEF KillsInFlight
<1>8. ASSUME NEW p \in Pieces, NEW vs \in SUBSET Pieces, ComesDown(p, vs)
      PROVE  FALSE
  BY <1>1, <1>2, <1>8 DEF ComesDown
<1>9. \A v \in Pieces : {v} \in SUBSET Pieces
  OBVIOUS
<1> QED
  BY <1>3, <1>4, <1>5, <1>6, <1>7, <1>8, <1>9 DEF Effect

LEMMA NextOutcome == OutcomeInv /\ [Next]_vars => OutcomeInv'
<1> SUFFICES ASSUME OutcomeInv, [Next]_vars PROVE OutcomeInv'
  OBVIOUS
<1>1. TypeOK' /\ OnePlace'
  BY NextType, NextPlace DEF OutcomeInv
<1>2. Effect
  BY EveryStepHasAnEffect DEF OutcomeInv
<1>3. KingsStay' /\ DeadAreCaptured' /\ Accounted' /\ NeverBoth'
  BY <1>1, <1>2, EffectKings, EffectDead, EffectAccounted, EffectNeverBoth DEF OutcomeInv
<1>4. GameOverIffKingCaptured' /\ WinnerTookOne' /\ JudgedSoon'
  BY <1>1, <1>2, EffectOver, EffectWinner, EffectJudged DEF OutcomeInv
<1> QED
  BY <1>1, <1>3, <1>4 DEF OutcomeInv

LEMMA InitOutcome == Init => OutcomeInv
<1> SUFFICES ASSUME Init PROVE OutcomeInv
  OBVIOUS
<1>1. TypeOK /\ OnePlace
  BY InitType, InitPlace
<1>2. \A p \in Pieces : OnBoard(p)
  <2> SUFFICES ASSUME NEW p \in Pieces PROVE OnBoard(p)
    OBVIOUS
  <2>1. InitialCell[p] \in Cells /\ \A q \in Pieces : InitialCell[q] = InitialCell[p] => q = p
    BY EngineAssumption
  <2>2. InitialGrid[InitialCell[p]] = p
    BY <2>1 DEF InitialGrid
  <2> QED
    BY <2>1, <2>2 DEF OnBoard, Init
<1>3. \A p \in Pieces : ~Dead(p)
  BY DEF Init, Dead, DeadIn
<1>4. Accounted
  BY <1>2 DEF Accounted, InPlay, Init
<1> QED
  BY <1>1, <1>3, <1>4
  DEF OutcomeInv, KingsStay, DeadAreCaptured, NeverBoth, GameOverIffKingCaptured, WinnerTookOne, JudgedSoon,
      Init, Colors

LEMMA OutcomeHolds == Spec => []OutcomeInv
BY InitOutcome, NextOutcome, PTL DEF Spec

\* On every board a piece is out of play exactly when its capture was
\* reported or addPiece refused it: no step forgets one.
THEOREM NobodyDisappears == Spec => []Accounted
<1>1. OutcomeInv => Accounted
  BY DEF OutcomeInv
<1> QED
  BY <1>1, OutcomeHolds, PTL

\* On every board the game is over exactly when a king has been captured, at
\* every step of wait().
THEOREM GameEndsWithAKing == Spec => []GameOverIffKingCaptured
<1>1. OutcomeInv => GameOverIffKingCaptured
  BY DEF OutcomeInv
<1> QED
  BY <1>1, OutcomeHolds, PTL

\* A game that wait() leaves finished has a winner, and a king of the other
\* color has been captured.
THEOREM WinnersHaveWon == Spec => []WinnerTookAKing
<1>1. OutcomeInv => WinnerTookAKing
  <2> SUFFICES ASSUME OutcomeInv, at = "free", isGameOver
               PROVE  /\ winner \in Colors
                      /\ \E p \in captured : InitialKind[p] = "King" /\ Color[p] = Opponent(winner)
    BY DEF WinnerTookAKing
  <2>1. winner \in Colors
    BY DEF OutcomeInv, JudgedSoon, TypeOK
  <2> QED
    BY <2>1 DEF OutcomeInv, WinnerTookOne, KingsAgainst
<1> QED
  BY <1>1, OutcomeHolds, PTL

-----------------------------------------------------------------------------
(* The engine implements PieceLifecycle.  For the life of a piece, every   *)
(* effect but a take-off is a step in which at most one piece c comes down.*)

StatusFits(p, status, cap, gone, stands, idle) ==
  status = IF p \in cap THEN "captured" ELSE IF p \in gone THEN "lost"
           ELSE IF stands THEN (IF idle THEN "idle" ELSE "resting") ELSE "airborne"

StatusKnown ==
  /\ Status = [p \in Pieces |-> Status[p]]
  /\ \A p \in Pieces :
       StatusFits(p, Status[p], captured, lost, OnBoard(p), pieceState[p] = "Idle")

LEMMA StatusIs == OutcomeInv => StatusKnown
<1> SUFFICES ASSUME OutcomeInv PROVE StatusKnown
  OBVIOUS
<1>1. \A p \in Pieces : OnBoard(p) => p \notin captured /\ p \notin lost
  BY DEF OutcomeInv, Accounted, InPlay
<1>2. \A p \in Pieces : p \in captured => p \notin lost
  BY DEF OutcomeInv, NeverBoth
<1>3. ASSUME NEW p \in Pieces
      PROVE  StatusFits(p, Status[p], captured, lost, OnBoard(p), pieceState[p] = "Idle")
  <2> DEFINE onBoard == OnBoard(p)
             idle == pieceState[p] = "Idle"
  <2>1. Status[p] = CASE p \in captured -> "captured"
                      [] p \in lost -> "lost"
                      [] onBoard /\ idle -> "idle"
                      [] onBoard /\ ~idle -> "resting"
                      [] OTHER -> "airborne"
    BY DEF Status
  <2>2. (onBoard => p \notin captured /\ p \notin lost) /\ (p \in captured => p \notin lost)
    BY <1>1, <1>2
  <2> HIDE DEF onBoard, idle
  <2>3. StatusFits(p, Status[p], captured, lost, onBoard, idle)
    BY <2>1, <2>2 DEF StatusFits
  <2> QED
    BY <2>3 DEF onBoard, idle
<1> QED
  BY <1>3 DEF Status, StatusKnown

LEMMA StatusIsNext == OutcomeInv' => StatusKnown'
BY StatusIs, PTL

OneComesDown(c) ==
  /\ captured \subseteq captured' /\ lost \subseteq lost'
  /\ \A p \in Pieces :
       /\ OnBoard(p)' /\ ~OnBoard(p) => p = c /\ pieceState'[p] # "Idle"
       /\ p \in lost' /\ p \notin lost => p = c /\ ~OnBoard(p)
       /\ OnBoard(p) => \/ p \in captured'
                        \/ OnBoard(p)' /\ pieceState'[p] \in {pieceState[p], "Idle"}
       /\ p \in lost /\ p \in captured' => p \in captured

LEMMA EffectComesDown ==
  ASSUME OutcomeInv, Effect, ~\E p \in Pieces : Lifts(p)
  PROVE  \E c : OneComesDown(c)
<1>1. \A p \in Pieces : OnBoard(p) \/ (Flying(p) /\ ~Dead(p)) \/ LandingNow(p)
                          <=> p \notin captured \union lost
  BY InPlaySets DEF OutcomeInv, Accounted
<1>2. \A p \in Pieces : ~(OnBoard(p) /\ LandingNow(p)) /\ (Dead(p) => p \in captured)
  BY DEF OutcomeInv, OnePlace, DeadAreCaptured
<1>3. ASSUME NEW c, Quiet \/ Judges
      PROVE  OneComesDown(c)
  BY <1>3 DEF Quiet, Judges, SameBoard, history, OneComesDown
<1>4. ASSUME NEW p \in Pieces, Vanishes(p) \/ Descends(p)
      PROVE  OneComesDown(p)
  BY <1>4 DEF Vanishes, Descends, SameBoard, history, OneComesDown
<1>5. ASSUME NEW c \in Pieces, NEW v \in Pieces, TakesFromBoard(c, v)
      PROVE  OneComesDown(c)
  BY <1>1, <1>5 DEF TakesFromBoard, OneComesDown
<1>6. ASSUME NEW vs \in SUBSET Pieces, NEW c, KillsInFlight(vs)
      PROVE  OneComesDown(c)
  BY <1>1, <1>2, <1>6 DEF KillsInFlight, SameBoard, OneComesDown
<1>7. ASSUME NEW p \in Pieces, NEW vs \in SUBSET Pieces, ComesDown(p, vs)
      PROVE  OneComesDown(p)
  BY <1>1, <1>2, <1>7 DEF ComesDown, OneComesDown, RestStates
<1>8. \A v \in Pieces : {v} \in SUBSET Pieces
  OBVIOUS
<1> QED
  BY <1>3, <1>4, <1>5, <1>6, <1>7, <1>8 DEF Effect

LEMMA TakeOffRefined ==
  ASSUME OutcomeInv, OutcomeInv', NEW p \in Pieces, Lifts(p)
  PROVE  Lifecycle!TakeOff(p)
<1>1. p \notin captured \union lost
  BY InPlaySets DEF Lifts, OutcomeInv, Accounted
<1>2. Status[p] = "idle" /\ Status'[p] = "airborne"
  BY <1>1, StatusIs, StatusIsNext DEF Lifts, history, StatusKnown, StatusFits
<1>3. \A q \in Pieces : q # p => Status'[q] = Status[q]
  BY StatusIs, StatusIsNext DEF Lifts, history, StatusKnown, StatusFits
<1>4. Status' = [Status EXCEPT ![p] = "airborne"]
  BY <1>2, <1>3, StatusIs, StatusIsNext DEF StatusKnown
<1> QED
  BY <1>2, <1>4 DEF Lifecycle!TakeOff, Lifts, gameVars

LEMMA PhysicsRefined ==
  ASSUME OutcomeInv, OutcomeInv', Effect, NEW c, OneComesDown(c)
  PROVE  Lifecycle!Physics
<1>1. Status' \in [Pieces -> Lifecycle!Statuses]
  <2>1. \A p \in Pieces : Status'[p] \in Lifecycle!Statuses
    BY StatusIsNext DEF StatusKnown, StatusFits, Lifecycle!Statuses
  <2> QED
    BY <2>1, StatusIsNext DEF StatusKnown
<1>2. ASSUME NEW p \in Pieces, Status'[p] # Status[p]
      PROVE  /\ <<Status[p], Status'[p]>> \in Lifecycle!Edges
             /\ Status'[p] # "airborne"
             /\ Status'[p] \in {"resting", "lost"} => p = c
  BY <1>2, StatusIs, StatusIsNext DEF OneComesDown, StatusKnown, StatusFits, Lifecycle!Edges
<1>3. \A p \in Pieces : Status'[p] # Status[p] /\ Status'[p] = "captured"
                          <=> p \in captured' /\ p \notin captured
  BY StatusIs, StatusIsNext DEF OneComesDown, StatusKnown, StatusFits
<1>4. PICK vs \in SUBSET Pieces : /\ captured' = captured \union vs
                                  /\ isGameOver' = (isGameOver \/ Fatal(vs))
  BY EffectCaptures DEF OutcomeInv
<1>5. isGameOver' = (isGameOver \/ \E p \in Kings : Lifecycle!Becomes(p, "captured"))
  BY <1>3, <1>4 DEF OutcomeInv, TypeOK, GameOverIffKingCaptured, Fatal, Kings, Lifecycle!Becomes
<1> QED
  BY <1>1, <1>2, <1>5 DEF Lifecycle!Physics, Lifecycle!Becomes

\* On every board the engine implements PieceLifecycle: a piece only goes from
\* idle to airborne to resting to idle, at most one comes down at a time, and
\* from captured and lost there is no way back.
THEOREM EngineImplementsLifecycle == Spec => ImplementsLifecycle
<1>1. Init => Lifecycle!Init
  <2> SUFFICES ASSUME Init PROVE Lifecycle!Init
    OBVIOUS
  <2>1. \A p \in Pieces : OnBoard(p)
    BY InitOutcome, InPlaySets DEF OutcomeInv, Accounted, Init, LandingNow, Flying, Carries
  <2>2. \A p \in Pieces : Status[p] = "idle"
    BY <2>1, InitOutcome, StatusIs DEF Init, StatusKnown, StatusFits
  <2> QED
    BY <2>2, InitOutcome, StatusIs DEF StatusKnown, Init, Lifecycle!Init
<1>2. OutcomeInv /\ [Next]_vars => [Lifecycle!Next]_<<Status, isGameOver>>
  <2> SUFFICES ASSUME OutcomeInv, OutcomeInv', [Next]_vars PROVE Lifecycle!Next
    BY NextOutcome
  <2>1. Effect
    BY EveryStepHasAnEffect DEF OutcomeInv
  <2>2. CASE \E p \in Pieces : Lifts(p)
    BY <2>2, TakeOffRefined DEF Lifecycle!Next
  <2>3. CASE ~\E p \in Pieces : Lifts(p)
    BY <2>1, <2>3, EffectComesDown, PhysicsRefined DEF Lifecycle!Next
  <2> QED
    BY <2>2, <2>3
<1> QED
  BY <1>1, <1>2, OutcomeHolds, PTL DEF Spec, ImplementsLifecycle, Lifecycle!Spec

-----------------------------------------------------------------------------
(* Where flights go and when they end, for every board and every choice of *)
(* the times: rounding, stopping and bouncing stay between the source and  *)
(* the destination of a flight, and no flight outlives its arrival.        *)

\* Multiplication by a natural number is monotonic.
LEMMA Monotonic ==
  ASSUME NEW a \in Nat, NEW b \in Nat, a <= b, NEW d \in Nat
  PROVE  d * a <= d * b
OBVIOUS

LEMMA DivBounds ==
  ASSUME NEW x \in Nat, NEW d \in Nat \ {0}, NEW n \in Nat, x < d * (n + 1)
  PROVE  x \div d \in 0 .. n
OBVIOUS

LEMMA ShareBetween ==
  ASSUME NEW n \in Nat, NEW part \in Nat, NEW whole \in Nat \ {0}, part <= whole
  PROVE  (2 * n * part + whole) \div (2 * whole) \in 0 .. n
<1>1. n * part <= n * whole /\ n * part \in Nat
  BY Monotonic
<1>2. 2 * n * part + whole < (2 * whole) * (n + 1)
  BY <1>1
<1>3. 2 * n * part + whole \in Nat /\ 2 * whole \in Nat \ {0}
  BY <1>1
<1> QED
  BY <1>2, <1>3, DivBounds

LEMMA RoundedShareBetween ==
  ASSUME NEW n \in Int, NEW part \in Nat, NEW whole \in Nat \ {0}, part <= whole
  PROVE  RoundedShare(n, part, whole) \in IF n >= 0 THEN 0 .. n ELSE n .. 0
<1>1. CASE n >= 0
  BY <1>1, ShareBetween DEF RoundedShare
<1>2. CASE n < 0
  <2>1. -n \in Nat
    BY <1>2
  <2>2. (2 * (-n) * part + whole) \div (2 * whole) \in 0 .. -n
    BY <2>1, ShareBetween
  <2> DEFINE q == (2 * (-n) * part + whole) \div (2 * whole)
  <2>3. RoundedShare(n, part, whole) = -q
    BY <1>2 DEF RoundedShare
  <2> HIDE DEF q
  <2>4. q \in 0 .. -n
    BY <2>2 DEF q
  <2> QED
    BY <1>2, <2>3, <2>4
<1> QED
  BY <1>1, <1>2

\* Between two cells of the board there are only cells of the board.
LEMMA CurrentCellOnBoard ==
  ASSUME NEW m \in Motions, m.destination \in Cells, NEW time \in Int
  PROVE  getCurrentCell(m, time) \in Cells
<1>1. /\ m.source \in Cells /\ m.destination \in Cells
      /\ m.startTime \in Int /\ m.arrivalTime \in Int
  BY DEF Motions
<1>2. CASE m.type # "Jump" /\ ~(time >= m.arrivalTime) /\ ~(time <= m.startTime)
  <2> DEFINE whole == m.arrivalTime - m.startTime
             part == time - m.startTime
             dr == m.destination.row - m.source.row
             dc == m.destination.col - m.source.col
             r == RoundedShare(dr, part, whole)
             c == RoundedShare(dc, part, whole)
  <2>1. part \in Nat /\ whole \in Nat \ {0} /\ part <= whole
    BY <1>1, <1>2
  <2>2. dr \in Int /\ dc \in Int
    BY <1>1, BoardAssumption DEF Cells
  <2>3. getCurrentCell(m, time) = At(m.source.row + r, m.source.col + c)
    BY <1>2 DEF getCurrentCell
  <2> HIDE DEF part, whole
  <2>4. r \in IF dr >= 0 THEN 0 .. dr ELSE dr .. 0
    <3> HIDE DEF dr
    <3> QED
      BY <2>1, <2>2, RoundedShareBetween
  <2>5. c \in IF dc >= 0 THEN 0 .. dc ELSE dc .. 0
    <3> HIDE DEF dc
    <3> QED
      BY <2>1, <2>2, RoundedShareBetween
  <2> HIDE DEF r, c
  <2>6. m.source.row + r \in 0 .. Height - 1 /\ m.source.col + c \in 0 .. Width - 1
    BY <1>1, <2>4, <2>5, BoardAssumption DEF Cells
  <2> QED
    BY <2>3, <2>6 DEF Cells, At
<1>3. CASE ~(m.type # "Jump" /\ ~(time >= m.arrivalTime) /\ ~(time <= m.startTime))
  BY <1>1, <1>3 DEF getCurrentCell
<1> QED
  BY <1>2, <1>3

\* The square before the destination, too.
LEMMA BounceCellOnBoard ==
  ASSUME NEW m \in Motions, m.destination \in Cells
  PROVE  BounceCell(m) \in Cells
<1>1. m.source \in Cells
  BY DEF Motions
<1>2. /\ m.destination.row - Sign(m.destination.row - m.source.row) \in 0 .. Height - 1
      /\ m.destination.col - Sign(m.destination.col - m.source.col) \in 0 .. Width - 1
  BY <1>1, BoardAssumption DEF Cells, Sign
<1> QED
  BY <1>2 DEF BounceCell, Cells, At

-----------------------------------------------------------------------------
(* The invariant: what the motions of the two vectors are like at a time t.*)

\* On the board, and started; a jump ends where it began.
Fit(t) == { m \in Motions : /\ m.destination \in Cells
                            /\ m.type = "Jump" => m.destination = m.source
                            /\ m.startTime <= t }
Due(t) == { m \in Fit(t) : m.arrivalTime <= t }

FlightsFit == activeMotions \in Seq(Fit(currentTime)) /\ arrivals \in Seq(Due(currentTime))

LEMMA FitLater ==
  ASSUME NEW s \in Nat, NEW t \in Nat, s <= t
  PROVE  Fit(s) \subseteq Fit(t) /\ Due(s) \subseteq Due(t)
BY DEF Fit, Due, Motions

LEMMA FitCells ==
  ASSUME TypeOK, NEW t \in Int, NEW m \in Fit(t)
  PROVE  {m.destination, CellNow(m), CellBefore(m), BounceCell(m)} \subseteq Cells
<1>1. currentTime \in Int /\ currentTime - PhysicsTick \in Int
  BY EngineAssumption DEF TypeOK
<1> QED
  BY <1>1, CurrentCellOnBoard, BounceCellOnBoard DEF Fit, CellNow, CellBefore

LEMMA FitMotions ==
  ASSUME FlightsFit
  PROVE  /\ \A k \in Indices : activeMotions[k] \in Fit(currentTime)
         /\ \A k \in 1 .. Len(arrivals) : arrivals[k] \in Due(currentTime)
BY ElementOfSeq DEF FlightsFit, Indices

\* What the collision checks write into a motion keeps it fit.
LEMMA FitUpdates ==
  ASSUME TypeOK, NEW m \in Fit(currentTime)
  PROVE  /\ [m EXCEPT !.isDead = TRUE] \in Fit(currentTime)
         /\ m.type = "Normal" =>
              /\ [m EXCEPT !.destination = CellBefore(m), !.arrivalTime = currentTime]
                   \in Fit(currentTime)
              /\ CutShort(m) \in Fit(currentTime)
<1>1. m \in Motions /\ m.destination \in Cells /\ currentTime \in Int
  BY DEF Fit, TypeOK
<1>2. [m EXCEPT !.isDead = TRUE] \in Fit(currentTime)
  BY <1>1 DEF Fit, Motions
<1>3. ASSUME NEW c \in Cells, m.type = "Normal"
      PROVE  [m EXCEPT !.destination = c, !.arrivalTime = currentTime] \in Fit(currentTime)
  BY <1>1, <1>3, CellFacts DEF Fit, Motions
<1>4. CellBefore(m) \in Cells
  BY <1>1, FitCells
<1> DEFINE late == [m EXCEPT !.arrivalTime = currentTime]
<1>5. late \in Fit(currentTime)
  BY <1>1 DEF Fit, Motions
<1>6. CellBefore(late) \in Cells
  <2> HIDE DEF late
  <2> QED
    BY <1>1, <1>5, FitCells
<1>7. CutShort(m) = [m EXCEPT !.destination = CellBefore(late), !.arrivalTime = currentTime]
  BY <1>1 DEF CutShort, Motions
<1> HIDE DEF late
<1> QED
  BY <1>2, <1>3, <1>4, <1>6, <1>7

LEMMA TakeOffFits ==
  ASSUME TypeOK, FlightsFit, NEW source \in Cells, NEW destination \in Cells,
         NEW duration \in Int, NEW type \in MotionTypes,
         type = "Jump" => destination = source,
         MayTakeOff(source), TakeOff(source, destination, duration, type)
  PROVE  FlightsFit'
<1> DEFINE m == NewMotion(getPiece(grid, source), source, destination, currentTime, duration, type)
<1>1. getPiece(grid, source) \in Pieces
  BY CellFacts, GetPieceType DEF MayTakeOff
<1>2. m \in Fit(currentTime)
  BY <1>1, CellFacts DEF NewMotion, Motions, TypeOK, Fit
<1>3. activeMotions' = Append(activeMotions, m) /\ UNCHANGED <<arrivals, currentTime>>
  BY DEF TakeOff
<1> HIDE DEF m
<1> QED
  BY <1>2, <1>3, AppendProperties DEF FlightsFit

LEMMA RequestFits ==
  ASSUME TypeOK, FlightsFit, Request
  PROVE  FlightsFit'
<1>1. CASE requestMove
  BY <1>1, MovesFromType, MoveDurationType, TakeOffFits DEF requestMove, MotionTypes
<1>2. CASE requestJump
  BY <1>2, EngineAssumption, TakeOffFits DEF requestJump, MotionTypes
<1>3. CASE RequestRejected
  BY <1>3 DEF RequestRejected, vars, FlightsFit
<1> QED
  BY <1>1, <1>2, <1>3 DEF Request

LEMMA TimeFits ==
  ASSUME TypeOK, FlightsFit, WaitCall \/ WaitEnd \/ AdvanceTime
  PROVE  FlightsFit'
<1>1. UNCHANGED <<activeMotions, arrivals>>
  BY DEF WaitCall, WaitBegin, WaitEnd, AdvanceTime
<1>2. currentTime' \in Nat /\ currentTime <= currentTime'
  <2>1. CASE WaitCall \/ WaitEnd
    BY <2>1 DEF WaitCall, WaitBegin, WaitEnd, TypeOK
  <2>2. CASE AdvanceTime
    <3>1. StepSize \in Nat
      BY EngineAssumption DEF StepSize, TypeOK
    <3> QED
      BY <2>2, <3>1 DEF AdvanceTime, TypeOK
  <2> QED
    BY <2>1, <2>2
<1>3. Fit(currentTime) \subseteq Fit(currentTime') /\ Due(currentTime) \subseteq Due(currentTime')
  BY <1>2, FitLater DEF TypeOK
<1> QED
  BY <1>1, <1>3, SeqMonotonic DEF FlightsFit

LEMMA GroundFits ==
  ASSUME TypeOK, FlightsFit, CheckGround
  PROVE  FlightsFit'
<1>1. CASE GroundBlocked
  <2>1. PICK k \in Indices :
          /\ HitsGround(activeMotions[k])
          /\ activeMotions' = [activeMotions EXCEPT ![k] =
               [activeMotions[k] EXCEPT !.destination = CellBefore(activeMotions[k]),
                                        !.arrivalTime = currentTime]]
    BY <1>1 DEF GroundBlocked, NextGroundHit, Indices
  <2>2. [activeMotions[k] EXCEPT !.destination = CellBefore(activeMotions[k]),
                                 !.arrivalTime = currentTime] \in Fit(currentTime)
    BY <2>1, FitMotions, FitUpdates DEF HitsGround
  <2>3. activeMotions' \in Seq(Fit(currentTime))
    BY <2>1, <2>2, ExceptSeq DEF FlightsFit, Indices
  <2> QED
    BY <1>1, <2>3 DEF GroundBlocked, FlightsFit
<1>2. CASE GroundCapture \/ GroundDone
  BY <1>2 DEF GroundCapture, GroundDone, FlightsFit
<1> QED
  BY <1>1, <1>2 DEF CheckGround

LEMMA AirFits ==
  ASSUME TypeOK, FlightsFit, CheckAir
  PROVE  FlightsFit'
<1>1. CASE AirKill
  <2>1. PICK v \in Indices :
          activeMotions' = [activeMotions EXCEPT ![v] = [activeMotions[v] EXCEPT !.isDead = TRUE]]
    <3>1. \E k, l \in Indices : \E u, v \in {k, l} :
             activeMotions' = [activeMotions EXCEPT ![v] = [@ EXCEPT !.isDead = TRUE]]
      BY <1>1, Zenon DEF AirKill
    <3> QED
      BY <3>1, MotionsAt
  <2>2. activeMotions' \in Seq(Fit(currentTime))
    BY <2>1, FitMotions, FitUpdates, ExceptSeq DEF FlightsFit, Indices
  <2> QED
    BY <1>1, <2>2 DEF AirKill, FlightsFit
<1>2. CASE AirKillBoth
  <2>1. PICK k \in Indices, l \in Indices :
          activeMotions' = [activeMotions EXCEPT ![k] = [@ EXCEPT !.isDead = TRUE],
                                                 ![l] = [@ EXCEPT !.isDead = TRUE]]
    BY <1>2 DEF AirKillBoth
  <2> DEFINE once == [activeMotions EXCEPT ![k] = [activeMotions[k] EXCEPT !.isDead = TRUE]]
  <2>2. activeMotions' = [once EXCEPT ![l] = [once[l] EXCEPT !.isDead = TRUE]]
    BY <2>1, MotionsAt
  <2>3. once \in Seq(Fit(currentTime)) /\ Len(once) = Len(activeMotions)
    <3>1. [activeMotions[k] EXCEPT !.isDead = TRUE] \in Fit(currentTime)
      BY FitMotions, FitUpdates
    <3> QED
      BY <3>1, ExceptSeq DEF FlightsFit, Indices
  <2> HIDE DEF once
  <2>4. once[l] \in Fit(currentTime)
    BY <2>3, ElementOfSeq DEF Indices
  <2>5. [once[l] EXCEPT !.isDead = TRUE] \in Fit(currentTime)
    BY <2>4, FitUpdates
  <2>6. activeMotions' \in Seq(Fit(currentTime))
    BY <2>2, <2>3, <2>5, ExceptSeq DEF Indices
  <2> QED
    BY <1>2, <2>6 DEF AirKillBoth, FlightsFit
<1>3. CASE AirStop
  <2>1. PICK n \in Indices :
          /\ activeMotions[n].type = "Normal"
          /\ activeMotions' = [activeMotions EXCEPT ![n] = CutShort(activeMotions[n])]
    BY <1>3 DEF AirStop, Stops, BothWalk
  <2>2. activeMotions' \in Seq(Fit(currentTime))
    BY <2>1, FitMotions, FitUpdates, ExceptSeq DEF FlightsFit, Indices
  <2> QED
    BY <1>3, <2>2 DEF AirStop, FlightsFit
<1>4. CASE JudgeDead
  BY <1>4 DEF JudgeDead, FlightsFit
<1> QED
  BY <1>1, <1>2, <1>3, <1>4 DEF CheckAir

LEMMA RetireFits ==
  ASSUME TypeOK, FlightsFit, Retire
  PROVE  FlightsFit'
<1>1. \A k \in Indices : RemoveAt(activeMotions, k) \in Seq(Fit(currentTime))
  BY RemoveAtProperties DEF FlightsFit, Indices
<1>2. CASE CleanupDead
  BY <1>1, <1>2 DEF CleanupDead, FlightsFit
<1>3. CASE PopArrived
  <2>1. PICK k \in Indices : /\ Arrived(activeMotions[k])
                             /\ arrivals' = Append(arrivals, activeMotions[k])
                             /\ activeMotions' = RemoveAt(activeMotions, k)
    BY <1>3 DEF PopArrived, IsFirst
  <2>2. activeMotions[k] \in Due(currentTime)
    BY <2>1, FitMotions DEF Arrived, hasArrived, Due, Fit, Motions, TypeOK
  <2>3. arrivals' \in Seq(Due(currentTime))
    BY <2>1, <2>2, AppendProperties DEF FlightsFit
  <2> QED
    BY <1>1, <1>3, <2>1, <2>3 DEF PopArrived, FlightsFit
<1>4. CASE PopDone
  BY <1>4 DEF PopDone, FlightsFit
<1> QED
  BY <1>2, <1>3, <1>4 DEF Retire

LEMMA LandFits ==
  ASSUME TypeOK, FlightsFit, Land
  PROVE  FlightsFit'
<1>1. CASE LandOnEmpty \/ LandOnEnemy \/ LandBounced
  <2>1. arrivals # << >> /\ arrivals' = Tail(arrivals) /\ UNCHANGED <<activeMotions, currentTime>>
    BY <1>1 DEF LandOnEmpty, LandOnEnemy, LandBounced, Landing, TouchDown
  <2> QED
    BY <2>1, HeadTailProperties DEF FlightsFit
<1>2. CASE WakeRested
  BY <1>2 DEF WakeRested, FlightsFit
<1> QED
  BY <1>1, <1>2 DEF Land

LEMMA NextFits == TypeOK /\ FlightsFit /\ [Next]_vars => FlightsFit'
<1> SUFFICES ASSUME TypeOK, FlightsFit, [Next]_vars PROVE FlightsFit'
  OBVIOUS
<1>1. CASE UNCHANGED vars
  BY <1>1 DEF vars, FlightsFit
<1>2. CASE Request
  BY <1>2, RequestFits
<1>3. CASE WaitCall \/ WaitEnd \/ AdvanceTime
  BY <1>3, TimeFits
<1>4. CASE CheckGround
  BY <1>4, GroundFits
<1>5. CASE CheckAir
  BY <1>5, AirFits
<1>6. CASE Retire
  BY <1>6, RetireFits
<1>7. CASE Land
  BY <1>7, LandFits
<1> QED
  BY <1>1, <1>2, <1>3, <1>4, <1>5, <1>6, <1>7 DEF Next, WaitStep

LEMMA InitFits == Init => FlightsFit
BY EmptySeq DEF Init, FlightsFit

\* On every board, whatever is stopped or bounced: the cells of a flight, its
\* destination and the square before it are cells of the board.
THEOREM NobodyFliesOff == Spec => []FlightsStayOnBoard
<1>1. TypeOK /\ FlightsFit => FlightsStayOnBoard
  <2> SUFFICES ASSUME TypeOK, FlightsFit,
                      NEW m \in ToSet(activeMotions) \union ToSet(arrivals)
               PROVE  {m.destination, CellNow(m), CellBefore(m), BounceCell(m)} \subseteq Cells
    BY DEF FlightsStayOnBoard
  <2>1. m \in Fit(currentTime)
    <3>1. DOMAIN activeMotions = Indices /\ DOMAIN arrivals = 1 .. Len(arrivals)
      BY MotionsAt DEF TypeOK
    <3> QED
      BY <3>1, FitMotions DEF ToSet, Due
  <2> QED
    BY <2>1, FitCells DEF TypeOK
<1>2. Init => TypeOK /\ FlightsFit
  BY InitType, InitFits
<1>3. TypeOK /\ FlightsFit /\ [Next]_vars => (TypeOK /\ FlightsFit)'
  BY NextType, NextFits
<1> QED
  BY <1>1, <1>2, <1>3, PTL DEF Spec

-----------------------------------------------------------------------------
(* Nothing is overdue when wait() has returned.                            *)

InTime == at \in {"free", "tick", "land"} =>
  \A k \in Indices : ~activeMotions[k].isDead /\ currentTime < activeMotions[k].arrivalTime

NobodyMovesOnBoard == \A p \in Pieces : OnBoard(p) => pieceState[p] # "Move"

Awake == at \in {"free", "tick"} =>
  \A p \in Pieces : OnBoard(p) /\ readyTime[p] <= currentTime => pieceState[p] = "Idle"

PunctualInv == InTime /\ NobodyMovesOnBoard /\ Awake

LEMMA DurationsArePositive ==
  ASSUME NEW source \in Cells, NEW destination \in Cells
  PROVE  MoveDuration(source, destination) \in Nat \ {0}
<1> DEFINE dr == AbsDiff(source.row, destination.row)
           dc == AbsDiff(source.col, destination.col)
           d  == IF dr >= dc THEN dr ELSE dc
           squares == IF d = 0 THEN 1 ELSE d
<1>1. dr \in Nat /\ dc \in Nat
  BY CellFacts DEF AbsDiff, Position
<1>2. squares \in Nat \ {0}
  <2> HIDE DEF dr, dc
  <2> QED
    BY <1>1
<1>3. MoveDuration(source, destination) = SquareDuration * squares
  BY DEF MoveDuration
<1> HIDE DEF squares
<1>4. SquareDuration * squares \in Nat /\ SquareDuration * squares > 0
  BY <1>2, EngineAssumption
<1> QED
  BY <1>3, <1>4

LEMMA TakeOffInTime ==
  ASSUME TypeOK, OnePlace, PunctualInv, NEW source \in Cells, NEW destination \in Cells,
         NEW duration \in Nat \ {0}, NEW type \in MotionTypes, at = "free",
         MayTakeOff(source), TakeOff(source, destination, duration, type)
  PROVE  InTime' /\ Awake'
<1> DEFINE m == NewMotion(getPiece(grid, source), source, destination, currentTime, duration, type)
<1>1. getPiece(grid, source) \in Pieces
  BY CellFacts, GetPieceType DEF MayTakeOff
<1>2. m \in Motions /\ ~m.isDead /\ currentTime < m.arrivalTime
  BY <1>1, CellFacts DEF NewMotion, Motions, TypeOK
<1>3. activeMotions' = Append(activeMotions, m) /\ UNCHANGED <<currentTime, readyTime, at>>
  BY DEF TakeOff
<1> HIDE DEF m
<1>4. InTime'
  <2>1. \A k \in Indices' : \/ activeMotions'[k] = m
                            \/ k \in Indices /\ activeMotions'[k] = activeMotions[k]
    BY <1>2, <1>3, AppendProperties DEF TypeOK, Indices
  <2> QED
    BY <1>2, <1>3, <2>1 DEF PunctualInv, InTime
<1>5. Awake'
  <2>1. PICK p \in Pieces : Lifts(p)
    BY TakeOffEffect
  <2> QED
    BY <1>3, <2>1 DEF Lifts, PunctualInv, Awake
<1> QED
  BY <1>4, <1>5

LEMMA StillInTime ==
  ASSUME PunctualInv, UNCHANGED <<grid, pieceState, readyTime, currentTime, activeMotions>>,
         at' \in {"free", "tick"} => at \in {"free", "tick"},
         at' \in {"free", "tick", "land"} => at \in {"free", "tick", "land"}
  PROVE  InTime' /\ Awake'
BY DEF PunctualInv, InTime, Awake, OnBoard, Indices

LEMMA NextPunctual ==
  TypeOK /\ OnePlace /\ PunctualInv /\ [Next]_vars => PunctualInv'
<1> SUFFICES ASSUME TypeOK, OnePlace, PunctualInv, [Next]_vars PROVE PunctualInv'
  OBVIOUS
<1>1. NobodyMovesOnBoard'
  <2>1. Effect
    BY EveryStepHasAnEffect
  <2> QED
    BY <2>1 DEF Effect, NobodyMovesOnBoard, PunctualInv, Quiet, Judges, Lifts, Vanishes, Descends,
                TakesFromBoard, KillsInFlight, ComesDown, SameBoard, RestStates
<1>2. CASE UNCHANGED vars
  BY <1>2, StillInTime, <1>1 DEF vars, pieceVars, PunctualInv
<1>3. CASE requestMove
  BY <1>1, <1>3, MovesFromType, DurationsArePositive, TakeOffInTime
  DEF requestMove, MotionTypes, PunctualInv
<1>4. CASE requestJump
  BY <1>1, <1>4, EngineAssumption, TakeOffInTime DEF requestJump, MotionTypes, PunctualInv
<1>5. CASE RequestRejected
  BY <1>1, <1>5, StillInTime DEF RequestRejected, vars, pieceVars, PunctualInv
<1>6. CASE WaitCall \/ WaitEnd
  BY <1>1, <1>6, StillInTime DEF WaitCall, WaitBegin, WaitEnd, pieceVars, PunctualInv
<1>7. CASE AdvanceTime \/ CheckGround \/ CheckAir \/ CleanupDead \/ PopArrived
  <2>1. at' \notin {"free", "tick", "land"}
    BY <1>7 DEF AdvanceTime, CheckGround, GroundCapture, GroundBlocked, GroundDone,
                CheckAir, AirKill, AirKillBoth, AirStop, JudgeDead, CleanupDead, PopArrived
  <2> QED
    BY <1>1, <2>1 DEF PunctualInv, InTime, Awake
<1>8. CASE PopDone
  <2>1. \A k \in Indices : ~activeMotions[k].isDead /\ currentTime < activeMotions[k].arrivalTime
    BY <1>8, MotionsAt DEF PopDone, IsDead, Arrived, hasArrived, Motions, TypeOK
  <2>2. at' = "land" /\ UNCHANGED <<activeMotions, currentTime>>
    BY <1>8 DEF PopDone
  <2> QED
    BY <1>1, <2>1, <2>2 DEF PunctualInv, InTime, Awake, Indices
<1>9. CASE LandOnEmpty \/ LandOnEnemy \/ LandBounced
  <2>1. at = "land" /\ at' = "land" /\ UNCHANGED <<activeMotions, currentTime>>
    BY <1>9 DEF LandOnEmpty, LandOnEnemy, LandBounced, Landing
  <2> QED
    BY <1>1, <2>1 DEF PunctualInv, InTime, Awake, Indices
<1>10. CASE WakeRested
  <2>1. at = "land" /\ at' = "tick" /\ UNCHANGED <<grid, readyTime, currentTime, activeMotions>>
    BY <1>10 DEF WakeRested
  <2>2. \A p \in Pieces : OnBoard(p) => pieceState[p] \in {"Idle"} \union RestStates
    BY DEF PunctualInv, NobodyMovesOnBoard, TypeOK, PieceStates
  <2>3. Awake'
    BY <1>10, <2>1, <2>2 DEF WakeRested, Awake, Rested, OnBoard, TypeOK
  <2>4. InTime'
    BY <2>1 DEF PunctualInv, InTime, Indices
  <2> QED
    BY <1>1, <2>3, <2>4 DEF PunctualInv
<1> QED
  BY <1>2, <1>3, <1>4, <1>5, <1>6, <1>7, <1>8, <1>9, <1>10 DEF Next, Request, WaitStep, Retire, Land

\* When wait() has returned, nothing that should have happened by then is
\* outstanding: no rest that is over, no arrival, no dead motion.
THEOREM EverythingHappensInTime == Spec => []NothingOverdue
<1> DEFINE Inv == TypeOK /\ OnePlace /\ IdleIsRested /\ FlightsFit /\ PunctualInv
<1>1. Init => Inv
  <2> SUFFICES ASSUME Init PROVE PunctualInv /\ IdleIsRested
    BY InitType, InitPlace, InitFits
  <2> QED
    BY DEF Init, IdleIsRested, PunctualInv, InTime, NobodyMovesOnBoard, Awake, Indices
<1>2. Inv /\ [Next]_vars => Inv'
  BY NextType, NextPlace, NextState, NextFits, NextPunctual
<1>3. Inv => NothingOverdue
  <2> SUFFICES ASSUME Inv, at = "free" PROVE NothingOverdue
    BY DEF NothingOverdue
  <2>1. \A p \in Pieces : OnBoard(p) =>
          /\ pieceState[p] \in {"Idle"} \union RestStates
          /\ pieceState[p] = "Idle" <=> readyTime[p] <= currentTime
    BY DEF PunctualInv, NobodyMovesOnBoard, Awake, IdleIsRested, TypeOK, PieceStates
  <2>2. \A k \in Indices : /\ ~activeMotions[k].isDead
                           /\ activeMotions[k].startTime <= currentTime
                           /\ currentTime < activeMotions[k].arrivalTime
    BY FitMotions DEF PunctualInv, InTime, Fit
  <2> QED
    BY <2>1, <2>2 DEF NothingOverdue
<1> QED
  BY <1>1, <1>2, <1>3, PTL DEF Spec

-----------------------------------------------------------------------------
(* Whoever was reported to have moved stands, or was reported captured.    *)

Announced(e) == e \in ToSet(published)

PublishedFits == /\ at = "free" => published = << >>
                 /\ ReportedMovesStand

LEMMA ToSetAppend ==
  ASSUME NEW S, NEW s \in Seq(S), NEW e \in S
  PROVE  ToSet(Append(s, e)) = ToSet(s) \union {e}
<1>1. /\ Len(s) \in Nat /\ DOMAIN s = 1 .. Len(s)
      /\ DOMAIN Append(s, e) = 1 .. (Len(s) + 1)
      /\ \A n \in 1 .. Len(s) : Append(s, e)[n] = s[n]
      /\ Append(s, e)[Len(s) + 1] = e
  BY AppendProperties, LenProperties
<1> DEFINE new == Append(s, e)
<1>2. \A x : x \in ToSet(s) <=> \E n \in 1 .. Len(s) : s[n] = x
  BY <1>1 DEF ToSet
<1>3. \A x : x \in ToSet(new) <=> \E n \in 1 .. (Len(s) + 1) : new[n] = x
  BY <1>1 DEF ToSet
<1> HIDE DEF new
<1>4. \A n \in 1 .. (Len(s) + 1) : n \in 1 .. Len(s) \/ n = Len(s) + 1
  BY <1>1
<1>5. /\ \A n \in 1 .. Len(s) : n \in 1 .. (Len(s) + 1) /\ new[n] = s[n]
      /\ Len(s) + 1 \in 1 .. (Len(s) + 1) /\ new[Len(s) + 1] = e
  BY <1>1 DEF new
<1>6. ASSUME NEW x, x \in ToSet(new)
      PROVE  x \in ToSet(s) \/ x = e
  <2>1. PICK n \in 1 .. (Len(s) + 1) : new[n] = x
    BY <1>3, <1>6
  <2>2. CASE n \in 1 .. Len(s)
    BY <1>2, <1>5, <2>1, <2>2
  <2>3. CASE n = Len(s) + 1
    BY <1>5, <2>1, <2>3
  <2> QED
    BY <1>4, <2>2, <2>3
<1>7. ASSUME NEW x, x \in ToSet(s) \/ x = e
      PROVE  x \in ToSet(new)
  <2>1. CASE x \in ToSet(s)
    BY <1>2, <1>3, <1>5, <2>1
  <2>2. CASE x = e
    BY <1>3, <1>5, <2>2
  <2> QED
    BY <1>7, <2>1, <2>2
<1>8. ToSet(new) = ToSet(s) \union {e}
  BY <1>6, <1>7
<1> QED
  BY <1>8 DEF new

LEMMA Announces ==
  ASSUME TypeOK, NEW e \in Events, published' = Append(published, e)
  PROVE  \A f : Announced(f)' <=> Announced(f) \/ f = e
<1>1. ToSet(published') = ToSet(published) \union {e}
  BY ToSetAppend DEF TypeOK
<1> QED
  BY <1>1 DEF Announced

LEMMA AnnouncesBoth ==
  ASSUME TypeOK, NEW d \in Events, NEW e \in Events,
         published' = Append(Append(published, d), e)
  PROVE  \A f : Announced(f)' <=> Announced(f) \/ f = d \/ f = e
<1> DEFINE first == Append(published, d)
<1>1. first \in Seq(Events)
  BY AppendProperties DEF TypeOK
<1>2. ToSet(first) = ToSet(published) \union {d}
  BY ToSetAppend DEF TypeOK
<1>3. ToSet(published') = ToSet(first) \union {e}
  <2>1. published' = Append(first, e)
    OBVIOUS
  <2> HIDE DEF first
  <2>2. ToSet(Append(first, e)) = ToSet(first) \union {e}
    BY <1>1, ToSetAppend
  <2> QED
    BY <2>1, <2>2
<1>4. \A f : f \in ToSet(published') <=> f \in ToSet(published) \/ f = d \/ f = e
  BY <1>2, <1>3
<1> QED
  BY <1>4 DEF Announced

LEMMA EventsDiffer == \A p, q : Captured(p) # Completed(q) /\ (Completed(p) = Completed(q) => p = q)
<1>1. ASSUME NEW p, NEW q
      PROVE  Captured(p) # Completed(q) /\ (Completed(p) = Completed(q) => p = q)
  <2>1. Captured(p).event = "PieceCaptured" /\ Completed(q).event = "MoveCompleted"
    BY DEF Captured, Completed
  <2>2. Completed(p).piece = p /\ Completed(q).piece = q
    BY DEF Completed
  <2>3. Captured(p) # Completed(q)
    BY <2>1
  <2>4. Completed(p) = Completed(q) => p = q
    BY <2>2
  <2> QED
    BY <2>3, <2>4
<1> QED
  BY <1>1

\* A step that takes nobody from the board without a report, and reports only
\* the moves of pieces that stand.
LEMMA StillStand ==
  ASSUME ReportedMovesStand,
         \A f : Announced(f) => Announced(f)',
         \A p \in Pieces : OnBoard(p) => OnBoard(p)' \/ Announced(Captured(p))',
         \A p \in Pieces : Announced(Completed(p))' => Announced(Completed(p)) \/ OnBoard(p)'
  PROVE  ReportedMovesStand'
BY DEF ReportedMovesStand, Announced, Captured, Completed

LEMMA SamePublished ==
  ASSUME ReportedMovesStand, UNCHANGED published,
         \A p \in Pieces : OnBoard(p) => OnBoard(p)'
  PROVE  ReportedMovesStand'
BY DEF ReportedMovesStand

LEMMA GroundReported ==
  ASSUME TypeOK, OnePlace, ReportedMovesStand, GroundCapture
  PROVE  ReportedMovesStand'
<1>1. PICK k \in Indices :
        LET m == activeMotions[k]
            victim == getPiece(grid, CellNow(m))
        IN  /\ NextGroundHit(k)
            /\ grid' = removePiece(grid, CellNow(m))
            /\ published' = Append(published, Captured(victim))
  BY DEF GroundCapture, Indices
<1> DEFINE pos == CellNow(activeMotions[k])
           v == grid[pos]
<1>2. pos \in Position /\ getPiece(grid, pos) # NoPiece
  BY <1>1, MotionsAt, MotionUpdates DEF NextGroundHit, HitsGround
<1>3. pos \in Cells /\ grid[pos] # NoPiece /\ getPiece(grid, pos) = v
  BY <1>2, GetPieceType
<1>4. v \in Pieces
  BY <1>2, <1>3, GetPieceType
<1>5. grid' = removePiece(grid, pos) /\ published' = Append(published, Captured(v))
  BY <1>1, <1>3
<1>6. \A q \in Pieces : OnBoard(q)' <=> OnBoard(q) /\ q # v
  <2> HIDE DEF pos
  <2> QED
    BY <1>3, <1>5, EmptiedCell DEF OnePlace
<1> HIDE DEF v
<1>7. \A f : Announced(f)' <=> Announced(f) \/ f = Captured(v)
  BY <1>4, <1>5, EventTypes, Announces
<1> QED
  BY <1>6, <1>7, EventsDiffer, StillStand

LEMMA AirReported ==
  ASSUME TypeOK, ReportedMovesStand, CheckAir
  PROVE  ReportedMovesStand'
<1>1. \A p \in Pieces : OnBoard(p) => OnBoard(p)'
  BY AirPieces DEF OnBoard
<1>2. CASE AirKill
  <2>1. PICK v \in Indices : published' = Append(published, Captured(activeMotions[v].piece))
    <3>1. \E k, l \in Indices : \E u, v \in {k, l} :
             published' = Append(published, Captured(activeMotions[v].piece))
      BY <1>2, Zenon DEF AirKill
    <3> QED
      BY <3>1
  <2>2. activeMotions[v].piece \in Pieces
    BY MotionsAt
  <2> DEFINE p == activeMotions[v].piece
  <2>3. published' = Append(published, Captured(p)) /\ Captured(p) \in Events
    BY <2>1, <2>2, EventTypes
  <2> HIDE DEF p
  <2>4. \A f : Announced(f)' <=> Announced(f) \/ f = Captured(p)
    BY <2>3, Announces
  <2> QED
    BY <1>1, <2>4, EventsDiffer, StillStand
<1>3. CASE AirKillBoth
  <2>1. PICK k \in Indices, l \in Indices :
          published' = Append(Append(published, Captured(activeMotions[k].piece)),
                              Captured(activeMotions[l].piece))
    BY <1>3 DEF AirKillBoth
  <2> DEFINE p == activeMotions[k].piece
             q == activeMotions[l].piece
  <2>2. /\ published' = Append(Append(published, Captured(p)), Captured(q))
        /\ Captured(p) \in Events /\ Captured(q) \in Events
    BY <2>1, MotionsAt, EventTypes
  <2> HIDE DEF p, q
  <2>3. \A f : Announced(f)' <=> Announced(f) \/ f = Captured(p) \/ f = Captured(q)
    BY <2>2, AnnouncesBoth
  <2> QED
    BY <1>1, <2>3, EventsDiffer, StillStand
<1>4. CASE AirStop \/ JudgeDead
  BY <1>1, <1>4, SamePublished DEF AirStop, JudgeDead
<1> QED
  BY <1>2, <1>3, <1>4 DEF CheckAir

\* A landing on g, the board without the pieces that are taken.
LEMMA AddsPiece ==
  ASSUME NEW g \in [Cells -> Pieces \union {NoPiece}], NEW p \in Pieces, NEW pos \in Cells,
         g[pos] = NoPiece
  PROVE  /\ CanAdd(g, pos)
         /\ addPiece(g, p, pos) = [g EXCEPT ![pos] = p]
         /\ Stands(addPiece(g, p, pos), p)
         /\ \A q \in Pieces : Stands(g, q) => Stands(addPiece(g, p, pos), q)
<1>1. CanAdd(g, pos) /\ addPiece(g, p, pos) = [g EXCEPT ![pos] = p]
  BY CellFacts DEF CanAdd, addPiece
<1> QED
  BY <1>1, CellFacts DEF Stands

LEMMA LandReported ==
  ASSUME TypeOK, OnePlace, FlightsFit, ReportedMovesStand, Land
  PROVE  ReportedMovesStand'
<1> DEFINE m == arrivals[1]
           p == m.piece
<1>0. \A q : (OnBoard(q) <=> Stands(grid, q)) /\ (OnBoard(q)' <=> Stands(grid', q))
  BY DEF OnBoard, Stands
<1>1. CASE LandOnEmpty
  <2>1. arrivals # << >>
    BY <1>1 DEF LandOnEmpty, Landing
  <2>2. p \in Pieces /\ m.destination \in Cells
    BY <2>1, ArrivalsAt, FitMotions DEF Due, Fit
  <2>3. grid[m.destination] = NoPiece
    BY <1>1, <2>2, CellFacts DEF LandOnEmpty, getPiece
  <2>4. grid' = addPiece(grid, p, m.destination) /\ published' = Append(published, Completed(p))
    BY <1>1 DEF LandOnEmpty
  <2> HIDE DEF m, p
  <2>5. Stands(grid', p) /\ \A q \in Pieces : Stands(grid, q) => Stands(grid', q)
    BY <2>2, <2>3, <2>4, AddsPiece DEF TypeOK
  <2>6. \A f : Announced(f)' <=> Announced(f) \/ f = Completed(p)
    BY <2>2, <2>4, EventTypes, Announces
  <2> QED
    BY <1>0, <2>5, <2>6, EventsDiffer, StillStand
<1>2. CASE LandOnEnemy
  <2> DEFINE v == getPiece(grid, m.destination)
             g == removePiece(grid, m.destination)
  <2>1. arrivals # << >> /\ v # NoPiece
    BY <1>2 DEF LandOnEnemy, Landing
  <2>2. p \in Pieces /\ m.destination \in Cells
    BY <2>1, ArrivalsAt, FitMotions DEF Due, Fit
  <2>3. v \in Pieces /\ grid[m.destination] = v
    BY <2>1, <2>2, CellFacts, GetPieceType
  <2>4. /\ g \in [Cells -> Pieces \union {NoPiece}] /\ g[m.destination] = NoPiece
        /\ \A q \in Pieces : Stands(grid, q) /\ q # v => Stands(g, q)
    <3>1. g = [grid EXCEPT ![m.destination] = NoPiece]
      BY <2>2, CellFacts DEF removePiece
    <3> HIDE DEF g, v, m
    <3> QED
      BY <2>2, <2>3, <3>1 DEF TypeOK, Stands
  <2>5. /\ grid' = addPiece(g, p, m.destination)
        /\ published' = Append(Append(published, Captured(v)), Completed(p))
    BY <1>2 DEF LandOnEnemy
  <2> HIDE DEF g, v, m, p
  <2>6. Stands(grid', p) /\ \A q \in Pieces : Stands(grid, q) /\ q # v => Stands(grid', q)
    BY <2>2, <2>4, <2>5, AddsPiece
  <2>7. \A f : Announced(f)' <=> Announced(f) \/ f = Captured(v) \/ f = Completed(p)
    BY <2>2, <2>3, <2>5, EventTypes, AnnouncesBoth
  <2> QED
    BY <1>0, <2>6, <2>7, EventsDiffer, StillStand
<1>3. CASE LandBounced
  <2>1. arrivals # << >>
    BY <1>3 DEF LandBounced, Landing
  <2>2. p \in Pieces /\ BounceCell(m) \in Cells
    BY <2>1, ArrivalsAt, FitMotions, BounceCellOnBoard DEF Due, Fit
  <2>3. grid' = addPiece(grid, p, BounceCell(m)) /\ UNCHANGED published
    BY <1>3 DEF LandBounced
  <2>4. \A q \in Pieces : Stands(grid, q) => Stands(grid', q)
    <3> HIDE DEF m, p
    <3>1. CASE grid[BounceCell(m)] = NoPiece
      BY <2>2, <2>3, <3>1, AddsPiece DEF TypeOK
    <3>2. CASE grid[BounceCell(m)] # NoPiece
      BY <2>3, <3>2 DEF addPiece, CanAdd
    <3> QED
      BY <3>1, <3>2
  <2> QED
    BY <1>0, <2>3, <2>4, SamePublished
<1>4. CASE WakeRested
  BY <1>0, <1>4, SamePublished DEF WakeRested
<1> QED
  BY <1>1, <1>2, <1>3, <1>4 DEF Land

LEMMA NextReported ==
  TypeOK /\ OnePlace /\ FlightsFit /\ PublishedFits /\ [Next]_vars => PublishedFits'
<1> SUFFICES ASSUME TypeOK, OnePlace, FlightsFit, PublishedFits, [Next]_vars
             PROVE  PublishedFits'
  OBVIOUS
<1>1. at' = "free" => published' = << >>
  BY DEF PublishedFits, vars, Next, Request, requestMove, requestJump, RequestRejected, TakeOff,
         WaitCall, WaitBegin, WaitStep, WaitEnd, AdvanceTime,
         CheckGround, GroundCapture, GroundBlocked, GroundDone,
         CheckAir, AirKill, AirKillBoth, AirStop, JudgeDead,
         Retire, CleanupDead, PopArrived, PopDone,
         Land, Landing, LandOnEmpty, LandOnEnemy, LandBounced, WakeRested
<1>2. CASE published' = << >>
  BY <1>1, <1>2 DEF PublishedFits, ReportedMovesStand, ToSet
<1>3. CASE UNCHANGED vars
  BY <1>1, <1>3, SamePublished DEF vars, PublishedFits, OnBoard
<1>4. CASE Request \/ WaitEnd
  <2>1. published' = << >>
    BY <1>4 DEF PublishedFits, vars, Request, requestMove, requestJump, RequestRejected, TakeOff,
                WaitEnd
  <2> QED
    BY <1>2, <2>1
<1>5. CASE WaitCall \/ AdvanceTime \/ GroundBlocked \/ GroundDone \/ Retire
  BY <1>1, <1>5, SamePublished
  DEF PublishedFits, OnBoard, WaitCall, WaitBegin, AdvanceTime, GroundBlocked, GroundDone,
      Retire, CleanupDead, PopArrived, PopDone
<1>6. CASE GroundCapture \/ CheckAir \/ Land
  BY <1>1, <1>6, GroundReported, AirReported, LandReported DEF PublishedFits
<1> QED
  BY <1>3, <1>4, <1>5, <1>6 DEF Next, WaitStep, CheckGround

\* On every board: whoever was reported to have completed its move by a call
\* of wait() stands on the board or was reported captured by the same call.
THEOREM ReportsAreTrue == Spec => []ReportedMovesStand
<1> DEFINE Inv == TypeOK /\ OnePlace /\ FlightsFit /\ PublishedFits
<1>1. Init => Inv
  <2>1. Init => PublishedFits
    BY DEF Init, PublishedFits, ReportedMovesStand, ToSet
  <2> QED
    BY <2>1, InitType, InitPlace, InitFits
<1>2. Inv /\ [Next]_vars => Inv'
  BY NextType, NextPlace, NextFits, NextReported
<1>3. Inv => ReportedMovesStand
  BY DEF PublishedFits
<1> QED
  BY <1>1, <1>2, <1>3, PTL DEF Spec

-----------------------------------------------------------------------------
(* Nobody is captured at a distance.                                       *)

LEMMA MeetIsSymmetric ==
  ASSUME NEW m, NEW n, Meet(m, n)
  PROVE  Meet(n, m)
BY DEF Meet

LEMMA CaptorThere ==
  ASSUME TypeOK, OnePlace, FlightsFit, Next, NEW p \in captured', p \notin captured
  PROVE  \E m \in ToSet(activeMotions) \union ToSet(arrivals) : CaptorIsThere(m, p)
<1>0. /\ \A k \in Indices : activeMotions[k] \in ToSet(activeMotions)
      /\ \A k \in 1 .. Len(arrivals) : arrivals[k] \in ToSet(arrivals)
  <2>1. DOMAIN activeMotions = Indices /\ DOMAIN arrivals = 1 .. Len(arrivals)
    BY MotionsAt DEF TypeOK
  <2> QED
    BY <2>1 DEF ToSet
<1>1. CASE GroundCapture
  <2>1. PICK k \in Indices :
          /\ FacesEnemy(activeMotions[k])
          /\ captured' = captured \union {getPiece(grid, CellNow(activeMotions[k]))}
    BY <1>1 DEF GroundCapture, Indices
  <2>2. CaptorIsThere(activeMotions[k], p)
    BY <2>1 DEF FacesEnemy, CaptorIsThere, Enemies
  <2> QED
    BY <1>0, <2>2
<1>2. ASSUME NEW k \in Indices, NEW l \in Indices, NextCollision(k, l),
             NEW u \in {k, l}, NEW v \in {k, l},
             Enemies(activeMotions[u].piece, activeMotions[v].piece),
             p = activeMotions[v].piece
      PROVE  CaptorIsThere(activeMotions[u], p)
  <2>1. Meet(activeMotions[k], activeMotions[l])
    BY <1>2 DEF NextCollision, Collision, Collide
  <2>2. u # v
    BY <1>2 DEF Enemies
  <2>3. Meet(activeMotions[u], activeMotions[v])
    BY <1>2, <2>1, <2>2, MeetIsSymmetric
  <2> QED
    BY <1>0, <1>2, <2>3 DEF CaptorIsThere
<1>3. CASE AirKill
  <2> DEFINE Killed(k, l, u, v) ==
        /\ NextCollision(k, l)
        /\ Enemies(activeMotions[u].piece, activeMotions[v].piece)
        /\ captured' = captured \union {activeMotions[v].piece}
  <2>1. \E k, l \in Indices : \E u, v \in {k, l} : Killed(k, l, u, v)
    BY <1>3, Zenon DEF AirKill, Kills
  <2>2. PICK k \in Indices, l \in Indices : \E u, v \in {k, l} : Killed(k, l, u, v)
    BY <2>1
  <2>3. PICK u \in {k, l}, v \in {k, l} : Killed(k, l, u, v)
    BY <2>2
  <2>4. CaptorIsThere(activeMotions[u], p)
    BY <1>2, <2>3
  <2> QED
    BY <1>0, <2>4
<1>4. CASE AirKillBoth
  <2>1. PICK k \in Indices, l \in Indices :
          /\ NextCollision(k, l)
          /\ KillEachOther(activeMotions[k], activeMotions[l])
          /\ captured' = captured \union {activeMotions[k].piece, activeMotions[l].piece}
    BY <1>4 DEF AirKillBoth
  <2>2. /\ Enemies(activeMotions[k].piece, activeMotions[l].piece)
        /\ Enemies(activeMotions[l].piece, activeMotions[k].piece)
    BY <2>1 DEF KillEachOther, Enemies
  <2>3. CASE p = activeMotions[k].piece
    <3>1. CaptorIsThere(activeMotions[l], p)
      BY <1>2, <2>1, <2>2, <2>3
    <3> QED
      BY <1>0, <3>1
  <2>4. CASE p = activeMotions[l].piece
    <3>1. CaptorIsThere(activeMotions[k], p)
      BY <1>2, <2>1, <2>2, <2>4
    <3> QED
      BY <1>0, <3>1
  <2> QED
    BY <2>1, <2>3, <2>4
<1>5. CASE LandOnEnemy
  <2> DEFINE m == arrivals[1]
  <2>1. arrivals # << >> /\ Enemies(getPiece(grid, m.destination), m.piece)
        /\ captured' = captured \union {getPiece(grid, m.destination)}
    BY <1>5 DEF LandOnEnemy, Landing
  <2>2. 1 \in 1 .. Len(arrivals)
    BY <2>1, ArrivalsAt
  <2>3. m \in Due(currentTime)
    BY <2>2, FitMotions
  <2>4. CellNow(m) = m.destination
    BY <2>3 DEF Due, Fit, CellNow, getCurrentCell
  <2>5. CaptorIsThere(m, p)
    BY <2>1, <2>4 DEF CaptorIsThere, Enemies
  <2> QED
    BY <1>0, <2>2, <2>5
<1> QED
  BY <1>1, <1>3, <1>4, <1>5
  DEF vars, history, Next, Request, requestMove, requestJump, RequestRejected, TakeOff,
      WaitCall, WaitBegin, WaitStep, WaitEnd, AdvanceTime, CheckGround, GroundBlocked, GroundDone,
      CheckAir, AirStop, JudgeDead, Retire, CleanupDead, PopArrived, PopDone,
      Land, LandOnEmpty, LandBounced, WakeRested

\* On every board: whoever is newly captured stands on, or flies through, the
\* cell of a motion of the other color.
THEOREM NobodyIsCapturedFromAfar == Spec => CapturedByEnemyThere
<1> DEFINE Inv == TypeOK /\ OnePlace /\ FlightsFit
           Rule == \A p \in captured' \ captured :
                     \E m \in ToSet(activeMotions) \union ToSet(arrivals) : CaptorIsThere(m, p)
<1>1. Init => Inv
  BY InitType, InitPlace, InitFits
<1>2. Inv /\ [Next]_vars => Inv'
  BY NextType, NextPlace, NextFits
<1>3. Inv /\ [Next]_vars => [Rule]_vars
  BY CaptorThere
<1> QED
  BY <1>1, <1>2, <1>3, PTL DEF Spec, CapturedByEnemyThere

=============================================================================
