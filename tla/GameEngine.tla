----------------------------- MODULE GameEngine -----------------------------
(***************************************************************************)
(* GameEngine of server/engine/game_engine.cpp together with the           *)
(* RealTimeArbiter it owns.  All public operations hold the mutex mtx: the *)
(* requests are one step each, and wait(), which runs the physics in a     *)
(* loop, holds the mutex while at # "free" and is modelled iteration by    *)
(* iteration.  at names the part of wait() that is running:                *)
(*                                                                         *)
(*   free -> tick -> ground -> air -> retire -> land                       *)
(*             ^                                  |                        *)
(*             +----------------------------------+                        *)
(*                                                                         *)
(* and tick goes back to free when the requested time has elapsed.  An     *)
(* iteration that changes nothing but its loop index is not a step: each   *)
(* step of a loop is the next iteration that has an effect.                *)
(***************************************************************************)
EXTENDS PieceRules, Motion

CONSTANTS InitialKind, InitialCell,  \* the position a game starts from
          PhysicsTick,               \* PHYSICS_TICK_MS
          SquareDuration,            \* flight time per square, given by the command handler
          JumpDuration,              \* the 1000 ms of requestJump
          Cooldown,                  \* [kind -> [rest state -> ms]], the GameBalance
          WaitSizes,                 \* the arguments wait() is called with
          RequestHorizon,            \* bound: no request at or after this time
          MaxTime                    \* bound: the clock stops here

RestStates  == {"ShortRest", "LongRest"}
PieceStates == {"Idle", "Move"} \union RestStates

ASSUME EngineAssumption ==
  /\ InitialKind \in [Pieces -> Kinds]
  /\ InitialCell \in [Pieces -> Cells]
  /\ \A p, q \in Pieces : InitialCell[p] = InitialCell[q] => p = q
  /\ PhysicsTick \in Nat \ {0} /\ SquareDuration \in Nat \ {0} /\ JumpDuration \in Nat \ {0}
  /\ Cooldown \in [Kinds -> [RestStates -> Nat]]
  /\ WaitSizes \subseteq Nat
  /\ RequestHorizon \in Nat /\ MaxTime \in Nat

VARIABLES
  grid,            \* GameState.board
  kind,            \* Piece.kind
  pieceState,      \* Piece.state
  readyTime,       \* Piece.readyTime
  isGameOver, winner,
  currentTime, activeMotions,       \* RealTimeArbiter
  at, remaining, i, j, arrivals,    \* the locals of wait(): ms - elapsed, last iteration that had an effect, popped motions
  published,       \* what this call of wait() published on the event bus
  captured, lost   \* history: pieces reported captured; pieces addPiece refused

gameVars  == <<isGameOver, winner>>
pieceVars == <<kind, pieceState, readyTime>>
loopVars  == <<remaining, i, j>>
history   == <<captured, lost>>
vars == <<grid, pieceVars, gameVars, currentTime, activeMotions,
          at, loopVars, arrivals, published, history>>

Phases == {"free", "tick", "ground", "air", "retire", "land"}
Events == [ event : {"MoveCompleted", "PieceCaptured"}, piece : Pieces ]

-----------------------------------------------------------------------------
(* The game starts with every piece standing idle on its cell.             *)

InitialGrid ==
  [ c \in Cells |-> IF \E p \in Pieces : InitialCell[p] = c
                    THEN CHOOSE p \in Pieces : InitialCell[p] = c
                    ELSE NoPiece ]

Init ==
  /\ grid = InitialGrid
  /\ kind = InitialKind
  /\ pieceState = [p \in Pieces |-> "Idle"]
  /\ readyTime = [p \in Pieces |-> 0]
  /\ isGameOver = FALSE
  /\ winner = "None"
  /\ currentTime = 0
  /\ activeMotions = << >>
  /\ at = "free"
  /\ remaining = 0 /\ i = 0 /\ j = 0
  /\ arrivals = << >>
  /\ published = << >>
  /\ captured = {}
  /\ lost = {}

-----------------------------------------------------------------------------
(* Requests, from the network thread, between two calls of wait().         *)

AbsDiff(a, b) == IF a >= b THEN a - b ELSE b - a

\* GameActionHandler: the Chebyshev distance, at least one square.
MoveDuration(source, destination) ==
  LET dr == AbsDiff(source.row, destination.row)
      dc == AbsDiff(source.col, destination.col)
      d  == IF dr >= dc THEN dr ELSE dc
  IN  SquareDuration * (IF d = 0 THEN 1 ELSE d)

\* Mutants of MayTakeOff: without the rest, and after the end of the game.
MayTakeOffUnrested(source) == ~isGameOver /\ getPiece(grid, source) # NoPiece
MayTakeOffAfterEnd(source) ==
  getPiece(grid, source) # NoPiece /\ pieceState[getPiece(grid, source)] = "Idle"

MayTakeOff(source) ==
  /\ ~isGameOver
  /\ getPiece(grid, source) # NoPiece
  /\ pieceState[getPiece(grid, source)] = "Idle"

TakeOff(source, destination, duration, type) ==
  LET p == getPiece(grid, source)
  IN  /\ grid' = removePiece(grid, source)
      /\ pieceState' = [pieceState EXCEPT ![p] = "Move"]
      /\ activeMotions' = Append(activeMotions,
                            NewMotion(p, source, destination, currentTime, duration, type))
      /\ UNCHANGED <<kind, readyTime, gameVars, currentTime,
                     at, loopVars, arrivals, published, history>>

\* The moves the engine accepts: what validateMove tests.
MovesFrom(source) ==
  LET p == getPiece(grid, source)
  IN  IF MayTakeOff(source) THEN LegalDestinations(grid, p, kind[p], source) ELSE {}

requestMove ==
  /\ at = "free" /\ currentTime < RequestHorizon
  /\ \E source \in Cells : \E destination \in MovesFrom(source) :
       TakeOff(source, destination, MoveDuration(source, destination), "Normal")

requestJump ==
  /\ at = "free" /\ currentTime < RequestHorizon
  /\ \E pos \in Cells :
       MayTakeOff(pos) /\ TakeOff(pos, pos, JumpDuration, "Jump")

\* A request that fails one of the guards returns false and changes nothing.
RequestRejected ==
  /\ at = "free"
  /\ ~(\A source \in Cells : Cells \subseteq MovesFrom(source))
  /\ UNCHANGED vars

-----------------------------------------------------------------------------
(* wait(): isGameOver is tested once, on entry; the loop runs to its end   *)
(* even when the game is decided on the way.                               *)

WaitBegin(ms) ==
  /\ at = "free"
  /\ ~isGameOver
  /\ currentTime + ms <= MaxTime
  /\ at' = "tick"
  /\ remaining' = ms
  /\ UNCHANGED <<grid, pieceVars, gameVars, currentTime, activeMotions,
                 i, j, arrivals, published, history>>

WaitEnd ==
  /\ at = "tick" /\ remaining = 0
  /\ at' = "free"
  /\ published' = << >>
  /\ UNCHANGED <<grid, pieceVars, gameVars, currentTime, activeMotions,
                 loopVars, arrivals, history>>

\* Mutant of StepSize: the last tick is not cut off.
StepSizeUncapped == PhysicsTick

StepSize == IF PhysicsTick <= remaining THEN PhysicsTick ELSE remaining

AdvanceTime ==
  /\ at = "tick" /\ remaining > 0
  /\ currentTime' = currentTime + StepSize
  /\ remaining' = remaining - StepSize
  /\ at' = "ground"
  /\ i' = 0
  /\ UNCHANGED <<grid, pieceVars, gameVars, activeMotions, j, arrivals, published, history>>

-----------------------------------------------------------------------------
(* checkAirToGroundCollisions: motion i against what stands on its way.    *)

CellNow(m)    == getCurrentCell(m, currentTime)
CellBefore(m) == getCurrentCell(m, currentTime - PhysicsTick)

Captured(p) == [event |-> "PieceCaptured", piece |-> p]
Completed(p) == [event |-> "MoveCompleted", piece |-> p]

\* Mutants of DecideFor: the game goes on; the winner is not set.
DecideForNothing(color, fatal) ==
  isGameOver' = isGameOver /\ winner' = IF fatal THEN color ELSE winner
DecideForNobody(color, fatal) ==
  isGameOver' = (isGameOver \/ fatal) /\ winner' = winner

\* A capture with a known captor decides the game when it is fatal.
DecideFor(color, fatal) ==
  /\ isGameOver' = (isGameOver \/ fatal)
  /\ winner' = IF fatal THEN color ELSE winner

HitsGround(m) ==
  /\ ~m.isDead
  /\ m.type = "Normal" /\ kind[m.piece] # "Knight"
  /\ CellNow(m) # m.destination /\ CellNow(m) # m.source
  /\ getPiece(grid, CellNow(m)) # NoPiece

\* k is the next motion of the loop that meets a standing piece.
NextGroundHit(k) ==
  /\ k \in (i + 1) .. Len(activeMotions)
  /\ HitsGround(activeMotions[k])
  /\ \A l \in (i + 1) .. (k - 1) : ~HitsGround(activeMotions[l])

\* Mutant of FacesEnemy: does not look at the colors.
FacesAnyone(m) == getPiece(grid, CellNow(m)) # NoPiece
FacesEnemy(m) == Enemies(getPiece(grid, CellNow(m)), m.piece)

GroundCapture ==
  /\ at = "ground"
  /\ \E k \in 1 .. Len(activeMotions) :
       LET m == activeMotions[k]
           victim == getPiece(grid, CellNow(m))
       IN  /\ NextGroundHit(k)
           /\ FacesEnemy(m)
           /\ grid' = removePiece(grid, CellNow(m))
           /\ published' = Append(published, Captured(victim))
           /\ captured' = captured \union {victim}
           /\ DecideFor(Color[m.piece], isFatalDeath(kind[victim]))
           /\ i' = k
  /\ UNCHANGED <<pieceVars, currentTime, activeMotions, at, remaining, j, arrivals, lost>>

\* A friend stands in the way: the motion ends now, one tick back.
GroundBlocked ==
  /\ at = "ground"
  /\ \E k \in 1 .. Len(activeMotions) :
       LET m == activeMotions[k]
       IN  /\ NextGroundHit(k)
           /\ ~FacesEnemy(m)
           /\ activeMotions' = [activeMotions EXCEPT
                 ![k] = [m EXCEPT !.destination = CellBefore(m), !.arrivalTime = currentTime]]
           /\ i' = k
  /\ UNCHANGED <<grid, pieceVars, gameVars, currentTime,
                 at, remaining, j, arrivals, published, history>>

GroundDone ==
  /\ at = "ground"
  /\ \A k \in (i + 1) .. Len(activeMotions) : ~HitsGround(activeMotions[k])
  /\ at' = "air"
  /\ i' = 0 /\ j' = 0
  /\ UNCHANGED <<grid, pieceVars, gameVars, currentTime, activeMotions,
                 remaining, arrivals, published, history>>

-----------------------------------------------------------------------------
(* checkMidAirCollisions: the pairs k < l of the vector, in order.         *)

Meet(m1, m2) == \/ CellNow(m1) = CellNow(m2)
                \/ CellNow(m1) = CellBefore(m2) /\ CellNow(m2) = CellBefore(m1)

BothWalk(m1, m2) ==
  /\ m1.type = "Normal" /\ m2.type = "Normal"
  /\ kind[m1.piece] # "Knight" /\ kind[m2.piece] # "Knight"

\* Mutant of Kills: does not look at the colors.
KillsAnyone(a, b) ==
  \/ a.type = "Jump" /\ b.type = "Normal"
  \/ BothWalk(a, b) /\ a.startTime < b.startTime

\* When they meet, motion a survives and kills the enemy b.
Kills(a, b) ==
  /\ Enemies(a.piece, b.piece)
  /\ \/ a.type = "Jump" /\ b.type = "Normal"
     \/ BothWalk(a, b) /\ a.startTime < b.startTime

KillEachOther(a, b) ==
  Enemies(a.piece, b.piece) /\ BothWalk(a, b) /\ a.startTime = b.startTime

\* When they meet, the friend b is stopped: b runs into a jumper, or both
\* walk and b started later or (aFirst: a comes first in the vector) not earlier.
Stops(a, b, aFirst) ==
  /\ ~Enemies(a.piece, b.piece)
  /\ \/ a.type = "Jump" /\ b.type = "Normal" /\ kind[b.piece] # "Knight"
     \/ /\ BothWalk(a, b)
        /\ IF aFirst THEN a.startTime < b.startTime ELSE a.startTime <= b.startTime

Collide(a, b) ==
  /\ Meet(a, b)
  /\ \/ Kills(a, b) \/ Kills(b, a) \/ KillEachOther(a, b)
     \/ Stops(a, b, TRUE) \/ Stops(b, a, FALSE)

\* The pair (k, l) comes after (i, j) in the two loops and has an effect.
\* The outer loop tests k for being dead when it starts on k and not again:
\* a motion that was killed as k still collides with the later ones.
Collision(k, l) ==
  /\ k < l
  /\ i < k \/ (i = k /\ j < l)
  /\ k = i \/ ~activeMotions[k].isDead
  /\ ~activeMotions[l].isDead
  /\ Collide(activeMotions[k], activeMotions[l])

Indices == 1 .. Len(activeMotions)

NextCollision(k, l) ==
  /\ Collision(k, l)
  /\ \A m, n \in Indices : Collision(m, n) => k < m \/ (k = m /\ l <= n)

\* Motion v of the pair is killed by motion u.
AirKill ==
  /\ at = "air"
  /\ \E k, l \in Indices : \E u, v \in {k, l} :
       LET p == activeMotions[v].piece
       IN  /\ NextCollision(k, l)
           /\ Kills(activeMotions[u], activeMotions[v])
           /\ activeMotions' = [activeMotions EXCEPT ![v] = [@ EXCEPT !.isDead = TRUE]]
           /\ published' = Append(published, Captured(p))
           /\ captured' = captured \union {p}
           /\ DecideFor(Color[activeMotions[u].piece], isFatalDeath(kind[p]))
           /\ i' = k /\ j' = l
  /\ UNCHANGED <<grid, pieceVars, currentTime, at, remaining, arrivals, lost>>

AirKillBoth ==
  /\ at = "air"
  /\ \E k, l \in Indices :
       LET p == activeMotions[k].piece
           q == activeMotions[l].piece
       IN  /\ NextCollision(k, l)
           /\ KillEachOther(activeMotions[k], activeMotions[l])
           /\ activeMotions' = [activeMotions EXCEPT ![k] = [@ EXCEPT !.isDead = TRUE],
                                                     ![l] = [@ EXCEPT !.isDead = TRUE]]
           /\ published' = Append(Append(published, Captured(p)), Captured(q))
           /\ captured' = captured \union {p, q}
           /\ isGameOver' = (isGameOver \/ isFatalDeath(kind[p]) \/ isFatalDeath(kind[q]))
           /\ i' = k /\ j' = l
  /\ UNCHANGED <<grid, pieceVars, winner, currentTime, at, remaining, arrivals, lost>>

\* The stopped motion gets its new arrival time first, and the destination
\* is then where getCurrentCell, reading that arrival time, sees it a tick ago.
CutShort(m) ==
  LET late == [m EXCEPT !.arrivalTime = currentTime]
  IN  [late EXCEPT !.destination = CellBefore(late)]

AirStop ==
  /\ at = "air"
  /\ \E k, l \in Indices :
       /\ NextCollision(k, l)
       /\ \/ /\ Stops(activeMotions[k], activeMotions[l], TRUE)
             /\ activeMotions' = [activeMotions EXCEPT ![l] = CutShort(activeMotions[l])]
          \/ /\ Stops(activeMotions[l], activeMotions[k], FALSE)
             /\ activeMotions' = [activeMotions EXCEPT ![k] = CutShort(activeMotions[k])]
       /\ i' = k /\ j' = l
  /\ UNCHANGED <<grid, pieceVars, gameVars, currentTime,
                 at, remaining, arrivals, published, history>>

-----------------------------------------------------------------------------
(* Dead kings, cleanup of the dead, and the motions that have arrived.     *)

DeadFatal == { k \in Indices :
                 activeMotions[k].isDead /\ isFatalDeath(kind[activeMotions[k].piece]) }

\* After the last collision, each dead fatal piece gives the game to its
\* opponent; the last one of the vector stays.
JudgeDead ==
  /\ at = "air"
  /\ \A k, l \in Indices : ~Collision(k, l)
  /\ at' = "retire"
  /\ isGameOver' = (isGameOver \/ DeadFatal # {})
  /\ winner' = IF DeadFatal = {} THEN winner
               ELSE Opponent(Color[activeMotions[Max(DeadFatal)].piece])
  /\ i' = 0 /\ j' = 0
  /\ UNCHANGED <<grid, pieceVars, currentTime, activeMotions,
                 remaining, arrivals, published, history>>

IsDead(m) == m.isDead
Arrived(m) == hasArrived(m, currentTime)

CleanupDead ==
  /\ at = "retire"
  /\ \E k \in Indices :
       /\ IsFirst(k, activeMotions, IsDead)
       /\ activeMotions' = RemoveAt(activeMotions, k)
  /\ UNCHANGED <<grid, pieceVars, gameVars, currentTime,
                 at, loopVars, arrivals, published, history>>

PopArrived ==
  /\ at = "retire"
  /\ \A k \in Indices : ~IsDead(activeMotions[k])
  /\ \E k \in Indices :
       /\ IsFirst(k, activeMotions, Arrived)
       /\ arrivals' = Append(arrivals, activeMotions[k])
       /\ activeMotions' = RemoveAt(activeMotions, k)
  /\ UNCHANGED <<grid, pieceVars, gameVars, currentTime, at, loopVars, published, history>>

PopDone ==
  /\ at = "retire"
  /\ \A k \in Indices : ~IsDead(activeMotions[k]) /\ ~Arrived(activeMotions[k])
  /\ at' = "land"
  /\ UNCHANGED <<grid, pieceVars, gameVars, currentTime, activeMotions,
                 loopVars, arrivals, published, history>>

-----------------------------------------------------------------------------
(* processArrivals: the popped motions land one by one.  (Its isDead test  *)
(* cannot succeed, the dead were cleaned up: a dead motion here would      *)
(* block every landing action and show as a deadlock.)                     *)

Landing == at = "land" /\ arrivals # << >> /\ ~arrivals[1].isDead

RestAfter(m) == IF m.type = "Jump" THEN "ShortRest" ELSE "LongRest"

\* The landing piece rests for the cooldown of the kind it had in flight,
\* and a pawn on a border row is promoted before the target cell is looked at.
TouchDown(m) ==
  /\ pieceState' = [pieceState EXCEPT ![m.piece] = RestAfter(m)]
  /\ readyTime' = [readyTime EXCEPT ![m.piece] =
                     currentTime + Cooldown[kind[m.piece]][RestAfter(m)]]
  /\ kind' = [kind EXCEPT ![m.piece] = KindOnArrival(@, m.destination)]
  /\ arrivals' = Tail(arrivals)

Sign(n) == IF n > 0 THEN 1 ELSE IF n < 0 THEN -1 ELSE 0

\* Mutant of BounceCell: one square on.
BounceCellOn(m) == At(m.destination.row + Sign(m.destination.row - m.source.row),
                      m.destination.col + Sign(m.destination.col - m.source.col))

\* One square back towards the source.
BounceCell(m) == At(m.destination.row - Sign(m.destination.row - m.source.row),
                    m.destination.col - Sign(m.destination.col - m.source.col))

LandOnEmpty ==
  /\ Landing
  /\ LET m == arrivals[1]
     IN  /\ getPiece(grid, m.destination) = NoPiece
         /\ TouchDown(m)
         /\ grid' = addPiece(grid, m.piece, m.destination)
         /\ lost' = IF CanAdd(grid, m.destination) THEN lost ELSE lost \union {m.piece}
         /\ published' = Append(published, Completed(m.piece))
  /\ UNCHANGED <<gameVars, currentTime, activeMotions, at, loopVars, captured>>

LandOnEnemy ==
  /\ Landing
  /\ LET m == arrivals[1]
         target == getPiece(grid, m.destination)
     IN  /\ target # NoPiece /\ Enemies(target, m.piece)
         /\ TouchDown(m)
         /\ grid' = addPiece(removePiece(grid, m.destination), m.piece, m.destination)
         /\ published' = Append(Append(published, Captured(target)), Completed(m.piece))
         /\ captured' = captured \union {target}
         /\ DecideFor(Color[m.piece], isFatalDeath(kind[target]))
  /\ UNCHANGED <<currentTime, activeMotions, at, loopVars, lost>>

\* A friend holds the cell: one square back, where addPiece may refuse the
\* piece; nobody looks at its answer, and no MoveCompleted is published.
LandBounced ==
  /\ Landing
  /\ LET m == arrivals[1]
         target == getPiece(grid, m.destination)
     IN  /\ target # NoPiece /\ ~Enemies(target, m.piece)
         /\ TouchDown(m)
         /\ grid' = addPiece(grid, m.piece, BounceCell(m))
         /\ lost' = IF CanAdd(grid, BounceCell(m)) THEN lost ELSE lost \union {m.piece}
  /\ UNCHANGED <<gameVars, currentTime, activeMotions, at, loopVars, published, captured>>

\* After the last landing, the pieces on the board whose cooldown is over
\* become idle.
OnBoard(p) == \E c \in Cells : grid[c] = p
Rested(p) == OnBoard(p) /\ pieceState[p] \in RestStates /\ currentTime >= readyTime[p]

WakeRested ==
  /\ at = "land" /\ arrivals = << >>
  /\ pieceState' = [p \in Pieces |-> IF Rested(p) THEN "Idle" ELSE pieceState[p]]
  /\ at' = "tick"
  /\ UNCHANGED <<grid, kind, readyTime, gameVars, currentTime, activeMotions,
                 loopVars, arrivals, published, history>>

-----------------------------------------------------------------------------
Request     == requestMove \/ requestJump \/ RequestRejected
CheckGround == GroundCapture \/ GroundBlocked \/ GroundDone
CheckAir    == AirKill \/ AirKillBoth \/ AirStop \/ JudgeDead
Retire      == CleanupDead \/ PopArrived \/ PopDone
Land        == LandOnEmpty \/ LandOnEnemy \/ LandBounced \/ WakeRested

\* The steps of the thread that holds the mutex in wait().
WaitStep == WaitEnd \/ AdvanceTime \/ CheckGround \/ CheckAir \/ Retire \/ Land

WaitCall == \E ms \in WaitSizes : WaitBegin(ms)

Next == Request \/ WaitCall \/ WaitStep

Spec == Init /\ [][Next]_vars

\* The tick timer keeps calling update(), which calls wait(), and a thread
\* that holds the mutex is scheduled until it releases it.
FairSpec == Spec /\ WF_vars(WaitStep) /\ WF_vars(WaitCall)

-----------------------------------------------------------------------------
(* Properties.                                                             *)

\* Every variable holds a value of its type.
TypeOK ==
  /\ grid \in [Cells -> Pieces \union {NoPiece}]
  /\ kind \in [Pieces -> Kinds]
  /\ pieceState \in [Pieces -> PieceStates]
  /\ readyTime \in [Pieces -> Nat]
  /\ isGameOver \in BOOLEAN
  /\ winner \in Colors \union {"None"}
  /\ currentTime \in Nat
  /\ activeMotions \in Seq(Motions)
  /\ at \in Phases
  /\ remaining \in Nat /\ i \in Nat /\ j \in Nat
  /\ arrivals \in Seq(Motions)
  /\ published \in Seq(Events)
  /\ captured \subseteq Pieces /\ lost \subseteq Pieces

Carries(motions, p) == \E k \in 1 .. Len(motions) : motions[k].piece = p
NoTwins(motions) == \A k, l \in 1 .. Len(motions) : motions[k].piece = motions[l].piece => k = l

Flying(p)      == Carries(activeMotions, p)
LandingNow(p)  == Carries(arrivals, p)
FlyingAlive(p) == \E k \in Indices : activeMotions[k].piece = p /\ ~activeMotions[k].isDead

NoTwinsOnGrid(g) == \A c \in Cells : g[c] # NoPiece => \A d \in Cells : g[d] = g[c] => d = c

\* No piece is ever in two places: take-off, the bounce one square back, the
\* captures and the two motion vectors never duplicate a piece.
OnePlace ==
  /\ NoTwinsOnGrid(grid) /\ NoTwins(activeMotions) /\ NoTwins(arrivals)
  /\ \A p \in Pieces : /\ ~(OnBoard(p) /\ Flying(p))
                       /\ ~(OnBoard(p) /\ LandingNow(p))
                       /\ ~(Flying(p) /\ LandingNow(p))

InPlay(p) == OnBoard(p) \/ FlyingAlive(p) \/ LandingNow(p)

\* A piece leaves the game only by a capture that was reported to the score
\* keepers or by a refused addPiece, and never comes back.
Accounted ==
  \A p \in Pieces : InPlay(p) <=> p \notin captured \union lost

\* The game is over exactly when a king has been captured, at every moment,
\* also inside wait(): kings cannot be made or promoted away.
GameOverIffKingCaptured ==
  isGameOver <=> \E p \in captured : InitialKind[p] = "King"

\* When wait() has returned, a game that is over has a winner, and a king of
\* the other color has been captured, also when two kings fell together.
WinnerTookAKing ==
  at = "free" /\ isGameOver =>
    /\ winner \in Colors
    /\ \E p \in captured : InitialKind[p] = "King" /\ Color[p] = Opponent(winner)

\* When wait() has returned, nothing is overdue: a piece on the board is idle
\* exactly when its cooldown is over, and every motion is alive, has started
\* and has not arrived.
NothingOverdue ==
  at = "free" =>
    /\ \A p \in Pieces : OnBoard(p) =>
         /\ pieceState[p] \in {"Idle"} \union RestStates
         /\ pieceState[p] = "Idle" <=> readyTime[p] <= currentTime
    /\ \A k \in Indices :
         /\ ~activeMotions[k].isDead
         /\ activeMotions[k].startTime <= currentTime
         /\ currentTime < activeMotions[k].arrivalTime

\* A piece that is lost or captured stays so, a finished game stays as it
\* was left: requests and wait() change nothing once it is over.
OverIsFinal ==
  [][isGameOver /\ at = "free" => UNCHANGED vars]_vars

\* No piece takes off while it cools down: whatever path a piece came to its
\* cell by, its next flight starts only after readyTime.
CooldownRespected ==
  [][\A p \in Pieces : OnBoard(p) /\ Flying(p)' => currentTime >= readyTime[p]]_vars

\* No capture at a distance: a piece that is newly reported captured stands
\* on, or flies through, the cell of an enemy motion.
CaptorIsThere(m, p) ==
  /\ Enemies(m.piece, p)
  /\ \/ getPiece(grid, CellNow(m)) = p
     \/ \E n \in ToSet(activeMotions) : n.piece = p /\ Meet(m, n)

CapturedByEnemyThere ==
  [][\A p \in captured' \ captured :
       \E m \in ToSet(activeMotions) \union ToSet(arrivals) : CaptorIsThere(m, p)]_vars

\* Whoever this call of wait() has reported to have completed its move
\* stands on the board, or has been reported captured by the same call: no
\* later landing or bounce of the call takes it off its cell unnoticed.
ReportedMovesStand ==
  \A p \in Pieces : Completed(p) \in ToSet(published)
                      => OnBoard(p) \/ Captured(p) \in ToSet(published)

\* Rounding, stopping and bouncing never lead off the board: the cell of a
\* motion, now and a tick ago, its destination and the square before it are
\* cells of the board.  A piece is lost only to an occupied cell.
FlightsStayOnBoard ==
  \A m \in ToSet(activeMotions) \union ToSet(arrivals) :
    {m.destination, CellNow(m), CellBefore(m), BounceCell(m)} \subseteq Cells

\* wait() returns, every flight ends and every rest too, as long as the game
\* is on: a piece that cannot be moved can be moved later, or is captured or
\* lost.
PlayableAgain == \A p \in Pieces :
  ~(at = "free" /\ OnBoard(p) /\ pieceState[p] = "Idle")
    ~> \/ at = "free" /\ OnBoard(p) /\ pieceState[p] = "Idle"
       \/ p \in captured \union lost
       \/ isGameOver

-----------------------------------------------------------------------------
(* Refinement: the life of a piece.                                        *)

Kings == { p \in Pieces : InitialKind[p] = "King" }

Status ==
  [p \in Pieces |-> CASE p \in captured -> "captured"
                      [] p \in lost -> "lost"
                      [] OnBoard(p) /\ pieceState[p] = "Idle" -> "idle"
                      [] OnBoard(p) /\ pieceState[p] # "Idle" -> "resting"
                      [] OTHER -> "airborne"]

Lifecycle == INSTANCE PieceLifecycle WITH status <- Status, over <- isGameOver

\* The engine implements PieceLifecycle.
ImplementsLifecycle == Lifecycle!Spec

=============================================================================
