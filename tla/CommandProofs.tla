---------------------------- MODULE CommandProofs ----------------------------
(***************************************************************************)
(* Theorems about the game of KungFuBot: commands that look first and act  *)
(* later, of two players or of one against the bot, beside wait().         *)
(***************************************************************************)
EXTENDS KungFuBot, GameEngineProofs, FiniteSetTheorems, WellFoundedInduction

-----------------------------------------------------------------------------
(* What a step of the game does to the engine: nothing, a take-off that    *)
(* the engine accepts, or a step of wait().                                *)

EngineInv == TypeOK /\ OnePlace /\ IdleIsRested

AcceptedFrom(source) ==
  \E destination \in Cells, duration \in Int, type \in MotionTypes :
    MayTakeOff(source) /\ TakeOff(source, destination, duration, type)

Accepted == \E source \in Cells : AcceptedFrom(source)

\* The command that is being worked on is one of its author's pieces.
CommandOK ==
  command # NoCommand =>
    /\ command.source \in Cells /\ command.destination \in Cells
    /\ command.seen \in Pieces /\ Color[command.seen] = command.role
    /\ command.time \in Nat /\ command.time <= currentTime

LEMMA PerformAccepted ==
  ASSUME TypeOK, CommandOK, Perform
  PROVE  AcceptedFrom(command.source) /\ command # NoCommand /\ command' = NoCommand
<1>1. command.source \in Cells /\ command.destination \in Cells
  BY DEF CommandOK, Perform
<1>2. CASE command.action = "MOVE"
  BY <1>1, <1>2, MovesFromType, MoveDurationType DEF Perform, Accepts, AcceptedFrom, MotionTypes
<1>3. CASE command.action # "MOVE"
  BY <1>1, <1>3, EngineAssumption DEF Perform, Accepts, AcceptedFrom, MotionTypes
<1> QED
  BY <1>2, <1>3 DEF Perform

LEMMA BotAccepted ==
  ASSUME TypeOK, BotMoves \/ BotJumps
  PROVE  Accepted /\ command' = command
<1>1. JumpDuration \in Int
  BY EngineAssumption
<1>2. CASE BotMoves
  BY <1>1, <1>2, MovesFromType DEF BotMoves, Accepted, AcceptedFrom, MotionTypes
<1>3. CASE BotJumps
  BY <1>1, <1>3 DEF BotJumps, Accepted, AcceptedFrom, MotionTypes
<1> QED
  BY <1>2, <1>3

\* Every step of the game, as the engine and the command see it.
LEMMA GameSteps ==
  ASSUME TypeOK, CommandOK, [NextBot]_gameBotVars
  PROVE  \/ UNCHANGED vars /\ command' \in {command, NoCommand}
         \/ UNCHANGED vars /\ command = NoCommand /\ \E role : Look(role)
         \/ /\ command # NoCommand /\ command' = NoCommand
            /\ command.source \in Cells /\ AcceptedFrom(command.source)
         \/ (Accepted \/ WaitCall \/ WaitStep) /\ command' = command
<1>1. CASE UNCHANGED gameBotVars
  BY <1>1 DEF gameBotVars, commandVars
<1>2. CASE Players
  <2>1. CASE \E role \in Roles \ {botColor} : Look(role)
    BY <2>1 DEF Look, LookAt
  <2>2. CASE Ignore \/ Refuse
    BY <2>2 DEF Ignore, Refuse, commandVars
  <2>3. CASE Perform
    BY <2>3, PerformAccepted DEF CommandOK
  <2> QED
    BY <1>2, <2>1, <2>2, <2>3 DEF Players, Answer
<1>3. CASE GameLoop
  BY <1>3 DEF GameLoop, Worker
<1>4. CASE BotLooks \/ BotRefused
  BY <1>4 DEF BotLooks, BotRefused, commandVars
<1>5. CASE BotMoves \/ BotJumps
  BY <1>5, BotAccepted
<1> QED
  BY <1>1, <1>2, <1>3, <1>4, <1>5 DEF NextBot

\* What the engine does in such a step.
EngineStep == UNCHANGED vars \/ Accepted \/ WaitCall \/ WaitStep

LEMMA GameStepsEngine ==
  ASSUME TypeOK, CommandOK, [NextBot]_gameBotVars
  PROVE  EngineStep
BY GameSteps DEF EngineStep, Accepted

\* The engine's own invariants hold in the game: their proofs rest on what a
\* request tests, not on who makes it.
LEMMA EngineKept ==
  ASSUME EngineInv, EngineStep
  PROVE  EngineInv'
<1>1. CASE UNCHANGED vars \/ WaitCall \/ WaitStep
  BY <1>1, NextType, NextPlace, NextState DEF EngineInv, Next
<1>2. CASE Accepted
  BY <1>2, TakeOffType, TakeOffPlace, TakeOffState DEF EngineInv, Accepted, AcceptedFrom
<1> QED
  BY <1>1, <1>2 DEF EngineStep

\* The clock never runs backwards.
LEMMA ClockForward ==
  ASSUME TypeOK, EngineStep
  PROVE  currentTime' >= currentTime
<1>1. CASE AdvanceTime
  <2>1. StepSize \in Nat
    BY EngineAssumption DEF StepSize, TypeOK
  <2> QED
    BY <1>1, <2>1 DEF AdvanceTime, TypeOK
<1>2. CASE UNCHANGED currentTime
  BY <1>2 DEF TypeOK
<1>3. CASE UNCHANGED vars \/ Accepted \/ WaitCall \/ WaitEnd
  BY <1>2, <1>3 DEF vars, Accepted, AcceptedFrom, TakeOff, WaitCall, WaitBegin, WaitEnd
<1>4. CASE CheckGround \/ CheckAir \/ Retire \/ Land
  BY <1>2, <1>4 DEF CheckGround, GroundCapture, GroundBlocked, GroundDone,
              CheckAir, AirKill, AirKillBoth, AirStop, JudgeDead,
              Retire, CleanupDead, PopArrived, PopDone,
              Land, LandOnEmpty, LandOnEnemy, LandBounced, WakeRested
<1> QED
  BY <1>1, <1>3, <1>4 DEF EngineStep, WaitStep

LEMMA CommandKept ==
  ASSUME EngineInv, CommandOK, [NextBot]_gameBotVars
  PROVE  CommandOK'
<1>1. CASE command' = NoCommand
  BY <1>1 DEF CommandOK
<1>2. CASE command' = command
  <2>1. EngineStep
    BY GameStepsEngine DEF EngineInv
  <2>2. currentTime' >= currentTime
    BY <2>1, ClockForward DEF EngineInv
  <2>3. currentTime \in Nat /\ currentTime' \in Nat
    BY <2>1, EngineKept DEF EngineInv, TypeOK
  <2> QED
    BY <1>2, <2>2, <2>3 DEF CommandOK
<1>3. ASSUME NEW role, Look(role), UNCHANGED vars PROVE CommandOK'
  <2>1. PICK action \in {"MOVE", "JUMP"}, source \in Cells, destination \in Cells :
          LookAt(role, action, source, destination)
    BY <1>3 DEF Look
  <2> DEFINE seen == getPiece(grid, source)
  <2>2. seen \in Pieces
    BY <2>1, CellFacts, GetPieceType DEF LookAt, EngineInv
  <2>3. Color[seen] = role
    BY <2>1 DEF LookAt, isPlayerAllowed
  <2>4. command' = [action |-> action, role |-> role, source |-> source,
                    destination |-> destination, seen |-> seen, time |-> currentTime]
    BY <2>1 DEF LookAt
  <2>5. currentTime' = currentTime /\ currentTime \in Nat
    BY <1>3 DEF vars, EngineInv, TypeOK
  <2> QED
    BY <2>2, <2>3, <2>4, <2>5 DEF CommandOK
<1> QED
  BY <1>1, <1>2, <1>3, GameSteps DEF EngineInv

GameInv == EngineInv /\ CommandOK

LEMMA InitGame == InitBot => GameInv
BY InitType, InitPlace
DEF InitBot, InitCommands, Init, GameInv, EngineInv, IdleIsRested, CommandOK

LEMMA NextGame == GameInv /\ [NextBot]_gameBotVars => GameInv'
BY EngineKept, GameStepsEngine, CommandKept DEF GameInv, EngineInv

-----------------------------------------------------------------------------
(* Cooldowns, also for the bot, whose requests are not the engine's moves: *)
(* they take as long as a jump, however far they go.                       *)

LEMMA StepIsRested ==
  ASSUME EngineInv, EngineStep, NEW p \in Pieces, OnBoard(p), Flying(p)'
  PROVE  currentTime >= readyTime[p]
<1>1. CASE UNCHANGED vars
  BY <1>1 DEF vars, Flying, EngineInv, OnePlace
<1>2. CASE Accepted
  BY <1>2, TakeOffRested DEF EngineInv, Accepted, AcceptedFrom
<1>3. CASE WaitCall \/ WaitStep
  BY <1>3, FlightsAreRested DEF EngineInv, Next
<1> QED
  BY <1>1, <1>2, <1>3 DEF EngineStep

\* In a game with the bot, too, no piece takes off before its readyTime,
\* whoever looked at it when.
THEOREM NobodySkipsARest == SpecBot => CooldownRespected
<1> DEFINE Rule == \A p \in Pieces : OnBoard(p) /\ Flying(p)' => currentTime >= readyTime[p]
<1>1. GameInv /\ [NextBot]_gameBotVars => [Rule]_vars
  BY GameStepsEngine, StepIsRested DEF GameInv, EngineInv
<1> QED
  BY <1>1, InitGame, NextGame, PTL DEF SpecBot, CooldownRespected

-----------------------------------------------------------------------------
(* Looking first and acting later.  What stands on the cell of a command   *)
(* is what was seen there, or it has landed since and rests.               *)

RestsSince(q, since) ==
  \E k \in Kinds, s \in RestStates : readyTime[q] >= since + Cooldown[k][s]

SeenStands ==
  command # NoCommand =>
    \/ grid[command.source] \in {command.seen, NoPiece}
    \/ RestsSince(grid[command.source], command.time)

\* A cell keeps its piece, loses it, or gets one that has just landed.
LEMMA CellAfter ==
  ASSUME EngineInv, EngineStep, NEW c \in Cells
  PROVE  \/ grid'[c] = NoPiece
         \/ grid'[c] = grid[c] /\ readyTime'[grid[c]] = readyTime[grid[c]]
         \/ \E k \in Kinds, s \in RestStates :
              readyTime'[grid'[c]] = currentTime + Cooldown[k][s]
<1> USE DEF EngineInv
<1>1. CASE UNCHANGED <<grid, readyTime>>
  BY <1>1
<1>2. CASE UNCHANGED vars \/ WaitCall \/ WaitEnd \/ AdvanceTime
  BY <1>1, <1>2 DEF vars, pieceVars, WaitCall, WaitBegin, WaitEnd, AdvanceTime
<1>3. CASE GroundBlocked \/ GroundDone \/ CheckAir \/ Retire \/ WakeRested
  BY <1>1, <1>3 DEF pieceVars, GroundBlocked, GroundDone,
              CheckAir, AirKill, AirKillBoth, AirStop, JudgeDead,
              Retire, CleanupDead, PopArrived, PopDone, WakeRested
<1>4. ASSUME NEW pos, grid' = removePiece(grid, pos), UNCHANGED readyTime
      PROVE  grid'[c] = NoPiece \/ (grid'[c] = grid[c] /\ readyTime'[grid[c]] = readyTime[grid[c]])
  BY <1>4 DEF removePiece, TypeOK
<1>5. CASE Accepted
  BY <1>4, <1>5 DEF Accepted, AcceptedFrom, TakeOff
<1>6. CASE GroundCapture
  BY <1>4, <1>6 DEF GroundCapture, pieceVars
<1>7. CASE LandOnEmpty \/ LandOnEnemy \/ LandBounced
  <2> DEFINE m == arrivals[1]
             ready == currentTime + Cooldown[kind[m.piece]][RestAfter(m)]
  <2>1. m.piece \in Pieces /\ kind[m.piece] \in Kinds /\ RestAfter(m) \in RestStates
    BY <1>7, ArrivalsAt DEF LandOnEmpty, LandOnEnemy, LandBounced, Landing, TypeOK, RestAfter, RestStates
  <2>2. readyTime' = [readyTime EXCEPT ![m.piece] = ready]
    BY <1>7 DEF LandOnEmpty, LandOnEnemy, LandBounced, TouchDown
  <2>3. grid'[c] \in {m.piece, grid[c], NoPiece}
    BY <1>7 DEF LandOnEmpty, LandOnEnemy, LandBounced, addPiece, removePiece, TypeOK
  <2>4. readyTime'[m.piece] = ready
    BY <2>1, <2>2 DEF TypeOK
  <2>5. CASE grid'[c] = m.piece
    BY <2>1, <2>4, <2>5
  <2>6. CASE grid'[c] = grid[c] /\ grid[c] # m.piece
    BY <2>2, <2>6 DEF TypeOK
  <2> QED
    BY <2>3, <2>5, <2>6
<1> QED
  BY <1>2, <1>3, <1>5, <1>6, <1>7 DEF EngineStep, WaitStep, CheckGround, Land

LEMMA NextSeen ==
  ASSUME GameInv, SeenStands, [NextBot]_gameBotVars
  PROVE  SeenStands'
<1> USE DEF GameInv, EngineInv
<1>1. CASE command' = NoCommand
  BY <1>1 DEF SeenStands
<1>2. CASE command' = command /\ command # NoCommand
  <2> DEFINE c == command.source
             q == grid[c]
  <2>1. c \in Cells /\ command.time \in Nat /\ command.time <= currentTime /\ currentTime \in Nat
    BY <1>2 DEF CommandOK, TypeOK
  <2>2. \/ grid'[c] = NoPiece
        \/ grid'[c] = q /\ readyTime'[q] = readyTime[q]
        \/ \E k \in Kinds, s \in RestStates : readyTime'[grid'[c]] = currentTime + Cooldown[k][s]
    BY <2>1, GameStepsEngine, CellAfter
  <2>3. CASE grid'[c] = q /\ readyTime'[q] = readyTime[q]
    BY <1>2, <2>3 DEF SeenStands, RestsSince
  <2>4. ASSUME NEW k \in Kinds, NEW s \in RestStates,
               readyTime'[grid'[c]] = currentTime + Cooldown[k][s]
        PROVE  RestsSince(grid[c], command.time)'
    <3>1. Cooldown[k][s] \in Nat
      BY EngineAssumption
    <3>2. readyTime'[grid'[c]] >= command.time + Cooldown[k][s]
      BY <2>1, <2>4, <3>1
    <3> QED
      BY <1>2, <3>2 DEF RestsSince
  <2> QED
    BY <1>2, <2>2, <2>3, <2>4 DEF SeenStands
<1>3. ASSUME NEW role, Look(role), UNCHANGED vars PROVE SeenStands'
  <2>1. PICK action \in {"MOVE", "JUMP"}, source \in Cells, destination \in Cells :
          LookAt(role, action, source, destination)
    BY <1>3 DEF Look
  <2>2. command'.source = source /\ command'.seen = getPiece(grid, source) /\ grid' = grid
    BY <1>3, <2>1 DEF LookAt, vars
  <2>3. getPiece(grid, source) = grid[source]
    BY CellFacts DEF getPiece
  <2> QED
    BY <2>2, <2>3 DEF SeenStands
<1> QED
  BY <1>1, <1>2, <1>3, GameSteps

\* The step that ends a command, if it is a take-off.
LEMMA CommandIsFresh ==
  ASSUME GameInv, SeenStands, command # NoCommand, command.source \in Cells,
         AcceptedFrom(command.source),
         NEW p \in Pieces, OnBoard(p), Carries(activeMotions', p)
  PROVE  \/ p = command.seen /\ Color[p] = command.role
         \/ TimeToRest(command.time)
<1> USE DEF GameInv, EngineInv
<1> DEFINE q == getPiece(grid, command.source)
<1>1. q = grid[command.source] /\ q \in Pieces /\ q # NoPiece /\ pieceState[q] = "Idle"
  BY CellFacts, GetPieceType DEF AcceptedFrom, MayTakeOff
<1>2. readyTime[q] \in Nat /\ readyTime[q] <= currentTime /\ currentTime \in Nat
  BY <1>1 DEF IdleIsRested, TypeOK
<1>3. PICK destination \in Cells, duration \in Int, type \in MotionTypes :
        MayTakeOff(command.source) /\ TakeOff(command.source, destination, duration, type)
  BY DEF AcceptedFrom
<1> DEFINE m == NewMotion(q, command.source, destination, currentTime, duration, type)
<1>4. m \in Motions /\ m.piece = q
  BY <1>1, <1>2, CellFacts DEF NewMotion, Motions
<1>5. activeMotions' = Append(activeMotions, m)
  BY <1>3 DEF TakeOff
<1>6. p = q
  <2> HIDE DEF m, q
  <2>1. \A k \in 1 .. Len(activeMotions') :
           activeMotions'[k] = m \/ (k \in 1 .. Len(activeMotions) /\ activeMotions'[k] = activeMotions[k])
    BY <1>4, <1>5, AppendProperties DEF TypeOK
  <2>2. p = q \/ Flying(p)
    BY <1>4, <2>1 DEF Flying, Carries
  <2> QED
    BY <2>2 DEF OnePlace
<1>7. CASE q = command.seen
  BY <1>6, <1>7 DEF CommandOK
<1>8. CASE RestsSince(q, command.time)
  <2>1. PICK k \in Kinds, s \in RestStates : readyTime[q] >= command.time + Cooldown[k][s]
    BY <1>8 DEF RestsSince
  <2>2. Cooldown[k][s] \in Nat /\ command.time \in Nat
    BY EngineAssumption DEF CommandOK
  <2>3. currentTime >= command.time + Cooldown[k][s]
    BY <1>2, <2>1, <2>2
  <2> QED
    BY <2>3 DEF TimeToRest
<1> QED
  BY <1>1, <1>7, <1>8 DEF SeenStands

\* For every board, position, cooldown and scheduling: a command never moves
\* another piece than the one its author was allowed to move, unless a whole
\* rest has passed since the handler looked.
THEOREM NobodyMovesAnothersPiece == SpecBot => StaleCheckHarmless
<1> DEFINE Rule == command # NoCommand /\ command' = NoCommand =>
                     \A p \in Pieces : OnBoard(p) /\ Carries(activeMotions', p) =>
                       \/ p = command.seen /\ Color[p] = command.role
                       \/ TimeToRest(command.time)
           Inv == GameInv /\ SeenStands
<1>1. InitBot => Inv
  BY InitGame DEF InitBot, InitCommands, SeenStands
<1>2. Inv /\ [NextBot]_gameBotVars => Inv'
  BY NextGame, NextSeen
<1>3. Inv /\ [NextBot]_gameBotVars => [Rule]_commandVars
  <2> SUFFICES ASSUME Inv, [NextBot]_gameBotVars, command # NoCommand, command' = NoCommand,
                      NEW p \in Pieces, OnBoard(p), Carries(activeMotions', p)
               PROVE  \/ p = command.seen /\ Color[p] = command.role
                      \/ TimeToRest(command.time)
    OBVIOUS
  <2>1. CASE UNCHANGED vars
    BY <2>1 DEF vars, GameInv, EngineInv, OnePlace, Flying
  <2>2. CASE command.source \in Cells /\ AcceptedFrom(command.source)
    BY <2>2, CommandIsFresh
  <2> QED
    BY <2>1, <2>2, GameSteps DEF GameInv, EngineInv
<1> QED
  BY <1>1, <1>2, <1>3, PTL DEF SpecBot, StaleCheckHarmless

-----------------------------------------------------------------------------
(* The bot's jumps.  While the flight that the bot has jumped away from is *)
(* in the air or about to land, the piece it aims at is in the air too, or *)
(* lands after it.                                                         *)

\* A flight towards a cell that is seen is found by the loop over the flights:
\* a nonempty set of indices has a smallest one.
LEMMA FirstOfIndices ==
  ASSUME NEW n \in Nat, NEW S \in SUBSET (1 .. n), S # {}
  PROVE  \E x \in S : \A y \in S : x <= y
<1> DEFINE Below(x) == {y \in S : y < x}
           Heads == {Below(x) : x \in S}
           R == StrictSubsetOrdering(S)
<1>1. IsFiniteSet(S)
  <2>1. IsFiniteSet(1 .. n)
    BY FS_Interval
  <2> QED
    BY <2>1, FS_Subset
<1>2. IsWellFoundedOn(R, SUBSET S)
  BY <1>1, FS_FiniteSubsetsOfFinite, FS_StrictSubsetOrderingWellFounded
<1>3. Heads \subseteq SUBSET S /\ Heads # {}
  OBVIOUS
<1>4. PICK T \in Heads : \A U \in Heads : <<U, T>> \notin R
  <2> HIDE DEF R, Heads
  <2> QED
    BY <1>2, <1>3, WFMin
<1>5. PICK x \in S : T = Below(x)
  BY <1>4
<1>6. \A y \in S : x <= y
  <2>0. x \in Int /\ \A y \in S : y \in Int
    OBVIOUS
  <2> SUFFICES ASSUME NEW y \in S, y < x PROVE FALSE
    BY <2>0
  <2>1. Below(y) \in Heads /\ Below(x) \in Heads
    OBVIOUS
  <2>2. Below(y) \subseteq Below(x) /\ y \in Below(x) /\ y \notin Below(y)
    <3>1. \A z \in S : z < y => z < x
      BY <2>0
    <3>2. ~(y < y)
      BY <2>0
    <3> QED
      BY <3>1, <3>2
  <2>3. <<Below(y), Below(x)>> \in R
    <3>1. Below(x) \subseteq S /\ Below(y) \subseteq S
      OBVIOUS
    <3> HIDE DEF Below
    <3> QED
      BY <2>2, <3>1 DEF StrictSubsetOrdering
  <2> QED
    BY <1>4, <1>5, <2>1, <2>3
<1> QED
  BY <1>6

\* The jumps that update() may still ask for are those from flights that
\* arrive soon, until it is done.
PlanInv ==
  /\ Planning => at = "free"
  /\ \A pos \in DOMAIN plan : plan[pos].jump =>
       \E k \in Indices : FirstThreat(k, pos) /\ ArrivesSoon(activeMotions[k])

\* The flight that the bot has jumped away from last, and the jump.
Hunts(m) == m.piece = dodged.threat /\ m.startTime = dodged.startTime
Saves(m) == m.piece = dodged.piece /\ m.type = "Jump" /\ ~m.isDead

\* m has arrived when n arrives.
NoLater(m, n) == m.arrivalTime <= n.arrivalTime \/ m.arrivalTime <= currentTime

Covered(k) ==
  \E l \in Indices : /\ k < l /\ Saves(activeMotions[l])
                     /\ NoLater(activeMotions[k], activeMotions[l])

Outlasted(k) ==
  \/ \E l \in Indices : Saves(activeMotions[l])
  \/ \E l \in 1 .. Len(arrivals) : k < l /\ arrivals[l].piece = dodged.piece

DodgeInv ==
  /\ dodged.startTime \in Int
  /\ dodged.threat \in Pieces => dodged.startTime < currentTime
  /\ \A k \in Indices : Hunts(activeMotions[k]) => Covered(k)
  /\ \A k \in 1 .. Len(arrivals) : Hunts(arrivals[k]) => Outlasted(k)

\* What a flight goes through before it lands: it is killed or cut short, but
\* a jump is not.
Rewritten ==
  /\ Len(activeMotions') = Len(activeMotions)
  /\ \A n \in Indices :
       LET a == activeMotions[n]
           b == activeMotions'[n]
       IN  /\ b.piece = a.piece /\ b.startTime = a.startTime
           /\ a.type = "Jump" => b = a
           /\ b.arrivalTime = a.arrivalTime \/ b.arrivalTime = currentTime

LEMMA OneIsRewritten ==
  ASSUME TypeOK, NEW n \in Indices, NEW b, activeMotions' = [activeMotions EXCEPT ![n] = b],
         b.piece = activeMotions[n].piece, b.startTime = activeMotions[n].startTime,
         activeMotions[n].type = "Normal",
         b.arrivalTime = activeMotions[n].arrivalTime \/ b.arrivalTime = currentTime
  PROVE  Rewritten
<1>1. /\ Len(activeMotions') = Len(activeMotions)
      /\ \A k \in Indices : activeMotions'[k] = IF k = n THEN b ELSE activeMotions[k]
  BY MotionsAt DEF TypeOK, Indices
<1> QED
  BY <1>1 DEF Rewritten

LEMMA RewrittenFields ==
  ASSUME TypeOK, NEW n \in Indices
  PROVE  LET m == activeMotions[n]
             dead == [m EXCEPT !.isDead = TRUE]
             blocked == [m EXCEPT !.destination = CellBefore(m), !.arrivalTime = currentTime]
         IN  /\ dead.piece = m.piece /\ dead.startTime = m.startTime /\ dead.arrivalTime = m.arrivalTime
             /\ blocked.piece = m.piece /\ blocked.startTime = m.startTime
             /\ blocked.arrivalTime = currentTime
             /\ CutShort(m).piece = m.piece /\ CutShort(m).startTime = m.startTime
             /\ CutShort(m).arrivalTime = currentTime
BY MotionsAt DEF Motions, CutShort

\* Only flights are killed or stopped, never a jump.
LEMMA VictimsFly ==
  /\ \A a, b : Kills(a, b) => b.type = "Normal"
  /\ \A a, b, first : Stops(a, b, first) => b.type = "Normal"
  /\ \A a, b : KillEachOther(a, b) => a.type = "Normal" /\ b.type = "Normal"
BY DEF Kills, Stops, KillEachOther, BothWalk

LEMMA AirRewrites ==
  ASSUME TypeOK, AirKill \/ AirKillBoth \/ AirStop \/ GroundBlocked
  PROVE  Rewritten
<1>1. CASE AirKill
  <2>1. PICK v \in Indices : /\ activeMotions[v].type = "Normal"
                             /\ activeMotions' = [activeMotions EXCEPT ![v] = [@ EXCEPT !.isDead = TRUE]]
    <3>1. \E k, l \in Indices : \E u, v \in {k, l} :
             /\ Kills(activeMotions[u], activeMotions[v])
             /\ activeMotions' = [activeMotions EXCEPT ![v] = [@ EXCEPT !.isDead = TRUE]]
      BY <1>1, Zenon DEF AirKill
    <3> QED
      BY <3>1, VictimsFly
  <2>2. activeMotions' = [activeMotions EXCEPT ![v] = [activeMotions[v] EXCEPT !.isDead = TRUE]]
    BY <2>1, MotionsAt
  <2> QED
    BY <2>1, <2>2, RewrittenFields, OneIsRewritten
<1>2. CASE AirKillBoth
  <2>1. PICK k \in Indices, l \in Indices :
          /\ KillEachOther(activeMotions[k], activeMotions[l])
          /\ activeMotions' = [activeMotions EXCEPT ![k] = [@ EXCEPT !.isDead = TRUE],
                                                    ![l] = [@ EXCEPT !.isDead = TRUE]]
    BY <1>2 DEF AirKillBoth
  <2> DEFINE dead(n) == [activeMotions[n] EXCEPT !.isDead = TRUE]
  <2>2. activeMotions[k].type = "Normal" /\ activeMotions[l].type = "Normal"
    BY <2>1, VictimsFly
  <2>3. /\ Len(activeMotions') = Len(activeMotions)
        /\ \A n \in Indices \ {k, l} : activeMotions'[n] = activeMotions[n]
    BY <2>1, MotionsAt DEF TypeOK, Indices
  <2> DEFINE once == [activeMotions EXCEPT ![k] = dead(k)]
  <2>4. \A n \in {k, l} : activeMotions'[n] \in {dead(n), [dead(n) EXCEPT !.isDead = TRUE]}
    <3>1. /\ activeMotions' = [once EXCEPT ![l] = [once[l] EXCEPT !.isDead = TRUE]]
          /\ once[l] = IF l = k THEN dead(k) ELSE activeMotions[l]
          /\ DOMAIN once = Indices /\ once[k] = dead(k)
      BY <2>1, MotionsAt
    <3> HIDE DEF once, dead
    <3>2. activeMotions'[l] = [once[l] EXCEPT !.isDead = TRUE] /\ (l # k => activeMotions'[k] = dead(k))
      BY <3>1
    <3>3. l # k => activeMotions'[l] = dead(l)
      BY <3>1, <3>2 DEF dead
    <3> QED
      BY <3>1, <3>2, <3>3
  <2>5. \A n \in {k, l} : LET b == activeMotions'[n]
                          IN  /\ b.piece = activeMotions[n].piece
                              /\ b.startTime = activeMotions[n].startTime
                              /\ b.arrivalTime = activeMotions[n].arrivalTime
    <3> DEFINE again(n) == [dead(n) EXCEPT !.isDead = TRUE]
    <3>1. SUFFICES ASSUME NEW n \in {k, l}
                   PROVE  /\ activeMotions'[n].piece = activeMotions[n].piece
                          /\ activeMotions'[n].startTime = activeMotions[n].startTime
                          /\ activeMotions'[n].arrivalTime = activeMotions[n].arrivalTime
      OBVIOUS
    <3>2. n \in Indices /\ activeMotions[n] \in Motions
      BY MotionsAt
    <3>3. /\ dead(n).piece = activeMotions[n].piece /\ again(n).piece = activeMotions[n].piece
          /\ dead(n).startTime = activeMotions[n].startTime /\ again(n).startTime = activeMotions[n].startTime
          /\ dead(n).arrivalTime = activeMotions[n].arrivalTime
          /\ again(n).arrivalTime = activeMotions[n].arrivalTime
      BY <3>2 DEF Motions
    <3>4. activeMotions'[n] = dead(n) \/ activeMotions'[n] = again(n)
      BY <2>4
    <3> HIDE DEF dead, again
    <3> QED
      BY <3>3, <3>4
  <2> QED
    BY <2>2, <2>3, <2>5 DEF Rewritten
<1>3. CASE AirStop
  <2>1. PICK n \in Indices : /\ activeMotions[n].type = "Normal"
                             /\ activeMotions' = [activeMotions EXCEPT ![n] = CutShort(activeMotions[n])]
    BY <1>3, VictimsFly DEF AirStop
  <2> QED
    BY <2>1, RewrittenFields, OneIsRewritten
<1>4. CASE GroundBlocked
  <2>1. PICK k \in Indices :
          /\ NextGroundHit(k)
          /\ activeMotions' = [activeMotions EXCEPT ![k] =
               [activeMotions[k] EXCEPT !.destination = CellBefore(activeMotions[k]),
                                        !.arrivalTime = currentTime]]
    BY <1>4 DEF GroundBlocked, Indices
  <2>2. activeMotions[k].type = "Normal"
    BY <2>1 DEF NextGroundHit, HitsGround
  <2> QED
    BY <2>1, <2>2, RewrittenFields, OneIsRewritten
<1> QED
  BY <1>1, <1>2, <1>3, <1>4

LEMMA DodgeRewritten ==
  ASSUME TypeOK, DodgeInv, Rewritten, UNCHANGED <<dodged, currentTime, arrivals>>
  PROVE  DodgeInv'
<1>1. /\ Indices' = Indices
      /\ \A n \in Indices :
           /\ activeMotions'[n].piece = activeMotions[n].piece
           /\ activeMotions'[n].startTime = activeMotions[n].startTime
           /\ activeMotions[n].type = "Jump" => activeMotions'[n] = activeMotions[n]
           /\ \/ activeMotions'[n].arrivalTime = activeMotions[n].arrivalTime
              \/ activeMotions'[n].arrivalTime = currentTime
  BY DEF Rewritten, Indices
<1>2. \A l \in Indices : Saves(activeMotions[l]) =>
         Saves(activeMotions[l])' /\ activeMotions'[l] = activeMotions[l]
  BY <1>1 DEF Saves
<1>3. ASSUME NEW k \in Indices, Hunts(activeMotions[k])' PROVE Covered(k)'
  <2>1. Hunts(activeMotions[k])
    BY <1>1, <1>3 DEF Hunts
  <2>2. PICK l \in Indices : /\ k < l /\ Saves(activeMotions[l])
                             /\ NoLater(activeMotions[k], activeMotions[l])
    BY <2>1 DEF DodgeInv, Covered
  <2>3. currentTime' = currentTime /\ currentTime \in Int
    BY DEF TypeOK
  <2>4. NoLater(activeMotions[k], activeMotions[l])'
    <3>1. activeMotions'[l].arrivalTime = activeMotions[l].arrivalTime
      BY <1>2, <2>2
    <3>2. CASE activeMotions'[k].arrivalTime = activeMotions[k].arrivalTime
      BY <2>2, <2>3, <3>1, <3>2 DEF NoLater
    <3>3. CASE activeMotions'[k].arrivalTime = currentTime
      BY <2>3, <3>3 DEF NoLater
    <3> QED
      BY <1>1, <3>2, <3>3
  <2> QED
    BY <1>1, <1>2, <2>2, <2>4 DEF Covered
<1>4. ASSUME NEW k \in 1 .. Len(arrivals), Hunts(arrivals[k])' PROVE Outlasted(k)'
  <2>1. Outlasted(k)
    BY <1>4 DEF DodgeInv, Hunts
  <2> QED
    BY <1>1, <1>2, <2>1 DEF Outlasted
<1>5. dodged' = dodged /\ currentTime' = currentTime /\ arrivals' = arrivals
  OBVIOUS
<1> QED
  BY <1>1, <1>3, <1>4, <1>5 DEF DodgeInv

LEMMA DodgeWaits ==
  ASSUME TypeOK, DodgeInv, UNCHANGED <<dodged, activeMotions, arrivals>>,
         currentTime' \in Int, currentTime' >= currentTime
  PROVE  DodgeInv'
<1>1. \A k, l \in Indices : NoLater(activeMotions[k], activeMotions[l]) => NoLater(activeMotions[k], activeMotions[l])'
  <2>1. \A k \in Indices : activeMotions[k].arrivalTime \in Int
    BY MotionsAt DEF Motions
  <2>2. currentTime \in Int
    BY DEF TypeOK
  <2> QED
    BY <2>1, <2>2 DEF NoLater
<1>2. Indices' = Indices
  BY DEF Indices
<1>3. \A k \in Indices : Covered(k) => Covered(k)'
  BY <1>1, <1>2 DEF Covered, Saves
<1>4. \A k \in 1 .. Len(arrivals) : Outlasted(k) => Outlasted(k)'
  BY <1>2 DEF Outlasted, Saves
<1>5. dodged.threat \in Pieces => dodged.startTime < currentTime'
  BY DEF DodgeInv, TypeOK
<1> QED
  BY <1>2, <1>3, <1>4, <1>5 DEF DodgeInv, Hunts

\* A landing takes the first of the arrivals.
LEMMA DodgeLands ==
  ASSUME TypeOK, DodgeInv, UNCHANGED <<dodged, activeMotions, currentTime>>,
         arrivals # << >>, arrivals' = Tail(arrivals)
  PROVE  DodgeInv'
<1>1. /\ Len(arrivals) \in Nat /\ Len(arrivals') = Len(arrivals) - 1
      /\ \A k \in 1 .. Len(arrivals') : k + 1 \in 1 .. Len(arrivals) /\ arrivals'[k] = arrivals[k + 1]
  <2>1. arrivals \in Seq(Motions)
    BY DEF TypeOK
  <2>2. /\ Len(arrivals) \in Nat /\ Len(Tail(arrivals)) = Len(arrivals) - 1
        /\ \A k \in 1 .. Len(Tail(arrivals)) : Tail(arrivals)[k] = arrivals[k + 1]
    BY <2>1, LenProperties, HeadTailProperties
  <2> QED
    BY <2>2
<1>2. Indices' = Indices
  BY DEF Indices
<1>3. \A k \in Indices : Covered(k) => Covered(k)'
  BY <1>2 DEF Covered, Saves, NoLater
<1>4. ASSUME NEW k \in 1 .. Len(arrivals'), Hunts(arrivals[k])' PROVE Outlasted(k)'
  <2>1. k \in Nat /\ k + 1 \in 1 .. Len(arrivals) /\ Outlasted(k + 1)
    BY <1>1, <1>4 DEF DodgeInv, Hunts
  <2>2. CASE \E l \in Indices : Saves(activeMotions[l])
    BY <1>2, <2>2 DEF Outlasted, Saves
  <2>3. ASSUME NEW l \in 1 .. Len(arrivals), k + 1 < l, arrivals[l].piece = dodged.piece
        PROVE  Outlasted(k)'
    <3>1. l - 1 \in 1 .. Len(arrivals') /\ k < l - 1 /\ (l - 1) + 1 = l
      BY <1>1, <2>1, <2>3
    <3>2. arrivals'[l - 1].piece = dodged.piece
      BY <1>1, <2>3, <3>1
    <3> QED
      BY <3>1, <3>2 DEF Outlasted
  <2> QED
    BY <2>1, <2>2, <2>3 DEF Outlasted
<1> QED
  BY <1>2, <1>3, <1>4 DEF DodgeInv, Hunts

\* A flight that is gone from the vector.
LEMMA WithoutOne ==
  ASSUME TypeOK, NEW k \in Indices, activeMotions' = RemoveAt(activeMotions, k)
  PROVE  /\ Len(activeMotions') = Len(activeMotions) - 1
         /\ \A l \in Indices' : /\ (IF l < k THEN l ELSE l + 1) \in Indices \ {k}
                                /\ activeMotions'[l] = activeMotions[IF l < k THEN l ELSE l + 1]
         /\ \A l \in Indices \ {k} : /\ (IF l < k THEN l ELSE l - 1) \in Indices'
                                     /\ activeMotions'[IF l < k THEN l ELSE l - 1] = activeMotions[l]
<1> DEFINE rest == RemoveAt(activeMotions, k)
<1>1. k \in 1 .. Len(activeMotions) /\ activeMotions \in Seq(Motions) /\ Len(activeMotions) \in Nat
  BY MotionsAt DEF Indices, TypeOK
<1>2. /\ Len(rest) = Len(activeMotions) - 1
      /\ \A l \in 1 .. (Len(activeMotions) - 1) :
           rest[l] = IF l < k THEN activeMotions[l] ELSE activeMotions[l + 1]
  BY <1>1, RemoveAtProperties
<1>3. activeMotions' = rest
  OBVIOUS
<1> HIDE DEF rest
<1>4. Indices' = 1 .. (Len(activeMotions) - 1) /\ Indices = 1 .. Len(activeMotions)
  BY <1>2, <1>3 DEF Indices
<1>5. ASSUME NEW l \in Indices'
      PROVE  /\ (IF l < k THEN l ELSE l + 1) \in Indices \ {k}
             /\ activeMotions'[l] = activeMotions[IF l < k THEN l ELSE l + 1]
  <2>1. l \in 1 .. (Len(activeMotions) - 1)
    BY <1>4
  <2>2. activeMotions'[l] = IF l < k THEN activeMotions[l] ELSE activeMotions[l + 1]
    BY <1>2, <1>3, <2>1
  <2>3. (IF l < k THEN l ELSE l + 1) \in Indices \ {k}
    BY <1>1, <1>4, <2>1
  <2> QED
    BY <2>2, <2>3
<1>6. ASSUME NEW l \in Indices \ {k}
      PROVE  /\ (IF l < k THEN l ELSE l - 1) \in Indices'
             /\ activeMotions'[IF l < k THEN l ELSE l - 1] = activeMotions[l]
  <2>1. CASE l < k
    <3>1. l \in 1 .. (Len(activeMotions) - 1)
      BY <1>1, <1>4, <2>1
    <3> QED
      BY <1>2, <1>3, <1>4, <2>1, <3>1
  <2>2. CASE ~(l < k)
    <3>1. l - 1 \in 1 .. (Len(activeMotions) - 1) /\ ~(l - 1 < k) /\ (l - 1) + 1 = l
      BY <1>1, <1>4, <2>2
    <3>2. activeMotions'[l - 1] = activeMotions[(l - 1) + 1]
      BY <1>2, <1>3, <3>1
    <3> QED
      BY <1>4, <2>2, <3>1, <3>2
  <2> QED
    BY <2>1, <2>2
<1> QED
  BY <1>2, <1>3, <1>5, <1>6

\* The place of a flight that stays, when flight k is gone.
Kept(l, k) == IF l < k THEN l ELSE l - 1

LEMMA CoveredKept ==
  ASSUME TypeOK, UNCHANGED <<dodged, currentTime>>, NEW k \in Indices,
         activeMotions' = RemoveAt(activeMotions, k), ~Saves(activeMotions[k]),
         NEW n \in Indices', Hunts(activeMotions[n])',
         \A m \in Indices : Hunts(activeMotions[m]) => Covered(m)
  PROVE  Covered(n)'
<1> DEFINE old == IF n < k THEN n ELSE n + 1
<1>1. old \in Indices \ {k} /\ activeMotions'[n] = activeMotions[old]
  BY WithoutOne
<1>2. n \in Int /\ k \in Int /\ Kept(old, k) = n
  BY DEF Kept, Indices
<1> HIDE DEF old
<1>3. Hunts(activeMotions[old])
  BY <1>1 DEF Hunts
<1>4. PICK l \in Indices : /\ old < l /\ Saves(activeMotions[l])
                           /\ NoLater(activeMotions[old], activeMotions[l])
  BY <1>1, <1>3 DEF Covered
<1>5. l # k
  BY <1>4
<1>6. Kept(l, k) \in Indices' /\ activeMotions'[Kept(l, k)] = activeMotions[l]
  BY <1>5, WithoutOne DEF Kept
<1>7. n < Kept(l, k)
  <2>1. old \in Int /\ l \in Int /\ old # k
    BY <1>1 DEF Indices
  <2> QED
    BY <1>2, <1>4, <1>5, <2>1 DEF Kept
<1> DEFINE new == Kept(l, k)
<1>8. Saves(activeMotions[new])'
  BY <1>4, <1>6 DEF Saves
<1>9. NoLater(activeMotions[n], activeMotions[new])'
  BY <1>1, <1>4, <1>6 DEF NoLater
<1> QED
  BY <1>6, <1>7, <1>8, <1>9 DEF Covered

\* A jump that stays in the vector.
LEMMA StillFlies ==
  ASSUME TypeOK, UNCHANGED dodged, NEW k \in Indices,
         activeMotions' = RemoveAt(activeMotions, k), ~Saves(activeMotions[k]),
         \E l \in Indices : Saves(activeMotions[l])
  PROVE  \E l \in Indices' : Saves(activeMotions[l])'
<1>1. PICK l \in Indices \ {k} : Saves(activeMotions[l])
  OBVIOUS
<1>2. Kept(l, k) \in Indices' /\ activeMotions'[Kept(l, k)] = activeMotions[l]
  BY WithoutOne DEF Kept
<1> QED
  BY <1>1, <1>2 DEF Saves

LEMMA DodgeCleaned ==
  ASSUME TypeOK, DodgeInv, CleanupDead, UNCHANGED dodged
  PROVE  DodgeInv'
<1>1. PICK k \in Indices : activeMotions[k].isDead /\ activeMotions' = RemoveAt(activeMotions, k)
  BY DEF CleanupDead, IsFirst, IsDead
<1>2. currentTime' = currentTime /\ arrivals' = arrivals /\ ~Saves(activeMotions[k])
  BY <1>1 DEF CleanupDead, Saves
<1>3. \A n \in Indices' : Hunts(activeMotions[n])' => Covered(n)'
  BY <1>1, <1>2, CoveredKept DEF DodgeInv
<1>4. ASSUME NEW n \in 1 .. Len(arrivals), Hunts(arrivals[n])' PROVE Outlasted(n)'
  <2>1. n \in 1 .. Len(arrivals) /\ Outlasted(n)
    BY <1>2, <1>4 DEF DodgeInv, Hunts
  <2>2. CASE \E l \in Indices : Saves(activeMotions[l])
    BY <1>1, <1>2, <2>2, StillFlies DEF Outlasted
  <2> QED
    BY <1>2, <2>1, <2>2 DEF Outlasted
<1> QED
  BY <1>2, <1>3, <1>4 DEF DodgeInv

\* The first flight that has arrived is the next to land.  When it is the jump,
\* the flight it was for has come before.
LEMMA DodgePopped ==
  ASSUME TypeOK, OnePlace, DodgeInv, PopArrived, UNCHANGED dodged
  PROVE  DodgeInv'
<1>1. PICK k \in Indices : /\ Arrived(activeMotions[k])
                           /\ \A l \in 1 .. (k - 1) : ~Arrived(activeMotions[l])
                           /\ arrivals' = Append(arrivals, activeMotions[k])
                           /\ activeMotions' = RemoveAt(activeMotions, k)
  BY DEF PopArrived, IsFirst
<1>2. currentTime' = currentTime
  BY DEF PopArrived
<1> DEFINE last == Len(arrivals) + 1
<1>3. /\ Len(arrivals) \in Nat /\ Len(arrivals') = last
      /\ \A n \in 1 .. Len(arrivals) : arrivals'[n] = arrivals[n]
      /\ arrivals'[last] = activeMotions[k]
  <2>1. arrivals \in Seq(Motions) /\ activeMotions[k] \in Motions
    BY MotionsAt DEF TypeOK
  <2> QED
    BY <1>1, <2>1, AppendProperties, LenProperties
<1>4. CASE Saves(activeMotions[k])
  <2>1. ASSUME NEW n \in Indices, Hunts(activeMotions[n]) PROVE FALSE
    <3>1. PICK l \in Indices : /\ n < l /\ Saves(activeMotions[l])
                               /\ NoLater(activeMotions[n], activeMotions[l])
      BY <2>1 DEF DodgeInv, Covered
    <3>2. l = k
      BY <1>4, <3>1 DEF Saves, OnePlace, NoTwins, Indices
    <3>3. /\ activeMotions[n].arrivalTime \in Int /\ activeMotions[k].arrivalTime \in Int
          /\ currentTime \in Int /\ activeMotions[k].arrivalTime <= currentTime
      BY <1>1, MotionsAt DEF Motions, TypeOK, Arrived, hasArrived
    <3>4. activeMotions[n].arrivalTime <= currentTime
      BY <3>1, <3>2, <3>3 DEF NoLater
    <3>5. n \in 1 .. (k - 1)
      BY <3>1, <3>2 DEF Indices
    <3> QED
      BY <1>1, <3>3, <3>4, <3>5 DEF Arrived, hasArrived
  <2>2. \A n \in Indices' : ~Hunts(activeMotions[n])'
    <3>1. \A n \in Indices' : \E m \in Indices : activeMotions'[n] = activeMotions[m]
      BY <1>1, WithoutOne
    <3> QED
      BY <2>1, <3>1 DEF Hunts
  <2>3. ASSUME NEW n \in 1 .. Len(arrivals'), Hunts(arrivals[n])' PROVE Outlasted(n)'
    <3>1. n # last
      BY <1>3, <2>1, <2>3 DEF Hunts
    <3>2. n < last /\ last \in 1 .. Len(arrivals') /\ arrivals'[last].piece = dodged'.piece
      BY <1>3, <1>4, <3>1 DEF Saves
    <3> QED
      BY <3>2 DEF Outlasted
  <2> QED
    BY <1>2, <2>2, <2>3 DEF DodgeInv
<1>5. CASE ~Saves(activeMotions[k])
  <2>1. \A n \in Indices' : Hunts(activeMotions[n])' => Covered(n)'
    BY <1>1, <1>2, <1>5, CoveredKept DEF DodgeInv
  <2>2. ASSUME NEW n \in 1 .. Len(arrivals'), Hunts(arrivals[n])' PROVE Outlasted(n)'
    <3>1. CASE n = last
      <4>1. Covered(k)
        BY <1>3, <2>2, <3>1 DEF DodgeInv, Hunts
      <4>2. \E l \in Indices' : Saves(activeMotions[l])'
        BY <1>1, <1>5, <4>1, StillFlies DEF Covered
      <4> QED
        BY <4>2 DEF Outlasted
    <3>2. CASE n \in 1 .. Len(arrivals)
      <4>1. Outlasted(n)
        BY <1>3, <2>2, <3>2 DEF DodgeInv, Hunts
      <4>2. CASE \E l \in Indices : Saves(activeMotions[l])
        BY <1>1, <1>5, <4>2, StillFlies DEF Outlasted
      <4>3. ASSUME NEW l \in 1 .. Len(arrivals), n < l, arrivals[l].piece = dodged.piece
            PROVE  Outlasted(n)'
        <5>1. l \in 1 .. Len(arrivals') /\ arrivals'[l].piece = dodged'.piece
          BY <1>3, <4>3
        <5> QED
          BY <4>3, <5>1 DEF Outlasted
      <4> QED
        BY <4>1, <4>2, <4>3 DEF Outlasted
    <3> QED
      BY <1>3, <3>1, <3>2
  <2> QED
    BY <1>2, <2>1, <2>2 DEF DodgeInv
<1> QED
  BY <1>4, <1>5

\* A flight that takes off now is not the one the bot has jumped away from.
LEMMA DodgeTakenOff ==
  ASSUME EngineInv, DodgeInv, UNCHANGED dodged, NEW source \in Cells, AcceptedFrom(source)
  PROVE  DodgeInv'
<1> USE DEF EngineInv
<1>1. PICK destination \in Cells, duration \in Int, type \in MotionTypes :
        MayTakeOff(source) /\ TakeOff(source, destination, duration, type)
  BY DEF AcceptedFrom
<1> DEFINE q == getPiece(grid, source)
           m == NewMotion(q, source, destination, currentTime, duration, type)
<1>2. q \in Pieces
  BY <1>1, CellFacts, GetPieceType DEF MayTakeOff
<1>3. m \in Motions /\ m.piece = q /\ m.startTime = currentTime /\ currentTime \in Int
  BY <1>2, CellFacts DEF NewMotion, Motions, TypeOK
<1>4. activeMotions' = Append(activeMotions, m) /\ currentTime' = currentTime /\ arrivals' = arrivals
  BY <1>1 DEF TakeOff
<1> HIDE DEF m, q
<1>5. /\ Len(activeMotions) \in Nat /\ Len(activeMotions') = Len(activeMotions) + 1
      /\ \A k \in Indices : activeMotions'[k] = activeMotions[k]
      /\ activeMotions'[Len(activeMotions) + 1] = m
  BY <1>3, <1>4, AppendProperties, LenProperties DEF TypeOK, Indices
<1>6. Indices' = Indices \union {Len(activeMotions) + 1}
  BY <1>5 DEF Indices
<1>7. ~Hunts(m)
  BY <1>2, <1>3 DEF Hunts, DodgeInv
<1>8. \A l \in Indices : Saves(activeMotions[l]) => l \in Indices' /\ Saves(activeMotions[l])'
  BY <1>5, <1>6 DEF Saves
<1>9. ASSUME NEW k \in Indices', Hunts(activeMotions[k])' PROVE Covered(k)'
  <2>1. k \in Indices /\ Hunts(activeMotions[k])
    BY <1>5, <1>6, <1>7, <1>9 DEF Hunts
  <2>2. PICK l \in Indices : /\ k < l /\ Saves(activeMotions[l])
                             /\ NoLater(activeMotions[k], activeMotions[l])
    BY <2>1 DEF DodgeInv, Covered
  <2>3. NoLater(activeMotions[k], activeMotions[l])'
    BY <1>4, <1>5, <2>1, <2>2 DEF NoLater
  <2> QED
    BY <1>8, <2>2, <2>3 DEF Covered
<1>10. ASSUME NEW k \in 1 .. Len(arrivals), Hunts(arrivals[k])' PROVE Outlasted(k)'
  <2>1. Outlasted(k)
    BY <1>4, <1>10 DEF DodgeInv, Hunts
  <2> QED
    BY <1>4, <1>8, <2>1 DEF Outlasted
<1> QED
  BY <1>4, <1>9, <1>10 DEF DodgeInv

-----------------------------------------------------------------------------
(* The jump that the bot makes lasts longer than the flight it is for.     *)

LEMMA LongerTimes ==
  /\ \A t \in Int, u \in Nat \ {0} : t * u > 0 => t > 0
  /\ \A s, t \in Int, u \in Nat \ {0} : s * u < t * u => s < t
<1>1. \A d \in Int, u \in Nat \ {0} : d * u > 0 => d > 0
  OBVIOUS
<1>2. ASSUME NEW s \in Int, NEW t \in Int, NEW u \in Nat \ {0}, s * u < t * u PROVE s < t
  <2>1. t - s \in Int /\ (t - s) * u = t * u - s * u /\ t * u \in Int /\ s * u \in Int
    OBVIOUS
  <2>2. (t - s) * u > 0
    BY <1>2, <2>1
  <2>3. t - s > 0
    BY <1>1, <2>1, <2>2
  <2> QED
    BY <2>3
<1> QED
  BY <1>1, <1>2

\* No bot reacts at once.
LEMMA ReactionTakesTime == config.reactionTimeMs \in Nat /\ config.reactionTimeMs > 0
BY BotAssumption DEF config, fromElo, Tier

LEMMA ThreatIsFirst ==
  ASSUME TypeOK, NEW pos, NEW k, FirstThreat(k, pos)
  PROVE  Threat(pos) = activeMotions[k]
<1>1. ASSUME NEW l, FirstThreat(l, pos) PROVE l = k
  <2>1. k \in Nat /\ l \in Nat /\ k >= 1 /\ l >= 1
    BY <1>1, MotionsAt DEF FirstThreat, Indices
  <2>2. ~(l \in 1 .. (k - 1)) /\ ~(k \in 1 .. (l - 1))
    BY <1>1 DEF FirstThreat
  <2> QED
    BY <2>1, <2>2
<1>2. k \in Indices
  BY DEF FirstThreat
<1>3. (CHOOSE l \in Indices : FirstThreat(l, pos)) = k
  BY <1>1, <1>2
<1> QED
  BY <1>3 DEF Threat

LEMMA ThreatIsSeen ==
  ASSUME TypeOK, NEW pos, isUnderThreat(pos)
  PROVE  \E k \in Indices : FirstThreat(k, pos)
<1> DEFINE S == {k \in Indices : Threatens(activeMotions[k], pos)}
<1>1. S \in SUBSET (1 .. Len(activeMotions)) /\ S # {} /\ Len(activeMotions) \in Nat
  BY LenProperties DEF isUnderThreat, Indices, TypeOK
<1> HIDE DEF S
<1>2. PICK k \in S : \A l \in S : k <= l
  BY <1>1, FirstOfIndices
<1>3. \A l \in 1 .. (k - 1) : l \in Indices /\ l \notin S
  BY <1>1, <1>2 DEF Indices
<1> QED
  BY <1>2, <1>3 DEF FirstThreat, S

LEMMA DodgeJumped ==
  ASSUME EngineInv, PlanInv, BotJumps
  PROVE  DodgeInv'
<1> USE DEF EngineInv
<1>1. PICK pos \in Cells :
        /\ pos \in DOMAIN plan /\ plan[pos].jump
        /\ MayTakeOff(pos)
        /\ TakeOff(pos, pos, JumpDuration, "Jump")
        /\ dodged' = [piece |-> getPiece(grid, pos),
                      threat |-> Threat(pos).piece, startTime |-> Threat(pos).startTime]
  BY DEF BotJumps, Turn, FirstIn
<1>2. PICK k \in Indices : FirstThreat(k, pos) /\ ArrivesSoon(activeMotions[k])
  BY <1>1 DEF PlanInv
<1> DEFINE q == getPiece(grid, pos)
           jump == NewMotion(q, pos, pos, currentTime, JumpDuration, "Jump")
           m == activeMotions[k]
<1>3. q \in Pieces
  BY <1>1, CellFacts, GetPieceType DEF MayTakeOff
<1>4. currentTime \in Int /\ JumpDuration \in Int /\ m \in Motions
  BY <1>2, MotionsAt, EngineAssumption DEF TypeOK
<1>5. /\ jump \in Motions /\ jump.piece = q /\ jump.type = "Jump" /\ ~jump.isDead
      /\ jump.startTime = currentTime /\ jump.arrivalTime = currentTime + JumpDuration
  BY <1>3, <1>4, CellFacts DEF NewMotion, Motions, MotionTypes
<1>6. dodged'.piece = q /\ dodged'.threat = m.piece /\ dodged'.startTime = m.startTime
  BY <1>1, <1>2, ThreatIsFirst
<1>7. /\ activeMotions' = Append(activeMotions, jump)
      /\ currentTime' = currentTime /\ arrivals' = arrivals
  BY <1>1 DEF TakeOff
<1>8. m.startTime \in Int /\ m.arrivalTime \in Int /\ m.piece \in Pieces
  BY <1>4 DEF Motions
<1>9. m.startTime < currentTime
  <2>1. (currentTime - m.startTime) * TimeUnit >= config.reactionTimeMs
    BY <1>2 DEF FirstThreat, Threatens, Ms
  <2>2. currentTime - m.startTime \in Int /\ TimeUnit \in Nat \ {0}
    BY <1>4, <1>8, BotAssumption
  <2>3. (currentTime - m.startTime) * TimeUnit > 0
    <3> DEFINE time == (currentTime - m.startTime) * TimeUnit
    <3>1. time \in Int /\ time >= config.reactionTimeMs
      BY <2>1, <2>2
    <3> HIDE DEF time
    <3> QED
      BY <3>1, ReactionTakesTime DEF time
  <2>4. currentTime - m.startTime > 0
    BY <2>2, <2>3, LongerTimes
  <2> QED
    BY <1>4, <1>8, <2>4
<1>10. m.arrivalTime <= currentTime + JumpDuration
  <2>1. (m.arrivalTime - currentTime) * TimeUnit < 400 /\ JumpDuration * TimeUnit >= 400
    BY <1>2, BotAssumption DEF ArrivesSoon, Ms
  <2>2. m.arrivalTime - currentTime \in Int /\ TimeUnit \in Nat \ {0}
    BY <1>4, <1>8, BotAssumption
  <2>3. (m.arrivalTime - currentTime) * TimeUnit < JumpDuration * TimeUnit
    <3> DEFINE left == (m.arrivalTime - currentTime) * TimeUnit
               full == JumpDuration * TimeUnit
    <3>1. left \in Int /\ full \in Int /\ left < 400 /\ full >= 400
      BY <1>4, <2>1, <2>2
    <3> HIDE DEF left, full
    <3> QED
      BY <3>1 DEF left, full
  <2>4. m.arrivalTime - currentTime < JumpDuration
    BY <1>4, <2>2, <2>3, LongerTimes
  <2> QED
    BY <1>4, <1>8, <2>4
<1> HIDE DEF jump, q
<1>20. PICK last \in Nat : last = Len(activeMotions) + 1
  BY LenProperties DEF TypeOK
<1>11. /\ Len(activeMotions) \in Nat /\ Len(activeMotions') = last
       /\ \A n \in Indices : activeMotions'[n] = activeMotions[n]
       /\ activeMotions'[last] = jump
  BY <1>5, <1>7, <1>20, AppendProperties, LenProperties DEF TypeOK, Indices
<1>12. Indices' = Indices \union {last} /\ \A n \in Indices : n < last
  BY <1>11, <1>20 DEF Indices
<1>13. Covered(k)'
  <2>1. last \in Indices' /\ k < last
    BY <1>2, <1>12
  <2>2. Saves(activeMotions[last])'
    BY <1>5, <1>6, <1>11 DEF Saves
  <2>3. NoLater(activeMotions[k], activeMotions[last])'
    BY <1>2, <1>5, <1>10, <1>11 DEF NoLater
  <2> QED
    BY <2>1, <2>2, <2>3 DEF Covered
<1>14. ASSUME NEW n \in Indices', Hunts(activeMotions[n])' PROVE n = k
  <2>1. CASE n = last
    BY <1>4, <1>5, <1>6, <1>8, <1>9, <1>11, <1>14, <2>1 DEF Hunts
  <2>2. CASE n \in Indices
    <3>1. activeMotions[n].piece = activeMotions[k].piece
      BY <1>6, <1>11, <1>14, <2>2 DEF Hunts
    <3> QED
      BY <1>2, <2>2, <3>1 DEF OnePlace, NoTwins, Indices
  <2> QED
    BY <1>12, <2>1, <2>2
<1>15. ASSUME NEW n \in 1 .. Len(arrivals), Hunts(arrivals[n])' PROVE FALSE
  <2>1. arrivals[n].piece = m.piece
    BY <1>6, <1>7, <1>15 DEF Hunts
  <2>2. LandingNow(m.piece) /\ Flying(m.piece)
    BY <1>2, <2>1 DEF LandingNow, Flying, Carries, Indices
  <2> QED
    BY <1>8, <2>2 DEF OnePlace
<1>16. dodged'.startTime \in Int /\ dodged'.startTime < currentTime'
  BY <1>6, <1>7, <1>8, <1>9
<1> QED
  BY <1>7, <1>13, <1>14, <1>15, <1>16 DEF DodgeInv

-----------------------------------------------------------------------------
(* The plan and the jump, step by step.                                    *)

\* A threat that the bot has seen stays the first one when flights take off.
LEMMA ThreatStays ==
  ASSUME TypeOK, UNCHANGED <<currentTime, botColor>>, NEW pos, NEW k \in Indices,
         Len(activeMotions') \in Nat, Len(activeMotions') >= Len(activeMotions),
         \A n \in Indices : activeMotions'[n] = activeMotions[n],
         FirstThreat(k, pos), ArrivesSoon(activeMotions[k])
  PROVE  k \in Indices' /\ FirstThreat(k, pos)' /\ ArrivesSoon(activeMotions[k])'
<1>1. Len(activeMotions) \in Nat /\ k \in Nat
  BY LenProperties DEF TypeOK, Indices
<1>2. k \in Indices' /\ \A l \in 1 .. (k - 1) : l \in Indices
  BY <1>1 DEF Indices
<1>3. \A n \in Indices : Threatens(activeMotions[n], pos)' <=> Threatens(activeMotions[n], pos)
  BY DEF Threatens
<1>4. FirstThreat(k, pos)'
  BY <1>2, <1>3 DEF FirstThreat
<1>5. ArrivesSoon(activeMotions[k])'
  BY DEF ArrivesSoon
<1> QED
  BY <1>2, <1>4, <1>5

\* While the bot is still asking, the engine only accepts flights.
LEMMA PlanStays ==
  ASSUME TypeOK, PlanInv, UNCHANGED <<at, currentTime, botColor>>,
         Len(activeMotions') \in Nat, Len(activeMotions') >= Len(activeMotions),
         \A n \in Indices : activeMotions'[n] = activeMotions[n],
         \A pos \in DOMAIN plan' : pos \in DOMAIN plan /\ (plan'[pos].jump => plan[pos].jump)
  PROVE  PlanInv'
<1>1. Planning' => at' = "free"
  BY DEF PlanInv, Planning
<1>2. ASSUME NEW pos \in DOMAIN plan', plan'[pos].jump
      PROVE  \E k \in Indices' : FirstThreat(k, pos)' /\ ArrivesSoon(activeMotions[k])'
  <2>1. PICK k \in Indices : FirstThreat(k, pos) /\ ArrivesSoon(activeMotions[k])
    BY <1>2 DEF PlanInv
  <2> QED
    BY <2>1, ThreatStays
<1> QED
  BY <1>1, <1>2 DEF PlanInv

LEMMA RequestsAreDue ==
  ASSUME TypeOK, NEW pos \in DOMAIN Requests, Requests[pos].jump
  PROVE  \E k \in Indices : FirstThreat(k, pos) /\ ArrivesSoon(activeMotions[k])
<1>1. Asked(pos).jump
  BY DEF Requests
<1>2. isUnderThreat(pos)
  <2>1. ~Attack(pos).jump
    BY DEF Attack, Asks
  <2> QED
    BY <1>1, <2>1 DEF Asked
<1>3. ArrivesSoon(Threat(pos))
  BY <1>1, <1>2 DEF Asked, Dodges, Asks
<1>4. PICK k \in Indices : FirstThreat(k, pos)
  BY <1>2, ThreatIsSeen
<1> QED
  BY <1>3, <1>4, ThreatIsFirst

LEMMA AcceptedAppends ==
  ASSUME TypeOK, NEW source \in Cells, AcceptedFrom(source)
  PROVE  /\ UNCHANGED <<at, currentTime>>
         /\ Len(activeMotions') \in Nat /\ Len(activeMotions') >= Len(activeMotions)
         /\ \A n \in Indices : activeMotions'[n] = activeMotions[n]
<1>1. PICK destination \in Cells, duration \in Int, type \in MotionTypes :
        MayTakeOff(source) /\ TakeOff(source, destination, duration, type)
  BY DEF AcceptedFrom
<1> DEFINE m == NewMotion(getPiece(grid, source), source, destination, currentTime, duration, type)
<1>2. getPiece(grid, source) \in Pieces
  BY <1>1, CellFacts, GetPieceType DEF MayTakeOff
<1>3. m \in Motions
  BY <1>2, CellFacts DEF NewMotion, Motions, TypeOK
<1>4. activeMotions' = Append(activeMotions, m) /\ UNCHANGED <<at, currentTime>>
  BY <1>1 DEF TakeOff
<1> HIDE DEF m
<1> QED
  BY <1>3, <1>4, AppendProperties, LenProperties DEF TypeOK, Indices

LEMMA NextPlan ==
  ASSUME GameInv, PlanInv, [NextBot]_gameBotVars
  PROVE  PlanInv'
<1> USE DEF GameInv, EngineInv
<1>1. ASSUME UNCHANGED vars, UNCHANGED botColor,
             \A pos \in DOMAIN plan' : pos \in DOMAIN plan /\ (plan'[pos].jump => plan[pos].jump)
      PROVE  PlanInv'
  <2>1. /\ UNCHANGED <<at, currentTime>>
        /\ Len(activeMotions') \in Nat /\ Len(activeMotions') >= Len(activeMotions)
        /\ \A n \in Indices : activeMotions'[n] = activeMotions[n]
    BY <1>1, LenProperties DEF vars, TypeOK
  <2> QED
    BY <1>1, <2>1, PlanStays
<1>2. ASSUME DOMAIN plan' = {} PROVE PlanInv'
  BY <1>2 DEF PlanInv, Planning
<1>3. CASE UNCHANGED gameBotVars
  BY <1>1, <1>3 DEF gameBotVars, commandVars, botVars
<1>4. CASE Players
  <2>1. UNCHANGED <<plan, botColor>>
    BY <1>4 DEF Players, botVars
  <2>2. CASE UNCHANGED vars
    BY <1>1, <2>1, <2>2
  <2>3. CASE Perform
    <3>1. command.source \in Cells /\ AcceptedFrom(command.source)
      BY <2>3, PerformAccepted DEF Perform, CommandOK
    <3> QED
      BY <2>1, <3>1, AcceptedAppends, PlanStays
  <2> QED
    BY <1>4, <2>2, <2>3 DEF Players, Answer, Look, LookAt, Ignore, Refuse, commandVars
<1>5. CASE GameLoop
  <2>1. DOMAIN plan' = {}
    BY <1>5 DEF GameLoop, Planning, botVars
  <2> QED
    BY <1>2, <2>1
<1>6. CASE BotLooks
  <2>1. at' = "free" /\ plan' = Requests /\ UNCHANGED <<activeMotions, currentTime, botColor>>
    BY <1>6 DEF BotLooks, commandVars, vars
  <2>2. ASSUME NEW pos \in DOMAIN plan', plan'[pos].jump
        PROVE  \E k \in Indices' : FirstThreat(k, pos)' /\ ArrivesSoon(activeMotions[k])'
    <3>1. PICK k \in Indices : FirstThreat(k, pos) /\ ArrivesSoon(activeMotions[k])
      BY <2>1, <2>2, RequestsAreDue
    <3>2. Len(activeMotions) \in Nat
      BY LenProperties DEF TypeOK
    <3> QED
      BY <2>1, <3>1, <3>2, ThreatStays
  <2> QED
    BY <2>1, <2>2 DEF PlanInv
<1>7. CASE BotMoves \/ BotJumps
  BY <1>2, <1>7 DEF BotMoves, BotJumps, NoRequests
<1>8. CASE BotRefused
  <2>1. UNCHANGED vars /\ UNCHANGED botColor
    BY <1>8 DEF BotRefused, commandVars
  <2>2. PICK from \in Cells :
          from \in DOMAIN plan /\ \E cells : plan' = Rest(from, Asks(FALSE, cells))
    BY <1>8 DEF BotRefused, Turn, FirstIn
  <2>3. \A pos \in DOMAIN plan' : pos \in DOMAIN plan /\ (plan'[pos].jump => plan[pos].jump)
    BY <2>2 DEF Rest, Asks
  <2> QED
    BY <1>1, <2>1, <2>3
<1> QED
  BY <1>3, <1>4, <1>5, <1>6, <1>7, <1>8 DEF NextBot

LEMMA NextDodge ==
  ASSUME GameInv, PlanInv, DodgeInv, [NextBot]_gameBotVars
  PROVE  DodgeInv'
<1> USE DEF GameInv, EngineInv
<1>1. ASSUME UNCHANGED vars, UNCHANGED dodged PROVE DodgeInv'
  BY <1>1, DodgeWaits DEF vars, TypeOK
<1>2. CASE UNCHANGED gameBotVars \/ BotLooks \/ BotRefused
  BY <1>1, <1>2 DEF gameBotVars, commandVars, botVars, BotLooks, BotRefused
<1>3. CASE Players
  <2>1. UNCHANGED dodged
    BY <1>3 DEF Players, botVars
  <2>2. CASE Perform
    BY <2>1, <2>2, PerformAccepted, DodgeTakenOff DEF Perform, CommandOK
  <2> QED
    BY <1>1, <1>3, <2>1, <2>2 DEF Players, Answer, Look, LookAt, Ignore, Refuse, commandVars
<1>4. CASE GameLoop
  <2>1. UNCHANGED dodged /\ (WaitCall \/ WaitStep)
    BY <1>4 DEF GameLoop, Worker, botVars
  <2>2. currentTime' >= currentTime /\ currentTime' \in Int
    BY <2>1, ClockForward, EngineKept DEF EngineStep, TypeOK
  <2>3. CASE UNCHANGED <<activeMotions, arrivals>>
    BY <2>1, <2>2, <2>3, DodgeWaits
  <2>4. CASE AirKill \/ AirKillBoth \/ AirStop \/ GroundBlocked
    <3>1. UNCHANGED <<currentTime, arrivals>>
      BY <2>4 DEF AirKill, AirKillBoth, AirStop, GroundBlocked
    <3> QED
      BY <2>1, <2>4, <3>1, AirRewrites, DodgeRewritten
  <2>5. CASE CleanupDead \/ PopArrived
    BY <2>1, <2>5, DodgeCleaned, DodgePopped
  <2>6. CASE LandOnEmpty \/ LandOnEnemy \/ LandBounced
    <3>1. arrivals # << >> /\ arrivals' = Tail(arrivals) /\ UNCHANGED <<activeMotions, currentTime>>
      BY <2>6 DEF LandOnEmpty, LandOnEnemy, LandBounced, Landing, TouchDown
    <3> QED
      BY <2>1, <3>1, DodgeLands
  <2>7. CASE \/ WaitCall \/ WaitEnd \/ AdvanceTime \/ GroundCapture \/ GroundDone
             \/ JudgeDead \/ PopDone \/ WakeRested
    BY <2>3, <2>7 DEF WaitCall, WaitBegin, WaitEnd, AdvanceTime, GroundCapture, GroundDone,
                      JudgeDead, PopDone, WakeRested
  <2> QED
    BY <2>1, <2>4, <2>5, <2>6, <2>7 DEF WaitStep, CheckGround, CheckAir, Retire, Land
<1>5. CASE BotMoves
  <2>1. UNCHANGED dodged /\ Accepted
    BY <1>5, BotAccepted DEF BotMoves
  <2> QED
    BY <2>1, DodgeTakenOff DEF Accepted
<1>6. CASE BotJumps
  BY <1>6, DodgeJumped
<1> QED
  BY <1>2, <1>3, <1>4, <1>5, <1>6 DEF NextBot

\* Whoever is captured stands on the board or flies, and is not in a jump.
LEMMA CapturedWhere ==
  ASSUME TypeOK, EngineStep, NEW p \in Pieces, p \in captured' \ captured
  PROVE  OnBoard(p) \/ \E n \in Indices : activeMotions[n].piece = p /\ activeMotions[n].type = "Normal"
<1>1. ASSUME NEW pos \in Position, getPiece(grid, pos) = p PROVE OnBoard(p)
  BY <1>1, CellFacts, GetPieceType DEF OnBoard
<1>2. CASE GroundCapture
  <2>1. PICK k \in Indices : captured' = captured \union {getPiece(grid, CellNow(activeMotions[k]))}
    BY <1>2 DEF GroundCapture, Indices
  <2>2. CellNow(activeMotions[k]) \in Position
    BY MotionsAt, CurrentCellType DEF CellNow, TypeOK
  <2> QED
    BY <1>1, <2>1, <2>2
<1>3. CASE LandOnEnemy
  <2>1. captured' = captured \union {getPiece(grid, arrivals[1].destination)}
    BY <1>3 DEF LandOnEnemy
  <2>2. arrivals[1].destination \in Position
    BY <1>3, ArrivalsAt DEF LandOnEnemy, Landing, Motions
  <2> QED
    BY <1>1, <2>1, <2>2
<1>4. CASE AirKill
  <2>1. PICK v \in Indices : /\ activeMotions[v].type = "Normal"
                             /\ captured' = captured \union {activeMotions[v].piece}
    <3>1. \E k, l \in Indices : \E u, v \in {k, l} :
             /\ Kills(activeMotions[u], activeMotions[v])
             /\ captured' = captured \union {activeMotions[v].piece}
      BY <1>4, Zenon DEF AirKill
    <3> QED
      BY <3>1, VictimsFly
  <2> QED
    BY <2>1
<1>5. CASE AirKillBoth
  <2>1. PICK k \in Indices, l \in Indices :
          /\ KillEachOther(activeMotions[k], activeMotions[l])
          /\ captured' = captured \union {activeMotions[k].piece, activeMotions[l].piece}
    BY <1>5 DEF AirKillBoth
  <2> QED
    BY <2>1, VictimsFly
<1>6. CASE UNCHANGED captured
  BY <1>6
<1>7. CASE UNCHANGED vars \/ Accepted \/ WaitCall \/ WaitEnd \/ AdvanceTime
  BY <1>6, <1>7 DEF vars, history, Accepted, AcceptedFrom, TakeOff, WaitCall, WaitBegin, WaitEnd,
                    AdvanceTime
<1>8. CASE GroundBlocked \/ GroundDone \/ AirStop \/ JudgeDead \/ Retire
  BY <1>6, <1>8 DEF history, GroundBlocked, GroundDone, AirStop, JudgeDead,
                    Retire, CleanupDead, PopArrived, PopDone
<1>9. CASE LandOnEmpty \/ LandBounced \/ WakeRested
  BY <1>6, <1>9 DEF history, LandOnEmpty, LandBounced, WakeRested
<1> QED
  BY <1>2, <1>3, <1>4, <1>5, <1>7, <1>8, <1>9
  DEF EngineStep, WaitStep, CheckGround, CheckAir, Land

\* The flight that the bot has jumped away from does not take the piece, as
\* long as it is there: the piece is in the jump, or lands after it.
LEMMA JumpIsSafe ==
  ASSUME GameInv, DodgeInv, [NextBot]_gameBotVars,
         NEW m \in ToSet(activeMotions) \union ToSet(arrivals), Hunts(m),
         dodged.piece \in captured' \ captured
  PROVE  FALSE
<1> DEFINE p == dodged.piece
<1>1. EngineStep /\ TypeOK /\ OnePlace
  BY GameStepsEngine DEF GameInv, EngineInv
<1>2. p \in Pieces
  <2>1. captured' \subseteq Pieces
    BY <1>1, EngineKept DEF GameInv, EngineInv, TypeOK
  <2> QED
    BY <2>1
<1> HIDE DEF p
<1>3. OnBoard(p) \/ \E n \in Indices : activeMotions[n].piece = p /\ activeMotions[n].type = "Normal"
  BY <1>1, <1>2, CapturedWhere DEF p
<1>4. ASSUME NEW l \in Indices, Saves(activeMotions[l]) PROVE FALSE
  <2>1. activeMotions[l].piece = p /\ activeMotions[l].type = "Jump"
    BY <1>4 DEF Saves, p
  <2>2. ~OnBoard(p)
    BY <1>1, <1>2, <2>1 DEF OnePlace, Flying, Carries, Indices
  <2>3. PICK n \in Indices : activeMotions[n].piece = p /\ activeMotions[n].type = "Normal"
    BY <1>3, <2>2
  <2>4. n = l
    BY <1>1, <2>1, <2>3 DEF OnePlace, NoTwins, Indices
  <2> QED
    BY <2>1, <2>3, <2>4
<1>5. ASSUME NEW l \in 1 .. Len(arrivals), arrivals[l].piece = p PROVE FALSE
  <2>1. LandingNow(p) /\ (Flying(p) \/ OnBoard(p))
    BY <1>3, <1>5 DEF LandingNow, Flying, Carries, Indices
  <2> QED
    BY <1>1, <1>2, <2>1 DEF OnePlace
<1>6. CASE m \in ToSet(activeMotions)
  <2>1. PICK k \in Indices : m = activeMotions[k]
    BY <1>6 DEF ToSet, Indices
  <2>2. Covered(k)
    BY <2>1 DEF DodgeInv
  <2> QED
    BY <1>4, <2>2 DEF Covered
<1>7. CASE m \in ToSet(arrivals)
  <2>1. PICK k \in 1 .. Len(arrivals) : m = arrivals[k]
    BY <1>7 DEF ToSet
  <2>2. Outlasted(k)
    BY <2>1 DEF DodgeInv
  <2> QED
    BY <1>4, <1>5, <2>2 DEF Outlasted, p
<1> QED
  BY <1>6, <1>7

\* A piece that the bot lifts in time is never taken by the flight it was
\* lifted for, whatever else is in the air, however late the ticks are and
\* however the flights collide.
THEOREM JumpsSaveThePiece == SpecBot => JumpSaves
<1> DEFINE Inv == GameInv /\ PlanInv /\ DodgeInv
           Saved == \A m \in ToSet(activeMotions) \union ToSet(arrivals) :
                      m.piece = dodged.threat /\ m.startTime = dodged.startTime
                        => ~(dodged.piece \in captured' \ captured /\ CaptorIsThere(m, dodged.piece))
<1>1. InitBot => Inv
  <2> SUFFICES ASSUME InitBot PROVE Inv
    OBVIOUS
  <2>1. GameInv
    BY InitGame
  <2>2. PlanInv
    BY DEF InitBot, NoRequests, PlanInv, Planning
  <2>3. activeMotions = << >> /\ arrivals = << >> /\ dodged = NoThreat
    BY DEF InitBot, InitCommands, Init
  <2>4. DodgeInv
    BY <2>3, BoardAssumption DEF DodgeInv, NoThreat, Indices
  <2> QED
    BY <2>1, <2>2, <2>4
<1>2. Inv /\ [NextBot]_gameBotVars => Inv'
  BY NextGame, NextPlan, NextDodge
<1>3. Inv /\ [NextBot]_gameBotVars => [Saved]_gameBotVars
  BY JumpIsSafe DEF Hunts
<1> QED
  BY <1>1, <1>2, <1>3, PTL DEF SpecBot, JumpSaves

=============================================================================
