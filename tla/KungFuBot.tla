------------------------------ MODULE KungFuBot ------------------------------
(***************************************************************************)
(* A game with the bot of server/bot/kung_fu_bot.cpp, or with two players. *)
(*                                                                         *)
(* update() takes a snapshot and then makes requests, each of them a call  *)
(* that takes the engine's mutex again, until one is accepted: `plan' is   *)
(* what it will still ask for.  It is meant to be called from the game     *)
(* loop, so the loop's wait() does not run while update() does, but the    *)
(* commands of the network thread come in between.  Nothing in the server  *)
(* creates a bot yet; this is the game it would play.                      *)
(***************************************************************************)
EXTENDS CommandHandler

CONSTANTS BotSeats,      \* the colors the bot may play; "None": two players
          Elo,           \* the bot's rating
          TimeUnit,      \* ms of one unit of the engine's clock
          BotHorizon     \* bound: the bot asks for nothing at or after this time

ASSUME BotAssumption ==
  /\ BotSeats \subseteq Colors \union {"None"}
  /\ Elo \in Int /\ TimeUnit \in Nat \ {0} /\ BotHorizon \in Nat
  /\ JumpDuration * TimeUnit >= 400   \* 1000 ms in the code

VARIABLES
  botColor,      \* m_color, or "None"
  lastAction,    \* m_lastActionTimeMs
  plan,          \* the requests that update() has not made yet
  dodged         \* history: the threat the bot jumped for last, and its piece

botVars  == <<botColor, lastAction, plan, dodged>>
gameBotVars == <<commandVars, botVars>>

\* BotConfig::fromElo
Tier(reaction, apm, jump, radius) ==
  [reactionTimeMs |-> reaction, actionDelayMs |-> 60000 \div apm,
   canJump |-> jump, lookaheadRadius |-> radius]

fromElo(elo) ==
  CASE elo < 1000                -> Tier(2000,  15, FALSE, 1)
    [] elo \in 1000 .. 1199      -> Tier(1500,  25, FALSE, 2)
    [] elo \in 1200 .. 1399      -> Tier(1200,  40, FALSE, 3)
    [] elo \in 1400 .. 1599      -> Tier( 800,  60, FALSE, 5)
    [] elo \in 1600 .. 1799      -> Tier( 500,  80, TRUE,  8)
    [] elo \in 1800 .. 1999      -> Tier( 300, 120, TRUE,  8)
    [] elo \in 2000 .. 2199      -> Tier( 200, 200, TRUE,  8)
    [] OTHER                     -> Tier( 100, 300, TRUE,  8)

config == fromElo(Elo)

Ms(time) == time * TimeUnit

-----------------------------------------------------------------------------
(* What the bot sees in the snapshot, which it takes at currentTime.       *)

\* The order of stationaryPieces and of std::set<Position>: row by row.
Before(pos, other) == pos.row < other.row \/ (pos.row = other.row /\ pos.col < other.col)
FirstIn(pos, positions) ==
  pos \in positions /\ \A other \in positions \ {pos} : Before(pos, other)

\* An enemy flight towards pos that has been in the air for the reaction time.
Threatens(m, pos) ==
  /\ ~m.isDead /\ Color[m.piece] # botColor
  /\ m.destination = pos
  /\ Ms(currentTime - m.startTime) >= config.reactionTimeMs

isUnderThreat(pos) == \E k \in Indices : Threatens(activeMotions[k], pos)

\* The flight that isUnderThreat finds: the first of the vector.
FirstThreat(k, pos) ==
  /\ k \in Indices /\ Threatens(activeMotions[k], pos)
  /\ \A l \in 1 .. (k - 1) : ~Threatens(activeMotions[l], pos)
Threat(pos) == activeMotions[CHOOSE k \in Indices : FirstThreat(k, pos)]

getDistance(a, b) == AbsDiff(a.row, b.row) + AbsDiff(a.col, b.col)

evaluateMove(p, from, dest) ==
  LET victim == getPiece(grid, dest)
  IN  (IF victim = NoPiece \/ Color[victim] = botColor THEN 0
       ELSE 100 + IF isFatalDeath(kind[victim]) THEN 10000 ELSE 0)
      + (IF dest.row - from.row = PawnDirection(botColor) THEN 10 ELSE 0)

Legal(from) == LegalDestinations(grid, getPiece(grid, from), kind[getPiece(grid, from)], from)

-----------------------------------------------------------------------------
(* The requests of one update(): for each piece that is ready a jump, or   *)
(* none, and then moves to some cells, all row by row.                     *)

Asks(jump, cells) == [jump |-> jump, to |-> cells]
Nothing == Asks(FALSE, {})

\* Mutant of ArrivesSoon: the bot jumps whenever it sees a threat.
ArrivesSometime(m) == TRUE
ArrivesSoon(m) == Ms(m.arrivalTime - currentTime) < 400

\* Jump to squash the threat, or run to a square that no threat is seen to
\* fly to.
Dodges(from) ==
  Asks(config.canJump /\ ArrivesSoon(Threat(from)),
       { dest \in Legal(from) : ~isUnderThreat(dest) })

\* The first of the best moves in sight, if it is worth anything.
Attack(from) ==
  LET near == { dest \in Legal(from) : getDistance(from, dest) <= config.lookaheadRadius }
      score(dest) == evaluateMove(getPiece(grid, from), from, dest)
      best == { dest \in near : \A other \in near : score(other) <= score(dest) }
  IN  Asks(FALSE, { dest \in best : score(dest) > 0 /\ FirstIn(dest, best) })

Ready(pos) ==
  LET p == getPiece(grid, pos)
  IN  p # NoPiece /\ Color[p] = botColor /\ pieceState[p] = "Idle"

Asked(from) == IF isUnderThreat(from) THEN Dodges(from) ELSE Attack(from)

Requests == [from \in { pos \in Cells : Ready(pos) /\ Asked(pos) # Nothing } |-> Asked(from)]
NoRequests == [from \in {} |-> Nothing]

-----------------------------------------------------------------------------
NoThreat == [piece |-> NoPiece, threat |-> NoPiece, startTime |-> 0]

Planning == DOMAIN plan # {}

InitBot ==
  /\ InitCommands
  /\ botColor \in BotSeats
  /\ lastAction = 0
  /\ plan = NoRequests
  /\ dodged = NoThreat

\* update() up to the decision; with nothing to ask for it changes nothing.
BotLooks ==
  /\ botColor # "None" /\ ~Planning
  /\ at = "free" /\ currentTime < BotHorizon
  /\ Ms(currentTime - lastAction) >= config.actionDelayMs
  /\ ~isGameOver
  /\ plan' = Requests /\ DOMAIN plan' # {}
  /\ UNCHANGED <<commandVars, botColor, lastAction, dodged>>

\* The loop over the pieces is at this one.
Turn(from) == FirstIn(from, DOMAIN plan)

\* The first request that is accepted ends update().  A move takes the 1000 ms
\* of requestMove's default argument, however far it goes.
BotMoves ==
  /\ at = "free"
  /\ \E from \in Cells : \E dest \in MovesFrom(from) :
       /\ Turn(from) /\ ~plan[from].jump /\ FirstIn(dest, plan[from].to)
       /\ TakeOff(from, dest, JumpDuration, "Normal")
  /\ lastAction' = currentTime /\ plan' = NoRequests
  /\ UNCHANGED <<command, botColor, dodged>>

BotJumps ==
  /\ at = "free"
  /\ \E pos \in Cells :
       /\ Turn(pos) /\ plan[pos].jump
       /\ MayTakeOff(pos)
       /\ TakeOff(pos, pos, JumpDuration, "Jump")
       /\ dodged' = [piece |-> getPiece(grid, pos),
                     threat |-> Threat(pos).piece, startTime |-> Threat(pos).startTime]
  /\ lastAction' = currentTime /\ plan' = NoRequests
  /\ UNCHANGED <<command, botColor>>

\* What is left of the plan when the piece on this cell asks for the rest.
Rest(from, rest) == IF rest = Nothing THEN [pos \in DOMAIN plan \ {from} |-> plan[pos]]
                                      ELSE [plan EXCEPT ![from] = rest]

BotRefused ==
  /\ at = "free"
  /\ \E from \in Cells :
       /\ Turn(from)
       /\ \/ /\ plan[from].jump /\ ~MayTakeOff(from)
             /\ plan' = Rest(from, Asks(FALSE, plan[from].to))
          \/ /\ ~plan[from].jump
             /\ \E dest \in plan[from].to :
                  /\ FirstIn(dest, plan[from].to) /\ dest \notin MovesFrom(from)
                  /\ plan' = Rest(from, Asks(FALSE, plan[from].to \ {dest}))
  /\ UNCHANGED <<commandVars, botColor, lastAction, dodged>>

\* A seat of the bot has no player who could send commands.
Players ==
  /\ (\E role \in Roles \ {botColor} : Look(role)) \/ Answer
  /\ UNCHANGED botVars

GameLoop == ~Planning /\ Worker /\ UNCHANGED botVars

NextBot == Players \/ GameLoop \/ BotLooks \/ BotMoves \/ BotJumps \/ BotRefused

SpecBot == InitBot /\ [][NextBot]_gameBotVars

-----------------------------------------------------------------------------
(* Properties.                                                             *)

\* The piece that the bot lifted in time is never taken by the flight it
\* was lifted for, whatever rounding, late ticks and collisions there are:
\* the jump lasts longer than the threat's last 400 ms.
JumpSaves ==
  [][\A m \in ToSet(activeMotions) \union ToSet(arrivals) :
       m.piece = dodged.threat /\ m.startTime = dodged.startTime
         => ~(dodged.piece \in captured' \ captured /\ CaptorIsThere(m, dodged.piece))]_gameBotVars
=============================================================================
