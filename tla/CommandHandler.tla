--------------------------- MODULE CommandHandler ---------------------------
(***************************************************************************)
(* The two steps of GameActionHandler::processCommand, on the network      *)
(* thread: the handler looks at the piece in a snapshot, releases the      *)
(* engine's mutex, and then requests the flight, while a worker may run    *)
(* wait() in between.  The network thread works on one command at a time.  *)
(* GameEngine's own requests are not taken here: every request comes from  *)
(* a command, or from the bot (KungFuBot, which puts the steps together).  *)
(***************************************************************************)
EXTENDS GameEngine

Roles == {"White", "Black", "Spectator"}

NoCommand == [action |-> "none"]

VARIABLE command   \* the command between its two steps, and what the handler saw

commandVars == <<vars, command>>

\* Mutant of isPlayerAllowed: everybody may move every piece.
anybodyAllowed(role, color) == TRUE
isPlayerAllowed(role, color) == role = color

InitCommands == Init /\ command = NoCommand

\* A spectator's command, a malformed one, or one for an empty cell or for
\* another player's piece changes nothing.
Ignore == command = NoCommand /\ UNCHANGED commandVars

\* processCommand up to the answer of getSnapshot().getPieceAt().
LookAt(role, action, source, destination) ==
  /\ command = NoCommand
  /\ at = "free" /\ currentTime < RequestHorizon
  /\ LET seen == getPiece(grid, source)
     IN  /\ seen # NoPiece /\ isPlayerAllowed(role, Color[seen])
         /\ command' = [action |-> action, role |-> role, source |-> source,
                        destination |-> destination, seen |-> seen, time |-> currentTime]
  /\ UNCHANGED vars

Accepts(c) ==
  IF c.action = "MOVE" THEN c.destination \in MovesFrom(c.source) ELSE MayTakeOff(c.source)

\* requestMove and requestJump test again what stands on the cell, but not
\* whose it is.
Perform ==
  /\ command # NoCommand
  /\ at = "free"
  /\ Accepts(command)
  /\ IF command.action = "MOVE"
     THEN TakeOff(command.source, command.destination,
                  MoveDuration(command.source, command.destination), "Normal")
     ELSE TakeOff(command.source, command.source, JumpDuration, "Jump")
  /\ command' = NoCommand

Refuse ==
  /\ command # NoCommand
  /\ at = "free"
  /\ ~Accepts(command)
  /\ command' = NoCommand
  /\ UNCHANGED vars

Look(role) ==
  \/ \E source, destination \in Cells : LookAt(role, "MOVE", source, destination)
  \/ \E source \in Cells : LookAt(role, "JUMP", source, source)

Answer == Ignore \/ Perform \/ Refuse

Worker == (WaitCall \/ WaitStep) /\ UNCHANGED command

-----------------------------------------------------------------------------
(* Properties.                                                             *)

\* A piece that landed after the check may be rested by now.
TimeToRest(since) ==
  \E k \in Kinds, s \in RestStates : currentTime >= since + Cooldown[k][s]

\* Nobody moves another player's piece, nor another piece than the one the
\* handler has looked at, although the board may change between the check
\* and the flight: a piece that arrives meanwhile has to rest, so a check
\* that is younger than any rest is as good as new.
StaleCheckHarmless ==
  [][command # NoCommand /\ command' = NoCommand =>
       \A p \in Pieces : OnBoard(p) /\ Carries(activeMotions', p) =>
         \/ p = command.seen /\ Color[p] = command.role
         \/ TimeToRest(command.time)]_commandVars
=============================================================================
