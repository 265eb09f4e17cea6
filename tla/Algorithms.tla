----------------------------- MODULE Algorithms -----------------------------
(***************************************************************************)
(* The algorithms side by side, each with what it should compute.  A       *)
(* behaviour either computes the destinations of a piece, on a board that  *)
(* is also written as text and read back, or opens a game window.          *)
(***************************************************************************)
EXTENDS PieceRulesLoops, BoardText, GameWindow

NoArguments ==
  /\ grid = [c \in Cells |-> NoPiece] /\ from = At(0, 0) /\ piece = NoPiece /\ kind = "King"
  /\ todo = << >> /\ dir = NoDir /\ current = At(0, 0) /\ canMoveOneStep = FALSE
  /\ destinations = {} /\ at = "window"

AlgorithmInit == (Init \/ NoArguments) /\ OpenWindow
AlgorithmNext == \/ Next /\ UNCHANGED windowVars
                 \/ at = "window" /\ WindowTurn /\ UNCHANGED vars

AlgorithmSpec == AlgorithmInit /\ [][AlgorithmNext]_<<vars, windowVars>>

\* A board that is printed and parsed is the same board, and a text with rows of
\* different widths or with tokens that are no piece is refused.
TextRoundTrip ==
  at = Start(kind) =>
    LET kindOf == [p \in Pieces |-> IF p = piece THEN kind ELSE "Pawn"]
    IN  ReadsBack(grid, kindOf) /\ RefusesBadText(grid, kindOf)
=============================================================================
