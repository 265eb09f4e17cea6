---------------------------- MODULE MCAlgorithms ----------------------------
(***************************************************************************)
(* Algorithms for TLC: every board of 4 x 3 cells with up to three pieces  *)
(* of both colors, and a game window of six sizes.                         *)
(***************************************************************************)
EXTENDS Algorithms

CONSTANTS w1, w2, b1

MCColor == [p \in Pieces |-> IF p = b1 THEN "Black" ELSE "White"]

\* A piece is on one cell or not on the board.
MCPlacements ==
  { [c \in Cells |-> IF \E p \in Pieces : cellOf[p] = c
                     THEN CHOOSE p \in Pieces : cellOf[p] = c ELSE NoPiece] :
      cellOf \in [Pieces -> Cells \union {NoPiece}] }

\* The theme's window, the picture that clearScreen makes, and small ones.
MCThemeSize == [w |-> 1024, h |-> 720]
MCWindowSizes == { MCThemeSize, [w |-> 1000, h |-> 700], [w |-> 333, h |-> 1111],
                   [w |-> 61, h |-> 43], [w |-> 20, h |-> 14], [w |-> 7, h |-> 5] }
MCMargins == [left |-> 260, top |-> 100, right |-> 260, bottom |-> 100]

\* Of the animations in assets, five frames each, scaled down to three and two
\* frames and small times, and one without frames (its files are missing).
MCAnimation ==
  [idle |-> [frames |-> 3, msPerFrame |-> 3, isLoop |-> TRUE],
   jump |-> [frames |-> 3, msPerFrame |-> 2, isLoop |-> FALSE],
   rest |-> [frames |-> 0, msPerFrame |-> 5, isLoop |-> TRUE]]
=============================================================================
