---------------------------- MODULE MCGameEngine ----------------------------
(***************************************************************************)
(* Small games for TLC: boards of three rows and three or four columns, a  *)
(* few pieces per side, times scaled down (a square takes two physics      *)
(* ticks).  Every layout is one a board description can give.              *)
(***************************************************************************)
EXTENDS GameEngine

CONSTANTS wK, wR, wS, wN, bK, bR, bS, bN, bP

\* Short and long rests, shorter than a flight across the board.
MCCooldown == [k \in Kinds |-> [s \in RestStates |->
                 IF s = "ShortRest" THEN 1 ELSE IF k = "Pawn" THEN 2 ELSE 3]]

MCColor == [p \in Pieces |-> IF p \in {wK, wR, wS, wN} THEN "White" ELSE "Black"]
MCKind  == [p \in Pieces |-> CASE p \in {wK, bK} -> "King"
                               [] p \in {wR, wS, bR, bS} -> "Rook"
                               [] p \in {wN, bN} -> "Knight"
                               [] p = bP -> "Pawn"]

\* Kings and rooks in the corners, a pawn and a knight between them.
MCCorners == [p \in Pieces |->
  CASE p = wK -> At(2, 0) [] p = wR -> At(2, 2) [] p = wN -> At(2, 1) [] p = wS -> At(1, 0)
    [] p = bK -> At(0, 2) [] p = bR -> At(0, 0) [] p = bP -> At(1, 1) [] p = bS -> At(0, 1)]

\* Knights of both colors that can land on the way of a rook.
MCKnights == [p \in Pieces |->
  CASE p = wR -> At(0, 0) [] p = wN -> At(2, 1) [] p = bN -> At(2, 3) [] OTHER -> At(1, 3)]

\* A pawn that can take a king, and that a rook attacks over two squares.
MCAttacked == [p \in Pieces |->
  CASE p = bP -> At(0, 1) [] p = wK -> At(1, 0) [] p = wR -> At(2, 1) [] OTHER -> At(2, 0)]
=============================================================================
