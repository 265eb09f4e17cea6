------------------------------ MODULE MCClient ------------------------------
(***************************************************************************)
(* One or two cells; the boards are empty or hold a piece that may move,   *)
(* alone, beside a friend that rests or beside an enemy.                   *)
(***************************************************************************)
EXTENDS Client

CONSTANTS c1, c2

Piece(color, idle) == [color |-> color, idle |-> idle]

MCBoards == { EmptyBoard } \union
            { [c \in Cells |-> IF c = c1 THEN Piece("White", TRUE) ELSE other] :
                other \in {Piece("White", FALSE), Piece("Black", TRUE)} }
=============================================================================
