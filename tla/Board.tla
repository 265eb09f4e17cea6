------------------------------- MODULE Board -------------------------------
(***************************************************************************)
(* The logical board of shared/model/board.cpp: a grid of cells, each      *)
(* empty or holding one piece.  The operators are pure; GameEngine keeps   *)
(* the grid as a variable and applies them.  A piece is its identity: what *)
(* the code stores beside the id (kind, state, ready time) is kept per     *)
(* piece by GameEngine, which is the same thing as long as no piece is in  *)
(* two places (GameEngine!OnePlace, proved in GameEngineProofs).           *)
(***************************************************************************)
EXTENDS Integers

CONSTANTS Width, Height,   \* board dimensions
          Pieces,          \* piece ids
          NoPiece          \* an empty cell (std::nullopt)

ASSUME BoardAssumption == /\ Width \in Nat \ {0}
                          /\ Height \in Nat \ {0}
                          /\ NoPiece \notin Pieces

Position == [row : Int, col : Int]
Cells == [row : 0 .. Height - 1, col : 0 .. Width - 1]

At(r, c) == [row |-> r, col |-> c]

\* Board::isInside
isInside(pos) == /\ pos.row >= 0 /\ pos.row < Height
                 /\ pos.col >= 0 /\ pos.col < Width

\* Board::getPiece: an outside position has no piece.
getPiece(grid, pos) == IF isInside(pos) THEN grid[pos] ELSE NoPiece

\* Mutant of CanAdd: overwrites what stands on the cell.
CanOverwrite(grid, pos) == isInside(pos)

\* Board::addPiece succeeds only on an empty cell of the board ...
CanAdd(grid, pos) == isInside(pos) /\ grid[pos] = NoPiece

\* ... and otherwise leaves the board alone.
addPiece(grid, p, pos) == IF CanAdd(grid, pos) THEN [grid EXCEPT ![pos] = p] ELSE grid

\* Mutant of removePiece: the piece stays.
removeNothing(grid, pos) == grid

\* Board::removePiece
removePiece(grid, pos) == IF isInside(pos) THEN [grid EXCEPT ![pos] = NoPiece] ELSE grid
=============================================================================
