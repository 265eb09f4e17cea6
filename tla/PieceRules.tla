----------------------------- MODULE PieceRules -----------------------------
(***************************************************************************)
(* The movement rules of server/rules: the legal destinations of a piece,  *)
(* promotion, fatal deaths and cooldowns.  The code slides cell by cell;   *)
(* here a sliding destination is described by what lies between.  The run  *)
(* algorithms compares the two on every small board.                       *)
(***************************************************************************)
EXTENDS Board

CONSTANT Color             \* the color of each piece, never changed by the code

Colors == {"White", "Black"}
Kinds  == {"Pawn", "Knight", "Bishop", "Rook", "Queen", "King"}

ASSUME ColorAssumption == Color \in [Pieces -> Colors]

Opponent(color) == IF color = "White" THEN "Black" ELSE "White"
Enemies(p, q) == Color[p] # Color[q]

Straight == {<<0, 1>>, <<0, -1>>, <<1, 0>>, <<-1, 0>>}
Diagonal == {<<1, 1>>, <<1, -1>>, <<-1, 1>>, <<-1, -1>>}
KnightOffsets == {<<2, 1>>, <<2, -1>>, <<-2, 1>>, <<-2, -1>>,
                  <<1, 2>>, <<1, -2>>, <<-1, 2>>, <<-1, -2>>}

Shift(pos, dir, k) == At(pos.row + k * dir[1], pos.col + k * dir[2])

Empty(grid, pos) == isInside(pos) /\ grid[pos] = NoPiece
Holds(grid, pos) == isInside(pos) /\ grid[pos] # NoPiece

\* Where p may end: on an empty cell or on an enemy.
Enterable(grid, p, pos) ==
  isInside(pos) /\ (grid[pos] = NoPiece \/ Enemies(grid[pos], p))

\* Mutant of Reaches: slides through pieces.
ReachesThrough(grid, p, from, dir, k) == Enterable(grid, p, Shift(from, dir, k))

\* A slide along dir stops at the first piece: every cell before the
\* destination is empty and the destination can be entered.
Reaches(grid, p, from, dir, k) ==
  /\ \A m \in 1 .. (k - 1) : Empty(grid, Shift(from, dir, m))
  /\ Enterable(grid, p, Shift(from, dir, k))

SlidingDestinations(grid, p, from, dirs) ==
  UNION { { Shift(from, dir, k) : k \in { n \in 1 .. (Width + Height) : Reaches(grid, p, from, dir, n) } }
          : dir \in dirs }

SteppingDestinations(grid, p, from, offsets) ==
  { pos \in { Shift(from, dir, 1) : dir \in offsets } : Enterable(grid, p, pos) }

PawnDirection(color) == IF color = "White" THEN -1 ELSE 1
PawnStartRow(color)  == IF color = "White" THEN Height - 2 ELSE 1

\* One step forward, two from the start row when both cells are empty, and
\* diagonal captures.  startRow and the last row are derived from the
\* height, so on a low board they may coincide.
PawnDestinations(grid, p, from) ==
  LET fwd == PawnDirection(Color[p])
      one == At(from.row + fwd, from.col)
      two == At(from.row + 2 * fwd, from.col)
      sideways == {At(one.row, one.col - 1), At(one.row, one.col + 1)}
  IN  { pos \in {one} : Empty(grid, one) }
      \union { pos \in {two} : /\ from.row = PawnStartRow(Color[p])
                               /\ Empty(grid, one) /\ Empty(grid, two) }
      \union { pos \in sideways : Holds(grid, pos) /\ Enemies(grid[pos], p) }

\* The rule registry: RuleEngine::getLegalDestinations, the set that
\* validateMove tests.
LegalDestinations(grid, p, kindOfP, from) ==
  CASE kindOfP = "Rook"   -> SlidingDestinations(grid, p, from, Straight)
    [] kindOfP = "Bishop" -> SlidingDestinations(grid, p, from, Diagonal)
    [] kindOfP = "Queen"  -> SlidingDestinations(grid, p, from, Straight \union Diagonal)
    [] kindOfP = "Knight" -> SteppingDestinations(grid, p, from, KnightOffsets)
    [] kindOfP = "King"   -> SteppingDestinations(grid, p, from, Straight \union Diagonal)
    [] kindOfP = "Pawn"   -> PawnDestinations(grid, p, from)

isFatalDeath(k) == k = "King"

\* PawnRule::onArrival: any pawn on either border row becomes a queen,
\* whatever its color.
KindOnArrival(k, pos) ==
  IF k = "Pawn" /\ pos.row \in {0, Height - 1} THEN "Queen" ELSE k
=============================================================================
