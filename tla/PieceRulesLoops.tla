--------------------------- MODULE PieceRulesLoops ---------------------------
(***************************************************************************)
(* legalDestinations as server/rules/piece_rules.cpp computes it: loops    *)
(* over directions and cells that collect destinations.  PieceRules says   *)
(* what the result is; the invariant says that the two agree.              *)
(***************************************************************************)
EXTENDS PieceRules, Sequences

CONSTANT Placements        \* the boards to compute on: cell -> piece or NoPiece

ASSUME PlacementsAssumption == Placements \subseteq [Cells -> Pieces \union {NoPiece}]

VARIABLES grid, piece, kind, from,       \* the arguments
          todo,                          \* directions or offsets still to visit, in the code's order
          dir, current,                  \* the slide in progress
          canMoveOneStep,                \* of the pawn rule
          destinations, at

args == <<grid, piece, kind, from>>
vars == <<args, todo, dir, current, canMoveOneStep, destinations, at>>

NoDir == <<0, 0>>

RookDirections   == << <<0, 1>>, <<0, -1>>, <<1, 0>>, <<-1, 0>> >>
BishopDirections == << <<1, 1>>, <<1, -1>>, <<-1, 1>>, <<-1, -1>> >>

Directions(k) ==
  CASE k = "Rook"   -> RookDirections
    [] k = "Bishop" -> BishopDirections
    [] k \in {"Queen", "King"} -> RookDirections \o BishopDirections
    [] k = "Knight" -> << <<2, 1>>, <<2, -1>>, <<-2, 1>>, <<-2, -1>>,
                          <<1, 2>>, <<1, -2>>, <<-1, 2>>, <<-1, -2>> >>
    [] k = "Pawn"   -> << <<PawnDirection(Color[piece]), -1>>, <<PawnDirection(Color[piece]), 1>> >>

Start(k) == CASE k \in {"Rook", "Bishop", "Queen"} -> "slide"
              [] k \in {"Knight", "King"} -> "step"
              [] k = "Pawn" -> "forward1"

Init ==
  /\ grid \in Placements
  /\ from \in { c \in Cells : grid[c] # NoPiece }
  /\ piece = grid[from]
  /\ kind \in Kinds
  /\ todo = Directions(kind)
  /\ dir = NoDir /\ current = from
  /\ canMoveOneStep = FALSE
  /\ destinations = {}
  /\ at = Start(kind)

\* getSlidingDestinations: take the next direction ...
NextDirection ==
  /\ at = "slide" /\ dir = NoDir /\ todo # << >>
  /\ dir' = Head(todo) /\ todo' = Tail(todo)
  /\ current' = from
  /\ UNCHANGED <<args, canMoveOneStep, destinations, at>>

\* ... and walk along it until the border or the first piece.
Slide ==
  /\ at = "slide" /\ dir # NoDir
  /\ LET next == Shift(current, dir, 1)
         hit  == getPiece(grid, next)
     IN  /\ current' = next
         /\ dir' = IF isInside(next) /\ hit = NoPiece THEN dir ELSE NoDir
         /\ destinations' = IF isInside(next) /\ (hit = NoPiece \/ Enemies(hit, piece))
                          THEN destinations \union {next} ELSE destinations
  /\ UNCHANGED <<args, todo, canMoveOneStep, at>>

\* getSteppingDestinations
Step ==
  /\ at = "step" /\ todo # << >>
  /\ LET target == Shift(from, Head(todo), 1)
         hit == getPiece(grid, target)
     IN  /\ todo' = Tail(todo)
         /\ destinations' = IF isInside(target) /\ (hit = NoPiece \/ Enemies(hit, piece))
                          THEN destinations \union {target} ELSE destinations
  /\ UNCHANGED <<args, dir, current, canMoveOneStep, at>>

\* PawnRule: one step, then two, then the diagonal captures.
Forward(n) == Shift(from, <<PawnDirection(Color[piece]), 0>>, n)

PawnOneStep ==
  /\ at = "forward1"
  /\ canMoveOneStep' = Empty(grid, Forward(1))
  /\ destinations' = IF Empty(grid, Forward(1)) THEN destinations \union {Forward(1)}
                                                ELSE destinations
  /\ at' = "forward2"
  /\ UNCHANGED <<args, todo, dir, current>>

PawnTwoSteps ==
  /\ at = "forward2"
  /\ destinations' = IF /\ canMoveOneStep
                        /\ from.row = PawnStartRow(Color[piece])
                        /\ Empty(grid, Forward(2))
                     THEN destinations \union {Forward(2)} ELSE destinations
  /\ at' = "capture"
  /\ UNCHANGED <<args, todo, dir, current, canMoveOneStep>>

PawnCapture ==
  /\ at = "capture" /\ todo # << >>
  /\ LET target == Shift(from, Head(todo), 1)
         hit == getPiece(grid, target)
     IN  /\ todo' = Tail(todo)
         /\ destinations' = IF hit # NoPiece /\ Enemies(hit, piece)
                          THEN destinations \union {target} ELSE destinations
  /\ UNCHANGED <<args, dir, current, canMoveOneStep, at>>

Return ==
  /\ at \in {"slide", "step", "capture"} /\ dir = NoDir /\ todo = << >>
  /\ at' = "done"
  /\ UNCHANGED <<args, todo, dir, current, canMoveOneStep, destinations>>

Next == NextDirection \/ Slide \/ Step \/ PawnOneStep \/ PawnTwoSteps \/ PawnCapture \/ Return

Spec == Init /\ [][Next]_vars

\* When the loops are done they have collected exactly the destinations that
\* PieceRules describes.
LoopsAgree ==
  at = "done" => destinations = LegalDestinations(grid, piece, kind, from)
=============================================================================
