----------------------------- MODULE GameWindow -----------------------------
(***************************************************************************)
(* The window of a game (client/game_application.cpp runGameLoop with      *)
(* view/board_layout.cpp, view/renderer.cpp, view/animation_player.cpp and *)
(* input/board_mapper.hpp): what is drawn where, what a click hits, and    *)
(* which frame of its animation a piece shows.                             *)
(*                                                                         *)
(* Each turn of the loop reads the size of the window, recomputes the      *)
(* layout and the mapper when it has changed, draws, and waits, which is   *)
(* when clicks arrive.  The user resizes at any time.  One piece is        *)
(* followed: its state is whatever the last snapshot says, and a snapshot  *)
(* may be without it.                                                      *)
(***************************************************************************)
EXTENDS Integers

CONSTANTS BoardCells,          \* Theme::BoardCells
          WindowSizes,         \* sizes that a window may get
          ThemeSize,           \* Theme::WindowWidth and WindowHeight
          Margins,             \* Theme: left, top, right, bottom
          States, Animation,   \* PieceState, and the AnimationData of each
          FrameTimes,          \* how long a turn may take, in ms
          MaxShown             \* bound: an animation is watched for so long

ASSUME WindowAssumption ==
  /\ BoardCells \in 1 .. 10                  \* at more, cells may have no size
  /\ WindowSizes \subseteq [w : Nat \ {0}, h : Nat \ {0}] /\ ThemeSize \in WindowSizes
  /\ Margins \in [left : Nat, top : Nat, right : Nat, bottom : Nat]
  /\ Animation \in [States -> [frames : Nat, msPerFrame : Nat \ {0}, isLoop : BOOLEAN]]
  /\ "null" \notin States /\ FrameTimes \subseteq Nat /\ MaxShown \in Nat

VARIABLES
  window,        \* the window on the screen
  canvas,        \* the size of windowBuffer
  layout,        \* BoardLayout: start and size of the cells
  mapper,        \* BoardMapper: the same, as the clicks see it
  turn,          \* where the loop is
  player,        \* AnimationPlayer of the piece
  watched,       \* history: ms since player.data was set
  unseen         \* history: of these, ms of turns that drew a board without the piece

windowVars == <<window, canvas, layout, mapper, turn, player, watched, unseen>>

Smaller(x, y) == IF x < y THEN x ELSE y
Larger(x, y)  == IF x > y THEN x ELSE y

\* A margin takes at most a part of the window.
Margin(wanted, available) == Smaller(wanted, available)

\* BoardLayout::calculateLayout
calculateLayout(size) ==
  LET left   == Margin(Margins.left, size.w \div 4)
      right  == Margin(Margins.right, size.w \div 4)
      top    == Margin(Margins.top, size.h \div 8)
      bottom == Margin(Margins.bottom, size.h \div 8)
      availableWidth  == Larger(10, size.w - left - right)
      availableHeight == Larger(10, size.h - top - bottom)
      cell == Smaller(availableWidth \div BoardCells, availableHeight \div BoardCells)
  IN  [x |-> left + (availableWidth - cell * BoardCells) \div 2,
       y |-> top + (availableHeight - cell * BoardCells) \div 2,
       cell |-> cell]

\* BoardLayout::getCellPixelPos, and BoardMapper::pixelToCell, which does not
\* look where the board ends.
getCellPixelPos(l, row, col) == [x |-> l.x + col * l.cell, y |-> l.y + row * l.cell]

NoCell == [row |-> -1, col |-> -1]
pixelToCell(m, pixel) ==
  IF pixel.x < m.x \/ pixel.y < m.y THEN NoCell
  ELSE [row |-> (pixel.y - m.y) \div m.cell, col |-> (pixel.x - m.x) \div m.cell]

-----------------------------------------------------------------------------
(* AnimationPlayer and PieceView                                           *)

Stopped == [data |-> "null", elapsedMs |-> 0, frame |-> 0, finished |-> FALSE]

\* play() leaves an animation that is already on alone.
play(p, state) == IF p.data = state THEN p ELSE [Stopped EXCEPT !.data = state]

\* Mutant of NextFrame: what is left of the time is dropped.
NextFrameFromZero(p) == [p EXCEPT !.elapsedMs = 0, !.frame = @ + 1]
NextFrame(p) == [p EXCEPT !.elapsedMs = @ - Animation[p.data].msPerFrame, !.frame = @ + 1]

Playing(p) == ~p.finished /\ Animation[p.data].frames # 0

\* What update() does before its loop, at each turn of the loop, and when
\* the loop is left.
BeginUpdate(p, dt) == IF Playing(p) THEN [p EXCEPT !.elapsedMs = @ + dt] ELSE p

Wrapped(q) ==
  LET a == Animation[q.data]
  IN  CASE q.frame < a.frames -> q
        [] q.frame >= a.frames /\ a.isLoop -> [q EXCEPT !.frame = 0]
        [] q.frame >= a.frames /\ ~a.isLoop -> [q EXCEPT !.frame = a.frames - 1, !.finished = TRUE]

FrameIsOver(p) == Playing(p) /\ p.elapsedMs >= Animation[p.data].msPerFrame

syncWithModel(p, state, dt) == BeginUpdate(play(p, state), dt)

-----------------------------------------------------------------------------
(* runGameLoop                                                             *)

\* The renderer's buffer is empty until the first turn sets or clears it.
OpenWindow ==
  /\ window = ThemeSize
  /\ canvas = [w |-> 0, h |-> 0]
  /\ layout = calculateLayout(ThemeSize)
  /\ mapper = calculateLayout(ThemeSize)
  /\ turn = "resize"
  /\ player = Stopped /\ watched = 0 /\ unseen = 0

\* At any time.
UserResizes ==
  /\ \E size \in WindowSizes : window' = size
  /\ UNCHANGED <<canvas, layout, mapper, turn, player, watched, unseen>>

\* Mutant of NewMapper: updateLayout is not called.
OldMapper(l) == mapper
NewMapper(l) == l

ReadWindowRect ==
  /\ turn = "resize"
  /\ IF canvas # window
     THEN /\ layout' = calculateLayout(window)
          /\ mapper' = NewMapper(layout')
          /\ canvas' = window
     ELSE UNCHANGED <<layout, mapper, canvas>>
  /\ turn' = "draw"
  /\ UNCHANGED <<window, player, watched, unseen>>

\* getWindowImageRect throws, or finds no window.
NoWindowRect ==
  /\ turn = "resize"
  /\ turn' = "draw"
  /\ UNCHANGED <<window, canvas, layout, mapper, player, watched, unseen>>

\* clearScreen makes a buffer of its own size if there is none.
clearScreen == canvas' = IF canvas.w = 0 \/ canvas.h = 0 THEN [w |-> 1000, h |-> 700] ELSE canvas

\* renderFrame until update()'s loop, of a snapshot that has the piece.
renderFrame(state, dt) ==
  /\ turn = "draw" /\ clearScreen
  /\ player' = syncWithModel(player, state, dt)
  /\ watched' = dt + IF player.data = state THEN watched ELSE 0
  /\ unseen' = IF player.data = state THEN unseen ELSE 0
  /\ watched' <= MaxShown
  /\ turn' = "animate"
  /\ UNCHANGED <<window, layout, mapper>>

\* renderFrame of a snapshot without the piece, which was captured, or of the
\* empty snapshot that parseGameState makes of GAME_OVER_RESIGN: no view is
\* updated, and the time of the turn is spent all the same.
renderFrameWithout(dt) ==
  /\ turn = "draw" /\ clearScreen
  /\ watched' = watched + dt /\ unseen' = unseen + dt
  /\ watched' <= MaxShown
  /\ turn' = "wait"
  /\ UNCHANGED <<window, layout, mapper, player>>

\* The loop of update().
AdvanceFrame ==
  /\ turn = "animate" /\ FrameIsOver(player)
  /\ player' = Wrapped(NextFrame(player))
  /\ UNCHANGED <<window, canvas, layout, mapper, turn, watched, unseen>>

ShowFrame ==
  /\ turn = "animate" /\ ~FrameIsOver(player)
  /\ turn' = "wait"
  /\ UNCHANGED <<window, canvas, layout, mapper, player, watched, unseen>>

\* waitKey, with the clicks that Client models.
WaitKey ==
  /\ turn = "wait"
  /\ turn' = "resize"
  /\ UNCHANGED <<window, canvas, layout, mapper, player, watched, unseen>>

WindowTurn ==
  \/ UserResizes \/ ReadWindowRect \/ NoWindowRect \/ AdvanceFrame \/ ShowFrame \/ WaitKey
  \/ \E dt \in FrameTimes : renderFrameWithout(dt) \/ \E state \in States : renderFrame(state, dt)

WindowSpec == OpenWindow /\ [][WindowTurn]_windowVars

-----------------------------------------------------------------------------
(* Properties.                                                             *)

LastCell == BoardCells - 1
CornerCells == { [row |-> r, col |-> c] : r \in {0, 1, LastCell}, c \in {0, 1, LastCell} }

\* Whatever the user does to the window: a click on any pixel of a cell that is
\* drawn hits that cell, and a click beside the board hits no cell of it.
ClicksHitWhatIsDrawn ==
  /\ mapper.cell > 0
  /\ \A cell \in CornerCells, dx, dy \in {0, layout.cell - 1} :
       LET corner == getCellPixelPos(layout, cell.row, cell.col)
       IN  pixelToCell(mapper, [x |-> corner.x + dx, y |-> corner.y + dy]) = cell
  /\ LET first == getCellPixelPos(layout, 0, 0)
         end   == getCellPixelPos(layout, BoardCells, BoardCells)
     IN  /\ pixelToCell(mapper, [first EXCEPT !.x = @ - 1]) = NoCell
         /\ pixelToCell(mapper, [first EXCEPT !.y = @ - 1]) = NoCell
         /\ pixelToCell(mapper, end) = [row |-> BoardCells, col |-> BoardCells]

\* However uneven the turns are, and whatever snapshots lacked the piece in
\* between: a piece is behind its animation by exactly the turns that drew the
\* board without it since its state changed.  It shows the frame that belongs to
\* the rest of that time, all of it if no turn did, and an animation that does
\* not repeat stops at its last frame.
AnimationKeepsTime ==
  turn # "animate" /\ player.data # "null" /\ Animation[player.data].frames > 0 =>
    LET a == Animation[player.data]
        drawn == watched - unseen
        due == drawn \div a.msPerFrame
    IN  IF a.isLoop
        THEN player.frame = due % a.frames /\ player.elapsedMs = drawn % a.msPerFrame
        ELSE player.frame = Smaller(due, a.frames - 1) /\ (player.finished <=> due >= a.frames)
=============================================================================
