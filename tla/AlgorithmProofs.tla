--------------------------- MODULE AlgorithmProofs ---------------------------
(***************************************************************************)
(* Theorems about the algorithms: the window of a game, for every size and *)
(* every theme, and the rules' loops and the text format, for every board. *)
(***************************************************************************)
EXTENDS Algorithms, SequenceTheorems, FiniteSetTheorems, TLAPS

-----------------------------------------------------------------------------
(* Division: the code divides pixels by the size of a cell and times by    *)
(* that of a frame.                                                        *)

LEMMA Grows ==
  ASSUME NEW d \in Nat, NEW a \in Int, NEW b \in Int, a <= b
  PROVE  d * a <= d * b
OBVIOUS

\* Quotient and remainder are unique.
LEMMA Unique ==
  ASSUME NEW d \in Nat \ {0}, NEW q1 \in Int, NEW q2 \in Int, NEW r1 \in 0 .. d - 1, NEW r2 \in 0 .. d - 1,
         d * q1 + r1 = d * q2 + r2
  PROVE  q1 = q2 /\ r1 = r2
<1>1. ASSUME NEW a \in Int, NEW b \in Int, NEW r \in 0 .. d - 1, NEW s \in 0 .. d - 1, d * a + r = d * b + s
      PROVE  ~(a < b)
  <2>1. SUFFICES ASSUME a < b PROVE FALSE
    OBVIOUS
  <2>2. d * (a + 1) <= d * b
    BY <2>1, Grows
  <2>3. d * (a + 1) = d * a + d
    OBVIOUS
  <2>4. d * a \in Int /\ d * b \in Int
    OBVIOUS
  <2> QED
    BY <1>1, <2>2, <2>3, <2>4
<1>2. q1 = q2
  BY <1>1
<1> QED
  BY <1>2

LEMMA Division ==
  ASSUME NEW x \in Int, NEW d \in Nat \ {0}
  PROVE  x \div d \in Int /\ x % d \in 0 .. d - 1 /\ x = d * (x \div d) + (x % d)
<1>1. x \div d \in Int
  OBVIOUS
<1>2. x % d \in Int
  OBVIOUS
<1>3. x % d >= 0
  OBVIOUS
<1>4. x % d < d
  OBVIOUS
<1>5. x = d * (x \div d) + (x % d)
  OBVIOUS
<1> QED
  BY <1>1, <1>2, <1>3, <1>4, <1>5

LEMMA Quotient ==
  ASSUME NEW d \in Nat \ {0}, NEW q \in Int, NEW r \in 0 .. d - 1
  PROVE  (d * q + r) \div d = q /\ (d * q + r) % d = r
<1>1. d * q + r \in Int
  OBVIOUS
<1> QED
  BY <1>1, Division, Unique

LEMMA Divided ==
  ASSUME NEW d \in Nat \ {0}, NEW q \in Int, NEW r \in 0 .. d - 1, NEW x \in Int, x = d * q + r
  PROVE  x \div d = q /\ x % d = r
BY Quotient

-----------------------------------------------------------------------------
(* The layout and the clicks.                                              *)

IsLayout(l) == l \in [x : Int, y : Int, cell : Nat \ {0}]

LEMMA LayoutFits ==
  ASSUME NEW size \in WindowSizes
  PROVE  IsLayout(calculateLayout(size))
<1> DEFINE left   == Margin(Margins.left, size.w \div 4)
           right  == Margin(Margins.right, size.w \div 4)
           top    == Margin(Margins.top, size.h \div 8)
           bottom == Margin(Margins.bottom, size.h \div 8)
           width  == Larger(10, size.w - left - right)
           height == Larger(10, size.h - top - bottom)
           cell   == Smaller(width \div BoardCells, height \div BoardCells)
<1>1. size.w \in Nat /\ size.h \in Nat /\ BoardCells \in 1 .. 10
      /\ Margins \in [left : Nat, top : Nat, right : Nat, bottom : Nat]
  BY WindowAssumption
<1>2. left \in Int /\ right \in Int /\ top \in Int /\ bottom \in Int
  BY <1>1 DEF Margin, Smaller
<1> HIDE DEF left, right, top, bottom
<1>3. width \in Int /\ width >= 10 /\ height \in Int /\ height >= 10
  BY <1>2, <1>1 DEF Larger
<1> HIDE DEF width, height
<1>4. \A n \in Int : n >= 10 => n \div BoardCells \in Nat \ {0}
  <2>1. SUFFICES ASSUME NEW n \in Int, n >= 10 PROVE n \div BoardCells \in Nat \ {0}
    OBVIOUS
  <2>2. BoardCells \in Nat \ {0}
    BY <1>1
  <2>3. n = BoardCells * (n \div BoardCells) + (n % BoardCells) /\ n % BoardCells \in 0 .. BoardCells - 1
        /\ n \div BoardCells \in Int
    BY <2>2, Division
  <2>4. ~(n \div BoardCells <= 0)
    <3>1. n \div BoardCells <= 0 => BoardCells * (n \div BoardCells) <= BoardCells * 0
      BY <2>2, <2>3, Grows
    <3> QED
      BY <1>1, <2>1, <2>3, <3>1
  <2> QED
    BY <2>3, <2>4
<1>5. cell \in Nat \ {0}
  BY <1>3, <1>4 DEF Smaller
<1> HIDE DEF cell
<1>6. left + (width - cell * BoardCells) \div 2 \in Int /\ top + (height - cell * BoardCells) \div 2 \in Int
  <2>1. cell * BoardCells \in Int
    BY <1>1, <1>5
  <2> QED
    BY <1>2, <1>3, <2>1
<1>7. calculateLayout(size) = [x |-> left + (width - cell * BoardCells) \div 2,
                               y |-> top + (height - cell * BoardCells) \div 2, cell |-> cell]
  BY DEF calculateLayout, left, right, top, bottom, width, height, cell
<1> QED
  BY <1>5, <1>6, <1>7 DEF IsLayout

\* The pixel (dx, dy) of a cell belongs to this cell, and to no other.
LEMMA PixelOfCell ==
  ASSUME NEW l, IsLayout(l), NEW row \in Nat, NEW col \in Nat,
         NEW dx \in 0 .. l.cell - 1, NEW dy \in 0 .. l.cell - 1
  PROVE  LET corner == getCellPixelPos(l, row, col)
         IN  pixelToCell(l, [x |-> corner.x + dx, y |-> corner.y + dy]) = [row |-> row, col |-> col]
<1>1. l.x \in Int /\ l.y \in Int /\ l.cell \in Nat \ {0}
  BY DEF IsLayout
<1> DEFINE right == l.cell * col + dx
           down  == l.cell * row + dy
<1>2. l.cell * col \in Nat /\ l.cell * row \in Nat
  BY <1>1
<1>3. right \in Nat /\ down \in Nat
  BY <1>1, <1>2
<1>4. right \div l.cell = col /\ down \div l.cell = row
  <2>1. col \in Int /\ row \in Int
    OBVIOUS
  <2>2. (l.cell * col + dx) \div l.cell = col
    BY <1>1, <2>1, Quotient
  <2>3. (l.cell * row + dy) \div l.cell = row
    BY <1>1, <2>1, Quotient
  <2> QED
    BY <2>2, <2>3
<1>5. col * l.cell = l.cell * col /\ row * l.cell = l.cell * row
  BY <1>1
<1>6. (l.x + col * l.cell) + dx = l.x + right /\ (l.y + row * l.cell) + dy = l.y + down
  BY <1>1, <1>2, <1>5
<1> HIDE DEF right, down
<1>7. ~(l.x + right < l.x \/ l.y + down < l.y) /\ (l.x + right) - l.x = right /\ (l.y + down) - l.y = down
  BY <1>1, <1>3
<1> QED
  BY <1>4, <1>6, <1>7 DEF pixelToCell, getCellPixelPos

LEMMA PixelBeside ==
  ASSUME NEW l, IsLayout(l), NEW pixel, pixel.x \in Int, pixel.y \in Int, pixel.x < l.x \/ pixel.y < l.y
  PROVE  pixelToCell(l, pixel) = NoCell
BY DEF pixelToCell

MapperInv == IsLayout(layout) /\ mapper = layout /\ window \in WindowSizes

LEMMA InitMapper == OpenWindow => MapperInv
BY LayoutFits, WindowAssumption DEF OpenWindow, MapperInv

LEMMA NextMapper == ASSUME MapperInv, [WindowTurn]_windowVars PROVE MapperInv'
<1>1. CASE UserResizes
  BY <1>1 DEF UserResizes, MapperInv
<1>2. CASE ReadWindowRect
  BY <1>2, LayoutFits DEF ReadWindowRect, NewMapper, MapperInv
<1>3. CASE NoWindowRect \/ AdvanceFrame \/ ShowFrame \/ WaitKey \/ UNCHANGED windowVars
  BY <1>3 DEF NoWindowRect, AdvanceFrame, ShowFrame, WaitKey, windowVars, MapperInv
<1>4. ASSUME NEW state \in States, NEW dt \in FrameTimes, renderFrame(state, dt)
      PROVE  MapperInv'
  BY <1>4 DEF renderFrame, MapperInv
<1>5. ASSUME NEW dt \in FrameTimes, renderFrameWithout(dt)
      PROVE  MapperInv'
  BY <1>5 DEF renderFrameWithout, MapperInv
<1> QED
  BY <1>1, <1>2, <1>3, <1>4, <1>5 DEF WindowTurn

LEMMA AgreeingMapper == ASSUME MapperInv PROVE ClicksHitWhatIsDrawn
<1>1. IsLayout(layout) /\ mapper = layout /\ layout.x \in Int /\ layout.y \in Int /\ layout.cell \in Nat \ {0}
  BY DEF MapperInv, IsLayout
<1>2. BoardCells \in Nat \ {0} /\ LastCell \in Nat
  BY WindowAssumption DEF LastCell
<1>3. ASSUME NEW c \in CornerCells, NEW dx \in {0, layout.cell - 1}, NEW dy \in {0, layout.cell - 1}
      PROVE  LET corner == getCellPixelPos(layout, c.row, c.col)
             IN  pixelToCell(mapper, [x |-> corner.x + dx, y |-> corner.y + dy]) = c
  <2>1. PICK r \in {0, 1, LastCell}, k \in {0, 1, LastCell} : c = [row |-> r, col |-> k]
    BY DEF CornerCells
  <2>2. r \in Nat /\ k \in Nat /\ dx \in 0 .. layout.cell - 1 /\ dy \in 0 .. layout.cell - 1
        /\ c.row = r /\ c.col = k
    BY <1>1, <1>2, <2>1
  <2> QED
    BY <1>1, <2>1, <2>2, PixelOfCell
<1> DEFINE first == getCellPixelPos(layout, 0, 0)
           end   == getCellPixelPos(layout, BoardCells, BoardCells)
<1>4. first = [x |-> layout.x, y |-> layout.y]
  BY <1>1 DEF getCellPixelPos
<1>5. /\ pixelToCell(mapper, [first EXCEPT !.x = @ - 1]) = NoCell
      /\ pixelToCell(mapper, [first EXCEPT !.y = @ - 1]) = NoCell
  BY <1>1, <1>4, PixelBeside
<1>6. pixelToCell(mapper, end) = [row |-> BoardCells, col |-> BoardCells]
  <2>1. 0 \in 0 .. layout.cell - 1
    BY <1>1
  <2>2. pixelToCell(layout, [x |-> end.x + 0, y |-> end.y + 0]) = [row |-> BoardCells, col |-> BoardCells]
    BY <1>1, <1>2, <2>1, PixelOfCell
  <2>3. [x |-> end.x + 0, y |-> end.y + 0] = end
    BY <1>1, <1>2 DEF getCellPixelPos
  <2> QED
    BY <1>1, <2>2, <2>3
<1> QED
  BY <1>1, <1>3, <1>5, <1>6 DEF ClicksHitWhatIsDrawn

\* Whatever sizes the window gets, a click on a pixel of a cell that is drawn
\* hits this cell, and a click beside the board hits none of it.
THEOREM ClicksAreTrue == WindowSpec => []ClicksHitWhatIsDrawn
BY InitMapper, NextMapper, AgreeingMapper, PTL DEF WindowSpec
-----------------------------------------------------------------------------
(* The animation.  The time that an animation is drawn is the time of the  *)
(* frames it has shown and what has passed of the next one.                *)

Drawn == watched - unseen

FrameTime == Animation[player.data].msPerFrame
FrameCount == Animation[player.data].frames

PlayerType ==
  /\ player \in [data : States \union {"null"}, elapsedMs : Nat, frame : Nat, finished : BOOLEAN]
  /\ watched \in Nat /\ unseen \in Nat /\ Drawn \in Nat
  /\ turn \in {"resize", "draw", "animate", "wait"}
  /\ turn = "animate" => player.data # "null"

\* Frames shown, when the animation has been repeated so many times.
Shows(repeated) == Drawn = FrameTime * (FrameCount * repeated + player.frame) + player.elapsedMs

Looping  == ~player.finished /\ player.frame < FrameCount /\ \E repeated \in Nat : Shows(repeated)
Running  == ~player.finished /\ player.frame < FrameCount /\ Shows(0)
Over     == player.finished /\ player.frame = FrameCount - 1 /\ Drawn >= FrameTime * FrameCount

PlayerInv ==
  player.data # "null" /\ FrameCount > 0 =>
    /\ IF Animation[player.data].isLoop THEN Looping ELSE Running \/ Over
    /\ turn # "animate" /\ ~player.finished => player.elapsedMs < FrameTime

AnimationInv == PlayerType /\ PlayerInv

LEMMA AnimationType ==
  ASSUME NEW state \in States
  PROVE  /\ state # "null" /\ Animation[state].frames \in Nat
         /\ Animation[state].msPerFrame \in Nat \ {0} /\ Animation[state].isLoop \in BOOLEAN
BY WindowAssumption

LEMMA InitAnimation == OpenWindow => AnimationInv
BY DEF OpenWindow, Drawn, Stopped, AnimationInv, PlayerType, PlayerInv

\* A turn gives time to the animation of the state that the piece has now.
LEMMA RenderAnimation ==
  ASSUME AnimationInv, NEW state \in States, NEW dt \in FrameTimes, renderFrame(state, dt)
  PROVE  AnimationInv'
<1>1. /\ player' = BeginUpdate(play(player, state), dt)
      /\ watched' = dt + (IF player.data = state THEN watched ELSE 0)
      /\ unseen' = IF player.data = state THEN unseen ELSE 0
      /\ turn = "draw" /\ turn' = "animate"
  BY DEF renderFrame, syncWithModel
<1>2. dt \in Nat
  BY WindowAssumption
<1> DEFINE p == play(player, state)
           w == IF player.data = state THEN Drawn ELSE 0
           a == Animation[state]
<1>3. /\ state # "null" /\ a.frames \in Nat /\ a.msPerFrame \in Nat \ {0} /\ a.isLoop \in BOOLEAN
  BY AnimationType
<1>4. /\ p \in [data : States \union {"null"}, elapsedMs : Nat, frame : Nat, finished : BOOLEAN]
      /\ p.data = state /\ w \in Nat
  BY DEF AnimationInv, PlayerType, play, Stopped
<1>5. a.frames > 0 =>
        /\ IF a.isLoop
           THEN /\ ~p.finished /\ p.frame < a.frames
                /\ \E n \in Nat : w = a.msPerFrame * (a.frames * n + p.frame) + p.elapsedMs
           ELSE \/ /\ ~p.finished /\ p.frame < a.frames
                   /\ w = a.msPerFrame * (a.frames * 0 + p.frame) + p.elapsedMs
                \/ p.finished /\ p.frame = a.frames - 1 /\ w >= a.msPerFrame * a.frames
  <2>1. CASE player.data = state
    BY <1>3, <2>1 DEF AnimationInv, PlayerInv, Looping, Running, Over, Shows, FrameTime, FrameCount, play
  <2>2. CASE player.data # state
    <3>1. p.elapsedMs = 0 /\ p.frame = 0 /\ p.finished = FALSE /\ w = 0
      BY <2>2 DEF play, Stopped
    <3>2. a.frames * 0 = 0 /\ a.msPerFrame * (0 + 0) + 0 = 0
      BY <1>3
    <3>3. w = a.msPerFrame * (a.frames * 0 + p.frame) + p.elapsedMs
      BY <3>1, <3>2
    <3> HIDE DEF p, w, a
    <3> QED
      BY <1>3, <3>1, <3>3
  <2> QED
    BY <2>1, <2>2
<1> HIDE DEF p, w, a
<1>6. /\ player'.data = state /\ player'.frame = p.frame /\ player'.finished = p.finished
      /\ player'.elapsedMs = IF ~p.finished /\ a.frames # 0 THEN p.elapsedMs + dt ELSE p.elapsedMs
      /\ player' \in [data : States \union {"null"}, elapsedMs : Nat, frame : Nat, finished : BOOLEAN]
  BY <1>1, <1>2, <1>4 DEF BeginUpdate, Playing, p, a
<1>7. Drawn' = w + dt /\ Drawn' \in Nat /\ watched' \in Nat /\ unseen' \in Nat
  BY <1>1, <1>2, <1>4 DEF w, Drawn, AnimationInv, PlayerType
<1>8. PlayerType'
  BY <1>1, <1>3, <1>6, <1>7 DEF PlayerType
<1>9. FrameTime' = a.msPerFrame /\ FrameCount' = a.frames /\ Animation[player'.data].isLoop = a.isLoop
  BY <1>6 DEF FrameTime, FrameCount, a
<1>10. ASSUME a.frames > 0 PROVE IF a.isLoop THEN Looping' ELSE Running' \/ Over'
  <2>1. \A n \in Nat : a.msPerFrame * (a.frames * n + p.frame) \in Int
    BY <1>3, <1>4
  <2>2. CASE a.isLoop
    <3>1. PICK n \in Nat : w = a.msPerFrame * (a.frames * n + p.frame) + p.elapsedMs
      BY <1>5, <1>10, <2>2
    <3>2. Drawn' = a.msPerFrame * (a.frames * n + p.frame) + (p.elapsedMs + dt)
      BY <1>2, <1>4, <1>7, <2>1, <3>1
    <3>3. player'.elapsedMs = p.elapsedMs + dt /\ ~player'.finished /\ player'.frame < a.frames
      BY <1>5, <1>6, <1>10, <2>2
    <3> QED
      BY <1>6, <1>9, <2>2, <3>2, <3>3 DEF Looping, Shows
  <2>3. CASE ~a.isLoop /\ ~p.finished
    <3>1. w = a.msPerFrame * (a.frames * 0 + p.frame) + p.elapsedMs /\ p.frame < a.frames
      BY <1>5, <1>10, <2>3
    <3>2. Drawn' = a.msPerFrame * (a.frames * 0 + p.frame) + (p.elapsedMs + dt)
      BY <1>2, <1>4, <1>7, <2>1, <3>1
    <3>3. player'.elapsedMs = p.elapsedMs + dt /\ ~player'.finished /\ player'.frame < a.frames
      BY <1>6, <1>10, <2>3, <3>1
    <3> QED
      BY <1>6, <1>9, <2>3, <3>2, <3>3 DEF Running, Shows
  <2>4. CASE ~a.isLoop /\ p.finished
    <3>1. p.frame = a.frames - 1 /\ w >= a.msPerFrame * a.frames /\ a.msPerFrame * a.frames \in Int
      BY <1>3, <1>5, <1>10, <2>4
    <3>2. Drawn' >= a.msPerFrame * a.frames
      BY <1>2, <1>4, <1>7, <3>1
    <3> QED
      BY <1>6, <1>9, <2>4, <3>1, <3>2 DEF Over
  <2> QED
    BY <1>3, <2>2, <2>3, <2>4
<1> QED
  BY <1>1, <1>8, <1>9, <1>10 DEF AnimationInv, PlayerInv

\* Each turn of update()'s loop turns the time of a frame into a frame.
LEMMA AdvanceAnimation ==
  ASSUME AnimationInv, AdvanceFrame
  PROVE  AnimationInv'
<1> DEFINE t == FrameTime
           c == FrameCount
           f == player.frame
           e == player.elapsedMs
<1>1. /\ turn = "animate" /\ turn' = "animate" /\ UNCHANGED <<watched, unseen>> /\ Drawn' = Drawn
      /\ ~player.finished /\ c # 0 /\ e >= t
      /\ player' = Wrapped(NextFrame(player))
  BY DEF AdvanceFrame, FrameIsOver, Playing, FrameTime, FrameCount, Drawn
<1>2. /\ player \in [data : States \union {"null"}, elapsedMs : Nat, frame : Nat, finished : BOOLEAN]
      /\ watched \in Nat /\ unseen \in Nat /\ Drawn \in Nat
  BY DEF AnimationInv, PlayerType
<1>3. player.data # "null"
  BY <1>1 DEF AnimationInv, PlayerType
<1>4. PlayerType' /\ PlayerInv'
  <2>1. /\ player.data \in States /\ c \in Nat \ {0} /\ t \in Nat \ {0} /\ f \in Nat /\ e \in Nat
        /\ Animation[player.data].isLoop \in BOOLEAN
    BY <1>1, <1>2, <1>3, AnimationType DEF FrameTime, FrameCount
  <2> DEFINE q == NextFrame(player)
  <2>2. /\ q.data = player.data /\ q.elapsedMs = e - t /\ q.frame = f + 1 /\ q.finished = FALSE
        /\ q \in [data : States \union {"null"}, elapsedMs : Nat, frame : Nat, finished : BOOLEAN]
    <3>1. e - t \in Nat /\ f + 1 \in Nat
      BY <1>1, <2>1
    <3> QED
      BY <1>1, <1>2, <3>1 DEF NextFrame, FrameTime
  <2>3. player.frame < c /\ (IF Animation[player.data].isLoop THEN \E n \in Nat : Shows(n) ELSE Shows(0))
    BY <1>1, <1>3, <2>1 DEF AnimationInv, PlayerInv, Looping, Running, Over
  <2>4. /\ player'.data = player.data /\ player'.elapsedMs = e - t
        /\ f + 1 < c => player'.frame = f + 1 /\ player'.finished = FALSE
        /\ f + 1 >= c /\ Animation[player.data].isLoop => player'.frame = 0 /\ player'.finished = FALSE
        /\ f + 1 >= c /\ ~Animation[player.data].isLoop => player'.frame = c - 1 /\ player'.finished = TRUE
        /\ player' \in [data : States \union {"null"}, elapsedMs : Nat, frame : Nat, finished : BOOLEAN]
    <3>1. Animation[q.data].frames = c /\ Animation[q.data].isLoop = Animation[player.data].isLoop
      BY <2>2 DEF FrameCount
    <3>2. player' = Wrapped(q)
      BY <1>1
    <3> HIDE DEF q, c, f, e, t
    <3>3. c - 1 \in Nat /\ f + 1 \in Int
      BY <2>1
    <3>4. CASE f + 1 < c
      <4>1. Wrapped(q) = q
        BY <2>1, <2>2, <3>1, <3>4 DEF Wrapped
      <4> QED
        BY <2>1, <2>2, <3>2, <3>4, <4>1
    <3>5. CASE f + 1 >= c /\ Animation[player.data].isLoop
      <4>1. Wrapped(q) = [q EXCEPT !.frame = 0]
        BY <2>1, <2>2, <3>1, <3>5 DEF Wrapped
      <4> QED
        BY <2>1, <2>2, <3>2, <3>5, <4>1
    <3>6. CASE f + 1 >= c /\ ~Animation[player.data].isLoop
      <4>1. player' = [q EXCEPT !.frame = c - 1, !.finished = TRUE]
        BY <2>1, <2>2, <3>1, <3>2, <3>6 DEF Wrapped
      <4>2. /\ player'.data = q.data /\ player'.elapsedMs = q.elapsedMs
            /\ player'.frame = c - 1 /\ player'.finished = TRUE
        BY <2>2, <4>1
      <4>3. player' \in [data : States \union {"null"}, elapsedMs : Nat, frame : Nat, finished : BOOLEAN]
        BY <2>2, <3>3, <4>1
      <4>4. ~(f + 1 < c)
        BY <2>1, <3>6
      <4> QED
        BY <2>2, <3>6, <4>2, <4>3, <4>4
    <3>7. f + 1 < c \/ f + 1 >= c
      BY <2>1, <3>3
    <3> QED
      BY <3>4, <3>5, <3>6, <3>7
  <2>5. FrameTime' = t /\ FrameCount' = c
    BY <2>4 DEF FrameTime, FrameCount
  <2>6. PlayerType'
    BY <1>1, <1>2, <1>3, <2>4 DEF PlayerType
  <2> HIDE DEF t, c, f, e, q
  <2>7. \A n \in Nat : t * (c * n + (f + 1)) = t * (c * n + f) + t /\ t * (c * n + f) \in Int
    BY <2>1
  <2>8. ASSUME f + 1 < c
        PROVE  IF Animation[player.data].isLoop THEN Looping' ELSE Running' \/ Over'
    <3>1. ASSUME NEW n \in Nat, Shows(n) PROVE Shows(n)'
      <4>1. Drawn = t * (c * n + f) + e
        BY <3>1 DEF Shows, t, c, f, e
      <4>2. Drawn = t * (c * n + (f + 1)) + (e - t)
        BY <2>1, <2>7, <4>1
      <4> QED
        BY <1>1, <2>4, <2>5, <2>8, <4>2 DEF Shows
    <3>2. ~player'.finished /\ player'.frame < c
      BY <2>4, <2>8
    <3> QED
      BY <2>1, <2>3, <2>5, <3>1, <3>2 DEF Looping, Running
  <2>9. ASSUME f + 1 >= c
        PROVE  IF Animation[player.data].isLoop THEN Looping' ELSE Running' \/ Over'
    <3>1. f + 1 = c
      BY <2>1, <2>3, <2>9 DEF f
    <3>2. CASE Animation[player.data].isLoop
      <4>1. PICK n \in Nat : Shows(n)
        BY <2>3, <3>2
      <4>2. Drawn = t * (c * n + f) + e
        BY <4>1 DEF Shows, t, c, f, e
      <4>3. Drawn = t * (c * n + c) + (e - t)
        BY <2>1, <2>7, <3>1, <4>2
      <4>4. c * n + c = c * (n + 1) + 0
        BY <2>1
      <4>5. Shows(n + 1)' /\ ~player'.finished /\ player'.frame < c
        BY <1>1, <2>1, <2>4, <2>5, <2>9, <3>2, <4>3, <4>4 DEF Shows
      <4> QED
        BY <2>5, <3>2, <4>5 DEF Looping
    <3>3. CASE ~Animation[player.data].isLoop
      <4>1. Drawn = t * (c * 0 + f) + e
        BY <2>3, <3>3 DEF Shows, t, c, f, e
      <4>2. Drawn = t * (c * 0 + (f + 1)) + (e - t)
        BY <2>1, <2>7, <4>1
      <4>3. c * 0 + (f + 1) = c
        BY <2>1, <3>1
      <4>4. Drawn >= t * c
        <5>1. Drawn = t * c + (e - t) /\ t * c \in Int
          BY <2>1, <4>2, <4>3
        <5>2. e >= t
          BY <1>1 DEF e, t
        <5> QED
          BY <2>1, <5>1, <5>2
      <4> QED
        BY <1>1, <2>4, <2>5, <2>9, <3>3, <4>4 DEF Over
    <3> QED
      BY <2>1, <3>2, <3>3
  <2>10. IF Animation[player.data].isLoop THEN Looping' ELSE Running' \/ Over'
    BY <2>1, <2>8, <2>9
  <2> QED
    BY <1>1, <2>4, <2>6, <2>10 DEF PlayerInv
<1> QED
  BY <1>4 DEF AnimationInv

\* A turn without the piece leaves its animation where it is.
LEMMA RenderWithout ==
  ASSUME AnimationInv, NEW dt \in FrameTimes, renderFrameWithout(dt)
  PROVE  AnimationInv'
<1>1. /\ player' = player /\ watched' = watched + dt /\ unseen' = unseen + dt
      /\ turn = "draw" /\ turn' = "wait"
  BY DEF renderFrameWithout
<1>2. watched \in Nat /\ unseen \in Nat /\ dt \in Nat /\ Drawn \in Nat
  BY WindowAssumption DEF AnimationInv, PlayerType
<1>3. Drawn' = Drawn /\ watched' \in Nat /\ unseen' \in Nat
  BY <1>1, <1>2 DEF Drawn
<1>4. PlayerType'
  BY <1>1, <1>2, <1>3 DEF AnimationInv, PlayerType
<1>5. FrameTime' = FrameTime /\ FrameCount' = FrameCount /\ Looping' = Looping /\ Running' = Running
      /\ Over' = Over
  BY <1>1, <1>3 DEF Looping, Running, Over, Shows, FrameTime, FrameCount
<1> QED
  BY <1>1, <1>4, <1>5 DEF AnimationInv, PlayerInv

LEMMA NextAnimation == ASSUME AnimationInv, [WindowTurn]_windowVars PROVE AnimationInv'
<1>1. CASE UserResizes \/ ReadWindowRect \/ NoWindowRect \/ WaitKey \/ UNCHANGED windowVars
  <2>1. UNCHANGED <<player, watched, unseen>>
    BY <1>1 DEF UserResizes, ReadWindowRect, NoWindowRect, WaitKey, windowVars
  <2>2. UNCHANGED turn \/ (turn # "animate" /\ turn' \in {"resize", "draw"})
    BY <1>1 DEF UserResizes, ReadWindowRect, NoWindowRect, WaitKey, windowVars
  <2> QED
    BY <2>1, <2>2 DEF AnimationInv, PlayerType, PlayerInv, Looping, Running, Over, Shows, FrameTime, FrameCount, Drawn
<1>2. CASE ShowFrame
  <2>1. /\ UNCHANGED <<player, watched, unseen>> /\ turn' = "wait" /\ turn = "animate"
        /\ ~player.finished /\ FrameCount # 0 => ~(player.elapsedMs >= FrameTime)
    BY <1>2 DEF ShowFrame, FrameIsOver, Playing, FrameTime, FrameCount
  <2>2. player.data # "null" /\ player.elapsedMs \in Nat /\ FrameTime \in Nat
    BY <2>1, AnimationType DEF AnimationInv, PlayerType, FrameTime
  <2>3. PlayerType'
    BY <2>1 DEF AnimationInv, PlayerType, Drawn
  <2>4. FrameTime' = FrameTime /\ FrameCount' = FrameCount /\ Looping' = Looping /\ Running' = Running
        /\ Over' = Over
    BY <2>1 DEF Looping, Running, Over, Shows, FrameTime, FrameCount, Drawn
  <2> QED
    BY <2>1, <2>2, <2>3, <2>4 DEF AnimationInv, PlayerInv
<1>3. CASE AdvanceFrame
  BY <1>3, AdvanceAnimation
<1>4. ASSUME NEW state \in States, NEW dt \in FrameTimes, renderFrame(state, dt)
      PROVE  AnimationInv'
  BY <1>4, RenderAnimation
<1>5. ASSUME NEW dt \in FrameTimes, renderFrameWithout(dt)
      PROVE  AnimationInv'
  BY <1>5, RenderWithout
<1> QED
  BY <1>1, <1>2, <1>3, <1>4, <1>5 DEF WindowTurn

LEMMA KeptTime == ASSUME AnimationInv PROVE AnimationKeepsTime
<1> SUFFICES ASSUME turn # "animate", player.data # "null", FrameCount > 0
             PROVE  LET due == Drawn \div FrameTime
                    IN  IF Animation[player.data].isLoop
                        THEN player.frame = due % FrameCount /\ player.elapsedMs = Drawn % FrameTime
                        ELSE /\ player.frame = Smaller(due, FrameCount - 1)
                             /\ player.finished <=> due >= FrameCount
  BY DEF AnimationKeepsTime, FrameTime, FrameCount, Drawn
<1>1. /\ FrameCount \in Nat \ {0} /\ FrameTime \in Nat \ {0} /\ player.frame \in Nat
      /\ player.elapsedMs \in Nat /\ Drawn \in Nat /\ player.finished \in BOOLEAN
      /\ Animation[player.data].isLoop \in BOOLEAN
  BY AnimationType DEF AnimationInv, PlayerType, FrameTime, FrameCount
<1>2. ~player.finished => player.elapsedMs \in 0 .. FrameTime - 1
  BY <1>1 DEF AnimationInv, PlayerInv
<1>3. CASE Animation[player.data].isLoop
  <2>1. PICK n \in Nat : Drawn = FrameTime * (FrameCount * n + player.frame) + player.elapsedMs
    BY <1>3 DEF AnimationInv, PlayerInv, Looping, Shows
  <2>2. /\ ~player.finished /\ player.frame \in 0 .. FrameCount - 1 /\ n \in Int
        /\ FrameCount * n + player.frame \in Int
    BY <1>1, <1>3 DEF AnimationInv, PlayerInv, Looping
  <2>3. FrameTime \in Nat \ {0} /\ player.elapsedMs \in 0 .. FrameTime - 1 /\ FrameCount \in Nat \ {0}
    BY <1>1, <1>2, <2>2
  <2>4. Drawn \div FrameTime = FrameCount * n + player.frame /\ Drawn % FrameTime = player.elapsedMs
    <3> DEFINE shown == FrameCount * n + player.frame
    <3>1. shown \in Int /\ Drawn \in Int /\ Drawn = FrameTime * shown + player.elapsedMs
      BY <1>1, <2>1, <2>2
    <3> HIDE DEF shown
    <3> DEFINE due  == Drawn \div FrameTime
               rest == Drawn % FrameTime
    <3>2. due \in Int /\ rest \in 0 .. FrameTime - 1 /\ Drawn = FrameTime * due + rest
      BY <2>3, <3>1, Division
    <3> HIDE DEF due, rest
    <3>3. due = shown /\ rest = player.elapsedMs
      BY <2>3, <3>1, <3>2, Unique
    <3> QED
      BY <3>3 DEF shown, due, rest
  <2>5. (FrameCount * n + player.frame) % FrameCount = player.frame
    BY <2>2, <2>3, Quotient
  <2> QED
    BY <1>3, <2>4, <2>5
<1>4. CASE ~Animation[player.data].isLoop /\ Running
  <2>1. /\ ~player.finished /\ player.frame < FrameCount
        /\ Drawn = FrameTime * (FrameCount * 0 + player.frame) + player.elapsedMs
    BY <1>4 DEF Running, Shows
  <2>2. Drawn = FrameTime * player.frame + player.elapsedMs /\ player.frame \in Int
    BY <1>1, <2>1
  <2>3. Drawn \div FrameTime = player.frame
    <3>1. FrameTime \in Nat \ {0} /\ player.elapsedMs \in 0 .. FrameTime - 1 /\ Drawn \in Int
      BY <1>1, <1>2, <2>1
    <3> QED
      BY <2>2, <3>1, Divided, Zenon
  <2>4. ~(player.frame >= FrameCount) /\ Smaller(player.frame, FrameCount - 1) = player.frame
    BY <1>1, <2>1 DEF Smaller
  <2> QED
    BY <1>4, <2>1, <2>3, <2>4
<1>5. CASE ~Animation[player.data].isLoop /\ Over
  <2>1. player.finished /\ player.frame = FrameCount - 1 /\ Drawn >= FrameTime * FrameCount
    BY <1>5 DEF Over
  <2> DEFINE due == Drawn \div FrameTime
  <2>2. /\ due \in Int /\ Drawn % FrameTime \in 0 .. FrameTime - 1
        /\ Drawn = FrameTime * due + (Drawn % FrameTime)
    BY <1>1, Division
  <2> HIDE DEF due
  <2>3. ~(due < FrameCount)
    <3>1. due < FrameCount => FrameTime * (due + 1) <= FrameTime * FrameCount
      BY <1>1, <2>2, Grows
    <3>2. FrameTime * (due + 1) = FrameTime * due + FrameTime /\ FrameTime * due \in Int
          /\ FrameTime * FrameCount \in Int
      BY <1>1, <2>2
    <3> QED
      BY <1>1, <2>1, <2>2, <3>1, <3>2
  <2>4. player.frame = Smaller(due, FrameCount - 1) /\ player.finished /\ due >= FrameCount
    BY <1>1, <2>1, <2>2, <2>3 DEF Smaller
  <2> QED
    BY <1>5, <2>4 DEF due
<1> QED
  BY <1>1, <1>3, <1>4, <1>5 DEF AnimationInv, PlayerInv

\* However uneven the turns of the loop are, for every animation: a piece shows
\* the frame that belongs to the time since its state changed, less the turns
\* that drew a snapshot without it, which is time the animation never gets.
THEOREM FramesKeepTime == WindowSpec => []AnimationKeepsTime
BY InitAnimation, NextAnimation, KeptTime, PTL DEF WindowSpec

-----------------------------------------------------------------------------
(* The rules' loops.  What has been collected and what is still to visit   *)
(* make up, at every turn of a loop, the destinations of PieceRules.       *)

Visit(s) == {s[k] : k \in 1 .. Len(s)}

LEMMA VisitTail ==
  ASSUME NEW T, NEW s \in Seq(T), s # << >>
  PROVE  /\ Head(s) \in T /\ Tail(s) \in Seq(T)
         /\ Visit(s) = {Head(s)} \union Visit(Tail(s))
         /\ Visit(s) \subseteq T
<1> DEFINE t == Tail(s)
<1>1. /\ t \in Seq(T) /\ Len(t) = Len(s) - 1 /\ Len(s) \in Nat \ {0}
      /\ \A k \in 1 .. Len(t) : t[k] = s[k + 1]
      /\ Head(s) = s[1]
  BY HeadTailProperties, EmptySeq
<1>2. \A k \in 1 .. Len(s) : s[k] \in T
  BY ElementOfSeq
<1> HIDE DEF t
<1>3. \A k \in 1 .. Len(s) : k = 1 \/ (k - 1 \in 1 .. Len(t) /\ t[k - 1] = s[k])
  BY <1>1
<1>4. 1 \in 1 .. Len(s) /\ \A k \in 1 .. Len(t) : k + 1 \in 1 .. Len(s)
  BY <1>1
<1>5. Visit(s) = {s[1]} \union Visit(t)
  BY <1>1, <1>3, <1>4 DEF Visit
<1>6. Visit(s) \subseteq T
  BY <1>2 DEF Visit
<1> QED
  BY <1>1, <1>2, <1>4, <1>5, <1>6 DEF t

LEMMA VisitEmpty == Visit(<< >>) = {}
BY DEF Visit

LEMMA VisitBoth ==
  ASSUME NEW T, NEW s \in Seq(T), NEW t \in Seq(T)
  PROVE  Visit(s \o t) = Visit(s) \union Visit(t)
<1> DEFINE u == s \o t
<1>1. /\ Len(u) = Len(s) + Len(t) /\ Len(s) \in Nat /\ Len(t) \in Nat
      /\ \A k \in 1 .. Len(s) + Len(t) : u[k] = IF k <= Len(s) THEN s[k] ELSE t[k - Len(s)]
  BY ConcatProperties, LenProperties
<1> HIDE DEF u
<1>2. \A k \in 1 .. Len(s) : k \in 1 .. Len(u) /\ u[k] = s[k]
  BY <1>1
<1>3. \A k \in 1 .. Len(t) : k + Len(s) \in 1 .. Len(u) /\ u[k + Len(s)] = t[k]
  <2>1. SUFFICES ASSUME NEW k \in 1 .. Len(t) PROVE k + Len(s) \in 1 .. Len(u) /\ u[k + Len(s)] = t[k]
    OBVIOUS
  <2>2. /\ k + Len(s) \in 1 .. Len(s) + Len(t) /\ ~(k + Len(s) <= Len(s))
        /\ (k + Len(s)) - Len(s) = k
    BY <1>1
  <2>3. u[k + Len(s)] = t[(k + Len(s)) - Len(s)]
    BY <1>1, <2>2
  <2> QED
    BY <1>1, <2>2, <2>3
<1>4. \A k \in 1 .. Len(u) : k \in 1 .. Len(s) \/ (k - Len(s) \in 1 .. Len(t) /\ u[k] = t[k - Len(s)])
  <2>1. SUFFICES ASSUME NEW k \in 1 .. Len(u), ~(k \in 1 .. Len(s))
                 PROVE  k - Len(s) \in 1 .. Len(t) /\ u[k] = t[k - Len(s)]
    OBVIOUS
  <2>2. /\ k \in 1 .. Len(s) + Len(t) /\ ~(k <= Len(s)) /\ k - Len(s) \in 1 .. Len(t)
    BY <1>1, <2>1
  <2> QED
    BY <1>1, <2>2
<1>5. Visit(u) \subseteq Visit(s) \union Visit(t)
  <2>1. \A k \in 1 .. Len(u) : u[k] \in Visit(s) \/ u[k] \in Visit(t)
    BY <1>2, <1>4 DEF Visit
  <2> QED
    BY <2>1 DEF Visit
<1>6. Visit(s) \subseteq Visit(u)
  BY <1>2, Zenon DEF Visit
<1>7. Visit(t) \subseteq Visit(u)
  BY <1>3, Zenon DEF Visit
<1> QED
  BY <1>5, <1>6, <1>7 DEF u

LEMMA VisitTwo ==
  ASSUME NEW T, NEW a \in T, NEW b \in T
  PROVE  << a, b >> \in Seq(T) /\ Visit(<< a, b >>) = {a, b}
<1>1. << a, b >> \in Seq(T) /\ Len(<< a, b >>) = 2 /\ << a, b >>[1] = a /\ << a, b >>[2] = b
  OBVIOUS
<1>2. 1 .. 2 = {1, 2}
  OBVIOUS
<1> QED
  BY <1>1, <1>2 DEF Visit

LEMMA VisitFour ==
  ASSUME NEW T, NEW a \in T, NEW b \in T, NEW c \in T, NEW d \in T
  PROVE  << a, b, c, d >> \in Seq(T) /\ Visit(<< a, b, c, d >>) = {a, b, c, d}
<1> DEFINE s == << a, b, c, d >>
<1>1. s \in Seq(T) /\ Len(s) = 4 /\ s[1] = a /\ s[2] = b /\ s[3] = c /\ s[4] = d
  OBVIOUS
<1>2. 1 .. 4 = {1, 2, 3, 4}
  OBVIOUS
<1> HIDE DEF s
<1>3. Visit(s) = {a, b, c, d}
  BY <1>1, <1>2 DEF Visit
<1> QED
  BY <1>1, <1>3 DEF s

Queens == Straight \union Diagonal

LEMMA VisitDirections ==
  /\ RookDirections \in Seq(Queens) /\ Visit(RookDirections) = Straight
  /\ BishopDirections \in Seq(Queens) /\ Visit(BishopDirections) = Diagonal
  /\ RookDirections \o BishopDirections \in Seq(Queens)
  /\ Visit(RookDirections \o BishopDirections) = Queens
<1>0. /\ <<0, 1>> \in Queens /\ <<0, -1>> \in Queens /\ <<1, 0>> \in Queens /\ <<-1, 0>> \in Queens
      /\ <<1, 1>> \in Queens /\ <<1, -1>> \in Queens /\ <<-1, 1>> \in Queens /\ <<-1, -1>> \in Queens
  BY Zenon DEF Queens, Straight, Diagonal
<1>1. RookDirections \in Seq(Queens) /\ Visit(RookDirections) = Straight
  <2> DEFINE a == <<0, 1>>
             b == <<0, -1>>
             c == <<1, 0>>
             d == <<-1, 0>>
  <2>1. a \in Queens /\ b \in Queens /\ c \in Queens /\ d \in Queens
    BY <1>0
  <2>2. RookDirections = << a, b, c, d >> /\ Straight = {a, b, c, d}
    BY DEF RookDirections, Straight
  <2> HIDE DEF a, b, c, d
  <2> QED
    BY <2>1, <2>2, VisitFour
<1>2. BishopDirections \in Seq(Queens) /\ Visit(BishopDirections) = Diagonal
  <2> DEFINE a == <<1, 1>>
             b == <<1, -1>>
             c == <<-1, 1>>
             d == <<-1, -1>>
  <2>1. a \in Queens /\ b \in Queens /\ c \in Queens /\ d \in Queens
    BY <1>0
  <2>2. BishopDirections = << a, b, c, d >> /\ Diagonal = {a, b, c, d}
    BY DEF BishopDirections, Diagonal
  <2> HIDE DEF a, b, c, d
  <2> QED
    BY <2>1, <2>2, VisitFour
<1>3. RookDirections \o BishopDirections \in Seq(Queens)
  BY <1>1, <1>2, ConcatProperties
<1>4. Visit(RookDirections \o BishopDirections) = Visit(RookDirections) \union Visit(BishopDirections)
  BY <1>1, <1>2, VisitBoth
<1> QED
  BY <1>1, <1>2, <1>3, <1>4 DEF Queens

Captures == {<<PawnDirection(Color[piece]), -1>>, <<PawnDirection(Color[piece]), 1>>}

\* What the loops visit, for each kind of piece.
LEMMA VisitAll ==
  /\ kind = "Rook" => Directions(kind) \in Seq(Queens) /\ Visit(Directions(kind)) = Straight
  /\ kind = "Bishop" => Directions(kind) \in Seq(Queens) /\ Visit(Directions(kind)) = Diagonal
  /\ kind \in {"Queen", "King"} => Directions(kind) \in Seq(Queens) /\ Visit(Directions(kind)) = Queens
  /\ kind = "Knight" => /\ Directions(kind) \in Seq(KnightOffsets)
                        /\ Visit(Directions(kind)) = KnightOffsets
  /\ kind = "Pawn" => Directions(kind) \in Seq(Captures) /\ Visit(Directions(kind)) = Captures
<1>1. CASE kind \in {"Rook", "Bishop", "Queen", "King"}
  BY <1>1, VisitDirections DEF Directions
<1>2. CASE kind = "Knight"
  <2> DEFINE a == <<2, 1>>    b == <<2, -1>>   c == <<-2, 1>>   d == <<-2, -1>>
             e == <<1, 2>>    f == <<1, -2>>   g == <<-1, 2>>   h == <<-1, -2>>
  <2>1. Directions(kind) = << a, b, c, d, e, f, g, h >>
    BY <1>2 DEF Directions
  <2>2. KnightOffsets = {a, b, c, d, e, f, g, h}
    BY DEF KnightOffsets
  <2> HIDE DEF a, b, c, d, e, f, g, h
  <2>3. /\ a \in KnightOffsets /\ b \in KnightOffsets /\ c \in KnightOffsets /\ d \in KnightOffsets
        /\ e \in KnightOffsets /\ f \in KnightOffsets /\ g \in KnightOffsets /\ h \in KnightOffsets
    BY <2>2
  <2>5. /\ << a, b, c, d, e, f, g, h >> \in Seq(KnightOffsets)
        /\ Visit(<< a, b, c, d, e, f, g, h >>) = {a, b, c, d, e, f, g, h}
    <3>1. << a, b, c, d >> \in Seq(KnightOffsets) /\ << e, f, g, h >> \in Seq(KnightOffsets)
      BY <2>3
    <3>2. Visit(<< a, b, c, d >>) = {a, b, c, d} /\ Visit(<< e, f, g, h >>) = {e, f, g, h}
      BY <2>3, VisitFour
    <3>3. << a, b, c, d, e, f, g, h >> = << a, b, c, d >> \o << e, f, g, h >>
      OBVIOUS
    <3>4. /\ << a, b, c, d >> \o << e, f, g, h >> \in Seq(KnightOffsets)
          /\ Visit(<< a, b, c, d >> \o << e, f, g, h >>)
               = Visit(<< a, b, c, d >>) \union Visit(<< e, f, g, h >>)
      BY <3>1, VisitBoth, ConcatProperties
    <3> QED
      BY <3>2, <3>3, <3>4
  <2>4. Directions(kind) \in Seq(KnightOffsets) /\ Visit(Directions(kind)) = KnightOffsets
    BY <2>1, <2>2, <2>5, Zenon
  <2> QED
    BY <1>2, <2>4
<1>3. CASE kind = "Pawn"
  <2>1. Directions(kind) = << <<PawnDirection(Color[piece]), -1>>, <<PawnDirection(Color[piece]), 1>> >>
    BY <1>3 DEF Directions
  <2>2. /\ <<PawnDirection(Color[piece]), -1>> \in Captures
        /\ <<PawnDirection(Color[piece]), 1>> \in Captures
    BY Zenon DEF Captures
  <2>3. Directions(kind) \in Seq(Captures) /\ Visit(Directions(kind)) = Captures
    BY <2>1, <2>2, VisitTwo, Zenon DEF Captures
  <2> QED
    BY <1>3, <2>3
<1> QED
  BY <1>1, <1>2, <1>3

-----------------------------------------------------------------------------
(* A slide: the cells it visits lie on the ray of its direction, and no    *)
(* cell of the board is farther away than Width + Height.                  *)

LEMMA UnitDirections ==
  ASSUME NEW d \in Queens
  PROVE  /\ d[1] \in {-1, 0, 1} /\ d[2] \in {-1, 0, 1}
         /\ d[1] # 0 \/ d[2] # 0
         /\ d # NoDir
BY DEF Queens, Straight, Diagonal, NoDir

LEMMA NoFartherThan ==
  ASSUME NEW f \in Cells, NEW d \in Queens, NEW n \in Nat, isInside(Shift(f, d, n))
  PROVE  n <= Width + Height
<1>1. /\ d[1] \in {-1, 0, 1} /\ d[2] \in {-1, 0, 1} /\ (d[1] # 0 \/ d[2] # 0)
  BY UnitDirections
<1>2. /\ f.row \in 0 .. Height - 1 /\ f.col \in 0 .. Width - 1 /\ Width \in Nat /\ Height \in Nat
  BY BoardAssumption DEF Cells
<1>3. /\ f.row + n * d[1] >= 0 /\ f.row + n * d[1] < Height
      /\ f.col + n * d[2] >= 0 /\ f.col + n * d[2] < Width
  BY DEF isInside, Shift, At
<1>4. CASE d[1] = 1
  BY <1>2, <1>3, <1>4
<1>5. CASE d[1] = -1
  <2>1. n * d[1] = 0 - n
    BY <1>5
  <2> QED
    BY <1>2, <1>3, <2>1
<1>6. CASE d[2] = 1
  BY <1>2, <1>3, <1>6
<1>7. CASE d[2] = -1
  <2>1. n * d[2] = 0 - n
    BY <1>7
  <2> QED
    BY <1>2, <1>3, <2>1
<1> QED
  BY <1>1, <1>4, <1>5, <1>6, <1>7

LEMMA OneMore ==
  ASSUME NEW f \in Cells, NEW d \in Queens, NEW m \in Nat
  PROVE  /\ Shift(Shift(f, d, m), d, 1) = Shift(f, d, m + 1)
         /\ Shift(f, d, 0) = f
<1>1. d[1] \in {-1, 0, 1} /\ d[2] \in {-1, 0, 1}
  BY UnitDirections
<1>2. f.row \in Int /\ f.col \in Int /\ f = [row |-> f.row, col |-> f.col]
  BY BoardAssumption DEF Cells
<1>3. \A a \in {-1, 0, 1}, r \in Int : (r + m * a) + 1 * a = r + (m + 1) * a /\ r + 0 * a = r
  OBVIOUS
<1>4. /\ (f.row + m * d[1]) + 1 * d[1] = f.row + (m + 1) * d[1]
      /\ (f.col + m * d[2]) + 1 * d[2] = f.col + (m + 1) * d[2]
      /\ f.row + 0 * d[1] = f.row /\ f.col + 0 * d[2] = f.col
  BY <1>1, <1>2, <1>3
<1> QED
  BY <1>2, <1>4 DEF Shift, At

\* The destinations of a slide that are farther than m cells away.
Beyond(d, m) == { Shift(from, d, k) :
                  k \in { n \in 1 .. (Width + Height) : n > m /\ Reaches(grid, piece, from, d, n) } }

Legal == LegalDestinations(grid, piece, kind, from)

ToSlide == SlidingDestinations(grid, piece, from, Visit(todo))
ToStep  == SteppingDestinations(grid, piece, from, Visit(todo))
ToTake  == { pos \in { Shift(from, d, 1) : d \in Visit(todo) } :
             Holds(grid, pos) /\ Enemies(grid[pos], piece) }

Offsets == CASE kind = "Knight" -> KnightOffsets
             [] kind = "Pawn" -> Captures
             [] OTHER -> Queens

LoopType ==
  /\ grid \in [Cells -> Pieces \union {NoPiece}]
  /\ from \in Cells /\ piece = grid[from] /\ piece # NoPiece
  /\ kind \in Kinds
  /\ todo \in Seq(Offsets)
  /\ at \in {Start(kind), "done"} \/ (kind = "Pawn" /\ at \in {"forward2", "capture"})

Walked(m) ==
  /\ current = Shift(from, dir, m)
  /\ \A n \in 1 .. m : Empty(grid, Shift(from, dir, n))

LoopInv ==
  /\ at = "slide" /\ dir = NoDir => destinations \union ToSlide = Legal
  /\ at = "slide" /\ dir # NoDir =>
       /\ dir \in Queens
       /\ \E m \in Nat : Walked(m) /\ destinations \union Beyond(dir, m) \union ToSlide = Legal
  /\ at = "step" => destinations \union ToStep = Legal
  /\ at = "forward1" => todo = Directions(kind) /\ destinations = {}
  /\ at = "forward2" => /\ todo = Directions(kind)
                        /\ canMoveOneStep = Empty(grid, Forward(1))
                        /\ destinations = { pos \in {Forward(1)} : Empty(grid, pos) }
  /\ at = "capture" => destinations \union ToTake = Legal
  /\ at = "done" => destinations = Legal

LoopsInv == LoopType /\ LoopInv

LEMMA StartOf ==
  ASSUME kind \in Kinds
  PROVE  /\ kind \in {"Rook", "Bishop", "Queen"} => Start(kind) = "slide"
         /\ kind \in {"Knight", "King"} => Start(kind) = "step"
         /\ kind = "Pawn" => Start(kind) = "forward1"
BY DEF Start, Kinds

LEMMA AtOf ==
  ASSUME LoopType
  PROVE  /\ at = "slide" => kind \in {"Rook", "Bishop", "Queen"} /\ Offsets = Queens
         /\ at = "step" => kind \in {"Knight", "King"}
         /\ at \in {"forward1", "forward2", "capture"} => kind = "Pawn" /\ Offsets = Captures
         /\ at = "slide" \/ at = "step" \/ at = "forward1" \/ at = "forward2" \/ at = "capture" \/ at = "done"
<1>1. kind \in {"Rook", "Bishop", "Queen"} \/ kind \in {"Knight", "King"} \/ kind = "Pawn"
  BY DEF LoopType, Kinds
<1>2. at \in {Start(kind), "done"} \/ (kind = "Pawn" /\ at \in {"forward2", "capture"})
  BY DEF LoopType
<1> QED
  BY <1>1, <1>2, StartOf DEF LoopType, Offsets

LEMMA MoreToSlide ==
  ASSUME NEW d, NEW D, NEW D2, D2 = {d} \union D
  PROVE  SlidingDestinations(grid, piece, from, D2) =
           Beyond(d, 0) \union SlidingDestinations(grid, piece, from, D)
<1>1. Beyond(d, 0) = { Shift(from, d, k) :
                       k \in { n \in 1 .. (Width + Height) : Reaches(grid, piece, from, d, n) } }
  <2>1. \A n \in 1 .. (Width + Height) : n > 0
    BY BoardAssumption
  <2> QED
    BY <2>1, Zenon DEF Beyond
<1> DEFINE R(x) == { Shift(from, x, k) :
                     k \in { n \in 1 .. (Width + Height) : Reaches(grid, piece, from, x, n) } }
<1>2. SlidingDestinations(grid, piece, from, D2) = UNION { R(x) : x \in D2 }
  BY DEF SlidingDestinations
<1>3. SlidingDestinations(grid, piece, from, D) = UNION { R(x) : x \in D }
  BY DEF SlidingDestinations
<1>4. Beyond(d, 0) = R(d)
  BY <1>1
<1> HIDE DEF R
<1>5. UNION { R(x) : x \in D2 } = R(d) \union UNION { R(x) : x \in D }
  OBVIOUS
<1> QED
  BY <1>2, <1>3, <1>4, <1>5

LEMMA InitLoops == Init => LoopsInv
<1> SUFFICES ASSUME Init PROVE LoopsInv
  OBVIOUS
<1>1. /\ grid \in [Cells -> Pieces \union {NoPiece}] /\ from \in Cells
      /\ piece = grid[from] /\ piece # NoPiece /\ kind \in Kinds /\ at = Start(kind)
  BY PlacementsAssumption DEF Init
<1>2. todo = Directions(kind) /\ dir = NoDir /\ destinations = {}
  BY DEF Init
<1>3. LoopType
  <2>1. todo \in Seq(Offsets)
    BY <1>1, <1>2, VisitAll, Zenon DEF Offsets, Kinds
  <2> QED
    BY <1>1, <2>1 DEF LoopType
<1>4. at = "slide" => ToSlide = Legal
  <2>1. SUFFICES ASSUME at = "slide" PROVE ToSlide = Legal
    OBVIOUS
  <2>2. kind \in {"Rook", "Bishop", "Queen"}
    BY <1>3, <2>1, AtOf
  <2>3. CASE kind = "Rook"
    BY <1>2, <2>3, VisitAll DEF ToSlide, Legal, LegalDestinations
  <2>4. CASE kind = "Bishop"
    BY <1>2, <2>4, VisitAll DEF ToSlide, Legal, LegalDestinations
  <2>5. CASE kind = "Queen"
    BY <1>2, <2>5, VisitAll DEF ToSlide, Legal, LegalDestinations, Queens
  <2> QED
    BY <2>2, <2>3, <2>4, <2>5
<1>5. at = "step" => ToStep = Legal
  <2>1. SUFFICES ASSUME at = "step" PROVE ToStep = Legal
    OBVIOUS
  <2>2. kind \in {"Knight", "King"}
    BY <1>3, <2>1, AtOf
  <2>3. CASE kind = "Knight"
    BY <1>2, <2>3, VisitAll DEF ToStep, Legal, LegalDestinations
  <2>4. CASE kind = "King"
    BY <1>2, <2>4, VisitAll DEF ToStep, Legal, LegalDestinations, Queens
  <2> QED
    BY <2>2, <2>3, <2>4
<1>6. at \notin {"forward2", "capture", "done"}
  BY <1>1, StartOf DEF Kinds
<1> QED
  BY <1>2, <1>3, <1>4, <1>5, <1>6 DEF LoopsInv, LoopInv

LEMMA StepNextDirection == LoopsInv /\ NextDirection => LoopsInv'
<1> SUFFICES ASSUME LoopsInv, NextDirection PROVE LoopsInv'
  OBVIOUS
<1>1. /\ at = "slide" /\ dir = NoDir /\ todo # << >> /\ at' = "slide"
      /\ dir' = Head(todo) /\ todo' = Tail(todo) /\ current' = from
      /\ grid' = grid /\ piece' = piece /\ kind' = kind /\ from' = from /\ destinations' = destinations
  BY DEF NextDirection, args
<1>2. /\ LoopType /\ Offsets = Queens /\ Offsets' = Offsets
      /\ todo \in Seq(Queens) /\ destinations \union ToSlide = Legal /\ Legal' = Legal
  BY <1>1, AtOf DEF LoopsInv, LoopInv, LoopType, Offsets, Captures, Legal
<1>3. /\ dir' \in Queens /\ todo' \in Seq(Queens) /\ Visit(todo) = {dir'} \union Visit(todo')
  BY <1>1, <1>2, VisitTail
<1>4. LoopType'
  BY <1>1, <1>2, <1>3 DEF LoopType, Start
<1>5. ToSlide = Beyond(dir', 0) \union ToSlide'
  <2>1. ToSlide' = SlidingDestinations(grid, piece, from, Visit(todo'))
    BY <1>1 DEF ToSlide
  <2> QED
    BY <1>3, <2>1, MoreToSlide DEF ToSlide
<1>6. Beyond(dir, 0)' = Beyond(dir', 0)
  BY <1>1 DEF Beyond
<1>7. destinations' \union Beyond(dir, 0)' \union ToSlide' = Legal'
  BY <1>1, <1>2, <1>5, <1>6
<1>8. Walked(0)'
  BY <1>1, <1>2, <1>3, OneMore DEF Walked, LoopType
<1>9. \E m \in Nat : Walked(m)' /\ destinations' \union Beyond(dir, m)' \union ToSlide' = Legal'
  BY <1>7, <1>8, Zenon
<1>10. dir' # NoDir
  BY <1>3, UnitDirections
<1> QED
  BY <1>1, <1>3, <1>4, <1>9, <1>10 DEF LoopsInv, LoopInv

LEMMA StepSlide == LoopsInv /\ Slide => LoopsInv'
<1> SUFFICES ASSUME LoopsInv, Slide PROVE LoopsInv'
  OBVIOUS
<1> DEFINE next == Shift(current, dir, 1)
<1>1. /\ at = "slide" /\ dir # NoDir /\ at' = "slide" /\ todo' = todo
      /\ grid' = grid /\ piece' = piece /\ kind' = kind /\ from' = from
  BY DEF Slide, args
<1>2. /\ current' = next
      /\ dir' = IF Empty(grid, next) THEN dir ELSE NoDir
      /\ destinations' = IF Enterable(grid, piece, next) THEN destinations \union {next} ELSE destinations
  BY DEF Slide, Empty, Enterable, getPiece
<1>3. LoopType /\ dir \in Queens /\ Legal' = Legal /\ ToSlide' = ToSlide
  BY <1>1 DEF LoopsInv, LoopInv, Legal, ToSlide
<1>4. LoopType'
  BY <1>1, <1>3 DEF LoopType, Offsets, Captures, Start
<1>5. PICK m \in Nat : Walked(m) /\ destinations \union Beyond(dir, m) \union ToSlide = Legal
  BY <1>1 DEF LoopsInv, LoopInv
<1>6. next = Shift(from, dir, m + 1)
  BY <1>3, <1>5, OneMore DEF Walked, LoopType
<1> HIDE DEF next
<1>7. Reaches(grid, piece, from, dir, m + 1) <=> Enterable(grid, piece, next)
  BY <1>5, <1>6 DEF Reaches, Walked
<1>8. Enterable(grid, piece, next) => m + 1 \in 1 .. (Width + Height)
  <2>1. isInside(next) => m + 1 <= Width + Height
    BY <1>3, <1>6, NoFartherThan DEF LoopType
  <2>2. Enterable(grid, piece, next) => isInside(next)
    BY DEF Enterable
  <2> QED
    BY <2>1, <2>2, BoardAssumption
<1>9. CASE Empty(grid, next)
  <2>1. Enterable(grid, piece, next)
    BY <1>9 DEF Empty, Enterable
  <2>2. dir' = dir /\ destinations' = destinations \union {next}
    BY <1>2, <1>9, <2>1
  <2>3. Beyond(dir, m) = {next} \union Beyond(dir, m + 1)
    <3>1. \A n \in 1 .. (Width + Height) : n > m <=> (n = m + 1 \/ n > m + 1)
      BY BoardAssumption
    <3>2. m + 1 \in 1 .. (Width + Height) /\ Reaches(grid, piece, from, dir, m + 1)
      BY <1>7, <1>8, <2>1
    <3>3. m + 1 > m
      OBVIOUS
    <3>4. Beyond(dir, m) \subseteq {next} \union Beyond(dir, m + 1)
      BY <3>1, <1>6, Zenon DEF Beyond
    <3>5. {next} \union Beyond(dir, m + 1) \subseteq Beyond(dir, m)
      BY <3>1, <3>2, <3>3, <1>6, Zenon DEF Beyond
    <3> QED
      BY <3>4, <3>5
  <2>4. Walked(m + 1)'
    <3>1. \A n \in 1 .. (m + 1) : n \in 1 .. m \/ n = m + 1
      OBVIOUS
    <3>2. \A n \in 1 .. (m + 1) : Empty(grid, Shift(from, dir, n))
      BY <3>1, <1>5, <1>6, <1>9, Zenon DEF Walked
    <3> QED
      BY <3>2, <1>1, <1>2, <1>6, <2>2 DEF Walked
  <2>5. Beyond(dir, m + 1)' = Beyond(dir, m + 1)
    BY <1>1, <2>2 DEF Beyond
  <2>6. destinations' \union Beyond(dir, m + 1)' \union ToSlide' = Legal'
    BY <1>3, <1>5, <2>2, <2>3, <2>5
  <2>7. \E k \in Nat : Walked(k)' /\ destinations' \union Beyond(dir, k)' \union ToSlide' = Legal'
    <3>1. m + 1 \in Nat
      OBVIOUS
    <3> QED
      BY <3>1, <2>4, <2>6, Zenon
  <2> QED
    BY <1>1, <1>3, <1>4, <2>2, <2>7 DEF LoopsInv, LoopInv
<1>10. CASE ~Empty(grid, next)
  <2>1. \A n \in 1 .. (Width + Height) : n > m /\ Reaches(grid, piece, from, dir, n) => n = m + 1
    <3>1. SUFFICES ASSUME NEW n \in 1 .. (Width + Height), n > m, n # m + 1,
                          Reaches(grid, piece, from, dir, n)
                   PROVE  FALSE
      OBVIOUS
    <3>2. m + 1 \in 1 .. (n - 1)
      BY <3>1, BoardAssumption
    <3> QED
      BY <1>6, <1>10, <3>1, <3>2, Zenon DEF Reaches
  <2>2. destinations \union Beyond(dir, m) = destinations'
    <3>1. CASE Enterable(grid, piece, next)
      <4>1. m + 1 \in 1 .. (Width + Height) /\ Reaches(grid, piece, from, dir, m + 1) /\ m + 1 > m
        BY <1>7, <1>8, <3>1
      <4>2. Beyond(dir, m) = {next}
        BY <1>6, <2>1, <4>1, Zenon DEF Beyond
      <4> QED
        BY <1>2, <3>1, <4>2
    <3>2. CASE ~Enterable(grid, piece, next)
      <4>1. Beyond(dir, m) = {}
        BY <1>7, <2>1, <3>2, Zenon DEF Beyond
      <4> QED
        BY <1>2, <3>2, <4>1
    <3> QED
      BY <3>1, <3>2
  <2>3. dir' = NoDir
    BY <1>2, <1>10
  <2>4. destinations' \union ToSlide' = Legal'
    BY <1>3, <1>5, <2>2
  <2> QED
    BY <1>1, <1>4, <2>3, <2>4 DEF LoopsInv, LoopInv
<1> QED
  BY <1>9, <1>10

LEMMA StepStep == LoopsInv /\ Step => LoopsInv'
<1> SUFFICES ASSUME LoopsInv, Step PROVE LoopsInv'
  OBVIOUS
<1> DEFINE target == Shift(from, Head(todo), 1)
<1>1. /\ at = "step" /\ at' = "step" /\ todo # << >> /\ todo' = Tail(todo)
      /\ grid' = grid /\ piece' = piece /\ kind' = kind /\ from' = from
  BY DEF Step, args
<1>2. destinations' = IF Enterable(grid, piece, target) THEN destinations \union {target} ELSE destinations
  BY DEF Step, Enterable, getPiece
<1>3. LoopType /\ Legal' = Legal /\ destinations \union ToStep = Legal
  BY <1>1 DEF LoopsInv, LoopInv, Legal
<1>4. todo' \in Seq(Offsets) /\ Visit(todo) = {Head(todo)} \union Visit(todo')
  BY <1>1, <1>3, VisitTail DEF LoopType
<1>5. LoopType'
  BY <1>1, <1>3, <1>4 DEF LoopType, Offsets, Captures, Start
<1>6. ToStep' = { pos \in { Shift(from, d, 1) : d \in Visit(todo') } : Enterable(grid, piece, pos) }
  BY <1>1 DEF ToStep, SteppingDestinations
<1>7. ToStep = { pos \in {target} : Enterable(grid, piece, pos) } \union ToStep'
  BY <1>4, <1>6 DEF ToStep, SteppingDestinations
<1>8. destinations' \union ToStep' = Legal'
  <2>1. CASE Enterable(grid, piece, target)
    <3>1. { pos \in {target} : Enterable(grid, piece, pos) } = {target}
      BY <2>1
    <3> QED
      BY <1>2, <1>3, <1>7, <2>1, <3>1
  <2>2. CASE ~Enterable(grid, piece, target)
    <3>1. { pos \in {target} : Enterable(grid, piece, pos) } = {}
      BY <2>2
    <3> QED
      BY <1>2, <1>3, <1>7, <2>2, <3>1
  <2> QED
    BY <2>1, <2>2
<1> QED
  BY <1>1, <1>5, <1>8 DEF LoopsInv, LoopInv

LEMMA StepPawnOneStep == LoopsInv /\ PawnOneStep => LoopsInv'
<1> SUFFICES ASSUME LoopsInv, PawnOneStep PROVE LoopsInv'
  OBVIOUS
<1>1. /\ at = "forward1" /\ at' = "forward2" /\ todo' = todo
      /\ grid' = grid /\ piece' = piece /\ kind' = kind /\ from' = from
      /\ canMoveOneStep' = Empty(grid, Forward(1))
      /\ destinations' = IF Empty(grid, Forward(1)) THEN destinations \union {Forward(1)} ELSE destinations
  BY DEF PawnOneStep, args
<1>2. LoopType /\ kind = "Pawn" /\ todo = Directions(kind) /\ destinations = {}
  BY <1>1, AtOf DEF LoopsInv, LoopInv
<1>3. LoopType'
  BY <1>1, <1>2 DEF LoopType, Offsets, Captures
<1>4. Forward(1)' = Forward(1) /\ Directions(kind)' = Directions(kind)
  BY <1>1, <1>2 DEF Forward, Directions
<1>5. destinations' = { pos \in {Forward(1)} : Empty(grid, pos) }
  BY <1>1, <1>2
<1> QED
  BY <1>1, <1>2, <1>3, <1>4, <1>5 DEF LoopsInv, LoopInv

\* The captures the code visits are those of PieceRules.
LEMMA ToTakeAtFirst ==
  ASSUME LoopType, kind = "Pawn", todo = Directions(kind)
  PROVE  Legal = { pos \in {Forward(1)} : Empty(grid, pos) }
                 \union { pos \in {Forward(2)} : /\ from.row = PawnStartRow(Color[piece])
                                                 /\ Empty(grid, Forward(1)) /\ Empty(grid, pos) }
                 \union ToTake
<1> DEFINE fwd == PawnDirection(Color[piece])
           sideways == {At(from.row + fwd, from.col - 1), At(from.row + fwd, from.col + 1)}
<1>1. fwd \in {-1, 1} /\ from.row \in Int /\ from.col \in Int
  BY BoardAssumption DEF LoopType, Cells, PawnDirection
<1>2. /\ Forward(1) = At(from.row + fwd, from.col)
      /\ Forward(2) = At(from.row + 2 * fwd, from.col)
  <2>1. \A a \in {-1, 1}, r \in Int : r + 1 * a = r + a /\ r + 2 * 0 = r /\ r + 1 * 0 = r
    OBVIOUS
  <2> HIDE DEF fwd
  <2>2. Forward(1) = At(from.row + 1 * fwd, from.col + 1 * 0) /\ Forward(2) = At(from.row + 2 * fwd, from.col + 2 * 0)
    BY DEF Forward, Shift, fwd
  <2> QED
    BY <1>1, <2>1, <2>2
<1>3. Visit(todo) = {<<fwd, -1>>, <<fwd, 1>>}
  BY VisitAll DEF Captures
<1>4. /\ Shift(from, <<fwd, -1>>, 1) = At(from.row + fwd, from.col - 1)
      /\ Shift(from, <<fwd, 1>>, 1) = At(from.row + fwd, from.col + 1)
  <2>1. \A a \in {-1, 1}, r \in Int : r + 1 * a = r + a /\ r + 1 * (-1) = r - 1 /\ r + 1 * 1 = r + 1
    OBVIOUS
  <2> HIDE DEF fwd
  <2>2. /\ Shift(from, <<fwd, -1>>, 1) = At(from.row + 1 * fwd, from.col + 1 * (-1))
        /\ Shift(from, <<fwd, 1>>, 1) = At(from.row + 1 * fwd, from.col + 1 * 1)
    BY DEF Shift
  <2> QED
    BY <1>1, <2>1, <2>2
<1>5. { Shift(from, d, 1) : d \in Visit(todo) } = sideways
  BY <1>3, <1>4
<1>6. ToTake = { pos \in sideways : Holds(grid, pos) /\ Enemies(grid[pos], piece) }
  BY <1>5 DEF ToTake
<1>7. Legal = PawnDestinations(grid, piece, from)
  BY DEF Legal, LegalDestinations
<1>8. PawnDestinations(grid, piece, from)
        = { pos \in {Forward(1)} : Empty(grid, Forward(1)) }
          \union { pos \in {Forward(2)} : /\ from.row = PawnStartRow(Color[piece])
                                          /\ Empty(grid, Forward(1)) /\ Empty(grid, Forward(2)) }
          \union { pos \in sideways : Holds(grid, pos) /\ Enemies(grid[pos], piece) }
  BY <1>2 DEF PawnDestinations, At
<1> HIDE DEF sideways
<1>9. /\ { pos \in {Forward(1)} : Empty(grid, Forward(1)) } = { pos \in {Forward(1)} : Empty(grid, pos) }
      /\ { pos \in {Forward(2)} : /\ from.row = PawnStartRow(Color[piece])
                                  /\ Empty(grid, Forward(1)) /\ Empty(grid, Forward(2)) }
         = { pos \in {Forward(2)} : /\ from.row = PawnStartRow(Color[piece])
                                    /\ Empty(grid, Forward(1)) /\ Empty(grid, pos) }
  OBVIOUS
<1> QED
  BY <1>6, <1>7, <1>8, <1>9

LEMMA StepPawnTwoSteps == LoopsInv /\ PawnTwoSteps => LoopsInv'
<1> SUFFICES ASSUME LoopsInv, PawnTwoSteps PROVE LoopsInv'
  OBVIOUS
<1> DEFINE ok == from.row = PawnStartRow(Color[piece]) /\ Empty(grid, Forward(1))
           two == { pos \in {Forward(2)} : /\ from.row = PawnStartRow(Color[piece])
                                           /\ Empty(grid, Forward(1)) /\ Empty(grid, pos) }
<1>1. /\ at = "forward2" /\ at' = "capture" /\ todo' = todo
      /\ grid' = grid /\ piece' = piece /\ kind' = kind /\ from' = from
  BY DEF PawnTwoSteps, args
<1>2. /\ LoopType /\ kind = "Pawn" /\ todo = Directions(kind)
      /\ destinations = { pos \in {Forward(1)} : Empty(grid, pos) }
      /\ canMoveOneStep = Empty(grid, Forward(1))
  BY <1>1, AtOf DEF LoopsInv, LoopInv
<1>3. destinations' = destinations \union two
  <2>1. destinations' = IF ok /\ Empty(grid, Forward(2)) THEN destinations \union {Forward(2)} ELSE destinations
    BY <1>2 DEF PawnTwoSteps
  <2> QED
    BY <2>1
<1>4. LoopType' /\ ToTake' = ToTake /\ Legal' = Legal
  BY <1>1, <1>2 DEF LoopType, Offsets, Captures, ToTake, Legal
<1>5. destinations' \union ToTake' = Legal'
  BY <1>2, <1>3, <1>4, ToTakeAtFirst, Zenon
<1> QED
  BY <1>1, <1>4, <1>5 DEF LoopsInv, LoopInv

LEMMA StepPawnCapture == LoopsInv /\ PawnCapture => LoopsInv'
<1> SUFFICES ASSUME LoopsInv, PawnCapture PROVE LoopsInv'
  OBVIOUS
<1> DEFINE target == Shift(from, Head(todo), 1)
           Taken(pos) == Holds(grid, pos) /\ Enemies(grid[pos], piece)
<1>1. /\ at = "capture" /\ at' = "capture" /\ todo # << >> /\ todo' = Tail(todo)
      /\ grid' = grid /\ piece' = piece /\ kind' = kind /\ from' = from
  BY DEF PawnCapture, args
<1>2. destinations' = IF Taken(target) THEN destinations \union {target} ELSE destinations
  BY DEF PawnCapture, Holds, getPiece
<1>3. LoopType /\ Legal' = Legal /\ destinations \union ToTake = Legal
  BY <1>1 DEF LoopsInv, LoopInv, Legal
<1>4. todo' \in Seq(Offsets) /\ Visit(todo) = {Head(todo)} \union Visit(todo')
  BY <1>1, <1>3, VisitTail DEF LoopType
<1>5. LoopType'
  <2>1. kind = "Pawn"
    BY <1>1, <1>3, AtOf
  <2> QED
    BY <1>1, <1>3, <1>4, <2>1 DEF LoopType, Offsets, Captures
<1>6. ToTake' = { pos \in { Shift(from, d, 1) : d \in Visit(todo') } : Taken(pos) }
  BY <1>1 DEF ToTake
<1>7. ToTake = { pos \in {target} : Taken(pos) } \union ToTake'
  BY <1>4, <1>6 DEF ToTake
<1> HIDE DEF Taken
<1>8. destinations' \union ToTake' = Legal'
  <2>1. CASE Taken(target)
    <3>1. { pos \in {target} : Taken(pos) } = {target}
      BY <2>1
    <3> QED
      BY <1>2, <1>3, <1>7, <2>1, <3>1
  <2>2. CASE ~Taken(target)
    <3>1. { pos \in {target} : Taken(pos) } = {}
      BY <2>2
    <3> QED
      BY <1>2, <1>3, <1>7, <2>2, <3>1
  <2> QED
    BY <2>1, <2>2
<1> QED
  BY <1>1, <1>5, <1>8 DEF LoopsInv, LoopInv

\* When nothing is left to visit, what has been collected is everything.
LEMMA StepReturn == LoopsInv /\ Return => LoopsInv'
<1> SUFFICES ASSUME LoopsInv, Return PROVE LoopsInv'
  OBVIOUS
<1>1. /\ at \in {"slide", "step", "capture"} /\ dir = NoDir /\ todo = << >> /\ at' = "done"
      /\ grid' = grid /\ piece' = piece /\ kind' = kind /\ from' = from
      /\ todo' = todo /\ destinations' = destinations
  BY DEF Return, args
<1>2. LoopType'
  BY <1>1 DEF LoopsInv, LoopType, Offsets, Captures, Start
<1>3. Visit(todo) = {}
  BY <1>1, VisitEmpty
<1>4. ToSlide = {} /\ ToStep = {} /\ ToTake = {}
  BY <1>3 DEF ToSlide, ToStep, ToTake, SlidingDestinations, SteppingDestinations
<1>5. destinations = Legal /\ Legal' = Legal
  BY <1>1, <1>4 DEF LoopsInv, LoopInv, Legal
<1> QED
  BY <1>1, <1>2, <1>5 DEF LoopsInv, LoopInv

LEMMA NextLoops == LoopsInv /\ [Next]_vars => LoopsInv'
<1> SUFFICES ASSUME LoopsInv, [Next]_vars PROVE LoopsInv'
  OBVIOUS
<1>1. CASE Next
  BY <1>1, StepNextDirection, StepSlide, StepStep, StepPawnOneStep, StepPawnTwoSteps,
     StepPawnCapture, StepReturn DEF Next
<1>2. CASE UNCHANGED vars
  <2>1. /\ grid' = grid /\ piece' = piece /\ kind' = kind /\ from' = from /\ todo' = todo /\ dir' = dir
        /\ current' = current /\ canMoveOneStep' = canMoveOneStep /\ destinations' = destinations /\ at' = at
    BY <1>2 DEF vars, args
  <2>2. LoopType'
    BY <2>1 DEF LoopsInv, LoopType, Offsets, Captures, Start
  <2>3. /\ Legal' = Legal /\ ToSlide' = ToSlide /\ ToStep' = ToStep /\ ToTake' = ToTake
        /\ Forward(1)' = Forward(1) /\ Directions(kind)' = Directions(kind)
    BY <2>1 DEF Legal, ToSlide, ToStep, ToTake, Forward, Directions
  <2>4. \A m \in Nat : Walked(m)' = Walked(m) /\ Beyond(dir, m)' = Beyond(dir, m)
    BY <2>1 DEF Walked, Beyond
  <2>5. LoopInv'
    BY <2>1, <2>3, <2>4 DEF LoopsInv, LoopInv
  <2> QED
    BY <2>2, <2>5 DEF LoopsInv
<1> QED
  BY <1>1, <1>2

\* The loops of legalDestinations that have come to their end have collected
\* exactly the destinations PieceRules describes, for every board and piece.
THEOREM LoopsAreRight == Spec => []LoopsAgree
<1>1. LoopsInv => LoopsAgree
  BY DEF LoopsInv, LoopInv, LoopsAgree, Legal
<1> QED
  BY <1>1, InitLoops, NextLoops, PTL DEF Spec

-----------------------------------------------------------------------------
(* Boards as text.  In a finite ordered set, where upTo[x] are the elements *)
(* up to x, counting those up to each element numbers them from 1 on.      *)

LEMMA Numbered ==
  ASSUME NEW S, IsFiniteSet(S), NEW upTo \in [S -> SUBSET S],
         \A x \in S : x \in upTo[x],
         \A x, y \in S : x # y => upTo[x] # upTo[y] /\ (upTo[x] \subseteq upTo[y] \/ upTo[y] \subseteq upTo[x])
  PROVE  { Cardinality(upTo[x]) : x \in S } = 1 .. Cardinality(S)
<1> DEFINE n == Cardinality(S)
           f == [x \in S |-> Cardinality(upTo[x])]
<1>1. n \in Nat
  BY FS_CardinalityType
<1>2. \A x \in S : IsFiniteSet(upTo[x]) /\ Cardinality(upTo[x]) \in 1 .. n
  <2> TAKE x \in S
  <2>1. upTo[x] \in SUBSET S
    OBVIOUS
  <2>2. IsFiniteSet(upTo[x]) /\ Cardinality(upTo[x]) <= n
    BY <2>1, FS_Subset
  <2>3. Cardinality(upTo[x]) \in Nat /\ Cardinality(upTo[x]) # 0
    BY <2>2, FS_CardinalityType, FS_EmptySet
  <2> QED
    BY <1>1, <2>2, <2>3
<1>3. f \in [S -> 1 .. n]
  BY <1>2
<1>4. ASSUME NEW x \in S, NEW y \in S, f[x] = f[y] PROVE x = y
  <2>1. SUFFICES ASSUME x # y PROVE FALSE
    OBVIOUS
  <2>2. Cardinality(upTo[x]) = Cardinality(upTo[y])
    BY <1>4
  <2>3. CASE upTo[x] \subseteq upTo[y]
    BY <1>2, <2>1, <2>2, <2>3, FS_Subset
  <2>4. CASE upTo[y] \subseteq upTo[x]
    BY <1>2, <2>1, <2>2, <2>4, FS_Subset
  <2> QED
    BY <2>1, <2>3, <2>4
<1>5. f \in Injection(S, 1 .. n)
  BY <1>3, <1>4 DEF Injection, IsInjective
<1>6. IsFiniteSet(1 .. n) /\ Cardinality(1 .. n) = n
  BY <1>1, FS_Interval
<1>7. f \in Surjection(S, 1 .. n)
  BY <1>5, <1>6, FS_Injection
<1>8. \A k \in 1 .. n : \E x \in S : Cardinality(upTo[x]) = k
  BY <1>7 DEF Surjection
<1> DEFINE numbers == { Cardinality(upTo[x]) : x \in S }
<1> HIDE DEF n
<1>9. numbers \subseteq 1 .. n
  BY <1>2
<1>10. 1 .. n \subseteq numbers
  <2>1. ASSUME NEW k \in 1 .. n PROVE k \in numbers
    BY <1>8
  <2> HIDE DEF numbers
  <2> QED
    BY <2>1
<1> HIDE DEF numbers
<1>11. numbers = 1 .. n
  BY <1>9, <1>10
<1> QED
  BY <1>11 DEF numbers, n

\* The lines that are rows, when they come in one block.
LEMMA RowsInBlock ==
  ASSUME NEW text, NEW a \in Nat \ {0}, NEW h \in Nat,
         RowNumbers(text) = a .. (a + h - 1),
         NEW S, NEW rows \in [1 .. h -> S], \A r \in 1 .. h : text[r + a - 1] = rows[r]
  PROVE  Rows(text) = rows
<1> DEFINE kept == RowNumbers(text)
           upTo(n) == { m \in kept : m <= n }
           row(r) == CHOOSE n \in kept : Cardinality(upTo(n)) = r
<1>1. Rows(text) = [r \in 1 .. Cardinality(kept) |-> text[row(r)]]
  BY DEF Rows
<1>2. kept = a .. (a + h - 1)
  OBVIOUS
<1> HIDE DEF kept
<1>3. Cardinality(kept) = h
  BY <1>2, FS_Interval
<1>4. ASSUME NEW n \in kept PROVE Cardinality(upTo(n)) = n - a + 1
  <2>1. upTo(n) = a .. n /\ n \in Int /\ a <= n
    BY <1>2
  <2> HIDE DEF upTo
  <2> QED
    BY <2>1, FS_Interval
<1>5. ASSUME NEW r \in 1 .. h PROVE row(r) = r + a - 1
  <2>1. r + a - 1 \in kept
    BY <1>2
  <2> HIDE DEF upTo
  <2>2. Cardinality(upTo(r + a - 1)) = r
    BY <1>4, <2>1
  <2>3. ASSUME NEW n \in kept, Cardinality(upTo(n)) = r PROVE n = r + a - 1
    BY <1>2, <1>4, <2>3
  <2> QED
    BY <2>1, <2>2, <2>3
<1> HIDE DEF row
<1> QED
  BY <1>1, <1>3, <1>5

-----------------------------------------------------------------------------
(* Tokens.                                                                 *)

LEMMA Letters ==
  /\ \A k \in Kinds : KindChar[k] \in {"K", "Q", "R", "B", "N", "P"} /\ KindOf(KindChar[k]) = k
  /\ \A c \in Colors : ColorChar[c] \in {"w", "b"} /\ ColorOf(ColorChar[c]) = c
<1>1. \A k, l \in Kinds : KindChar[k] = KindChar[l] => k = l
  BY DEF Kinds, KindChar
<1>2. \A k \in Kinds : KindOf(KindChar[k]) = k
  BY <1>1 DEF KindOf
<1>3. \A c, d \in Colors : ColorChar[c] = ColorChar[d] => c = d
  BY DEF Colors, ColorChar
<1>4. \A c \in Colors : ColorOf(ColorChar[c]) = c
  BY <1>3 DEF ColorOf
<1>5. \A k \in Kinds : KindChar[k] \in {"K", "Q", "R", "B", "N", "P"}
  BY DEF Kinds, KindChar
<1>6. \A c \in Colors : ColorChar[c] \in {"w", "b"}
  BY DEF Colors, ColorChar
<1> QED
  BY <1>2, <1>4, <1>5, <1>6

LEMMA TokenFacts ==
  ASSUME NEW g \in [Cells -> Pieces \union {NoPiece}], NEW kindOf \in [Pieces -> Kinds], NEW pos \in Cells
  PROVE  LET token == Token(g, kindOf, pos)
             p == g[pos]
         IN  /\ token # Header
             /\ token = Dot <=> p = NoPiece
             /\ token = Dot \/ KnownToken(token)
             /\ p # NoPiece => ColorOf(token[1]) = Color[p] /\ KindOf(token[2]) = kindOf[p]
<1> DEFINE token == Token(g, kindOf, pos)
           p == g[pos]
<1>1. CASE p = NoPiece
  <2>1. token = Dot
    BY <1>1 DEF Token
  <2>2. Dot # Header
    BY DEF Dot, Header
  <2> QED
    BY <1>1, <2>1, <2>2
<1>2. CASE p # NoPiece
  <2>1. p \in Pieces /\ Color[p] \in Colors /\ kindOf[p] \in Kinds
    BY <1>2, ColorAssumption
  <2>2. token = <<ColorChar[Color[p]], KindChar[kindOf[p]]>>
    BY <1>2 DEF Token
  <2>3. Len(token) = 2 /\ token[1] = ColorChar[Color[p]] /\ token[2] = KindChar[kindOf[p]]
    BY <2>2
  <2>4. Len(Dot) = 1 /\ Len(Header) = 5
    BY DEF Dot, Header
  <2> HIDE DEF token, p
  <2>5. KnownToken(token)
    BY <2>1, <2>3, Letters DEF KnownToken
  <2> QED
    BY <1>2, <2>1, <2>3, <2>4, <2>5, Letters DEF token, p
<1> QED
  BY <1>1, <1>2
-----------------------------------------------------------------------------
(* What is printed.                                                        *)

Tokens(g, kindOf) == { Token(g, kindOf, pos) : pos \in Cells }

PrintedBoard(g, kindOf) == g \in [Cells -> Pieces \union {NoPiece}] /\ kindOf \in [Pieces -> Kinds]

LEMMA PrintFacts ==
  ASSUME NEW g, NEW kindOf, PrintedBoard(g, kindOf)
  PROVE  /\ print(g, kindOf) \in Seq(Seq(Tokens(g, kindOf))) /\ Len(print(g, kindOf)) = Height
         /\ \A r \in 1 .. Height :
              /\ print(g, kindOf)[r] \in Seq(Tokens(g, kindOf)) /\ Len(print(g, kindOf)[r]) = Width
              /\ \A c \in 1 .. Width :
                   /\ At(r - 1, c - 1) \in Cells
                   /\ print(g, kindOf)[r][c] = Token(g, kindOf, At(r - 1, c - 1))
<1> DEFINE rows == print(g, kindOf)
           tokens == Tokens(g, kindOf)
           row(r) == [c \in 1 .. Width |-> Token(g, kindOf, At(r - 1, c - 1))]
<1>1. Width \in Nat \ {0} /\ Height \in Nat \ {0}
  BY BoardAssumption
<1>2. \A r \in 1 .. Height, c \in 1 .. Width : At(r - 1, c - 1) \in Cells
  BY <1>1 DEF Cells, At
<1>3. rows = [r \in 1 .. Height |-> row(r)]
  BY DEF print
<1>4. ASSUME NEW r \in 1 .. Height PROVE row(r) \in Seq(tokens) /\ Len(row(r)) = Width
  <2>1. \A c \in 1 .. Width : Token(g, kindOf, At(r - 1, c - 1)) \in tokens
    BY <1>2 DEF Tokens
  <2> HIDE DEF tokens
  <2>2. row(r) \in [1 .. Width -> tokens]
    BY <2>1
  <2>3. DOMAIN row(r) = 1 .. Width
    OBVIOUS
  <2> HIDE DEF row
  <2>4. row(r) \in Seq(tokens)
    BY <1>1, <2>2, SeqDef
  <2> QED
    BY <1>1, <2>3, <2>4, LenProperties
<1> HIDE DEF row, tokens
<1>5. rows \in [1 .. Height -> Seq(tokens)] /\ DOMAIN rows = 1 .. Height
  BY <1>3, <1>4
<1> HIDE DEF rows
<1>6. rows \in Seq(Seq(tokens))
  BY <1>1, <1>5, SeqDef
<1>7. Len(rows) = Height
  BY <1>1, <1>5, <1>6, LenProperties
<1>8. ASSUME NEW r \in 1 .. Height
      PROVE  /\ rows[r] \in Seq(tokens) /\ Len(rows[r]) = Width
             /\ \A c \in 1 .. Width : rows[r][c] = Token(g, kindOf, At(r - 1, c - 1))
  <2>1. rows[r] = row(r)
    BY <1>3
  <2> QED
    BY <1>4, <2>1 DEF row
<1> QED
  BY <1>2, <1>6, <1>7, <1>8 DEF rows, tokens

\* Every line of it is a row.
LEMMA PrintedLines ==
  ASSUME NEW g, NEW kindOf, PrintedBoard(g, kindOf), NEW r \in 1 .. Height
  PROVE  IsRow(print(g, kindOf)[r])
<1> DEFINE row == print(g, kindOf)[r]
           tokens == Tokens(g, kindOf)
<1>1. row \in Seq(tokens) /\ Len(row) = Width /\ Width \in Nat \ {0}
  <2>1. row \in Seq(tokens) /\ Len(row) = Width
    BY PrintFacts
  <2> QED
    BY <2>1, BoardAssumption
<1>2. Header \notin tokens
  BY TokenFacts DEF PrintedBoard, Tokens
<1> HIDE DEF row, tokens
<1>3. row # << >>
  BY <1>1, EmptySeq
<1>4. ASSUME NEW c \in 1 .. Len(row) PROVE row[c] # Header
  BY <1>1, <1>2, ElementOfSeq
<1> QED
  BY <1>3, <1>4 DEF IsRow, ToSet, row

LEMMA RowsOfPrint ==
  ASSUME NEW g, NEW kindOf, PrintedBoard(g, kindOf)
  PROVE  Rows(<<<<Header>>, << >>>> \o print(g, kindOf) \o <<<< >>>>) = print(g, kindOf)
<1> DEFINE rows == print(g, kindOf)
           tokens == Tokens(g, kindOf)
           Some == tokens \union {Header}
           first == <<<<Header>>, << >>>>
           last == <<<< >>>>
           head == first \o rows
           text == head \o last
<1>1. Len(rows) = Height /\ rows \in Seq(Seq(tokens)) /\ Height \in Nat \ {0}
  BY PrintFacts, BoardAssumption
<1>2. rows \in Seq(Seq(Some))
  <2>1. \A s \in Seq(tokens) : s \in Seq(Some)
    BY SeqMonotonic
  <2> HIDE DEF rows, tokens, Some
  <2> QED
    BY <1>1, <2>1, SeqMonotonic
<1>3. first \in Seq(Seq(Some)) /\ Len(first) = 2 /\ first[1] = <<Header>> /\ first[2] = << >>
  <2>1. <<Header>> \in Seq(Some) /\ << >> \in Seq(Some)
    <3> HIDE DEF tokens
    <3> QED
      OBVIOUS
  <2> HIDE DEF Some
  <2> QED
    BY <2>1
<1>4. last \in Seq(Seq(Some)) /\ Len(last) = 1 /\ last[1] = << >>
  <2>1. << >> \in Seq(Some)
    BY EmptySeq
  <2> HIDE DEF Some
  <2> QED
    BY <2>1
<1> HIDE DEF rows, Some, first, last
<1>5. /\ head \in Seq(Seq(Some)) /\ Len(head) = Len(first) + Len(rows)
      /\ \A n \in 1 .. Len(first) + Len(rows) : head[n] = IF n <= Len(first) THEN first[n] ELSE rows[n - Len(first)]
  BY <1>2, <1>3, ConcatProperties
<1> HIDE DEF head
<1>15. head \in Seq(Seq(Some)) /\ last \in Seq(Seq(Some))
  BY <1>4, <1>5
<1>6. /\ Len(text) = Len(head) + Len(last)
      /\ \A n \in 1 .. Len(head) + Len(last) : text[n] = IF n <= Len(head) THEN head[n] ELSE last[n - Len(head)]
  BY <1>15, ConcatProperties
<1> HIDE DEF text
<1>14. /\ Len(text) = Height + 3 /\ Len(head) = Height + 2
       /\ \A n \in 1 .. Height + 2 : text[n] = IF n <= 2 THEN first[n] ELSE rows[n - 2]
       /\ text[Height + 3] = last[(Height + 3) - (Height + 2)]
  BY <1>1, <1>3, <1>4, <1>5, <1>6
<1>7. /\ text[1] = <<Header>> /\ text[2] = << >> /\ text[Height + 3] = << >>
      /\ \A n \in 3 .. Height + 2 : text[n] = rows[n - 2]
  <2>1. (Height + 3) - (Height + 2) = 1
    BY <1>1
  <2>2. 1 \in 1 .. Height + 2 /\ 2 \in 1 .. Height + 2
    BY <1>1
  <2>3. \A n \in 3 .. Height + 2 : n \in 1 .. Height + 2 /\ ~(n <= 2)
    BY <1>1
  <2> QED
    BY <1>3, <1>4, <1>14, <2>1, <2>2, <2>3
<1>8. ~IsRow(<<Header>>) /\ ~IsRow(<< >>)
  BY DEF IsRow, ToSet
<1>9. \A n \in 3 .. Height + 2 : IsRow(text[n])
  <2> TAKE n \in 3 .. Height + 2
  <2>1. n - 2 \in 1 .. Height
    BY <1>1
  <2> QED
    BY <1>7, <2>1, PrintedLines DEF rows
<1>10. RowNumbers(text) = 3 .. (3 + Height - 1)
  <2>1. \A n \in 1 .. Len(text) : IsRow(text[n]) <=> n \in 3 .. Height + 2
    <3> TAKE n \in 1 .. Len(text)
    <3>1. n = 1 \/ n = 2 \/ n = Height + 3 \/ n \in 3 .. Height + 2
      BY <1>1, <1>14
    <3>2. ~(1 \in 3 .. Height + 2) /\ ~(2 \in 3 .. Height + 2) /\ ~(Height + 3 \in 3 .. Height + 2)
      BY <1>1
    <3> QED
      BY <1>7, <1>8, <1>9, <3>1, <3>2
  <2>2. 3 .. Height + 2 \subseteq 1 .. Len(text)
    BY <1>1, <1>14
  <2>3. 3 .. (3 + Height - 1) = 3 .. Height + 2
    BY <1>1
  <2> QED
    BY <2>1, <2>2, <2>3 DEF RowNumbers
<1>11. \A r \in 1 .. Height : text[r + 3 - 1] = rows[r]
  <2> TAKE r \in 1 .. Height
  <2>1. r + 3 - 1 \in 3 .. Height + 2 /\ (r + 3 - 1) - 2 = r
    BY <1>1
  <2> QED
    BY <1>7, <2>1
<1>12. rows \in [1 .. Height -> Seq(tokens)] /\ 3 \in Nat \ {0} /\ Height \in Nat
  BY <1>1, LenProperties
<1> HIDE DEF tokens
<1>13. Rows(text) = rows
  <2> DEFINE S == Seq(tokens)
  <2>1. rows \in [1 .. Height -> S]
    BY <1>12
  <2> HIDE DEF S
  <2>2. ASSUME NEW a \in Nat \ {0}, NEW h \in Nat, RowNumbers(text) = a .. (a + h - 1),
               rows \in [1 .. h -> S], \A r \in 1 .. h : text[r + a - 1] = rows[r]
        PROVE  Rows(text) = rows
    BY <2>2, RowsInBlock
  <2> QED
    BY <1>10, <1>11, <1>12, <2>1, <2>2
<1> QED
  BY <1>13 DEF text, head, rows, first, last

\* A text of rows only.
LEMMA RowsOnly ==
  ASSUME NEW S, NEW rows \in Seq(S), \A r \in 1 .. Len(rows) : IsRow(rows[r])
  PROVE  Rows(rows) = rows
<1>1. Len(rows) \in Nat /\ rows \in [1 .. Len(rows) -> S]
  BY LenProperties
<1>2. RowNumbers(rows) = 1 .. (1 + Len(rows) - 1)
  <2>1. RowNumbers(rows) = 1 .. Len(rows)
    BY DEF RowNumbers
  <2> QED
    BY <1>1, <2>1
<1>3. \A r \in 1 .. Len(rows) : rows[r + 1 - 1] = rows[r]
  <2>1. \A r \in 1 .. Len(rows) : r + 1 - 1 = r
    OBVIOUS
  <2> QED
    BY <2>1
<1>4. ASSUME NEW a \in Nat \ {0}, NEW h \in Nat, RowNumbers(rows) = a .. (a + h - 1),
             rows \in [1 .. h -> S], \A r \in 1 .. h : rows[r + a - 1] = rows[r]
      PROVE  Rows(rows) = rows
  BY <1>4, RowsInBlock
<1>5. 1 \in Nat \ {0}
  OBVIOUS
<1> QED
  BY <1>1, <1>2, <1>3, <1>4, <1>5

\* What is printed is a board.
LEMMA PrintedRows ==
  ASSUME NEW g, NEW kindOf, PrintedBoard(g, kindOf)
  PROVE  LET rows == print(g, kindOf)
         IN  rows # << >> /\ SameWidth(rows) /\ Known(rows) /\ Len(rows[1]) = Width
<1> DEFINE rows == print(g, kindOf)
           tokens == Tokens(g, kindOf)
<1>1. /\ rows \in Seq(Seq(tokens)) /\ Len(rows) = Height
      /\ \A r \in 1 .. Height : rows[r] \in Seq(tokens) /\ Len(rows[r]) = Width
  BY PrintFacts
<1>2. \A token \in tokens : token = Dot \/ KnownToken(token)
  BY TokenFacts DEF PrintedBoard, Tokens
<1>3. Height \in Nat \ {0} /\ 1 \in 1 .. Height
  BY BoardAssumption
<1> HIDE DEF rows, tokens
<1>4. rows # << >>
  BY <1>1, <1>3, EmptySeq
<1>5. SameWidth(rows)
  BY <1>1, <1>3 DEF SameWidth, ToSet
<1>6. Known(rows)
  <2> SUFFICES ASSUME NEW r \in 1 .. Len(rows), NEW c \in 1 .. Len(rows[r])
               PROVE  rows[r][c] = Dot \/ KnownToken(rows[r][c])
    BY DEF Known, ToSet
  <2>1. rows[r] \in Seq(tokens)
    BY <1>1
  <2>2. rows[r][c] \in tokens
    BY <2>1, ElementOfSeq
  <2> QED
    BY <1>2, <2>2
<1> QED
  BY <1>1, <1>3, <1>4, <1>5, <1>6 DEF rows

\* The parser's numbers are those of the pieces in its order.
LEMMA IdsFromOne ==
  ASSUME NEW rows, NEW h \in Nat, Len(rows[1]) \in Nat, NEW occupied,
         occupied = { p \in (1 .. h) \X (1 .. Len(rows[1])) : rows[p[1]][p[2]] # Dot }
  PROVE  { NextId(rows, p[1], p[2]) : p \in occupied } = 1 .. Cardinality(occupied)
<1> DEFINE w == Len(rows[1])
           before(r, c) == { p \in (1 .. r) \X (1 .. w) : rows[p[1]][p[2]] # Dot /\ (p[1] < r \/ p[2] <= c) }
           upTo == [p \in occupied |-> before(p[1], p[2])]
<1>1. IsFiniteSet(occupied)
  <2>1. IsFiniteSet(1 .. h) /\ IsFiniteSet(1 .. w)
    BY FS_Interval
  <2>2. IsFiniteSet((1 .. h) \X (1 .. w))
    BY <2>1, FS_Product
  <2> QED
    BY <2>2, FS_Subset
<1>2. \A p \in occupied : /\ p = <<p[1], p[2]>> /\ p[1] \in 1 .. h /\ p[2] \in 1 .. w
                          /\ p[1] \in Nat /\ p[2] \in Nat
                          /\ rows[p[1]][p[2]] # Dot
  OBVIOUS
<1>3. ASSUME NEW p \in occupied, NEW q \in occupied
      PROVE  q \in before(p[1], p[2]) <=> (q[1] < p[1] \/ (q[1] = p[1] /\ q[2] <= p[2]))
  BY <1>2
<1>4. \A p \in occupied : before(p[1], p[2]) \subseteq occupied
  <2> TAKE p \in occupied
  <2>1. \A q \in before(p[1], p[2]) : q \in (1 .. h) \X (1 .. w) /\ rows[q[1]][q[2]] # Dot
    BY <1>2
  <2> QED
    BY <2>1
<1>5. \A r, c : NextId(rows, r, c) = Cardinality(before(r, c))
  BY DEF NextId
<1> HIDE DEF before
<1>6. upTo \in [occupied -> SUBSET occupied]
  BY <1>4
<1>7. \A p \in occupied : p \in upTo[p]
  BY <1>2, <1>3
<1>8. \A p, q \in occupied : p # q => upTo[p] # upTo[q] /\ (upTo[p] \subseteq upTo[q] \/ upTo[q] \subseteq upTo[p])
  <2>1. ASSUME NEW p \in occupied, NEW q \in occupied, p[1] < q[1] \/ (p[1] = q[1] /\ p[2] < q[2])
        PROVE  upTo[p] \subseteq upTo[q] /\ q \notin upTo[p]
    <3>1. \A x \in occupied : x \in before(p[1], p[2]) => x \in before(q[1], q[2])
      BY <1>2, <1>3, <2>1
    <3>2. q \notin before(p[1], p[2])
      BY <1>2, <1>3, <2>1
    <3> QED
      BY <1>4, <3>1, <3>2
  <2>2. ASSUME NEW p \in occupied, NEW q \in occupied, p # q
        PROVE  \/ p[1] < q[1] \/ (p[1] = q[1] /\ p[2] < q[2])
               \/ q[1] < p[1] \/ (q[1] = p[1] /\ q[2] < p[2])
    <3>1. p[1] # q[1] \/ p[2] # q[2]
      BY <1>2, <2>2
    <3> QED
      BY <1>2, <3>1
  <2> HIDE DEF upTo
  <2> QED
    BY <1>7, <2>1, <2>2
<1>9. { Cardinality(upTo[p]) : p \in occupied } = 1 .. Cardinality(occupied)
  <2> HIDE DEF upTo
  <2> QED
    BY <1>1, <1>6, <1>7, <1>8, Numbered
<1>10. \A p \in occupied : NextId(rows, p[1], p[2]) = Cardinality(upTo[p])
  BY <1>5
<1> HIDE DEF upTo
<1>11. { NextId(rows, p[1], p[2]) : p \in occupied } = { Cardinality(upTo[p]) : p \in occupied }
  BY <1>10
<1>12. { NextId(rows, p[1], p[2]) : p \in occupied } = 1 .. Cardinality(occupied)
  BY <1>9, <1>11
<1> QED
  BY <1>12

-----------------------------------------------------------------------------
(* Written and read.                                                       *)

LEMMA BoardsReadBack ==
  ASSUME NEW g, NEW kindOf, PrintedBoard(g, kindOf)
  PROVE  ReadsBack(g, kindOf)
<1> DEFINE rows == print(g, kindOf)
           text == <<<<Header>>, << >>>> \o print(g, kindOf) \o <<<< >>>>
           board == parse(text)
           read == { p \in (1 .. Len(rows)) \X (1 .. Len(rows[1])) : rows[p[1]][p[2]] # Dot }
           occupied == { <<pos.row + 1, pos.col + 1>> : pos \in { c \in Cells : g[c] # NoPiece } }
<1>1. Rows(text) = rows
  BY RowsOfPrint
<1>2. rows # << >> /\ SameWidth(rows) /\ Known(rows) /\ Len(rows[1]) = Width /\ Len(rows) = Height
  BY PrintedRows, PrintFacts
<1>3. \A r \in 1 .. Height, c \in 1 .. Width :
        /\ At(r - 1, c - 1) \in Cells
        /\ rows[r][c] = Token(g, kindOf, At(r - 1, c - 1))
  BY PrintFacts
<1>4. Width \in Nat \ {0} /\ Height \in Nat \ {0}
  BY BoardAssumption
<1> HIDE DEF rows, text
<1>5. board = [error |-> "none", width |-> Len(rows[1]), height |-> Len(rows),
               pieces |-> [p \in read |-> ParsedPiece(rows, p[1], p[2])]]
  BY <1>1, <1>2 DEF parse
<1> HIDE DEF board, read
<1>6. /\ board.error = "none" /\ board.width = Width /\ board.height = Height
      /\ DOMAIN board.pieces = read
      /\ \A p \in read : board.pieces[p] = ParsedPiece(rows, p[1], p[2])
  BY <1>2, <1>5
<1>13. \A r, c : /\ ParsedPiece(rows, r, c).id = NextId(rows, r, c)
                 /\ ParsedPiece(rows, r, c).color = ColorOf(rows[r][c][1])
                 /\ ParsedPiece(rows, r, c).kind = KindOf(rows[r][c][2])
  BY DEF ParsedPiece
<1>7. \A r \in 1 .. Height, c \in 1 .. Width : rows[r][c] # Dot <=> g[At(r - 1, c - 1)] # NoPiece
  BY <1>3, TokenFacts DEF PrintedBoard
<1>8. \A p : p \in read <=> /\ p = <<p[1], p[2]>> /\ p[1] \in 1 .. Height /\ p[2] \in 1 .. Width
                            /\ rows[p[1]][p[2]] # Dot
  BY <1>2 DEF read
<1>9. read = occupied
  <2>1. ASSUME NEW p \in read PROVE p \in occupied
    <3> DEFINE pos == At(p[1] - 1, p[2] - 1)
    <3>1. p = <<p[1], p[2]>> /\ p[1] \in 1 .. Height /\ p[2] \in 1 .. Width /\ rows[p[1]][p[2]] # Dot
      BY <1>8
    <3>2. pos \in Cells /\ g[pos] # NoPiece
      BY <1>3, <1>7, <3>1
    <3>3. pos.row + 1 = p[1] /\ pos.col + 1 = p[2]
      BY <1>4, <3>1 DEF At
    <3> HIDE DEF pos
    <3> QED
      BY <3>1, <3>2, <3>3
  <2>2. ASSUME NEW pos \in Cells, g[pos] # NoPiece PROVE <<pos.row + 1, pos.col + 1>> \in read
    <3>1. /\ pos.row + 1 \in 1 .. Height /\ pos.col + 1 \in 1 .. Width
          /\ At((pos.row + 1) - 1, (pos.col + 1) - 1) = pos
      BY <1>4 DEF Cells, At
    <3>2. rows[pos.row + 1][pos.col + 1] # Dot
      BY <1>7, <2>2, <3>1
    <3> QED
      BY <1>8, <3>1, <3>2
  <2>3. occupied \subseteq read
    BY <2>2
  <2>4. read \subseteq occupied
    BY <2>1
  <2> HIDE DEF occupied
  <2> QED
    BY <2>3, <2>4
<1> HIDE DEF occupied
<1>10. ASSUME NEW p \in read
       PROVE  LET here == g[At(p[1] - 1, p[2] - 1)]
              IN  board.pieces[p].color = Color[here] /\ board.pieces[p].kind = kindOf[here]
  <2> DEFINE pos == At(p[1] - 1, p[2] - 1)
  <2>1. p[1] \in 1 .. Height /\ p[2] \in 1 .. Width /\ rows[p[1]][p[2]] # Dot
    BY <1>8
  <2>2. pos \in Cells /\ rows[p[1]][p[2]] = Token(g, kindOf, pos) /\ g[pos] # NoPiece
    BY <1>3, <1>7, <2>1
  <2> HIDE DEF pos
  <2>3. /\ ColorOf(rows[p[1]][p[2]][1]) = Color[g[pos]]
        /\ KindOf(rows[p[1]][p[2]][2]) = kindOf[g[pos]]
    <3>1. /\ ColorOf(Token(g, kindOf, pos)[1]) = Color[g[pos]]
          /\ KindOf(Token(g, kindOf, pos)[2]) = kindOf[g[pos]]
      BY <2>2, TokenFacts DEF PrintedBoard
    <3> DEFINE token == Token(g, kindOf, pos)
    <3>2. rows[p[1]][p[2]] = token
      BY <2>2
    <3> HIDE DEF token
    <3> QED
      BY <3>1, <3>2 DEF token
  <2>4. /\ board.pieces[p].color = ColorOf(rows[p[1]][p[2]][1])
        /\ board.pieces[p].kind = KindOf(rows[p[1]][p[2]][2])
    BY <1>6, <1>13
  <2> QED
    BY <2>3, <2>4 DEF pos
<1>11. { NextId(rows, p[1], p[2]) : p \in read } = 1 .. Cardinality(read)
  <2>1. Len(rows) \in Nat /\ Len(rows[1]) \in Nat
    BY <1>2, <1>4
  <2>2. read = { p \in (1 .. Len(rows)) \X (1 .. Len(rows[1])) : rows[p[1]][p[2]] # Dot }
    BY Zenon DEF read
  <2>3. ASSUME NEW h \in Nat, read = { p \in (1 .. h) \X (1 .. Len(rows[1])) : rows[p[1]][p[2]] # Dot }
        PROVE  { NextId(rows, p[1], p[2]) : p \in read } = 1 .. Cardinality(read)
    BY <2>1, <2>3, IdsFromOne, Zenon
  <2> QED
    BY <2>1, <2>2, <2>3, Zenon
<1>12. { board.pieces[p].id : p \in read } = 1 .. Cardinality(read)
  <2>1. \A p \in read : board.pieces[p].id = NextId(rows, p[1], p[2])
    BY <1>6, <1>13
  <2>2. { board.pieces[p].id : p \in read } = { NextId(rows, p[1], p[2]) : p \in read }
    BY <2>1
  <2> QED
    BY <1>11, <2>2
<1> QED
  BY <1>6, <1>9, <1>10, <1>12 DEF ReadsBack, board, text, occupied

\* Rows that are read as they are.
LEMMA RowsRead ==
  ASSUME NEW S, NEW rows \in Seq(Seq(S)), Header \notin S, Len(rows) > 0,
         \A r \in 1 .. Len(rows) : Len(rows[r]) > 0
  PROVE  Rows(rows) = rows /\ rows # << >>
<1>1. ASSUME NEW r \in 1 .. Len(rows) PROVE IsRow(rows[r])
  <2>1. rows[r] \in Seq(S) /\ Len(rows[r]) > 0
    BY <1>1, ElementOfSeq
  <2> DEFINE row == rows[r]
  <2> HIDE DEF row
  <2>2. row # << >>
    BY <2>1, EmptySeq DEF row
  <2>3. \A c \in 1 .. Len(row) : row[c] # Header
    BY <2>1, ElementOfSeq DEF row
  <2> QED
    BY <2>2, <2>3 DEF IsRow, ToSet, row
<1> QED
  BY <1>1, RowsOnly, EmptySeq

\* Every token of a board is a sequence of one or two characters.
Characters == {".", "w", "b", "K", "Q", "R", "B", "N", "P"}

LEMMA TokenLength ==
  ASSUME NEW g, NEW kindOf, PrintedBoard(g, kindOf), NEW token \in Tokens(g, kindOf)
  PROVE  /\ token \in Seq(Characters) /\ Len(token) \in {1, 2}
         /\ Len(token) = 1 => token[1] = "."
<1>1. PICK pos \in Cells : token = Token(g, kindOf, pos)
  BY Zenon DEF Tokens
<1>2. CASE g[pos] = NoPiece
  <2>1. token = <<".">>
    BY <1>1, <1>2 DEF Token, Dot
  <2>2. "." \in Characters
    BY DEF Characters
  <2>3. <<".">> \in Seq(Characters) /\ Len(<<".">>) = 1 /\ <<".">>[1] = "."
    BY <2>2
  <2> QED
    BY <2>1, <2>3
<1>3. CASE g[pos] # NoPiece
  <2> DEFINE color == ColorChar[Color[g[pos]]]
             letter == KindChar[kindOf[g[pos]]]
  <2>1. token = <<color, letter>>
    BY <1>1, <1>3 DEF Token
  <2>2. Color[g[pos]] \in Colors /\ kindOf[g[pos]] \in Kinds
    BY <1>3, ColorAssumption DEF PrintedBoard
  <2>3. color \in {"w", "b"} /\ letter \in {"K", "Q", "R", "B", "N", "P"}
    BY <2>2, Letters
  <2> HIDE DEF color, letter
  <2>4. color \in Characters /\ letter \in Characters
    BY <2>3 DEF Characters
  <2>5. <<color, letter>> \in Seq(Characters) /\ Len(<<color, letter>>) = 2
    BY <2>4
  <2> QED
    BY <2>1, <2>5
<1> QED
  BY <1>2, <1>3

LEMMA ShortRowRefused ==
  ASSUME NEW g, NEW kindOf, PrintedBoard(g, kindOf), Width > 1, Height > 1
  PROVE  parse([print(g, kindOf) EXCEPT ![1] = Append(SubSeq(@, 1, Len(@) - 2), <<"?">>)]).error
           = "ROW_WIDTH_MISMATCH"
<1> DEFINE rows == print(g, kindOf)
           S == Tokens(g, kindOf) \union {<<"?">>}
           cut == SubSeq(rows[1], 1, Len(rows[1]) - 2)
           row == Append(cut, <<"?">>)
           short == [rows EXCEPT ![1] = row]
<1>1. Width \in Nat /\ Height \in Nat /\ 1 \in 1 .. Height /\ 2 \in 1 .. Height
  BY BoardAssumption
<1>2. /\ rows \in Seq(Seq(Tokens(g, kindOf))) /\ Len(rows) = Height
      /\ \A r \in 1 .. Height : rows[r] \in Seq(Tokens(g, kindOf)) /\ Len(rows[r]) = Width
  BY PrintFacts
<1>3. rows \in Seq(Seq(S)) /\ \A r \in 1 .. Height : rows[r] \in Seq(S)
  <2>1. Tokens(g, kindOf) \subseteq S
    OBVIOUS
  <2>2. \A s \in Seq(Tokens(g, kindOf)) : s \in Seq(S)
    BY <2>1, SeqMonotonic
  <2> HIDE DEF rows, S
  <2> QED
    BY <1>2, <2>2, SeqMonotonic
<1>4. Header \notin S
  <2>1. Header \notin Tokens(g, kindOf)
    BY TokenFacts DEF PrintedBoard, Tokens
  <2>2. Header # <<"?">>
    BY DEF Header
  <2> QED
    BY <2>1, <2>2
<1>5. <<"?">> \in S
  OBVIOUS
<1> HIDE DEF rows, S
<1>6. cut \in Seq(S) /\ Len(cut) = Width - 2
  <2>1. rows[1] \in Seq(S) /\ Len(rows[1]) = Width
    BY <1>1, <1>2, <1>3
  <2>2. \A c \in 1 .. Width - 2 : rows[1][c] \in S
    <3>1. \A c \in 1 .. Width - 2 : c \in 1 .. Len(rows[1])
      BY <1>1, <2>1
    <3> QED
      BY <2>1, <3>1, ElementOfSeq
  <2>3. /\ SubSeq(rows[1], 1, Width - 2) \in Seq(S)
        /\ Len(SubSeq(rows[1], 1, Width - 2)) = IF 1 <= Width - 2 THEN (Width - 2) - 1 + 1 ELSE 0
    <3>1. 1 \in Int /\ Width - 2 \in Int
      BY <1>1
    <3> QED
      BY <2>2, <3>1, SubSeqProperties
  <2> QED
    BY <1>1, <2>1, <2>3
<1> HIDE DEF cut
<1>7. row \in Seq(S) /\ Len(row) = Width - 1
  BY <1>1, <1>5, <1>6, AppendProperties
<1> HIDE DEF row
<1>8. /\ short \in Seq(Seq(S)) /\ Len(short) = Height
      /\ \A r \in 1 .. Height : short[r] = IF r = 1 THEN row ELSE rows[r]
  BY <1>1, <1>2, <1>3, <1>7, ExceptSeq
<1> HIDE DEF short
<1>9. Rows(short) = short /\ short # << >>
  <2>1. \A r \in 1 .. Len(short) : Len(short[r]) > 0
    BY <1>1, <1>2, <1>7, <1>8
  <2> QED
    BY <1>1, <1>4, <1>8, <2>1, RowsRead
<1>10. ~SameWidth(short)
  <2>1. Len(short[1]) = Width - 1 /\ Len(short[2]) = Width
    BY <1>1, <1>2, <1>7, <1>8
  <2>2. 2 \in DOMAIN short
    BY <1>1, <1>8
  <2>3. short[2] \in ToSet(short)
    BY <2>2, Zenon DEF ToSet
  <2> QED
    BY <1>1, <2>1, <2>3 DEF SameWidth
<1>11. parse(short).error = "ROW_WIDTH_MISMATCH"
  BY <1>9, <1>10 DEF parse, Refused
<1> QED
  BY <1>11 DEF short, row, cut, rows

LEMMA LongTokenRefused ==
  ASSUME NEW g, NEW kindOf, PrintedBoard(g, kindOf)
  PROVE  parse([print(g, kindOf) EXCEPT ![Height][Width] = Append(@, "K")]).error = "UNKNOWN_TOKEN"
<1> DEFINE rows == print(g, kindOf)
           token == rows[Height][Width]
           bad == Append(token, "K")
           S == Tokens(g, kindOf) \union {bad}
           last == [rows[Height] EXCEPT ![Width] = bad]
           long == [rows EXCEPT ![Height] = last]
<1>1. Width \in Nat \ {0} /\ Height \in Nat \ {0} /\ Height \in 1 .. Height /\ Width \in 1 .. Width
  BY BoardAssumption
<1>2. /\ rows \in Seq(Seq(Tokens(g, kindOf))) /\ Len(rows) = Height
      /\ \A r \in 1 .. Height : rows[r] \in Seq(Tokens(g, kindOf)) /\ Len(rows[r]) = Width
  BY PrintFacts
<1> HIDE DEF rows
<1>3. token \in Tokens(g, kindOf)
  BY <1>1, <1>2, ElementOfSeq
<1>4. /\ token \in Seq(Characters) /\ Len(token) \in {1, 2}
      /\ Len(token) = 1 => token[1] = "."
  BY <1>3, TokenLength
<1> HIDE DEF token
<1>5. /\ Len(bad) \in {2, 3}
      /\ Len(bad) = 2 => bad[1] = "."
  <2>1. "K" \in Characters
    BY DEF Characters
  <2>2. Len(bad) = Len(token) + 1 /\ \A i \in 1 .. Len(token) : bad[i] = token[i]
    BY <1>4, <2>1, AppendProperties
  <2> HIDE DEF bad
  <2>3. CASE Len(token) = 1
    BY <1>4, <2>2, <2>3
  <2>4. CASE Len(token) = 2
    BY <2>2, <2>4
  <2> QED
    BY <1>4, <2>3, <2>4
<1> HIDE DEF bad
<1>6. bad # Dot /\ ~KnownToken(bad) /\ bad # Header
  BY <1>5 DEF Dot, KnownToken, Header
<1>7. Header \notin S /\ bad \in S
  <2>1. Header \notin Tokens(g, kindOf)
    BY TokenFacts DEF PrintedBoard, Tokens
  <2> QED
    BY <1>6, <2>1
<1>8. rows \in Seq(Seq(S)) /\ \A r \in 1 .. Height : rows[r] \in Seq(S)
  <2>1. Tokens(g, kindOf) \subseteq S
    OBVIOUS
  <2>2. \A s \in Seq(Tokens(g, kindOf)) : s \in Seq(S)
    BY <2>1, SeqMonotonic
  <2> HIDE DEF S
  <2> QED
    BY <1>2, <2>2, SeqMonotonic
<1> HIDE DEF S
<1>9. last \in Seq(S) /\ Len(last) = Width /\ last[Width] = bad
  BY <1>1, <1>2, <1>7, <1>8, ExceptSeq
<1> HIDE DEF last
<1>10. /\ long \in Seq(Seq(S)) /\ Len(long) = Height
       /\ \A r \in 1 .. Height : long[r] = IF r = Height THEN last ELSE rows[r]
  BY <1>1, <1>2, <1>8, <1>9, ExceptSeq
<1> HIDE DEF long
<1>11. \A r \in 1 .. Height : Len(long[r]) = Width
  BY <1>1, <1>2, <1>9, <1>10
<1>12. Rows(long) = long /\ long # << >>
  <2>1. \A r \in 1 .. Len(long) : Len(long[r]) > 0
    BY <1>1, <1>10, <1>11
  <2> QED
    BY <1>1, <1>7, <1>10, <2>1, RowsRead
<1>13. DOMAIN long = 1 .. Height /\ DOMAIN last = 1 .. Width
  BY <1>9, <1>10
<1>14. SameWidth(long)
  BY <1>1, <1>11, <1>13 DEF SameWidth, ToSet
<1>15. ~Known(long)
  <2>1. long[Height] = last
    BY <1>1, <1>10
  <2>2. last \in ToSet(long) /\ bad \in ToSet(last)
    BY <1>1, <1>9, <1>13, <2>1, Zenon DEF ToSet
  <2> QED
    BY <1>6, <2>2 DEF Known
<1>16. parse(long).error = "UNKNOWN_TOKEN"
  BY <1>12, <1>14, <1>15 DEF parse, Refused
<1>17. [rows EXCEPT ![Height][Width] = Append(@, "K")] = long
  BY <1>2 DEF long, last, bad, token
<1> QED
  BY <1>16, <1>17 DEF rows

LEMMA BadTextRefused ==
  ASSUME NEW g, NEW kindOf, PrintedBoard(g, kindOf)
  PROVE  RefusesBadText(g, kindOf)
BY ShortRowRefused, LongTokenRefused DEF RefusesBadText

-----------------------------------------------------------------------------
\* The run of the board is the one of the loops: the argument is never written.
Arguments == grid \in [Cells -> Pieces \union {NoPiece}] /\ kind \in Kinds

LEMMA ArgumentsStay == AlgorithmSpec => []Arguments
<1>1. AlgorithmInit => Arguments
  BY PlacementsAssumption DEF AlgorithmInit, Init, NoArguments, Arguments, Kinds
<1>2. Arguments /\ [AlgorithmNext]_<<vars, windowVars>> => Arguments'
  <2>1. AlgorithmNext \/ UNCHANGED <<vars, windowVars>> => UNCHANGED args
    BY DEF AlgorithmNext, Next, NextDirection, Slide, Step, PawnOneStep, PawnTwoSteps, PawnCapture, Return, vars
  <2> QED
    BY <2>1 DEF Arguments, args
<1> QED
  BY <1>1, <1>2, PTL DEF AlgorithmSpec

\* A board that is printed and parsed is the same board, and a text with rows of
\* different widths or with tokens that are no piece is refused, for boards of
\* every size: BoardPrinter::print and BoardParser::parse.
THEOREM TextIsReadBack == AlgorithmSpec => []TextRoundTrip
<1>1. ASSUME Arguments PROVE TextRoundTrip
  <2> DEFINE kindOf == [p \in Pieces |-> IF p = piece THEN kind ELSE "Pawn"]
  <2>1. PrintedBoard(grid, kindOf)
    BY <1>1 DEF Arguments, PrintedBoard, Kinds
  <2> HIDE DEF kindOf
  <2>2. ReadsBack(grid, kindOf) /\ RefusesBadText(grid, kindOf)
    BY <2>1, BoardsReadBack, BadTextRefused
  <2> QED
    BY <2>2 DEF TextRoundTrip, kindOf
<1> QED
  BY <1>1, ArgumentsStay, PTL
=============================================================================
