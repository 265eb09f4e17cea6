-------------------------- MODULE GameEngineProofs --------------------------
(***************************************************************************)
(* Proofs about GameEngine for every board, every set of pieces and every  *)
(* choice of the times.                                                    *)
(***************************************************************************)
EXTENDS GameEngine, SequenceTheorems, TLAPS

LEMMA RemoveAtProperties ==
  ASSUME NEW S, NEW s \in Seq(S), NEW k \in 1 .. Len(s)
  PROVE  /\ RemoveAt(s, k) \in Seq(S)
         /\ Len(RemoveAt(s, k)) = Len(s) - 1
         /\ \A l \in 1 .. (Len(s) - 1) :
              RemoveAt(s, k)[l] = IF l < k THEN s[l] ELSE s[l + 1]
<1> DEFINE front == SubSeq(s, 1, k - 1)
           back  == SubSeq(s, k + 1, Len(s))
<1>1. Len(s) \in Nat /\ \A l \in 1 .. Len(s) : s[l] \in S
  BY LenProperties, ElementOfSeq
<1>2. /\ front \in Seq(S)
      /\ Len(front) = k - 1
      /\ \A l \in 1 .. (k - 1) : front[l] = s[l]
  BY <1>1, SubSeqProperties
<1>3. /\ back \in Seq(S)
      /\ Len(back) = Len(s) - k
      /\ \A l \in 1 .. (Len(s) - k) : back[l] = s[k + l]
  BY <1>1, SubSeqProperties
<1> HIDE DEF front, back
<1>4. /\ front \o back \in Seq(S)
      /\ Len(front \o back) = Len(front) + Len(back)
      /\ \A l \in 1 .. (Len(front) + Len(back)) :
           (front \o back)[l] = IF l <= Len(front) THEN front[l] ELSE back[l - Len(front)]
  BY <1>2, <1>3, ConcatProperties
<1>5. \A l \in 1 .. (Len(s) - 1) :
         (front \o back)[l] = IF l < k THEN s[l] ELSE s[l + 1]
  <2> SUFFICES ASSUME NEW l \in 1 .. (Len(s) - 1)
               PROVE  (front \o back)[l] = IF l < k THEN s[l] ELSE s[l + 1]
    OBVIOUS
  <2>1. l \in 1 .. (Len(front) + Len(back))
    BY <1>1, <1>2, <1>3
  <2>2. CASE l < k
    BY <2>1, <2>2, <1>1, <1>2, <1>4
  <2>3. CASE ~(l < k)
    <3>1. (front \o back)[l] = back[l - (k - 1)]
      BY <2>1, <2>3, <1>1, <1>2, <1>4
    <3>2. l - (k - 1) \in 1 .. (Len(s) - k)
      BY <2>3, <1>1
    <3>3. back[l - (k - 1)] = s[k + (l - (k - 1))]
      BY <3>2, <1>3
    <3>4. k + (l - (k - 1)) = l + 1
      BY <1>1
    <3> QED
      BY <2>3, <3>1, <3>3, <3>4
  <2> QED
    BY <2>2, <2>3
<1>6. RemoveAt(s, k) = front \o back
  BY DEF RemoveAt, front, back
<1>7. Len(front) + Len(back) = Len(s) - 1
  BY <1>1, <1>2, <1>3
<1> QED
  BY <1>4, <1>5, <1>6, <1>7

LEMMA RoundedShareType ==
  ASSUME NEW n \in Int, NEW part \in Int, NEW whole \in Int, whole > 0
  PROVE  RoundedShare(n, part, whole) \in Int
BY DEF RoundedShare

LEMMA CurrentCellType ==
  ASSUME NEW m \in Motions, NEW time \in Int
  PROVE  getCurrentCell(m, time) \in Position
<1>1. /\ m.source \in Position /\ m.destination \in Position
      /\ m.startTime \in Int /\ m.arrivalTime \in Int
  BY BoardAssumption DEF Motions, Cells, Position
<1>2. CASE m.type # "Jump" /\ ~(time >= m.arrivalTime) /\ ~(time <= m.startTime)
  <2> DEFINE duration == m.arrivalTime - m.startTime
             r == RoundedShare(m.destination.row - m.source.row, time - m.startTime, duration)
             c == RoundedShare(m.destination.col - m.source.col, time - m.startTime, duration)
  <2>1. duration \in Int /\ duration > 0
    BY <1>1, <1>2
  <2>2. /\ m.destination.row - m.source.row \in Int
        /\ m.destination.col - m.source.col \in Int
        /\ time - m.startTime \in Int
    BY <1>1 DEF Position
  <2> HIDE DEF duration
  <2>3. r \in Int /\ c \in Int
    BY <2>1, <2>2, RoundedShareType
  <2>4. getCurrentCell(m, time) = At(m.source.row + r, m.source.col + c)
    BY <1>2 DEF getCurrentCell, duration
  <2> HIDE DEF r, c
  <2> QED
    BY <1>1, <2>3, <2>4 DEF Position, At
<1>3. CASE ~(m.type # "Jump" /\ ~(time >= m.arrivalTime) /\ ~(time <= m.startTime))
  BY <1>1, <1>3 DEF getCurrentCell
<1> QED
  BY <1>2, <1>3

LEMMA OnBoardIsCell ==
  ASSUME NEW pos \in Position, isInside(pos)
  PROVE  pos \in Cells
BY BoardAssumption DEF Position, Cells, isInside

LEMMA CellFacts ==
  /\ \A c \in Cells : c \in Position /\ isInside(c)
  /\ \A r, c \in Int : isInside(At(r, c)) => At(r, c) \in Cells
  /\ NoPiece \notin Pieces
BY BoardAssumption DEF Cells, Position, isInside, At

LEMMA GetPieceType ==
  ASSUME TypeOK, NEW pos \in Position
  PROVE  /\ getPiece(grid, pos) \in Pieces \union {NoPiece}
         /\ getPiece(grid, pos) # NoPiece => pos \in Cells /\ grid[pos] = getPiece(grid, pos)
BY OnBoardIsCell DEF TypeOK, getPiece

\* The rules offer only cells of the board.
LEMMA LegalDestinationsAreCells ==
  ASSUME NEW p \in Pieces, NEW k \in Kinds, NEW from \in Cells
  PROVE  LegalDestinations(grid, p, k, from) \subseteq Cells
<1>1. from.row \in Int /\ from.col \in Int
  BY CellFacts DEF Position
<1>2. \A dir \in Straight \union Diagonal \union KnightOffsets :
        dir[1] \in Int /\ dir[2] \in Int
  BY DEF Straight, Diagonal, KnightOffsets
<1>3. \A dir \in Straight \union Diagonal \union KnightOffsets, n \in Int :
        Enterable(grid, p, Shift(from, dir, n)) => Shift(from, dir, n) \in Cells
  BY <1>1, <1>2, CellFacts DEF Enterable, Shift
<1>4. \A dirs \in SUBSET (Straight \union Diagonal \union KnightOffsets) :
        /\ SlidingDestinations(grid, p, from, dirs) \subseteq Cells
        /\ SteppingDestinations(grid, p, from, dirs) \subseteq Cells
  BY <1>3 DEF SlidingDestinations, SteppingDestinations, Reaches
<1>5. PawnDestinations(grid, p, from) \subseteq Cells
  BY <1>1, CellFacts DEF PawnDestinations, PawnDirection, Empty, Holds, At
<1> QED
  BY <1>4, <1>5 DEF LegalDestinations, Kinds

LEMMA MovesFromType ==
  ASSUME TypeOK, NEW source \in Cells
  PROVE  /\ MovesFrom(source) \subseteq Cells
         /\ MovesFrom(source) # {} => MayTakeOff(source)
<1>1. CASE MayTakeOff(source)
  <2>1. getPiece(grid, source) \in Pieces
    BY <1>1, CellFacts, GetPieceType DEF MayTakeOff
  <2>2. kind[getPiece(grid, source)] \in Kinds
    BY <2>1 DEF TypeOK
  <2> QED
    BY <1>1, <2>1, <2>2, LegalDestinationsAreCells DEF MovesFrom
<1>2. CASE ~MayTakeOff(source)
  BY <1>2 DEF MovesFrom
<1> QED
  BY <1>1, <1>2

-----------------------------------------------------------------------------
(* Type correctness.                                                       *)

LEMMA TakeOffType ==
  ASSUME TypeOK, NEW source \in Cells, NEW destination \in Cells,
         NEW duration \in Int, NEW type \in MotionTypes,
         MayTakeOff(source), TakeOff(source, destination, duration, type)
  PROVE  TypeOK'
<1> DEFINE p == getPiece(grid, source)
           m == NewMotion(p, source, destination, currentTime, duration, type)
<1>1. p \in Pieces
  BY CellFacts, GetPieceType DEF MayTakeOff
<1>2. m \in Motions
  BY <1>1, CellFacts DEF NewMotion, Motions, TypeOK
<1>3. grid' \in [Cells -> Pieces \union {NoPiece}]
  BY DEF TypeOK, TakeOff, removePiece
<1>4. pieceState' \in [Pieces -> PieceStates]
  BY <1>1 DEF TypeOK, TakeOff, PieceStates
<1>5. activeMotions' \in Seq(Motions)
  BY <1>2, AppendProperties DEF TypeOK, TakeOff
<1> QED
  BY <1>3, <1>4, <1>5 DEF TypeOK, TakeOff, gameVars, loopVars, history

LEMMA MoveDurationType ==
  ASSUME NEW source \in Cells, NEW destination \in Cells
  PROVE  MoveDuration(source, destination) \in Int
BY CellFacts, EngineAssumption DEF MoveDuration, AbsDiff, Position

LEMMA RequestType ==
  ASSUME TypeOK, Request
  PROVE  TypeOK'
<1>1. CASE requestMove
  BY <1>1, MovesFromType, MoveDurationType, TakeOffType DEF requestMove, MotionTypes
<1>2. CASE requestJump
  BY <1>2, EngineAssumption, TakeOffType DEF requestJump, MotionTypes
<1>3. CASE RequestRejected
  BY <1>3 DEF RequestRejected, TypeOK, vars, pieceVars, gameVars, loopVars, history
<1> QED
  BY <1>1, <1>2, <1>3 DEF Request

LEMMA TimeType ==
  ASSUME TypeOK, WaitCall \/ WaitEnd \/ AdvanceTime
  PROVE  TypeOK'
<1>1. CASE WaitCall
  BY <1>1, EngineAssumption
  DEF WaitCall, WaitBegin, TypeOK, Phases, pieceVars, gameVars, history
<1>2. CASE WaitEnd
  BY <1>2 DEF WaitEnd, TypeOK, Phases, pieceVars, gameVars, loopVars, history
<1>3. CASE AdvanceTime
  <2>1. StepSize \in Nat /\ StepSize <= remaining
    BY <1>3, EngineAssumption DEF AdvanceTime, StepSize, TypeOK
  <2> QED
    BY <1>3, <2>1 DEF AdvanceTime, TypeOK, Phases, pieceVars, gameVars, history
<1> QED
  BY <1>1, <1>2, <1>3

\* What the collision checks may write into a motion keeps it a motion.
LEMMA MotionUpdates ==
  ASSUME TypeOK, NEW m \in Motions
  PROVE  /\ CellNow(m) \in Position /\ CellBefore(m) \in Position
         /\ [m EXCEPT !.isDead = TRUE] \in Motions
         /\ [m EXCEPT !.destination = CellBefore(m), !.arrivalTime = currentTime] \in Motions
         /\ CutShort(m) \in Motions
<1>1. currentTime \in Int /\ currentTime - PhysicsTick \in Int
  BY EngineAssumption DEF TypeOK
<1>2. \A n \in Motions : CellNow(n) \in Position /\ CellBefore(n) \in Position
  BY <1>1, CurrentCellType DEF CellNow, CellBefore
<1>3. [m EXCEPT !.arrivalTime = currentTime] \in Motions
  BY <1>1 DEF Motions
<1>4. \A n \in Motions, c \in Position : [n EXCEPT !.destination = c] \in Motions
  BY DEF Motions
<1>5. [m EXCEPT !.destination = CellBefore(m), !.arrivalTime = currentTime] \in Motions
  BY <1>1, <1>2 DEF Motions
<1>6. [m EXCEPT !.isDead = TRUE] \in Motions
  BY DEF Motions
<1> QED
  BY <1>2, <1>3, <1>4, <1>5, <1>6 DEF CutShort

LEMMA MotionsAt ==
  ASSUME TypeOK
  PROVE  /\ Len(activeMotions) \in Nat
         /\ DOMAIN activeMotions = Indices
         /\ \A k \in Indices : activeMotions[k] \in Motions /\ activeMotions[k].piece \in Pieces
<1>1. activeMotions \in Seq(Motions)
  BY DEF TypeOK
<1>2. \A k \in Indices : activeMotions[k] \in Motions
  BY <1>1, ElementOfSeq DEF Indices
<1> QED
  BY <1>1, <1>2, LenProperties DEF Indices, Motions

\* Overwriting one motion leaves a vector of motions of the same length.
LEMMA ReplaceMotion ==
  ASSUME NEW ms \in Seq(Motions), NEW k \in 1 .. Len(ms), NEW m \in Motions
  PROVE  /\ [ms EXCEPT ![k] = m] \in Seq(Motions)
         /\ Len([ms EXCEPT ![k] = m]) = Len(ms)
BY ExceptSeq

LEMMA EventTypes ==
  ASSUME NEW p \in Pieces
  PROVE  Captured(p) \in Events /\ Completed(p) \in Events
BY DEF Captured, Completed, Events

LEMMA DecideForType ==
  ASSUME TypeOK, NEW color \in Colors, NEW fatal \in BOOLEAN, DecideFor(color, fatal)
  PROVE  isGameOver' \in BOOLEAN /\ winner' \in Colors \union {"None"}
BY DEF DecideFor, TypeOK

LEMMA GroundType ==
  ASSUME TypeOK, CheckGround
  PROVE  TypeOK'
<1>1. CASE GroundCapture
  <2>1. PICK k \in Indices :
          LET m == activeMotions[k]
              victim == getPiece(grid, CellNow(m))
          IN  /\ NextGroundHit(k)
              /\ grid' = removePiece(grid, CellNow(m))
              /\ published' = Append(published, Captured(victim))
              /\ captured' = captured \union {victim}
              /\ DecideFor(Color[m.piece], isFatalDeath(kind[victim]))
              /\ i' = k
    BY <1>1 DEF GroundCapture, Indices
  <2> DEFINE m == activeMotions[k]
             victim == getPiece(grid, CellNow(m))
  <2>2. m \in Motions /\ CellNow(m) \in Position /\ Color[m.piece] \in Colors
    BY MotionsAt, MotionUpdates, ColorAssumption
  <2>3. victim \in Pieces
    BY <2>1, <2>2, GetPieceType DEF NextGroundHit, HitsGround
  <2>4. grid' \in [Cells -> Pieces \union {NoPiece}]
    BY <2>1 DEF TypeOK, removePiece
  <2>5. published' \in Seq(Events)
    BY <2>1, <2>3, EventTypes, AppendProperties DEF TypeOK
  <2>6. isGameOver' \in BOOLEAN /\ winner' \in Colors \union {"None"}
    BY <2>1, <2>2, DecideForType DEF isFatalDeath
  <2>7. i' \in Nat /\ captured' \subseteq Pieces
    BY <2>1, <2>3 DEF Indices, TypeOK
  <2> QED
    BY <1>1, <2>4, <2>5, <2>6, <2>7 DEF GroundCapture, TypeOK, pieceVars
<1>2. CASE GroundBlocked
  <2>1. PICK k \in Indices :
          /\ activeMotions' = [activeMotions EXCEPT ![k] =
               [activeMotions[k] EXCEPT !.destination = CellBefore(activeMotions[k]),
                                        !.arrivalTime = currentTime]]
          /\ i' = k
    BY <1>2 DEF GroundBlocked, Indices
  <2>2. activeMotions' \in Seq(Motions)
    BY <2>1, MotionsAt, MotionUpdates, ExceptSeq DEF TypeOK, Indices
  <2>3. i' \in Nat
    BY <2>1 DEF Indices
  <2> QED
    BY <1>2, <2>2, <2>3 DEF GroundBlocked, TypeOK, pieceVars, gameVars, history
<1>3. CASE GroundDone
  BY <1>3 DEF GroundDone, TypeOK, Phases, pieceVars, gameVars, history
<1> QED
  BY <1>1, <1>2, <1>3 DEF CheckGround

LEMMA AirType ==
  ASSUME TypeOK, CheckAir
  PROVE  TypeOK'
<1>1. CASE AirKill
  <2> DEFINE Killed(k, l, u, v) ==
          LET p == activeMotions[v].piece
          IN  /\ NextCollision(k, l)
              /\ Kills(activeMotions[u], activeMotions[v])
              /\ activeMotions' = [activeMotions EXCEPT ![v] = [@ EXCEPT !.isDead = TRUE]]
              /\ published' = Append(published, Captured(p))
              /\ captured' = captured \union {p}
              /\ DecideFor(Color[activeMotions[u].piece], isFatalDeath(kind[p]))
              /\ i' = k /\ j' = l
  <2>0. \E k, l \in Indices : \E u, v \in {k, l} : Killed(k, l, u, v)
    BY <1>1, Zenon DEF AirKill
  <2>1. PICK k \in Indices, l \in Indices, u \in Indices, v \in Indices : Killed(k, l, u, v)
    <3> HIDE DEF Killed
    <3> QED
      BY <2>0
  <2> DEFINE p == activeMotions[v].piece
  <2>3. p \in Pieces /\ Color[activeMotions[u].piece] \in Colors
    BY MotionsAt, ColorAssumption
  <2>4. activeMotions' \in Seq(Motions)
    <3>1. activeMotions' = [activeMotions EXCEPT ![v] = [activeMotions[v] EXCEPT !.isDead = TRUE]]
      BY <2>1, MotionsAt
    <3>2. [activeMotions[v] EXCEPT !.isDead = TRUE] \in Motions
      BY MotionsAt, MotionUpdates
    <3> QED
      BY <3>1, <3>2, ReplaceMotion DEF TypeOK, Indices
  <2>5. published' \in Seq(Events)
    BY <2>1, <2>3, EventTypes, AppendProperties DEF TypeOK
  <2>6. isGameOver' \in BOOLEAN /\ winner' \in Colors \union {"None"}
    BY <2>1, <2>3, DecideForType DEF isFatalDeath
  <2>7. i' \in Nat /\ j' \in Nat /\ captured' \subseteq Pieces
    BY <2>1, <2>3 DEF Indices, TypeOK
  <2> QED
    BY <1>1, <2>4, <2>5, <2>6, <2>7 DEF AirKill, TypeOK, pieceVars
<1>2. CASE AirKillBoth
  <2>1. PICK k \in Indices, l \in Indices :
          LET p == activeMotions[k].piece
              q == activeMotions[l].piece
          IN  /\ activeMotions' = [activeMotions EXCEPT ![k] = [@ EXCEPT !.isDead = TRUE],
                                                        ![l] = [@ EXCEPT !.isDead = TRUE]]
              /\ published' = Append(Append(published, Captured(p)), Captured(q))
              /\ captured' = captured \union {p, q}
              /\ isGameOver' = (isGameOver \/ isFatalDeath(kind[p]) \/ isFatalDeath(kind[q]))
              /\ i' = k /\ j' = l
    BY <1>2 DEF AirKillBoth
  <2> DEFINE p == activeMotions[k].piece
             q == activeMotions[l].piece
             once == [activeMotions EXCEPT ![k] = [activeMotions[k] EXCEPT !.isDead = TRUE]]
  <2>2. p \in Pieces /\ q \in Pieces
    BY MotionsAt
  <2>3. once \in Seq(Motions) /\ Len(once) = Len(activeMotions) /\ once[l] \in Motions
    <3>1. [activeMotions[k] EXCEPT !.isDead = TRUE] \in Motions
      BY MotionsAt, MotionUpdates
    <3>2. once \in Seq(Motions) /\ Len(once) = Len(activeMotions)
      BY <3>1, ReplaceMotion DEF TypeOK, Indices
    <3> QED
      BY <3>2, ElementOfSeq DEF Indices
  <2>4. activeMotions' = [once EXCEPT ![l] = [once[l] EXCEPT !.isDead = TRUE]]
    BY <2>1
  <2>5. [once[l] EXCEPT !.isDead = TRUE] \in Motions
    BY <2>3, MotionUpdates
  <2>6. activeMotions' \in Seq(Motions)
    <3> HIDE DEF once
    <3> QED
      BY <2>3, <2>4, <2>5, ExceptSeq DEF Indices
  <2>7. published' \in Seq(Events)
    BY <2>1, <2>2, EventTypes, AppendProperties DEF TypeOK
  <2>8. i' \in Nat /\ j' \in Nat /\ captured' \subseteq Pieces
    BY <2>1, <2>2 DEF Indices, TypeOK
  <2>9. isGameOver' \in BOOLEAN
    BY <2>1 DEF TypeOK, isFatalDeath
  <2> QED
    BY <1>2, <2>6, <2>7, <2>8, <2>9 DEF AirKillBoth, TypeOK, pieceVars
<1>3. CASE AirStop
  <2>1. PICK k \in Indices, l \in Indices :
          /\ \/ activeMotions' = [activeMotions EXCEPT ![l] = CutShort(activeMotions[l])]
             \/ activeMotions' = [activeMotions EXCEPT ![k] = CutShort(activeMotions[k])]
          /\ i' = k /\ j' = l
    BY <1>3 DEF AirStop
  <2>2. activeMotions' \in Seq(Motions)
    <3>1. CutShort(activeMotions[k]) \in Motions /\ CutShort(activeMotions[l]) \in Motions
      BY MotionsAt, MotionUpdates
    <3>2. [activeMotions EXCEPT ![k] = CutShort(activeMotions[k])] \in Seq(Motions)
      BY <3>1, ReplaceMotion DEF TypeOK, Indices
    <3>3. [activeMotions EXCEPT ![l] = CutShort(activeMotions[l])] \in Seq(Motions)
      BY <3>1, ReplaceMotion DEF TypeOK, Indices
    <3> QED
      BY <2>1, <3>2, <3>3
  <2>3. i' \in Nat /\ j' \in Nat
    BY <2>1 DEF Indices
  <2> QED
    BY <1>3, <2>2, <2>3 DEF AirStop, TypeOK, pieceVars, gameVars, history
<1>4. CASE JudgeDead
  <2>1. winner' \in Colors \union {"None"} /\ isGameOver' \in BOOLEAN
    BY <1>4 DEF JudgeDead, TypeOK, Opponent, Colors
  <2> QED
    BY <1>4, <2>1 DEF JudgeDead, TypeOK, Phases, pieceVars, history
<1> QED
  BY <1>1, <1>2, <1>3, <1>4 DEF CheckAir

LEMMA RetireType ==
  ASSUME TypeOK, Retire
  PROVE  TypeOK'
<1>1. CASE CleanupDead
  <2>1. PICK k \in Indices : activeMotions' = RemoveAt(activeMotions, k)
    BY <1>1 DEF CleanupDead
  <2>2. activeMotions' \in Seq(Motions)
    BY <2>1, RemoveAtProperties DEF TypeOK, Indices
  <2> QED
    BY <1>1, <2>2 DEF CleanupDead, TypeOK, pieceVars, gameVars, loopVars, history
<1>2. CASE PopArrived
  <2>1. PICK k \in Indices : /\ arrivals' = Append(arrivals, activeMotions[k])
                             /\ activeMotions' = RemoveAt(activeMotions, k)
    BY <1>2 DEF PopArrived
  <2>2. activeMotions' \in Seq(Motions)
    BY <2>1, RemoveAtProperties DEF TypeOK, Indices
  <2>3. arrivals' \in Seq(Motions)
    BY <2>1, MotionsAt, AppendProperties DEF TypeOK
  <2> QED
    BY <1>2, <2>2, <2>3 DEF PopArrived, TypeOK, pieceVars, gameVars, loopVars, history
<1>3. CASE PopDone
  BY <1>3 DEF PopDone, TypeOK, Phases, pieceVars, gameVars, loopVars, history
<1> QED
  BY <1>1, <1>2, <1>3 DEF Retire

LEMMA ArrivalsAt ==
  ASSUME TypeOK
  PROVE  /\ Len(arrivals) \in Nat
         /\ \A k \in 1 .. Len(arrivals) : arrivals[k] \in Motions /\ arrivals[k].piece \in Pieces
         /\ arrivals # << >> =>
              /\ Len(arrivals) >= 1
              /\ arrivals[1] \in Motions
              /\ arrivals[1].piece \in Pieces
              /\ arrivals[1].source \in Cells
              /\ arrivals[1].destination \in Position
              /\ Tail(arrivals) \in Seq(Motions)
<1>1. arrivals \in Seq(Motions)
  BY DEF TypeOK
<1>2. Len(arrivals) \in Nat /\ \A k \in 1 .. Len(arrivals) : arrivals[k] \in Motions
  BY <1>1, LenProperties, ElementOfSeq
<1>3. arrivals # << >> => Len(arrivals) >= 1 /\ Tail(arrivals) \in Seq(Motions)
  BY <1>1, EmptySeq, HeadTailProperties
<1> QED
  BY <1>2, <1>3 DEF Motions

LEMMA AddPieceType ==
  ASSUME NEW g \in [Cells -> Pieces \union {NoPiece}], NEW p \in Pieces, NEW pos
  PROVE  addPiece(g, p, pos) \in [Cells -> Pieces \union {NoPiece}]
BY DEF addPiece

LEMMA TouchDownType ==
  ASSUME TypeOK, NEW m \in Motions, m.piece \in Pieces, TouchDown(m), m = arrivals[1],
         arrivals # << >>
  PROVE  /\ kind' \in [Pieces -> Kinds]
         /\ pieceState' \in [Pieces -> PieceStates]
         /\ readyTime' \in [Pieces -> Nat]
         /\ arrivals' \in Seq(Motions)
<1>1. RestAfter(m) \in RestStates
  BY DEF RestAfter, RestStates
<1>2. Cooldown[kind[m.piece]][RestAfter(m)] \in Nat
  BY <1>1, EngineAssumption DEF TypeOK
<1>3. KindOnArrival(kind[m.piece], m.destination) \in Kinds
  BY DEF KindOnArrival, TypeOK, Kinds
<1>4. kind' \in [Pieces -> Kinds]
  BY <1>3 DEF TouchDown, TypeOK
<1>5. pieceState' \in [Pieces -> PieceStates]
  BY <1>1 DEF TouchDown, TypeOK, PieceStates
<1>6. readyTime' \in [Pieces -> Nat]
  <2>1. currentTime + Cooldown[kind[m.piece]][RestAfter(m)] \in Nat
    BY <1>2 DEF TypeOK
  <2> QED
    BY <2>1 DEF TouchDown, TypeOK
<1>7. arrivals' \in Seq(Motions)
  BY ArrivalsAt DEF TouchDown
<1> QED
  BY <1>4, <1>5, <1>6, <1>7

LEMMA LandType ==
  ASSUME TypeOK, Land
  PROVE  TypeOK'
<1> DEFINE m == arrivals[1]
           target == getPiece(grid, m.destination)
<1>1. CASE LandOnEmpty
  <2>1. arrivals # << >> /\ TouchDown(m)
    BY <1>1 DEF LandOnEmpty, Landing
  <2>2. m \in Motions /\ m.piece \in Pieces
    BY <2>1, ArrivalsAt
  <2>3. grid' \in [Cells -> Pieces \union {NoPiece}]
    BY <1>1, <2>2, AddPieceType DEF LandOnEmpty, TypeOK
  <2>4. published' \in Seq(Events)
    BY <1>1, <2>2, EventTypes, AppendProperties DEF LandOnEmpty, TypeOK
  <2>5. lost' \subseteq Pieces
    BY <1>1, <2>2 DEF LandOnEmpty, TypeOK
  <2> QED
    BY <1>1, <2>1, <2>2, <2>3, <2>4, <2>5, TouchDownType
    DEF LandOnEmpty, TypeOK, gameVars, loopVars
<1>2. CASE LandOnEnemy
  <2>1. arrivals # << >> /\ TouchDown(m) /\ target # NoPiece
    BY <1>2 DEF LandOnEnemy, Landing
  <2>2. m \in Motions /\ m.piece \in Pieces /\ m.destination \in Position
    BY <2>1, ArrivalsAt
  <2>3. target \in Pieces
    BY <2>1, <2>2, GetPieceType
  <2>4. grid' \in [Cells -> Pieces \union {NoPiece}]
    <3>1. removePiece(grid, m.destination) \in [Cells -> Pieces \union {NoPiece}]
      BY DEF removePiece, TypeOK
    <3> QED
      BY <1>2, <2>2, <3>1, AddPieceType DEF LandOnEnemy
  <2>5. published' \in Seq(Events)
    <3>1. Append(published, Captured(target)) \in Seq(Events)
      BY <2>3, EventTypes, AppendProperties DEF TypeOK
    <3>2. published' = Append(Append(published, Captured(target)), Completed(m.piece))
      BY <1>2 DEF LandOnEnemy
    <3> QED
      BY <2>2, <3>1, <3>2, EventTypes, AppendProperties
  <2>6. isGameOver' \in BOOLEAN /\ winner' \in Colors \union {"None"}
    BY <1>2, <2>2, ColorAssumption, DecideForType DEF LandOnEnemy, isFatalDeath
  <2>7. captured' \subseteq Pieces
    BY <1>2, <2>3 DEF LandOnEnemy, TypeOK
  <2> QED
    BY <1>2, <2>1, <2>2, <2>4, <2>5, <2>6, <2>7, TouchDownType
    DEF LandOnEnemy, TypeOK, loopVars
<1>3. CASE LandBounced
  <2>1. arrivals # << >> /\ TouchDown(m)
    BY <1>3 DEF LandBounced, Landing
  <2>2. m \in Motions /\ m.piece \in Pieces
    BY <2>1, ArrivalsAt
  <2>3. grid' \in [Cells -> Pieces \union {NoPiece}]
    BY <1>3, <2>2, AddPieceType DEF LandBounced, TypeOK
  <2>4. lost' \subseteq Pieces
    BY <1>3, <2>2 DEF LandBounced, TypeOK
  <2> QED
    BY <1>3, <2>1, <2>2, <2>3, <2>4, TouchDownType
    DEF LandBounced, TypeOK, gameVars, loopVars
<1>4. CASE WakeRested
  BY <1>4 DEF WakeRested, TypeOK, PieceStates, Phases, gameVars, loopVars, history
<1> QED
  BY <1>1, <1>2, <1>3, <1>4 DEF Land

LEMMA InitType == Init => TypeOK
<1> SUFFICES ASSUME Init PROVE TypeOK
  OBVIOUS
<1>1. InitialGrid \in [Cells -> Pieces \union {NoPiece}]
  BY DEF InitialGrid
<1>2. << >> \in Seq(Motions) /\ << >> \in Seq(Events)
  BY EmptySeq
<1> QED
  BY <1>1, <1>2, EngineAssumption DEF Init, TypeOK, PieceStates, Phases

LEMMA NextType == TypeOK /\ [Next]_vars => TypeOK'
<1> SUFFICES ASSUME TypeOK, [Next]_vars PROVE TypeOK'
  OBVIOUS
<1>1. CASE UNCHANGED vars
  BY <1>1 DEF TypeOK, vars, pieceVars, gameVars, loopVars, history
<1>2. CASE Request
  BY <1>2, RequestType
<1>3. CASE WaitCall \/ WaitEnd \/ AdvanceTime
  BY <1>3, TimeType
<1>4. CASE CheckGround
  BY <1>4, GroundType
<1>5. CASE CheckAir
  BY <1>5, AirType
<1>6. CASE Retire
  BY <1>6, RetireType
<1>7. CASE Land
  BY <1>7, LandType
<1> QED
  BY <1>1, <1>2, <1>3, <1>4, <1>5, <1>6, <1>7 DEF Next, WaitStep

\* Every variable of the engine keeps its type, for every board, cooldown
\* table and tick length.
THEOREM TypeCorrect == Spec => []TypeOK
BY InitType, NextType, PTL DEF Spec

-----------------------------------------------------------------------------
(* A piece is in one place.  First how the operations on the grid and on   *)
(* the two vectors change where a piece is.                                *)

Stands(g, p) == \E c \in Cells : g[c] = p

LEMMA RemovePieceFacts ==
  ASSUME NEW g \in [Cells -> Pieces \union {NoPiece}], NoTwinsOnGrid(g),
         NEW pos \in Cells, g[pos] # NoPiece
  PROVE  /\ NoTwinsOnGrid(removePiece(g, pos))
         /\ \A p \in Pieces : Stands(removePiece(g, pos), p) <=> Stands(g, p) /\ p # g[pos]
         /\ removePiece(g, pos) \in [Cells -> Pieces \union {NoPiece}]
         /\ removePiece(g, pos)[pos] = NoPiece
<1>1. removePiece(g, pos) = [g EXCEPT ![pos] = NoPiece]
  BY CellFacts DEF removePiece
<1> QED
  BY <1>1, CellFacts DEF NoTwinsOnGrid, Stands

LEMMA AddPieceFacts ==
  ASSUME NEW g \in [Cells -> Pieces \union {NoPiece}], NoTwinsOnGrid(g),
         NEW p \in Pieces, ~Stands(g, p), NEW pos \in Position
  PROVE  /\ NoTwinsOnGrid(addPiece(g, p, pos))
         /\ \A q \in Pieces : Stands(addPiece(g, p, pos), q)
                                 <=> Stands(g, q) \/ (q = p /\ CanAdd(g, pos))
<1>1. CASE CanAdd(g, pos)
  <2>1. pos \in Cells /\ g[pos] = NoPiece
    BY <1>1, OnBoardIsCell DEF CanAdd
  <2>2. addPiece(g, p, pos) = [g EXCEPT ![pos] = p]
    BY <1>1 DEF addPiece
  <2> QED
    BY <1>1, <2>1, <2>2, CellFacts DEF NoTwinsOnGrid, Stands
<1>2. CASE ~CanAdd(g, pos)
  BY <1>2 DEF addPiece
<1> QED
  BY <1>1, <1>2

LEMMA AppendFacts ==
  ASSUME NEW ms \in Seq(Motions), NoTwins(ms), NEW m \in Motions, ~Carries(ms, m.piece)
  PROVE  /\ NoTwins(Append(ms, m))
         /\ \A p : Carries(Append(ms, m), p) <=> Carries(ms, p) \/ p = m.piece
<1> DEFINE new == Append(ms, m)
<1>1. /\ Len(ms) \in Nat
      /\ Len(new) = Len(ms) + 1
      /\ \A k \in 1 .. Len(ms) : new[k] = ms[k]
      /\ new[Len(ms) + 1] = m
  BY AppendProperties, LenProperties
<1> HIDE DEF new
<1>2. NoTwins(new)
  BY <1>1 DEF NoTwins, Carries
<1>3. \A p : Carries(new, p) <=> Carries(ms, p) \/ p = m.piece
  BY <1>1 DEF Carries
<1> QED
  BY <1>2, <1>3 DEF new

\* new is ms without its element k.
LEMMA WithoutFacts ==
  ASSUME NEW ms \in Seq(Motions), NoTwins(ms), NEW k \in 1 .. Len(ms),
         NEW new \in Seq(Motions), Len(new) = Len(ms) - 1,
         \A l \in 1 .. (Len(ms) - 1) : new[l] = IF l < k THEN ms[l] ELSE ms[l + 1]
  PROVE  /\ NoTwins(new)
         /\ \A p : Carries(new, p) <=> Carries(ms, p) /\ p # ms[k].piece
<1> DEFINE old(l) == IF l < k THEN l ELSE l + 1
<1>1. Len(ms) \in Nat
  BY LenProperties
<1>2. \A l \in 1 .. Len(new) : old(l) \in 1 .. Len(ms) /\ old(l) # k /\ new[l] = ms[old(l)]
  BY <1>1
<1>3. \A l, n \in 1 .. Len(new) : old(l) = old(n) => l = n
  BY <1>1
<1> HIDE DEF old
<1>4. NoTwins(new)
  BY <1>2, <1>3 DEF NoTwins
<1>5. ASSUME NEW p, Carries(new, p)
      PROVE  Carries(ms, p) /\ p # ms[k].piece
  BY <1>2, <1>5 DEF Carries, NoTwins
<1>6. ASSUME NEW p, Carries(ms, p), p # ms[k].piece
      PROVE  Carries(new, p)
  <2>1. PICK l \in 1 .. Len(ms) : ms[l].piece = p
    BY <1>6 DEF Carries
  <2>2. CASE l < k
    <3>1. l \in 1 .. Len(new) /\ new[l] = ms[l]
      BY <1>1, <2>2
    <3> QED
      BY <2>1, <3>1 DEF Carries
  <2>3. CASE l > k
    <3>1. l - 1 \in 1 .. Len(new) /\ new[l - 1] = ms[l]
      BY <1>1, <2>3
    <3> QED
      BY <2>1, <3>1 DEF Carries
  <2>4. l # k
    BY <1>6, <2>1
  <2> QED
    BY <1>1, <2>2, <2>3, <2>4
<1> QED
  BY <1>4, <1>5, <1>6

\* A vector with the same pieces at the same indices.
LEMMA SamePiecesFacts ==
  ASSUME NEW ms, NEW new, Len(new) = Len(ms),
         \A k \in 1 .. Len(ms) : new[k].piece = ms[k].piece
  PROVE  /\ NoTwins(ms) <=> NoTwins(new)
         /\ \A p : Carries(new, p) <=> Carries(ms, p)
BY DEF NoTwins, Carries

\* The same, for a step that empties a cell of the engine's grid.
LEMMA EmptiedCell ==
  ASSUME TypeOK, NoTwinsOnGrid(grid), NEW pos \in Cells, grid[pos] # NoPiece,
         grid' = removePiece(grid, pos)
  PROVE  /\ NoTwinsOnGrid(grid')
         /\ \A q \in Pieces : OnBoard(q)' <=> OnBoard(q) /\ q # grid[pos]
<1>1. /\ NoTwinsOnGrid(removePiece(grid, pos))
      /\ \A q \in Pieces : Stands(removePiece(grid, pos), q) <=> Stands(grid, q) /\ q # grid[pos]
  BY RemovePieceFacts DEF TypeOK
<1>2. \A q : OnBoard(q) <=> Stands(grid, q)
  BY DEF OnBoard, Stands
<1>3. \A q : OnBoard(q)' <=> Stands(grid', q)
  BY DEF OnBoard, Stands
<1> QED
  BY <1>1, <1>2, <1>3

LEMMA TakeOffPlace ==
  ASSUME TypeOK, OnePlace, NEW source \in Cells, NEW destination \in Cells,
         NEW duration \in Int, NEW type \in MotionTypes,
         MayTakeOff(source), TakeOff(source, destination, duration, type)
  PROVE  OnePlace'
<1> DEFINE p == grid[source]
           m == NewMotion(p, source, destination, currentTime, duration, type)
<1>1. p \in Pieces /\ p # NoPiece /\ getPiece(grid, source) = p /\ OnBoard(p)
  BY CellFacts, GetPieceType DEF MayTakeOff, OnBoard
<1>2. m \in Motions /\ m.piece = p
  BY <1>1, CellFacts DEF NewMotion, Motions, TypeOK
<1>3. /\ grid' = removePiece(grid, source)
      /\ activeMotions' = Append(activeMotions, m)
      /\ arrivals' = arrivals
  BY <1>1 DEF TakeOff
<1>4. ~Carries(activeMotions, p) /\ ~Carries(arrivals, p)
  BY <1>1 DEF OnePlace, Flying, LandingNow
<1>5. /\ NoTwinsOnGrid(grid')
      /\ \A q \in Pieces : OnBoard(q)' <=> OnBoard(q) /\ q # p
  <2> HIDE DEF p
  <2>1. p = grid[source]
    BY DEF p
  <2> QED
    BY <1>1, <1>3, <2>1, EmptiedCell DEF OnePlace
<1>6. /\ NoTwins(activeMotions')
      /\ \A q \in Pieces : Flying(q)' <=> Flying(q) \/ q = p
  <2> HIDE DEF p, m
  <2> QED
    BY <1>2, <1>3, <1>4, AppendFacts DEF OnePlace, TypeOK, Flying
<1>7. NoTwins(arrivals') /\ \A q \in Pieces : LandingNow(q)' <=> LandingNow(q)
  BY <1>3 DEF OnePlace, LandingNow
<1> QED
  BY <1>4, <1>5, <1>6, <1>7 DEF OnePlace, LandingNow

LEMMA SamePlaces ==
  ASSUME OnePlace, UNCHANGED <<grid, activeMotions, arrivals>>
  PROVE  OnePlace'
BY DEF OnePlace, OnBoard, Flying, LandingNow

\* A step that rewrites motions but keeps the piece at each index.
LEMMA SameVector ==
  ASSUME TypeOK, OnePlace, UNCHANGED <<grid, arrivals>>,
         Len(activeMotions') = Len(activeMotions),
         \A n \in Indices : activeMotions'[n].piece = activeMotions[n].piece
  PROVE  OnePlace'
<1>1. /\ NoTwins(activeMotions') <=> NoTwins(activeMotions)
      /\ \A p : Carries(activeMotions', p) <=> Carries(activeMotions, p)
  BY SamePiecesFacts DEF Indices
<1> QED
  BY <1>1 DEF OnePlace, OnBoard, Flying, LandingNow

\* One motion is rewritten and keeps its piece.
LEMMA OneRewritten ==
  ASSUME TypeOK, OnePlace, UNCHANGED <<grid, arrivals>>,
         NEW n \in Indices, NEW m, m.piece = activeMotions[n].piece,
         activeMotions' = [activeMotions EXCEPT ![n] = m]
  PROVE  OnePlace'
<1>1. /\ Len(activeMotions') = Len(activeMotions)
      /\ \A k \in Indices : activeMotions'[k].piece = activeMotions[k].piece
  BY MotionsAt DEF TypeOK, Indices
<1> QED
  BY <1>1, SameVector

LEMMA RequestPlace ==
  ASSUME TypeOK, OnePlace, Request
  PROVE  OnePlace'
<1>1. CASE requestMove
  BY <1>1, MovesFromType, MoveDurationType, TakeOffPlace DEF requestMove, MotionTypes
<1>2. CASE requestJump
  BY <1>2, EngineAssumption, TakeOffPlace DEF requestJump, MotionTypes
<1>3. CASE RequestRejected
  BY <1>3, SamePlaces DEF RequestRejected, vars
<1> QED
  BY <1>1, <1>2, <1>3 DEF Request

\* A capture on the ground empties a cell and moves no other piece.
LEMMA GroundPlace ==
  ASSUME TypeOK, OnePlace, CheckGround
  PROVE  OnePlace'
<1>1. CASE GroundCapture
  <2>1. PICK k \in Indices : /\ NextGroundHit(k)
                             /\ grid' = removePiece(grid, CellNow(activeMotions[k]))
    BY <1>1 DEF GroundCapture, Indices
  <2> DEFINE pos == CellNow(activeMotions[k])
  <2>2. pos \in Position /\ getPiece(grid, pos) # NoPiece
    BY <2>1, MotionsAt, MotionUpdates DEF NextGroundHit, HitsGround
  <2>3. pos \in Cells /\ grid[pos] # NoPiece
    BY <2>2, GetPieceType
  <2>4. /\ NoTwinsOnGrid(grid')
        /\ \A q \in Pieces : OnBoard(q)' => OnBoard(q)
    <3> HIDE DEF pos
    <3>1. grid' = removePiece(grid, pos)
      BY <2>1 DEF pos
    <3> QED
      BY <2>3, <3>1, EmptiedCell DEF OnePlace
  <2>5. UNCHANGED <<activeMotions, arrivals>>
    BY <1>1 DEF GroundCapture
  <2> QED
    BY <2>4, <2>5 DEF OnePlace, Flying, LandingNow
<1>2. CASE GroundBlocked
  <2>1. PICK k \in Indices :
          activeMotions' = [activeMotions EXCEPT ![k] =
             [activeMotions[k] EXCEPT !.destination = CellBefore(activeMotions[k]),
                                      !.arrivalTime = currentTime]]
    BY <1>2 DEF GroundBlocked, Indices
  <2>2. [activeMotions[k] EXCEPT !.destination = CellBefore(activeMotions[k]),
                                 !.arrivalTime = currentTime].piece = activeMotions[k].piece
    BY MotionsAt DEF Motions
  <2>3. UNCHANGED <<grid, arrivals>>
    BY <1>2 DEF GroundBlocked
  <2> QED
    BY <2>1, <2>2, <2>3, OneRewritten
<1>3. CASE GroundDone
  BY <1>3, SamePlaces DEF GroundDone
<1> QED
  BY <1>1, <1>2, <1>3 DEF CheckGround

\* The checks in the air rewrite motions and keep the piece at each index.
LEMMA AirPieces ==
  ASSUME TypeOK, CheckAir
  PROVE  /\ Len(activeMotions') = Len(activeMotions)
         /\ \A n \in Indices : activeMotions'[n].piece = activeMotions[n].piece
         /\ UNCHANGED <<grid, arrivals>>
<1> DEFINE killed(n) == [activeMotions[n] EXCEPT !.isDead = TRUE]
<1>0. \A n \in Indices : /\ killed(n).piece = activeMotions[n].piece
                         /\ CutShort(activeMotions[n]).piece = activeMotions[n].piece
  BY MotionsAt DEF Motions, CutShort
<1>1. CASE AirKill
  <2>1. PICK v \in Indices : activeMotions' = [activeMotions EXCEPT ![v] = killed(v)]
    <3>1. \E k, l \in Indices : \E u, v \in {k, l} :
             activeMotions' = [activeMotions EXCEPT ![v] = [@ EXCEPT !.isDead = TRUE]]
      BY <1>1, Zenon DEF AirKill
    <3> QED
      BY <3>1, MotionsAt
  <2> QED
    BY <1>0, <1>1, <2>1, MotionsAt DEF AirKill, TypeOK, Indices
<1>2. CASE AirKillBoth
  <2>1. PICK k \in Indices, l \in Indices :
          activeMotions' = [activeMotions EXCEPT ![k] = [@ EXCEPT !.isDead = TRUE],
                                                 ![l] = [@ EXCEPT !.isDead = TRUE]]
    BY <1>2 DEF AirKillBoth
  <2> DEFINE once == [activeMotions EXCEPT ![k] = killed(k)]
  <2>2. /\ activeMotions' = [once EXCEPT ![l] = [once[l] EXCEPT !.isDead = TRUE]]
        /\ once[l] \in {activeMotions[l], killed(l)}
    BY <2>1, MotionsAt
  <2>3. /\ Len(once) = Len(activeMotions)
        /\ DOMAIN once = Indices
        /\ \A n \in Indices : once[n].piece = activeMotions[n].piece
    BY <1>0, MotionsAt DEF TypeOK, Indices
  <2>4. [once[l] EXCEPT !.isDead = TRUE].piece = activeMotions[l].piece
    BY <2>2, MotionsAt DEF Motions
  <2> HIDE DEF once
  <2>5. /\ Len(activeMotions') = Len(activeMotions)
        /\ \A n \in Indices : activeMotions'[n].piece = activeMotions[n].piece
    BY <2>2, <2>3, <2>4, MotionsAt DEF Indices
  <2> QED
    BY <1>2, <2>5 DEF AirKillBoth
<1>3. CASE AirStop
  <2>1. PICK n \in Indices : activeMotions' = [activeMotions EXCEPT ![n] = CutShort(activeMotions[n])]
    BY <1>3 DEF AirStop
  <2> QED
    BY <1>0, <1>3, <2>1, MotionsAt DEF AirStop, TypeOK, Indices
<1>4. CASE JudgeDead
  BY <1>4 DEF JudgeDead
<1> QED
  BY <1>1, <1>2, <1>3, <1>4 DEF CheckAir

LEMMA AirPlace ==
  ASSUME TypeOK, OnePlace, CheckAir
  PROVE  OnePlace'
BY AirPieces, SameVector

\* A dead motion disappears; a motion that has arrived changes vectors.
LEMMA RetirePlace ==
  ASSUME TypeOK, OnePlace, Retire
  PROVE  OnePlace'
<1> DEFINE Rest(k) == RemoveAt(activeMotions, k)
<1>0. ASSUME NEW k \in Indices
      PROVE  /\ NoTwins(Rest(k))
             /\ \A p : Carries(Rest(k), p) <=> Flying(p) /\ p # activeMotions[k].piece
  <2>1. k \in 1 .. Len(activeMotions) /\ activeMotions \in Seq(Motions) /\ NoTwins(activeMotions)
    BY DEF Indices, TypeOK, OnePlace
  <2>2. /\ Rest(k) \in Seq(Motions)
        /\ Len(Rest(k)) = Len(activeMotions) - 1
        /\ \A l \in 1 .. (Len(activeMotions) - 1) :
             Rest(k)[l] = IF l < k THEN activeMotions[l] ELSE activeMotions[l + 1]
    BY <2>1, RemoveAtProperties
  <2> HIDE DEF Rest
  <2> QED
    BY <2>1, <2>2, WithoutFacts DEF Flying
<1>1. CASE CleanupDead
  <2>1. PICK k \in Indices : activeMotions' = Rest(k)
    BY <1>1 DEF CleanupDead
  <2>2. UNCHANGED <<grid, arrivals>>
    BY <1>1 DEF CleanupDead
  <2>3. NoTwins(activeMotions') /\ \A p \in Pieces : Flying(p)' => Flying(p)
    <3> HIDE DEF Rest
    <3> QED
      BY <1>0, <2>1 DEF Flying
  <2> QED
    BY <2>2, <2>3 DEF OnePlace, OnBoard, LandingNow
<1>2. CASE PopArrived
  <2>1. PICK k \in Indices : /\ arrivals' = Append(arrivals, activeMotions[k])
                             /\ activeMotions' = Rest(k)
    BY <1>2 DEF PopArrived
  <2> DEFINE m == activeMotions[k]
  <2>2. m \in Motions /\ m.piece \in Pieces /\ Flying(m.piece)
    BY MotionsAt DEF Flying, Carries, Indices
  <2>3. ~Carries(arrivals, m.piece) /\ ~OnBoard(m.piece)
    BY <2>2 DEF OnePlace, LandingNow
  <2>4. /\ NoTwins(arrivals')
        /\ \A p \in Pieces : LandingNow(p)' <=> LandingNow(p) \/ p = m.piece
    BY <2>1, <2>2, <2>3, AppendFacts DEF OnePlace, TypeOK, LandingNow
  <2>5. /\ NoTwins(activeMotions')
        /\ \A p \in Pieces : Flying(p)' <=> Flying(p) /\ p # m.piece
    <3> HIDE DEF Rest
    <3> QED
      BY <1>0, <2>1 DEF Flying
  <2>6. UNCHANGED grid
    BY <1>2 DEF PopArrived
  <2>7. \A p \in Pieces : OnBoard(p)' <=> OnBoard(p)
    BY <2>6 DEF OnBoard
  <2> HIDE DEF m
  <2> QED
    BY <2>3, <2>4, <2>5, <2>6, <2>7 DEF OnePlace
<1>3. CASE PopDone
  BY <1>3, SamePlaces DEF PopDone
<1> QED
  BY <1>1, <1>2, <1>3 DEF Retire

LEMMA BounceCellType ==
  ASSUME NEW m \in Motions
  PROVE  BounceCell(m) \in Position
<1>1. \A n \in Int : Sign(n) \in Int
  BY DEF Sign
<1>2. /\ m.destination.row \in Int /\ m.destination.col \in Int
      /\ m.source.row \in Int /\ m.source.col \in Int
  BY CellFacts DEF Motions, Position
<1> QED
  BY <1>1, <1>2 DEF BounceCell, At, Position

\* The first of the popped motions, which lands.
LEMMA LandingFirst ==
  ASSUME TypeOK, OnePlace, arrivals # << >>, arrivals' = Tail(arrivals)
  PROVE  /\ arrivals[1].piece \in Pieces
         /\ ~OnBoard(arrivals[1].piece) /\ ~Flying(arrivals[1].piece)
         /\ NoTwins(arrivals')
         /\ \A p : LandingNow(p)' <=> LandingNow(p) /\ p # arrivals[1].piece
<1>1. /\ arrivals \in Seq(Motions) /\ Tail(arrivals) \in Seq(Motions)
      /\ Len(arrivals) \in Nat /\ Len(arrivals) >= 1
      /\ arrivals[1].piece \in Pieces
  BY ArrivalsAt DEF TypeOK
<1>2. /\ Len(Tail(arrivals)) = Len(arrivals) - 1
      /\ \A l \in 1 .. (Len(arrivals) - 1) : Tail(arrivals)[l] = arrivals[l + 1]
  BY <1>1, HeadTailProperties
<1>3. \A l \in 1 .. (Len(arrivals) - 1) :
        Tail(arrivals)[l] = IF l < 1 THEN arrivals[l] ELSE arrivals[l + 1]
  BY <1>2
<1>4. /\ NoTwins(Tail(arrivals))
      /\ \A p : Carries(Tail(arrivals), p) <=> Carries(arrivals, p) /\ p # arrivals[1].piece
  <2> DEFINE rest == Tail(arrivals)
  <2>1. /\ rest \in Seq(Motions)
        /\ Len(rest) = Len(arrivals) - 1
        /\ \A l \in 1 .. (Len(arrivals) - 1) :
             rest[l] = IF l < 1 THEN arrivals[l] ELSE arrivals[l + 1]
    BY <1>1, <1>2, <1>3
  <2>2. 1 \in 1 .. Len(arrivals) /\ arrivals \in Seq(Motions) /\ NoTwins(arrivals)
    BY <1>1 DEF OnePlace
  <2> HIDE DEF rest
  <2>3. /\ NoTwins(rest)
        /\ \A p : Carries(rest, p) <=> Carries(arrivals, p) /\ p # arrivals[1].piece
    BY <2>1, <2>2, WithoutFacts
  <2> QED
    BY <2>3 DEF rest
<1>5. LandingNow(arrivals[1].piece)
  BY <1>1 DEF LandingNow, Carries
<1>6. ~OnBoard(arrivals[1].piece) /\ ~Flying(arrivals[1].piece)
  BY <1>1, <1>5 DEF OnePlace
<1>7. \A p : LandingNow(p) <=> Carries(arrivals, p)
  BY DEF LandingNow
<1>8. \A p : LandingNow(p)' <=> Carries(arrivals', p)
  BY DEF LandingNow
<1> QED
  BY <1>1, <1>4, <1>6, <1>7, <1>8

\* A landing puts the first of the popped motions, and nothing else, on a
\* board that may have lost pieces.
LEMMA Landed ==
  ASSUME TypeOK, OnePlace, arrivals # << >>, arrivals' = Tail(arrivals),
         UNCHANGED activeMotions,
         NEW g \in [Cells -> Pieces \union {NoPiece}], NoTwinsOnGrid(g),
         \A q \in Pieces : Stands(g, q) => OnBoard(q),
         NEW pos \in Position, grid' = addPiece(g, arrivals[1].piece, pos)
  PROVE  OnePlace'
<1> DEFINE p == arrivals[1].piece
<1>1. /\ p \in Pieces /\ ~OnBoard(p) /\ ~Flying(p)
      /\ NoTwins(arrivals')
      /\ \A q : LandingNow(q)' <=> LandingNow(q) /\ q # p
  BY LandingFirst
<1>2. grid' = addPiece(g, p, pos)
  OBVIOUS
<1> HIDE DEF p
<1>3. /\ NoTwinsOnGrid(addPiece(g, p, pos))
      /\ \A q \in Pieces : Stands(addPiece(g, p, pos), q) => Stands(g, q) \/ q = p
  BY <1>1, AddPieceFacts
<1>4. \A q \in Pieces : OnBoard(q)' => OnBoard(q) \/ q = p
  <2>1. \A q : OnBoard(q)' <=> Stands(grid', q)
    BY DEF OnBoard, Stands
  <2> QED
    BY <1>2, <1>3, <2>1
<1>5. NoTwinsOnGrid(grid')
  BY <1>2, <1>3
<1>6. NoTwins(activeMotions') /\ \A q : Flying(q)' <=> Flying(q)
  BY DEF OnePlace, Flying
<1> QED
  BY <1>1, <1>4, <1>5, <1>6 DEF OnePlace

LEMMA LandPlace ==
  ASSUME TypeOK, OnePlace, Land
  PROVE  OnePlace'
<1> DEFINE m == arrivals[1]
<1>0. /\ grid \in [Cells -> Pieces \union {NoPiece}] /\ NoTwinsOnGrid(grid)
      /\ \A q \in Pieces : Stands(grid, q) => OnBoard(q)
  BY DEF TypeOK, OnePlace, Stands, OnBoard
<1>1. CASE LandOnEmpty
  <2>1. /\ arrivals # << >> /\ arrivals' = Tail(arrivals) /\ UNCHANGED activeMotions
        /\ grid' = addPiece(grid, m.piece, m.destination)
    BY <1>1 DEF LandOnEmpty, Landing, TouchDown
  <2>2. m.destination \in Position
    BY <2>1, ArrivalsAt
  <2> QED
    BY <1>0, <2>1, <2>2, Landed
<1>2. CASE LandOnEnemy
  <2>1. /\ arrivals # << >> /\ arrivals' = Tail(arrivals) /\ UNCHANGED activeMotions
        /\ getPiece(grid, m.destination) # NoPiece
        /\ grid' = addPiece(removePiece(grid, m.destination), m.piece, m.destination)
    BY <1>2 DEF LandOnEnemy, Landing, TouchDown
  <2>2. m.destination \in Position
    BY <2>1, ArrivalsAt
  <2>3. m.destination \in Cells /\ grid[m.destination] # NoPiece
    BY <2>1, <2>2, GetPieceType
  <2> DEFINE g == removePiece(grid, m.destination)
  <2>4. /\ g \in [Cells -> Pieces \union {NoPiece}] /\ NoTwinsOnGrid(g)
        /\ \A q \in Pieces : Stands(g, q) => OnBoard(q)
    <3> HIDE DEF m
    <3> QED
      BY <1>0, <2>3, RemovePieceFacts
  <2> HIDE DEF g
  <2>5. grid' = addPiece(g, m.piece, m.destination)
    BY <2>1 DEF g
  <2> QED
    BY <2>1, <2>2, <2>4, <2>5, Landed
<1>3. CASE LandBounced
  <2>1. /\ arrivals # << >> /\ arrivals' = Tail(arrivals) /\ UNCHANGED activeMotions
        /\ grid' = addPiece(grid, m.piece, BounceCell(m))
    BY <1>3 DEF LandBounced, Landing, TouchDown
  <2>2. BounceCell(m) \in Position
    BY <2>1, ArrivalsAt, BounceCellType
  <2> QED
    BY <1>0, <2>1, <2>2, Landed
<1>4. CASE WakeRested
  BY <1>4, SamePlaces DEF WakeRested
<1> QED
  BY <1>1, <1>2, <1>3, <1>4 DEF Land

LEMMA InitPlace == Init => OnePlace
<1> SUFFICES ASSUME Init PROVE OnePlace
  OBVIOUS
<1>1. NoTwinsOnGrid(grid)
  <2>1. \A c \in Cells : InitialGrid[c] # NoPiece =>
           InitialGrid[c] \in Pieces /\ InitialCell[InitialGrid[c]] = c
    BY DEF InitialGrid
  <2> QED
    BY <2>1 DEF Init, NoTwinsOnGrid
<1>2. /\ NoTwins(<< >>) /\ \A p : ~Carries(<< >>, p)
  BY DEF NoTwins, Carries
<1> QED
  BY <1>1, <1>2 DEF Init, OnePlace, Flying, LandingNow

LEMMA NextPlace == TypeOK /\ OnePlace /\ [Next]_vars => OnePlace'
<1> SUFFICES ASSUME TypeOK, OnePlace, [Next]_vars PROVE OnePlace'
  OBVIOUS
<1>1. CASE UNCHANGED vars
  BY <1>1, SamePlaces DEF vars
<1>2. CASE Request
  BY <1>2, RequestPlace
<1>3. CASE WaitCall \/ WaitEnd \/ AdvanceTime
  BY <1>3, SamePlaces DEF WaitCall, WaitBegin, WaitEnd, AdvanceTime
<1>4. CASE CheckGround
  BY <1>4, GroundPlace
<1>5. CASE CheckAir
  BY <1>5, AirPlace
<1>6. CASE Retire
  BY <1>6, RetirePlace
<1>7. CASE Land
  BY <1>7, LandPlace
<1> QED
  BY <1>1, <1>2, <1>3, <1>4, <1>5, <1>6, <1>7 DEF Next, WaitStep

\* No piece is ever in two places, on every board and from every starting
\* position: take-offs, landings, bounces and captures never duplicate one.
THEOREM NeverInTwoPlaces == Spec => []OnePlace
<1>1. Init => TypeOK /\ OnePlace
  BY InitType, InitPlace
<1>2. TypeOK /\ OnePlace /\ [Next]_vars => (TypeOK /\ OnePlace)'
  BY NextType, NextPlace
<1> QED
  BY <1>1, <1>2, PTL DEF Spec

-----------------------------------------------------------------------------
(* A finished game stays as it is: every request and the entry of wait()   *)
(* test isGameOver, and no other step starts at "free".                    *)

LEMMA OverStep == TypeOK /\ [Next]_vars /\ isGameOver /\ at = "free" => UNCHANGED vars
<1> SUFFICES ASSUME TypeOK, Next, isGameOver, at = "free" PROVE UNCHANGED vars
  OBVIOUS
<1>1. CASE requestMove
  <2>1. \E source \in Cells : MovesFrom(source) # {}
    BY <1>1 DEF requestMove
  <2> QED
    BY <2>1, MovesFromType DEF MayTakeOff
<1>2. CASE requestJump
  BY <1>2 DEF requestJump, MayTakeOff
<1>3. CASE RequestRejected
  BY <1>3 DEF RequestRejected
<1>4. CASE WaitCall
  BY <1>4 DEF WaitCall, WaitBegin
<1>5. CASE WaitStep
  BY <1>5 DEF WaitStep, WaitEnd, AdvanceTime,
              CheckGround, GroundCapture, GroundBlocked, GroundDone,
              CheckAir, AirKill, AirKillBoth, AirStop, JudgeDead,
              Retire, CleanupDead, PopArrived, PopDone,
              Land, Landing, LandOnEmpty, LandOnEnemy, LandBounced, WakeRested
<1> QED
  BY <1>1, <1>2, <1>3, <1>4, <1>5 DEF Next, Request

\* Once the game is over and wait() has returned, nothing in the engine
\* changes any more, whatever is requested.
THEOREM FinishedGamesAreFinal == Spec => OverIsFinal
<1>1. TypeOK /\ [Next]_vars => [isGameOver /\ at = "free" => UNCHANGED vars]_vars
  BY OverStep
<1> QED
  BY <1>1, TypeCorrect, PTL DEF Spec, OverIsFinal

-----------------------------------------------------------------------------
(* No piece takes off while it rests.  The invariant does not look at      *)
(* where a piece is: whoever is Idle has its readyTime behind it.  A       *)
(* flying or resting piece is not Idle, and WakeRested looks at the clock. *)

IdleIsRested == \A p \in Pieces : pieceState[p] = "Idle" => readyTime[p] <= currentTime

LEMMA TakeOffState ==
  ASSUME TypeOK, IdleIsRested, NEW source \in Cells, NEW destination \in Cells,
         NEW duration \in Int, NEW type \in MotionTypes,
         TakeOff(source, destination, duration, type)
  PROVE  IdleIsRested'
BY DEF TakeOff, IdleIsRested, TypeOK

LEMMA RequestState ==
  ASSUME TypeOK, IdleIsRested, Request
  PROVE  IdleIsRested'
<1>1. CASE requestMove
  BY <1>1, MovesFromType, MoveDurationType, TakeOffState DEF requestMove, MotionTypes
<1>2. CASE requestJump
  BY <1>2, EngineAssumption, TakeOffState DEF requestJump, MotionTypes
<1>3. CASE RequestRejected
  BY <1>3 DEF RequestRejected, vars, pieceVars, IdleIsRested
<1> QED
  BY <1>1, <1>2, <1>3 DEF Request

\* The clock does not run backwards.
LEMMA TimeState ==
  ASSUME TypeOK, IdleIsRested, WaitCall \/ WaitEnd \/ AdvanceTime
  PROVE  IdleIsRested'
<1>1. UNCHANGED <<pieceState, readyTime>>
  BY DEF WaitCall, WaitBegin, WaitEnd, AdvanceTime, pieceVars
<1>2. currentTime' \in Nat /\ currentTime' >= currentTime
  <2>1. CASE WaitCall \/ WaitEnd
    BY <2>1 DEF WaitCall, WaitBegin, WaitEnd, TypeOK
  <2>2. CASE AdvanceTime
    <3>1. StepSize \in Nat
      BY EngineAssumption DEF StepSize, TypeOK
    <3> QED
      BY <2>2, <3>1 DEF AdvanceTime, TypeOK
  <2> QED
    BY <2>1, <2>2
<1> QED
  BY <1>1, <1>2 DEF IdleIsRested, TypeOK

\* A landing piece is put to rest.
LEMMA TouchDownState ==
  ASSUME TypeOK, IdleIsRested, arrivals # << >>, TouchDown(arrivals[1]), UNCHANGED currentTime
  PROVE  IdleIsRested'
<1>1. arrivals[1].piece \in Pieces
  BY ArrivalsAt
<1>2. RestAfter(arrivals[1]) # "Idle"
  BY DEF RestAfter
<1> QED
  BY <1>1, <1>2 DEF TouchDown, IdleIsRested, TypeOK

LEMMA NextState == TypeOK /\ IdleIsRested /\ [Next]_vars => IdleIsRested'
<1> SUFFICES ASSUME TypeOK, IdleIsRested, [Next]_vars PROVE IdleIsRested'
  OBVIOUS
<1>1. CASE UNCHANGED vars
  BY <1>1 DEF vars, pieceVars, IdleIsRested
<1>2. CASE Request
  BY <1>2, RequestState
<1>3. CASE WaitCall \/ WaitEnd \/ AdvanceTime
  BY <1>3, TimeState
<1>4. CASE CheckGround \/ CheckAir \/ Retire
  BY <1>4 DEF IdleIsRested, pieceVars, CheckGround, GroundCapture, GroundBlocked, GroundDone,
              CheckAir, AirKill, AirKillBoth, AirStop, JudgeDead,
              Retire, CleanupDead, PopArrived, PopDone
<1>5. CASE LandOnEmpty \/ LandOnEnemy \/ LandBounced
  <2>1. arrivals # << >> /\ TouchDown(arrivals[1]) /\ UNCHANGED currentTime
    BY <1>5 DEF LandOnEmpty, LandOnEnemy, LandBounced, Landing
  <2> QED
    BY <2>1, TouchDownState
<1>6. CASE WakeRested
  BY <1>6 DEF WakeRested, Rested, IdleIsRested, TypeOK
<1> QED
  BY <1>1, <1>2, <1>3, <1>4, <1>5, <1>6 DEF Next, WaitStep, Land

\* Only a take-off adds a piece to the flying motions.
LEMMA NoNewFlights ==
  ASSUME TypeOK, OnePlace, Next, ~requestMove, ~requestJump, NEW p \in Pieces, Flying(p)'
  PROVE  Flying(p)
<1> DEFINE SamePieces == /\ Len(activeMotions') = Len(activeMotions)
                         /\ \A n \in Indices : activeMotions'[n].piece = activeMotions[n].piece
<1>1. CASE SamePieces
  <2>1. Carries(activeMotions', p) <=> Carries(activeMotions, p)
    BY <1>1, SamePiecesFacts DEF Indices
  <2> QED
    BY <2>1 DEF Flying
<1>2. CASE UNCHANGED activeMotions
  BY <1>2 DEF Flying
<1>3. ASSUME NEW n \in Indices, NEW m, m.piece = activeMotions[n].piece,
             activeMotions' = [activeMotions EXCEPT ![n] = m]
      PROVE  SamePieces
  BY <1>3, MotionsAt DEF TypeOK, Indices
<1>4. CASE GroundBlocked
  <2>1. PICK k \in Indices :
          activeMotions' = [activeMotions EXCEPT ![k] =
             [activeMotions[k] EXCEPT !.destination = CellBefore(activeMotions[k]),
                                      !.arrivalTime = currentTime]]
    BY <1>4 DEF GroundBlocked, Indices
  <2>2. [activeMotions[k] EXCEPT !.destination = CellBefore(activeMotions[k]),
                                 !.arrivalTime = currentTime].piece = activeMotions[k].piece
    BY MotionsAt DEF Motions
  <2> QED
    BY <2>1, <2>2, <1>1, <1>3
<1>5. CASE AirKill \/ AirKillBoth \/ AirStop
  BY <1>1, <1>5, AirPieces DEF CheckAir
<1>6. CASE CleanupDead \/ PopArrived
  <2>1. PICK k \in Indices : activeMotions' = RemoveAt(activeMotions, k)
    BY <1>6 DEF CleanupDead, PopArrived
  <2> DEFINE rest == RemoveAt(activeMotions, k)
  <2>2. k \in 1 .. Len(activeMotions) /\ activeMotions \in Seq(Motions) /\ NoTwins(activeMotions)
    BY DEF Indices, TypeOK, OnePlace
  <2>3. /\ rest \in Seq(Motions)
        /\ Len(rest) = Len(activeMotions) - 1
        /\ \A l \in 1 .. (Len(activeMotions) - 1) :
             rest[l] = IF l < k THEN activeMotions[l] ELSE activeMotions[l + 1]
    BY <2>2, RemoveAtProperties
  <2>4. activeMotions' = rest
    BY <2>1
  <2> HIDE DEF rest
  <2>5. Carries(rest, p) => Carries(activeMotions, p)
    BY <2>2, <2>3, WithoutFacts
  <2> QED
    BY <2>4, <2>5 DEF Flying
<1> QED
  BY <1>2, <1>4, <1>5, <1>6
  DEF Next, Request, RequestRejected, vars, WaitCall, WaitBegin, WaitStep, WaitEnd, AdvanceTime,
      CheckGround, GroundCapture, GroundDone, CheckAir, JudgeDead, Retire, PopDone,
      Land, LandOnEmpty, LandOnEnemy, LandBounced, WakeRested

LEMMA TakeOffRested ==
  ASSUME TypeOK, OnePlace, IdleIsRested, NEW source \in Cells, NEW destination \in Cells,
         NEW duration \in Int, NEW type \in MotionTypes,
         MayTakeOff(source), TakeOff(source, destination, duration, type),
         NEW p \in Pieces, OnBoard(p), Flying(p)'
  PROVE  currentTime >= readyTime[p]
<1> DEFINE q == getPiece(grid, source)
           m == NewMotion(q, source, destination, currentTime, duration, type)
<1>1. q \in Pieces /\ pieceState[q] = "Idle"
  BY CellFacts, GetPieceType DEF MayTakeOff
<1>2. m \in Motions /\ m.piece = q
  BY <1>1, CellFacts DEF NewMotion, Motions, TypeOK
<1>3. activeMotions' = Append(activeMotions, m)
  BY DEF TakeOff
<1>4. p = q \/ Flying(p)
  <2> HIDE DEF m, q
  <2>1. \A k \in 1 .. Len(activeMotions') :
           activeMotions'[k] = m \/ (k \in 1 .. Len(activeMotions) /\ activeMotions'[k] = activeMotions[k])
    BY <1>2, <1>3, AppendProperties DEF TypeOK
  <2> QED
    BY <1>2, <2>1 DEF Flying, Carries
<1>5. ~Flying(p)
  BY DEF OnePlace
<1> QED
  BY <1>1, <1>4, <1>5 DEF IdleIsRested, TypeOK

\* The same, for every step of the engine.
LEMMA FlightsAreRested ==
  ASSUME TypeOK, OnePlace, IdleIsRested, Next, NEW p \in Pieces, OnBoard(p), Flying(p)'
  PROVE  currentTime >= readyTime[p]
<1>1. CASE requestMove
  BY <1>1, MovesFromType, MoveDurationType, TakeOffRested DEF requestMove, MotionTypes
<1>2. CASE requestJump
  BY <1>2, EngineAssumption, TakeOffRested DEF requestJump, MotionTypes
<1>3. CASE ~requestMove /\ ~requestJump
  <2>1. Flying(p)
    BY <1>3, NoNewFlights
  <2> QED
    BY <2>1 DEF OnePlace
<1> QED
  BY <1>1, <1>2, <1>3

\* On every board and with all cooldowns: no piece takes off from the board
\* before its readyTime.
THEOREM NobodyTakesOffResting == Spec => CooldownRespected
<1> DEFINE Inv == TypeOK /\ OnePlace /\ IdleIsRested
           Rule == \A p \in Pieces : OnBoard(p) /\ Flying(p)' => currentTime >= readyTime[p]
<1>1. Init => Inv
  BY InitType, InitPlace DEF Init, IdleIsRested
<1>2. Inv /\ [Next]_vars => Inv'
  BY NextType, NextPlace, NextState
<1>3. Inv /\ [Next]_vars => [Rule]_vars
  BY FlightsAreRested
<1> QED
  BY <1>1, <1>2, <1>3, PTL DEF Spec, CooldownRespected

=============================================================================
