------------------------------- MODULE Motion -------------------------------
(***************************************************************************)
(* A piece in flight (shared/model/motion.hpp) and the container of the    *)
(* flights (server/realtime/real_time_arbiter.cpp).  Times are in the      *)
(* engine's milliseconds, scaled down by the runs.                         *)
(***************************************************************************)
EXTENDS Board, Sequences, SequencesExt

MotionTypes == {"Normal", "Jump"}

Motions == [ piece : Pieces, source : Cells, destination : Position,
             startTime : Int, arrivalTime : Int,
             type : MotionTypes, isDead : BOOLEAN ]

\* RealTimeArbiter::startMotion, the record pushed at the back of the vector.
NewMotion(p, source, destination, now, duration, type) ==
  [ piece |-> p, source |-> source, destination |-> destination,
    startTime |-> now, arrivalTime |-> now + duration,
    type |-> type, isDead |-> FALSE ]

\* std::round(n * part / whole): to the nearest integer, halves away from
\* zero (part >= 0, whole > 0).
RoundedShare(n, part, whole) ==
  IF n >= 0 THEN (2 * n * part + whole) \div (2 * whole)
            ELSE -((2 * (-n) * part + whole) \div (2 * whole))

\* Motion::getCurrentCell
getCurrentCell(m, time) ==
  LET flown    == time - m.startTime
      duration == m.arrivalTime - m.startTime
  IN  IF m.type = "Jump" THEN m.source
      ELSE IF time >= m.arrivalTime THEN m.destination
      ELSE IF time <= m.startTime THEN m.source
      ELSE At(m.source.row + RoundedShare(m.destination.row - m.source.row, flown, duration),
              m.source.col + RoundedShare(m.destination.col - m.source.col, flown, duration))

\* Mutants of hasArrived: a tick late; only when a tick ends at the arrival.
arrivedLate(m, now) == now > m.arrivalTime
arrivedExactly(m, now) == now = m.arrivalTime

hasArrived(m, now) == now >= m.arrivalTime

\* The first index of motions for which Test holds: cleanupDeadMotions and
\* popArrivedMotions take such elements out of the vector one after the
\* other and keep the order of the rest.
IsFirst(k, motions, Test(_)) ==
  /\ k \in 1 .. Len(motions)
  /\ Test(motions[k])
  /\ \A l \in 1 .. (k - 1) : ~Test(motions[l])
=============================================================================
