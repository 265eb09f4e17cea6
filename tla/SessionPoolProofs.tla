-------------------------- MODULE SessionPoolProofs --------------------------
(***************************************************************************)
(* Proofs about SessionPool for any number of rooms, workers and periods.  *)
(***************************************************************************)
EXTENDS SessionPool, SequenceTheorems, FiniteSetTheorems, TLAPS

(* Type correctness.  A worker that is inside update() has a room.         *)

Updating(w) == workerAt[w] \notin {"ready", "blocking", "waiting", "exited"}

JobsKnown == \A w \in Workers : Updating(w) => Room(w) \in Rooms

PoolOK == TypeOK /\ JobsKnown

LEMMA OrdersAreSequences ==
  ASSUME exists \subseteq Rooms, NEW order \in SetToSeqs(exists)
  PROVE  order \in Seq(Rooms)
<1>1. Cardinality(exists) \in Nat
  BY PoolAssumption, FS_Subset, FS_CardinalityType
<1>2. order \in [1 .. Cardinality(exists) -> Rooms]
  BY DEF SetToSeqs
<1> QED
  BY <1>1, <1>2, SeqDef

LEMMA InitPool == Init => PoolOK
<1> SUFFICES ASSUME Init PROVE PoolOK
  OBVIOUS
<1>1. << >> \in Seq(Tasks) /\ << >> \in Seq(Nat)
  OBVIOUS
<1>2. TypeOK
  <2>1. tasks \in Seq(Tasks)
    BY <1>1 DEF Init
  <2>2. /\ drained \in [Workers -> Seq(Nat)]
        /\ pending \in [Rooms -> Seq(Nat)] /\ received \in [Rooms -> Seq(Nat)]
    BY <1>1 DEF Init
  <2>3. /\ engineTime \in [Rooms -> Nat] /\ over \in [Rooms -> BOOLEAN]
        /\ happened \in [Rooms -> Nat]
        /\ lastUpdate \in [Rooms -> Nat] /\ lastBroadcast \in [Rooms -> Nat]
        /\ eloUpdated \in [Rooms -> BOOLEAN]
    BY DEF Init
  <2>4. /\ workerAt \in [Workers -> WorkerStates]
        /\ job \in [Workers -> [room : Rooms \union {NoRoom}, time : Nat]]
        /\ dt \in [Workers -> Int] /\ shown \in [Workers -> Nat]
    BY DEF Init, WorkerStates
  <2> QED
    BY <2>1, <2>2, <2>3, <2>4 DEF Init, TypeOK
<1>3. JobsKnown
  BY DEF Init, JobsKnown, Updating
<1> QED
  BY <1>2, <1>3 DEF PoolOK

LEMMA TimerPool ==
  ASSUME PoolOK, Timer
  PROVE  PoolOK'
<1> USE DEF PoolOK, TypeOK, JobsKnown, Updating, Room
<1>1. CASE TimerTest
  BY <1>1 DEF TimerTest, localVars, engineVars, sessionVars
<1>2. CASE TimerPush
  <2>1. PICK order \in SetToSeqs(exists) :
          tasks' = tasks \o [k \in 1 .. Len(order) |-> [room |-> order[k], time |-> clock]]
    BY <1>2 DEF TimerPush
  <2> DEFINE new == [k \in 1 .. Len(order) |-> [room |-> order[k], time |-> clock]]
  <2>2. order \in Seq(Rooms)
    BY OrdersAreSequences
  <2>3. Len(order) \in Nat /\ \A k \in 1 .. Len(order) : order[k] \in Rooms
    BY <2>2, LenProperties, ElementOfSeq
  <2>4. new \in [1 .. Len(order) -> Tasks]
    BY <2>3 DEF Tasks
  <2>5. tasks' = tasks \o new
    BY <2>1
  <2> HIDE DEF new
  <2>6. new \in Seq(Tasks)
    <3> HIDE DEF PoolOK, TypeOK, JobsKnown, Updating, Room
    <3> QED
      BY <2>3, <2>4, SeqDef
  <2>7. tasks' \in Seq(Tasks)
    BY <2>5, <2>6, ConcatProperties
  <2> QED
    BY <1>2, <2>7 DEF TimerPush, localVars, engineVars, sessionVars
<1>3. CASE TimerNotify
  BY <1>3 DEF TimerNotify, NotifyAll, WorkerStates, localVars, engineVars, sessionVars
<1>4. CASE TimerWakes
  BY <1>4, PoolAssumption DEF TimerWakes, localVars, engineVars, sessionVars
<1> QED
  BY <1>1, <1>2, <1>3, <1>4 DEF Timer

LEMMA LoopPool ==
  ASSUME PoolOK, NEW w \in Workers,
         TestCondition(w) \/ Block(w) \/ TakeTask(w) \/ WorkerExits(w)
  PROVE  PoolOK'
<1> USE DEF PoolOK, TypeOK, JobsKnown, Updating, Room, WorkerStates, Goto
<1>1. CASE TestCondition(w)
  BY <1>1 DEF TestCondition, taskVars, localVars, engineVars, sessionVars
<1>2. CASE Block(w)
  BY <1>2 DEF Block, taskVars, localVars, engineVars, sessionVars
<1>3. CASE TakeTask(w)
  <2>1. Head(tasks) \in Tasks /\ Tail(tasks) \in Seq(Tasks)
    BY <1>3, HeadTailProperties DEF TakeTask
  <2>2. Head(tasks).room \in Rooms /\ Head(tasks).time \in Nat
        /\ Head(tasks) \in [room : Rooms \union {NoRoom}, time : Nat]
    BY <2>1 DEF Tasks
  <2> QED
    BY <1>3, <2>1, <2>2 DEF TakeTask, engineVars, sessionVars
<1>4. CASE WorkerExits(w)
  BY <1>4 DEF WorkerExits, taskVars, localVars, engineVars, sessionVars
<1> QED
  BY <1>1, <1>2, <1>3, <1>4

LEMMA UpdatePool ==
  ASSUME PoolOK, NEW w \in Workers,
         \/ ReadLastUpdate(w) \/ EngineWait(w) \/ StoreLastUpdate(w) \/ TestInterval(w)
         \/ getSnapshot(w)
  PROVE  PoolOK'
<1> USE DEF PoolOK, TypeOK, JobsKnown, Updating, Room, WorkerStates, Goto, Time
<1>1. CASE ReadLastUpdate(w)
  <2>1. Room(w) \in Rooms /\ job[w].time \in Nat
    BY <1>1 DEF ReadLastUpdate
  <2>2. EngineDt(w) \in Int
    BY <2>1 DEF EngineDt
  <2>3. /\ dt' = [dt EXCEPT ![w] = EngineDt(w)]
        /\ workerAt' = [workerAt EXCEPT ![w] = IF EngineDt(w) > 0 THEN "wait" ELSE "interval"]
    BY <1>1, <2>2 DEF ReadLastUpdate, Positive
  <2>4. workerAt' \in [Workers -> WorkerStates] /\ dt' \in [Workers -> Int]
    BY <2>2, <2>3
  <2>5. JobsKnown'
    BY <1>1, <2>1, <2>2, <2>3 DEF ReadLastUpdate
  <2>6. ASSUME NEW v \in Workers, workerAt'[v] = "wait" PROVE dt'[v] > 0
    BY <2>2, <2>3, <2>6
  <2> QED
    BY <1>1, <2>4, <2>5, <2>6 DEF ReadLastUpdate, taskVars, engineVars, sessionVars
<1>2. CASE EngineWait(w)
  <2> DEFINE r == Room(w)
  <2>1. r \in Rooms /\ dt[w] > 0 /\ dt[w] \in Int
    BY <1>2 DEF EngineWait
  <2>2. CASE over[r]
    BY <1>2, <2>2 DEF EngineWait, taskVars, engineVars, localVars
  <2>3. CASE ~over[r]
    <3>1. /\ engineTime' = [engineTime EXCEPT ![r] = @ + dt[w]]
          /\ over' \in {over, [over EXCEPT ![r] = TRUE]}
          /\ happened' = [happened EXCEPT ![r] = @ + 1]
          /\ pending' = [pending EXCEPT ![r] = Append(@, happened'[r])]
          /\ workerAt' = [workerAt EXCEPT ![w] = "store"]
      BY <1>2, <2>3 DEF EngineWait
    <3>2. /\ engineTime \in [Rooms -> Nat] /\ happened \in [Rooms -> Nat]
          /\ over \in [Rooms -> BOOLEAN] /\ pending \in [Rooms -> Seq(Nat)]
      OBVIOUS
    <3> HIDE DEF r, PoolOK, TypeOK, JobsKnown
    <3>3. engineTime' \in [Rooms -> Nat] /\ happened' \in [Rooms -> Nat]
      <4>1. engineTime[r] + dt[w] \in Nat /\ happened[r] + 1 \in Nat
        BY <2>1, <3>2
      <4> QED
        BY <3>1, <3>2, <4>1
    <3>4. Append(pending[r], happened'[r]) \in Seq(Nat)
      BY <2>1, <3>2, <3>3, AppendProperties
    <3>5. over' \in [Rooms -> BOOLEAN] /\ pending' \in [Rooms -> Seq(Nat)]
      BY <2>1, <3>1, <3>2, <3>4
    <3> USE DEF PoolOK, TypeOK, JobsKnown
    <3>6. \A v \in Workers : workerAt'[v] = "wait" => workerAt[v] = "wait"
      BY <3>1
    <3>7. UNCHANGED <<taskVars, localVars, lastUpdate, lastBroadcast, eloUpdated, received>>
      BY <1>2 DEF EngineWait
    <3>8. JobsKnown'
      BY <2>1, <3>1, <3>7 DEF r, localVars
    <3>9. TypeOK'
      BY <3>1, <3>3, <3>5, <3>6, <3>7 DEF taskVars, localVars
    <3> QED
      BY <3>8, <3>9
  <2> QED
    BY <2>2, <2>3
<1>3. CASE StoreLastUpdate(w)
  BY <1>3 DEF StoreLastUpdate, taskVars, localVars, engineVars
<1>4. CASE TestInterval(w)
  BY <1>4 DEF TestInterval, taskVars, localVars, engineVars, sessionVars
<1>5. CASE getSnapshot(w)
  BY <1>5 DEF getSnapshot, taskVars, engineVars, sessionVars
<1> QED
  BY <1>1, <1>2, <1>3, <1>4, <1>5

LEMMA RatingPool ==
  ASSUME PoolOK, NEW w \in Workers,
         TestEloUpdated(w) \/ processGameOver(w) \/ SetEloUpdated(w)
  PROVE  PoolOK'
<1> USE DEF PoolOK, TypeOK, JobsKnown, Updating, Room, WorkerStates, Goto
<1>1. CASE TestEloUpdated(w)
  BY <1>1 DEF TestEloUpdated, taskVars, localVars, engineVars, sessionVars
<1>2. CASE processGameOver(w)
  BY <1>2 DEF processGameOver, taskVars, localVars, engineVars, sessionVars
<1>3. CASE SetEloUpdated(w)
  BY <1>3 DEF SetEloUpdated, taskVars, localVars, engineVars
<1> QED
  BY <1>1, <1>2, <1>3

LEMMA BroadcastPool ==
  ASSUME PoolOK, NEW w \in Workers,
         serializeSnapshot(w) \/ SendToPlayers(w) \/ StoreLastBroadcast(w)
  PROVE  PoolOK'
<1> USE DEF PoolOK, TypeOK, JobsKnown, Updating, Room, WorkerStates, Goto
<1>1. CASE serializeSnapshot(w)
  <2>1. Room(w) \in Rooms
    BY <1>1 DEF serializeSnapshot
  <2>2. pending[Room(w)] \in Seq(Nat) /\ << >> \in Seq(Nat)
    BY <2>1
  <2> QED
    BY <1>1, <2>1, <2>2 DEF serializeSnapshot, AfterDrain, taskVars, engineVars
<1>2. CASE SendToPlayers(w)
  <2>1. Room(w) \in Rooms
    BY <1>2 DEF SendToPlayers
  <2>2. received[Room(w)] \o drained[w] \in Seq(Nat) /\ << >> \in Seq(Nat)
    BY <2>1, ConcatProperties
  <2> QED
    BY <1>2, <2>1, <2>2 DEF SendToPlayers, taskVars, engineVars, sessionVars
<1>3. CASE StoreLastBroadcast(w)
  BY <1>3 DEF StoreLastBroadcast, Time, taskVars, localVars, engineVars
<1> QED
  BY <1>1, <1>2, <1>3

LEMMA MainPool ==
  ASSUME PoolOK, SetStop \/ StopNotify \/ Join
  PROVE  PoolOK'
BY DEF PoolOK, TypeOK, JobsKnown, Updating, Room, WorkerStates,
       SetStop, StopNotify, Join, NotifyAll, localVars, engineVars, sessionVars

LEMMA NextPool == PoolOK /\ [Next]_vars => PoolOK'
<1> SUFFICES ASSUME PoolOK, [Next]_vars PROVE PoolOK'
  OBVIOUS
<1>1. CASE UNCHANGED vars
  BY <1>1 DEF PoolOK, TypeOK, JobsKnown, Updating, Room, vars,
              taskVars, localVars, engineVars, sessionVars
<1>2. CASE Timer
  BY <1>2, TimerPool
<1>3. ASSUME NEW w \in Workers, Worker(w) PROVE PoolOK'
  BY <1>3, LoopPool, UpdatePool, RatingPool, BroadcastPool DEF Worker
<1>4. CASE SetStop \/ StopNotify \/ Join
  BY <1>4, MainPool
<1>5. CASE CreateRoom
  BY <1>5 DEF CreateRoom, PoolOK, TypeOK, JobsKnown, Updating, Room,
              localVars, engineVars, sessionVars
<1> QED
  BY <1>1, <1>2, <1>3, <1>4, <1>5 DEF Next

\* Whatever the timer and the workers do, every variable has its type.
THEOREM PoolTypeCorrect == Spec => []TypeOK
<1>1. PoolOK => TypeOK
  BY DEF PoolOK
<1> QED
  BY <1>1, InitPool, NextPool, PTL DEF Spec

-----------------------------------------------------------------------------
(* Lost wakeups.  While a worker is between its test and its sleep it      *)
(* holds the queue's mutex, so that the queue is still empty when it falls *)
(* asleep, and whoever fills the queue after that notifies.                *)

TestStillHolds == \A w \in Workers : workerAt[w] = "blocking" => tasks = << >>

AwakeInv == TestStillHolds /\ NobodySleepsOnWork

LEMMA NextAwake == PoolOK /\ AwakeInv /\ [Next]_vars => AwakeInv'
<1> SUFFICES ASSUME PoolOK, AwakeInv, [Next]_vars PROVE AwakeInv'
  OBVIOUS
<1> USE DEF AwakeInv, TestStillHolds, NobodySleepsOnWork
<1>0. tasks \in Seq(Tasks) /\ workerAt \in [Workers -> WorkerStates]
  BY DEF PoolOK, TypeOK
<1>1. CASE UNCHANGED vars
  BY <1>1 DEF vars, taskVars
<1>2. CASE TimerTest
  BY <1>2 DEF TimerTest
<1>3. CASE TimerPush
  BY <1>3 DEF TimerPush, QueueIsFree
<1>4. CASE TimerNotify \/ StopNotify
  BY <1>0, <1>4 DEF TimerNotify, StopNotify, NotifyAll
<1>5. CASE TimerWakes
  BY <1>5 DEF TimerWakes
<1>6. ASSUME NEW w \in Workers, TestCondition(w) \/ Block(w) \/ WorkerExits(w)
      PROVE  AwakeInv'
  BY <1>0, <1>6 DEF TestCondition, NothingToDo, Block, WorkerExits, Goto, taskVars
<1>7. ASSUME NEW w \in Workers, TakeTask(w)
      PROVE  AwakeInv'
  BY <1>0, <1>7 DEF TakeTask, QueueIsFree, Goto
<1>8. ASSUME NEW w \in Workers, NEW label \in WorkerStates \ {"waiting", "blocking"},
             Goto(w, label), UNCHANGED taskVars
      PROVE  AwakeInv'
  BY <1>0, <1>8 DEF Goto, taskVars
<1>9. ASSUME NEW w \in Workers, Worker(w),
             ~TestCondition(w), ~Block(w), ~WorkerExits(w), ~TakeTask(w)
      PROVE  /\ UNCHANGED taskVars
             /\ \E label \in WorkerStates \ {"waiting", "blocking"} : Goto(w, label)
  <2> USE DEF WorkerStates
  <2>1. CASE ReadLastUpdate(w)
    <3>1. CASE Positive(dt'[w])
      BY <2>1, <3>1 DEF ReadLastUpdate
    <3>2. CASE ~Positive(dt'[w])
      BY <2>1, <3>2 DEF ReadLastUpdate
    <3> QED
      BY <3>1, <3>2
  <2>2. CASE EngineWait(w)
    BY <2>2 DEF EngineWait
  <2>3. CASE StoreLastUpdate(w)
    BY <2>3 DEF StoreLastUpdate
  <2>4. CASE TestInterval(w)
    <3>1. CASE Time(w) - lastBroadcast[Room(w)] >= 1
      BY <2>4, <3>1 DEF TestInterval
    <3>2. CASE ~(Time(w) - lastBroadcast[Room(w)] >= 1)
      BY <2>4, <3>2 DEF TestInterval
    <3> QED
      BY <3>1, <3>2
  <2>5. CASE getSnapshot(w)
    BY <2>5 DEF getSnapshot
  <2>6. CASE TestEloUpdated(w)
    BY <2>6 DEF TestEloUpdated
  <2>7. CASE processGameOver(w) \/ SetEloUpdated(w)
    BY <2>7 DEF processGameOver, SetEloUpdated
  <2>8. CASE serializeSnapshot(w) \/ SendToPlayers(w) \/ StoreLastBroadcast(w)
    BY <2>8 DEF serializeSnapshot, SendToPlayers, StoreLastBroadcast
  <2> QED
    BY <1>9, <2>1, <2>2, <2>3, <2>4, <2>5, <2>6, <2>7, <2>8 DEF Worker
<1>10. CASE SetStop \/ Join \/ CreateRoom
  BY <1>10 DEF SetStop, Join, CreateRoom
<1>11. ASSUME NEW w \in Workers, Worker(w) PROVE AwakeInv'
  BY <1>6, <1>7, <1>8, <1>9, <1>11
<1> QED
  BY <1>1, <1>2, <1>3, <1>4, <1>5, <1>10, <1>11 DEF Next, Timer

\* For any number of workers and rooms: no worker sleeps while there is a
\* task, but for the moment between the timer's push and its notification.
THEOREM WorkersAreWoken == Spec => []NobodySleepsOnWork
<1>1. Init => AwakeInv
  BY DEF Init, AwakeInv, TestStillHolds, NobodySleepsOnWork
<1>2. AwakeInv => NobodySleepsOnWork
  BY DEF AwakeInv
<1> QED
  BY <1>1, <1>2, InitPool, NextPool, NextAwake, PTL DEF Spec

-----------------------------------------------------------------------------
(* Overlapping updates.  A worker computes its dt from lastUpdate in one   *)
(* step, simulates it in a second and stores lastUpdate in a third, while  *)
(* others do the same for the same room.  The engine's clock only grows,   *)
(* so a dt that was long enough when it was computed stays long enough,    *)
(* and lastUpdate may go back, but never beyond what has been simulated.   *)

Simulates(w) == workerAt[w] = "wait" => engineTime[Room(w)] + dt[w] >= Time(w)
Simulated(w) == workerAt[w] = "store" => engineTime[Room(w)] >= Time(w)

ClockInv == /\ EngineNotBehind
            /\ \A w \in Workers : Room(w) \in Rooms /\ ~over[Room(w)]
                                   => Simulates(w) /\ Simulated(w)

LEMMA ClockUndisturbed ==
  ASSUME PoolOK, ClockInv, UNCHANGED <<engineVars, lastUpdate, job, dt>>,
         \A w \in Workers : workerAt'[w] \in {"wait", "store"} => workerAt'[w] = workerAt[w]
  PROVE  ClockInv'
BY DEF ClockInv, EngineNotBehind, Simulates, Simulated, Room, Time, engineVars

LEMMA NextClock == PoolOK /\ ClockInv /\ [Next]_vars => ClockInv'
<1> SUFFICES ASSUME PoolOK, ClockInv, [Next]_vars PROVE ClockInv'
  OBVIOUS
<1>0. workerAt \in [Workers -> WorkerStates]
  BY DEF PoolOK, TypeOK
<1>1. CASE UNCHANGED vars
  BY <1>1, ClockUndisturbed DEF vars, localVars, sessionVars
<1>2. CASE Timer \/ CreateRoom \/ SetStop \/ StopNotify \/ Join
  BY <1>0, <1>2, ClockUndisturbed
  DEF Timer, TimerTest, TimerPush, TimerNotify, TimerWakes, NotifyAll, CreateRoom,
      SetStop, StopNotify, Join, localVars, sessionVars
<1>3. ASSUME NEW w \in Workers, TakeTask(w) PROVE ClockInv'
  BY <1>0, <1>3
  DEF TakeTask, Goto, ClockInv, EngineNotBehind, Simulates, Simulated, Room, Time,
      engineVars, sessionVars, PoolOK, TypeOK
<1>4. ASSUME NEW w \in Workers, ReadLastUpdate(w) PROVE ClockInv'
  <2>1. /\ workerAt[w] = "update"
        /\ dt' = [dt EXCEPT ![w] = EngineDt(w)]
        /\ \A v \in Workers \ {w} : workerAt'[v] = workerAt[v]
        /\ workerAt'[w] \in {"wait", "interval"}
        /\ UNCHANGED <<engineTime, over, lastUpdate, job>>
    BY <1>0, <1>4 DEF ReadLastUpdate, Goto, engineVars, sessionVars
  <2>2. /\ Room(w) \in Rooms /\ Time(w) \in Nat
        /\ engineTime[Room(w)] \in Nat /\ lastUpdate[Room(w)] \in Nat
    BY <2>1 DEF PoolOK, TypeOK, JobsKnown, Updating, Room, Time
  <2>3. ~over[Room(w)] => engineTime[Room(w)] + EngineDt(w) >= Time(w)
    BY <2>2 DEF ClockInv, EngineNotBehind, EngineDt
  <2>4. dt'[w] = EngineDt(w) /\ \A v \in Workers \ {w} : dt'[v] = dt[v]
    BY <2>1 DEF PoolOK, TypeOK
  <2> QED
    BY <2>1, <2>3, <2>4 DEF ClockInv, EngineNotBehind, Simulates, Simulated, Room, Time
<1>5. ASSUME NEW w \in Workers, EngineWait(w) PROVE ClockInv'
  <2>1. /\ workerAt[w] = "wait" /\ workerAt' = [workerAt EXCEPT ![w] = "store"]
        /\ UNCHANGED <<lastUpdate, job, dt>>
    BY <1>5 DEF EngineWait, Goto, localVars
  <2>2. Room(w) \in Rooms /\ dt[w] \in Int /\ dt[w] > 0
    BY <2>1 DEF PoolOK, TypeOK, JobsKnown, Updating
  <2>3. CASE over[Room(w)]
    <3>1. UNCHANGED <<engineTime, over>>
      BY <1>5, <2>3 DEF EngineWait, engineVars
    <3> QED
      BY <1>0, <2>1, <2>3, <3>1 DEF ClockInv, EngineNotBehind, Simulates, Simulated, Room, Time
  <2>4. CASE ~over[Room(w)]
    <3> DEFINE r == Room(w)
    <3>1. /\ engineTime' = [engineTime EXCEPT ![r] = @ + dt[w]]
          /\ over' \in {over, [over EXCEPT ![r] = TRUE]}
      BY <1>5, <2>4 DEF EngineWait
    <3>2. /\ r \in Rooms /\ engineTime \in [Rooms -> Nat] /\ over \in [Rooms -> BOOLEAN]
          /\ lastUpdate \in [Rooms -> Nat]
          /\ \A v \in Workers : Time(v) \in Nat /\ dt[v] \in Int
      BY <2>2 DEF PoolOK, TypeOK, Time
    <3> HIDE DEF r
    <3>3. /\ engineTime'[r] = engineTime[r] + dt[w] /\ engineTime[r] \in Nat
          /\ \A q \in Rooms : q # r => engineTime'[q] = engineTime[q]
          /\ \A q \in Rooms : ~over'[q] => ~over[q]
      <4>1. engineTime'[r] = engineTime[r] + dt[w] /\ engineTime[r] \in Nat
        BY <3>1, <3>2
      <4>2. \A q \in Rooms : q # r => engineTime'[q] = engineTime[q]
        BY <3>1, <3>2
      <4>3. ASSUME NEW q \in Rooms, ~over'[q] PROVE ~over[q]
        BY <3>1, <3>2, <4>3
      <4> QED
        BY <4>1, <4>2, <4>3
    <3>4. EngineNotBehind'
      BY <2>1, <2>2, <3>2, <3>3 DEF ClockInv, EngineNotBehind
    <3>5. ASSUME NEW v \in Workers, Room(v) \in Rooms, ~over'[Room(v)]
          PROVE  (Simulates(v) /\ Simulated(v))'
      <4>1. Simulates(v) /\ Simulated(v)
        BY <3>3, <3>5 DEF ClockInv
      <4>2. /\ Time(v)' = Time(v) /\ Room(v)' = Room(v) /\ dt'[v] = dt[v]
            /\ Time(v) \in Nat /\ dt[v] \in Int
        BY <2>1, <3>2 DEF Time, Room
      <4>3. CASE v = w
        BY <1>0, <2>1, <2>2, <3>3, <4>1, <4>2, <4>3 DEF Simulates, Simulated, r
      <4>4. CASE v # w /\ Room(v) = r
        <5>1. workerAt'[v] = workerAt[v]
          BY <1>0, <2>1, <4>4
        <5> QED
          BY <2>2, <3>3, <4>1, <4>2, <4>4, <5>1 DEF Simulates, Simulated
      <4>5. CASE v # w /\ Room(v) # r
        <5>1. workerAt'[v] = workerAt[v]
          BY <1>0, <2>1, <4>5
        <5> QED
          BY <3>3, <3>5, <4>1, <4>2, <4>5, <5>1 DEF Simulates, Simulated
      <4> QED
        BY <4>3, <4>4, <4>5
    <3>6. \A v \in Workers : Room(v)' = Room(v)
      BY <2>1 DEF Room
    <3> QED
      BY <3>4, <3>5, <3>6 DEF ClockInv
  <2> QED
    BY <2>3, <2>4
<1>6. ASSUME NEW w \in Workers, StoreLastUpdate(w) PROVE ClockInv'
  <2>1. /\ workerAt[w] = "store" /\ workerAt' = [workerAt EXCEPT ![w] = "interval"]
        /\ lastUpdate' = [lastUpdate EXCEPT ![Room(w)] = Time(w)]
        /\ UNCHANGED <<engineTime, over, job, dt>>
    BY <1>6 DEF StoreLastUpdate, Goto, localVars, engineVars
  <2>2. Room(w) \in Rooms /\ (~over[Room(w)] => engineTime[Room(w)] >= Time(w))
    BY <2>1 DEF ClockInv, Simulated, PoolOK, TypeOK, JobsKnown, Updating
  <2>3. EngineNotBehind'
    BY <2>1, <2>2 DEF ClockInv, EngineNotBehind, PoolOK, TypeOK
  <2> QED
    BY <1>0, <2>1, <2>3 DEF ClockInv, Simulates, Simulated, Room, Time
<1>7. ASSUME NEW w \in Workers, Worker(w), ~TakeTask(w), ~ReadLastUpdate(w),
             ~EngineWait(w), ~StoreLastUpdate(w)
      PROVE  ClockInv'
  <2>1. UNCHANGED <<engineVars, lastUpdate, job, dt>>
    BY <1>7 DEF Worker, TestCondition, Block, WorkerExits, TestInterval, getSnapshot,
       TestEloUpdated, processGameOver, SetEloUpdated,
       serializeSnapshot, SendToPlayers, StoreLastBroadcast, localVars, engineVars, sessionVars
  <2>2. \E label \in WorkerStates \ {"wait", "store"} : Goto(w, label)
    BY <1>7, Zenon DEF Worker, TestCondition, Block, WorkerExits, TestInterval, getSnapshot,
       TestEloUpdated, processGameOver, SetEloUpdated,
       serializeSnapshot, SendToPlayers, StoreLastBroadcast, WorkerStates
  <2> QED
    BY <1>0, <2>1, <2>2, ClockUndisturbed DEF Goto
<1> QED
  BY <1>1, <1>2, <1>3, <1>4, <1>5, <1>6, <1>7 DEF Next

\* However many workers update a room at once, and in whatever order they
\* read and store lastEngineUpdateTime: as long as the game is on, the engine
\* has simulated at least the time the session believes to have simulated.
THEOREM NoTimeIsSkipped == Spec => []EngineNotBehind
<1>1. Init => ClockInv
  BY DEF Init, ClockInv, EngineNotBehind, Simulates, Simulated
<1>2. ClockInv => EngineNotBehind
  BY DEF ClockInv
<1> QED
  BY <1>1, <1>2, InitPool, NextPool, NextClock, PTL DEF Spec

-----------------------------------------------------------------------------
(* What is sent.  A worker that has come past StoreLastUpdate, or had       *)
(* nothing to simulate, finds the engine at its time or later, and the      *)
(* engine's clock never goes back.                                          *)

UpToDate(w) ==
  /\ workerAt[w] \in {"interval", "snapshot"} => engineTime[Room(w)] >= Time(w)
  /\ workerAt[w] \in {"serialize", "send"} => shown[w] >= Time(w)
  /\ workerAt[w] \notin {"test", "rate", "mark"}

ShownInv == \A w \in Workers : Room(w) \in Rooms => over[Room(w)] \/ UpToDate(w)

LEMMA EnginesAdvance ==
  ASSUME PoolOK, [Next]_vars, NEW r \in Rooms
  PROVE  engineTime'[r] >= engineTime[r] /\ (over[r] => over'[r])
<1> USE DEF PoolOK, TypeOK
<1>1. CASE UNCHANGED engineVars
  BY <1>1 DEF engineVars
<1>2. ASSUME NEW w \in Workers, EngineWait(w), ~over[Room(w)]
      PROVE  engineTime'[r] >= engineTime[r] /\ (over[r] => over'[r])
  <2>1. /\ engineTime' = [engineTime EXCEPT ![Room(w)] = @ + dt[w]]
        /\ over' \in {over, [over EXCEPT ![Room(w)] = TRUE]}
        /\ dt[w] > 0 /\ dt[w] \in Int
    BY <1>2 DEF EngineWait
  <2>2. engineTime[r] \in Nat
    OBVIOUS
  <2> HIDE DEF PoolOK, TypeOK
  <2>3. engineTime'[r] \in {engineTime[r], engineTime[r] + dt[w]}
    BY <2>1 DEF PoolOK, TypeOK
  <2>4. over[r] => over'[r]
    BY <2>1 DEF PoolOK, TypeOK
  <2> QED
    BY <2>1, <2>2, <2>3, <2>4
<1>3. ASSUME NEW w \in Workers, Worker(w), ~UNCHANGED engineVars
      PROVE  EngineWait(w) /\ ~over[Room(w)]
  BY <1>3, Zenon DEF Worker, TestCondition, Block, TakeTask, WorkerExits, ReadLastUpdate,
     EngineWait, StoreLastUpdate, TestInterval, getSnapshot, TestEloUpdated, processGameOver,
     SetEloUpdated, serializeSnapshot, SendToPlayers, StoreLastBroadcast, engineVars
<1>4. CASE Timer \/ CreateRoom \/ SetStop \/ StopNotify \/ Join \/ UNCHANGED vars
  <2>1. UNCHANGED engineVars
    BY <1>4 DEF Timer, TimerTest, TimerPush, TimerNotify, TimerWakes, CreateRoom,
       SetStop, StopNotify, Join, vars
  <2> QED
    BY <1>1, <2>1
<1> QED
  BY <1>1, <1>2, <1>3, <1>4 DEF Next

LEMMA OthersStayUpToDate ==
  ASSUME PoolOK, ShownInv, [Next]_vars, NEW v \in Workers, Room(v)' \in Rooms,
         UNCHANGED <<job[v], shown[v], workerAt[v]>>
  PROVE  (over[Room(v)] \/ UpToDate(v))'
<1>1. Room(v)' = Room(v) /\ Time(v)' = Time(v)
  BY DEF Room, Time
<1>2. /\ engineTime'[Room(v)] >= engineTime[Room(v)]
      /\ over[Room(v)] => over'[Room(v)]
  BY <1>1, EnginesAdvance
<1>3. /\ engineTime[Room(v)] \in Nat /\ Time(v) \in Nat /\ engineTime'[Room(v)] \in Nat
  BY <1>1, NextPool DEF PoolOK, TypeOK, Time
<1> QED
  BY <1>1, <1>2, <1>3 DEF ShownInv, UpToDate

LEMMA NextShown == PoolOK /\ ClockInv /\ ShownInv /\ [Next]_vars => ShownInv'
<1> SUFFICES ASSUME PoolOK, ClockInv, ShownInv, [Next]_vars,
                    NEW v \in Workers, Room(v)' \in Rooms
             PROVE  (over[Room(v)] \/ UpToDate(v))'
  BY DEF ShownInv
<1>0. /\ workerAt \in [Workers -> WorkerStates] /\ shown \in [Workers -> Nat]
      /\ job \in [Workers -> [room : Rooms \union {NoRoom}, time : Nat]]
  BY DEF PoolOK, TypeOK
<1>1. CASE UNCHANGED <<job[v], shown[v], workerAt[v]>>
  BY <1>1, OthersStayUpToDate
<1>2. CASE Timer \/ CreateRoom \/ SetStop \/ StopNotify \/ Join \/ UNCHANGED vars
  <2>1. UNCHANGED <<job, shown>>
    BY <1>2 DEF Timer, TimerTest, TimerPush, TimerNotify, TimerWakes, CreateRoom,
       SetStop, StopNotify, Join, vars, localVars
  <2>2. UNCHANGED workerAt \/ NotifyAll
    BY <1>2 DEF Timer, TimerTest, TimerPush, TimerNotify, TimerWakes, CreateRoom,
       SetStop, StopNotify, Join, vars
  <2>3. UNCHANGED workerAt[v] \/ workerAt'[v] = "ready"
    BY <1>0, <2>2 DEF NotifyAll
  <2> QED
    BY <1>1, <2>1, <2>3 DEF UpToDate
<1>3. ASSUME NEW w \in Workers, Worker(w), w # v
      PROVE  UNCHANGED <<job[v], shown[v], workerAt[v]>>
  <2>1. \E label : workerAt' = [workerAt EXCEPT ![w] = label]
    BY <1>3, Zenon DEF Worker, TestCondition, Block, TakeTask, WorkerExits, ReadLastUpdate,
       EngineWait, StoreLastUpdate, TestInterval, getSnapshot, TestEloUpdated, processGameOver,
       SetEloUpdated, serializeSnapshot, SendToPlayers, StoreLastBroadcast, Goto
  <2>2. job' = job \/ \E x : job' = [job EXCEPT ![w] = x]
    BY <1>3, Zenon DEF Worker, TestCondition, Block, TakeTask, WorkerExits, ReadLastUpdate,
       EngineWait, StoreLastUpdate, TestInterval, getSnapshot, TestEloUpdated, processGameOver,
       SetEloUpdated, serializeSnapshot, SendToPlayers, StoreLastBroadcast, localVars
  <2>3. shown' = shown \/ \E x : shown' = [shown EXCEPT ![w] = x]
    BY <1>3, Zenon DEF Worker, TestCondition, Block, TakeTask, WorkerExits, ReadLastUpdate,
       EngineWait, StoreLastUpdate, TestInterval, getSnapshot, TestEloUpdated, processGameOver,
       SetEloUpdated, serializeSnapshot, SendToPlayers, StoreLastBroadcast, localVars
  <2> QED
    BY <1>0, <1>3, <2>1, <2>2, <2>3
<1>4. ASSUME Worker(v) PROVE (over[Room(v)] \/ UpToDate(v))'
  <2>0. TypeOK'
    BY NextPool DEF PoolOK
  <2>1. CASE TestCondition(v) \/ Block(v) \/ WorkerExits(v) \/ TakeTask(v) \/ StoreLastBroadcast(v)
    <3>1. workerAt'[v] \in {"blocking", "waiting", "exited", "update", "ready"}
      BY <1>0, <2>1 DEF TestCondition, Block, WorkerExits, TakeTask, StoreLastBroadcast, Goto
    <3> QED
      BY <3>1 DEF UpToDate
  <2>2. CASE ReadLastUpdate(v)
    <3>1. /\ workerAt'[v] = IF Positive(dt'[v]) THEN "wait" ELSE "interval"
          /\ dt'[v] = EngineDt(v)
          /\ UNCHANGED <<job, engineTime, over>>
      BY <1>0, <2>2 DEF ReadLastUpdate, Goto, engineVars, PoolOK, TypeOK
    <3>2. Room(v)' = Room(v) /\ Time(v)' = Time(v) /\ Time(v) \in Nat
      BY <1>0, <3>1 DEF Room, Time
    <3>3. CASE Positive(dt'[v])
      BY <3>1, <3>3 DEF UpToDate
    <3>4. CASE ~Positive(dt'[v]) /\ ~over[Room(v)]
      <4>1. /\ engineTime[Room(v)] >= lastUpdate[Room(v)]
            /\ engineTime[Room(v)] \in Nat /\ lastUpdate[Room(v)] \in Nat
        BY <3>2, <3>4 DEF ClockInv, EngineNotBehind, PoolOK, TypeOK
      <4>2. engineTime[Room(v)] >= Time(v)
        BY <3>1, <3>2, <3>4, <4>1 DEF Positive, EngineDt
      <4> QED
        BY <3>1, <3>2, <3>4, <4>2 DEF UpToDate
    <3> QED
      BY <3>1, <3>2, <3>3, <3>4
  <2>3. CASE EngineWait(v)
    BY <1>0, <2>3 DEF EngineWait, Goto, UpToDate
  <2>4. CASE StoreLastUpdate(v)
    <3>1. /\ workerAt[v] = "store" /\ workerAt'[v] = "interval"
          /\ UNCHANGED <<job, engineTime, over>>
      BY <1>0, <2>4 DEF StoreLastUpdate, Goto, localVars, engineVars
    <3> QED
      BY <3>1 DEF ClockInv, Simulated, UpToDate, Room, Time
  <2>5. CASE TestInterval(v)
    <3>1. /\ workerAt[v] = "interval" /\ workerAt'[v] \in {"snapshot", "ready"}
          /\ UNCHANGED <<job, engineTime, over>>
      BY <1>0, <2>5 DEF TestInterval, Goto, localVars, engineVars
    <3> QED
      BY <3>1 DEF ShownInv, UpToDate, Room, Time
  <2>6. CASE getSnapshot(v)
    <3>1. /\ workerAt[v] = "snapshot" /\ shown'[v] = engineTime[Room(v)]
          /\ workerAt'[v] = IF over[Room(v)] THEN "test" ELSE "serialize"
          /\ UNCHANGED <<job, engineTime, over>>
      BY <1>0, <2>6 DEF getSnapshot, Goto, engineVars
    <3> QED
      BY <3>1 DEF ShownInv, UpToDate, Room, Time
  <2>7. CASE TestEloUpdated(v) \/ processGameOver(v) \/ SetEloUpdated(v)
    <3>1. workerAt[v] \in {"test", "rate", "mark"} /\ UNCHANGED <<job, over>>
      BY <2>7 DEF TestEloUpdated, processGameOver, SetEloUpdated, localVars, engineVars
    <3> QED
      BY <3>1 DEF ShownInv, UpToDate, Room
  <2>8. CASE serializeSnapshot(v) \/ SendToPlayers(v)
    <3>1. /\ workerAt[v] \in {"serialize", "send"} /\ workerAt'[v] \in {"send", "broadcast"}
          /\ UNCHANGED <<job, shown, over>>
      BY <1>0, <2>8 DEF serializeSnapshot, SendToPlayers, Goto, engineVars
    <3> QED
      BY <3>1 DEF ShownInv, UpToDate, Room, Time
  <2> QED
    BY <1>4, <2>1, <2>2, <2>3, <2>4, <2>5, <2>6, <2>7, <2>8 DEF Worker
<1> QED
  BY <1>1, <1>2, <1>3, <1>4 DEF Next

\* However many workers update a room at once: the state a worker sends of a
\* game that goes on has simulated at least the period it was made for.
THEOREM WhatIsSentIsCurrent == Spec => []StatesAreCurrent
<1>1. Init => ClockInv /\ ShownInv
  BY DEF Init, ClockInv, EngineNotBehind, Simulates, Simulated, ShownInv, UpToDate
<1>2. PoolOK /\ ShownInv => StatesAreCurrent
  BY DEF PoolOK, JobsKnown, Updating, ShownInv, UpToDate, StatesAreCurrent
<1> QED
  BY <1>1, <1>2, InitPool, NextPool, NextClock, NextShown, PTL DEF Spec

-----------------------------------------------------------------------------
(* Events.  The sequences hold each event at most once, no event is in two *)
(* of them, and together they hold all that has happened.  Only a worker   *)
(* that is about to send carries a message, and it keeps its room.         *)

Carry(w, r) == IF Room(w) = r THEN ToSet(drained[w]) ELSE {}

Once(r) ==
  /\ IsInjective(received[r]) /\ IsInjective(pending[r])
  /\ ToSet(received[r]) \intersect ToSet(pending[r]) = {}
  /\ \A w \in Workers : Carry(w, r) \intersect (ToSet(received[r]) \union ToSet(pending[r])) = {}
  /\ \A w, v \in Workers : w # v => Carry(w, r) \intersect Carry(v, r) = {}
  /\ \A e : e \in 1 .. happened[r] <=> \/ e \in ToSet(received[r]) \union ToSet(pending[r])
                                       \/ \E w \in Workers : e \in Carry(w, r)

Carriers == \A w \in Workers : /\ IsInjective(drained[w])
                               /\ drained[w] # << >> => workerAt[w] = "send"

EventsInv == Carriers /\ \A r \in Rooms : Once(r)

LEMMA EmptySequence == ToSet(<< >>) = {} /\ IsInjective(<< >>)
BY DEF ToSet, IsInjective

LEMMA ConcatSet ==
  ASSUME NEW s \in Seq(Nat), NEW t \in Seq(Nat)
  PROVE  ToSet(s \o t) = ToSet(s) \union ToSet(t)
<1>1. /\ Len(s) \in Nat /\ Len(t) \in Nat /\ DOMAIN s = 1 .. Len(s) /\ DOMAIN t = 1 .. Len(t)
      /\ DOMAIN (s \o t) = 1 .. Len(s) + Len(t)
      /\ \A i \in 1 .. Len(s) + Len(t) : (s \o t)[i] = IF i <= Len(s) THEN s[i] ELSE t[i - Len(s)]
  BY ConcatProperties, LenProperties
<1>2. ASSUME NEW e \in ToSet(t) PROVE e \in ToSet(s \o t)
  <2>1. PICK i \in 1 .. Len(t) : e = t[i]
    BY <1>1, <1>2 DEF ToSet
  <2>2. i + Len(s) \in 1 .. Len(s) + Len(t) /\ (s \o t)[i + Len(s)] = t[i]
    BY <1>1, <2>1
  <2> QED
    BY <1>1, <2>1, <2>2 DEF ToSet
<1>3. ASSUME NEW e \in ToSet(s) PROVE e \in ToSet(s \o t)
  <2>1. PICK i \in 1 .. Len(s) : e = s[i]
    BY <1>1, <1>3 DEF ToSet
  <2>2. i \in 1 .. Len(s) + Len(t) /\ (s \o t)[i] = s[i]
    BY <1>1, <2>1
  <2> QED
    BY <1>1, <2>1, <2>2 DEF ToSet
<1>4. ASSUME NEW e \in ToSet(s \o t) PROVE e \in ToSet(s) \union ToSet(t)
  <2>1. PICK i \in 1 .. Len(s) + Len(t) : e = (s \o t)[i]
    BY <1>1, <1>4 DEF ToSet
  <2>2. CASE i <= Len(s)
    BY <1>1, <2>1, <2>2 DEF ToSet
  <2>3. CASE i > Len(s)
    <3>1. i - Len(s) \in 1 .. Len(t) /\ e = t[i - Len(s)]
      BY <1>1, <2>1, <2>3
    <3> QED
      BY <1>1, <3>1 DEF ToSet
  <2> QED
    BY <1>1, <2>2, <2>3
<1> QED
  BY <1>2, <1>3, <1>4

LEMMA ConcatInjective ==
  ASSUME NEW s \in Seq(Nat), NEW t \in Seq(Nat)
  PROVE  IsInjective(s \o t) <=> /\ IsInjective(s) /\ IsInjective(t)
                                 /\ ToSet(s) \intersect ToSet(t) = {}
<1>1. /\ Len(s) \in Nat /\ Len(t) \in Nat /\ DOMAIN s = 1 .. Len(s) /\ DOMAIN t = 1 .. Len(t)
      /\ DOMAIN (s \o t) = 1 .. Len(s) + Len(t)
      /\ \A i \in 1 .. Len(s) + Len(t) : (s \o t)[i] = IF i <= Len(s) THEN s[i] ELSE t[i - Len(s)]
  BY ConcatProperties, LenProperties
<1>2. \A i \in 1 .. Len(s) : i \in 1 .. Len(s) + Len(t) /\ (s \o t)[i] = s[i]
  BY <1>1
<1>3. \A i \in 1 .. Len(t) : i + Len(s) \in 1 .. Len(s) + Len(t) /\ (s \o t)[i + Len(s)] = t[i]
  BY <1>1
<1>4. ASSUME IsInjective(s \o t)
      PROVE  IsInjective(s) /\ IsInjective(t) /\ ToSet(s) \intersect ToSet(t) = {}
  <2>1. \A i, j \in 1 .. Len(s) + Len(t) : (s \o t)[i] = (s \o t)[j] => i = j
    BY <1>1, <1>4 DEF IsInjective
  <2>2. \A i, j \in 1 .. Len(s) : s[i] = s[j] => i = j
    BY <1>2, <2>1
  <2>3. \A i, j \in 1 .. Len(t) : t[i] = t[j] => i = j
    <3> TAKE i, j \in 1 .. Len(t)
    <3> HAVE t[i] = t[j]
    <3>1. i + Len(s) = j + Len(s)
      BY <1>3, <2>1
    <3> QED
      BY <1>1, <3>1
  <2>4. \A i \in 1 .. Len(s), j \in 1 .. Len(t) : s[i] # t[j]
    <3> TAKE i \in 1 .. Len(s), j \in 1 .. Len(t)
    <3>1. i # j + Len(s)
      BY <1>1
    <3> QED
      BY <1>2, <1>3, <2>1, <3>1
  <2> QED
    BY <1>1, <2>2, <2>3, <2>4 DEF IsInjective, ToSet
<1>5. ASSUME IsInjective(s), IsInjective(t), ToSet(s) \intersect ToSet(t) = {}
      PROVE  IsInjective(s \o t)
  <2>1. /\ \A i, j \in 1 .. Len(s) : s[i] = s[j] => i = j
        /\ \A i, j \in 1 .. Len(t) : t[i] = t[j] => i = j
        /\ \A i \in 1 .. Len(s), j \in 1 .. Len(t) : s[i] # t[j]
    <3>1. \A i \in 1 .. Len(s), j \in 1 .. Len(t) : s[i] \in ToSet(s) /\ t[j] \in ToSet(t)
      BY <1>1 DEF ToSet
    <3>2. /\ \A i, j \in 1 .. Len(s) : s[i] = s[j] => i = j
          /\ \A i, j \in 1 .. Len(t) : t[i] = t[j] => i = j
      BY <1>1, <1>5 DEF IsInjective
    <3> QED
      BY <1>5, <3>1, <3>2
  <2>2. SUFFICES ASSUME NEW i \in 1 .. Len(s) + Len(t), NEW j \in 1 .. Len(s) + Len(t),
                        (s \o t)[i] = (s \o t)[j]
                 PROVE  i = j
    BY <1>1 DEF IsInjective
  <2>3. CASE i <= Len(s) /\ j <= Len(s)
    BY <1>1, <2>1, <2>2, <2>3
  <2>4. CASE i > Len(s) /\ j > Len(s)
    <3>1. /\ i - Len(s) \in 1 .. Len(t) /\ j - Len(s) \in 1 .. Len(t)
          /\ t[i - Len(s)] = t[j - Len(s)]
      BY <1>1, <2>2, <2>4
    <3>2. i - Len(s) = j - Len(s)
      BY <2>1, <3>1
    <3> QED
      BY <1>1, <3>2
  <2>5. CASE i <= Len(s) /\ j > Len(s)
    <3>1. i \in 1 .. Len(s) /\ j - Len(s) \in 1 .. Len(t) /\ s[i] = t[j - Len(s)]
      BY <1>1, <2>2, <2>5
    <3> QED
      BY <2>1, <3>1
  <2>6. CASE i > Len(s) /\ j <= Len(s)
    <3>1. j \in 1 .. Len(s) /\ i - Len(s) \in 1 .. Len(t) /\ s[j] = t[i - Len(s)]
      BY <1>1, <2>2, <2>6
    <3> QED
      BY <2>1, <3>1
  <2> QED
    BY <1>1, <2>3, <2>4, <2>5, <2>6
<1> QED
  BY <1>4, <1>5

LEMMA AppendToSet ==
  ASSUME NEW s \in Seq(Nat), NEW e \in Nat
  PROVE  /\ ToSet(Append(s, e)) = ToSet(s) \union {e}
         /\ IsInjective(s) /\ e \notin ToSet(s) => IsInjective(Append(s, e))
<1>1. Append(s, e) = s \o <<e>> /\ <<e>> \in Seq(Nat)
  BY AppendIsConcat
<1>2. ToSet(<<e>>) = {e} /\ IsInjective(<<e>>)
  BY DEF ToSet, IsInjective
<1>3. /\ ToSet(s \o <<e>>) = ToSet(s) \union ToSet(<<e>>)
      /\ IsInjective(s \o <<e>>) <=> /\ IsInjective(s) /\ IsInjective(<<e>>)
                                     /\ ToSet(s) \intersect ToSet(<<e>>) = {}
  BY <1>1, ConcatSet, ConcatInjective
<1> QED
  BY <1>1, <1>2, <1>3

LEMMA EventsUndisturbed ==
  ASSUME PoolOK, EventsInv, UNCHANGED <<happened, pending, received, drained>>,
         \A w \in Workers : workerAt[w] = "send" => /\ workerAt'[w] = "send"
                                                    /\ Room(w)' = Room(w)
  PROVE  EventsInv'
<1>1. ASSUME NEW w \in Workers, NEW r PROVE Carry(w, r)' = Carry(w, r)
  <2>1. CASE drained[w] = << >>
    BY <2>1, EmptySequence DEF Carry
  <2>2. CASE drained[w] # << >>
    BY <2>2 DEF Carry, EventsInv, Carriers
  <2> QED
    BY <2>1, <2>2
<1>2. Carriers'
  BY DEF EventsInv, Carriers
<1>3. ASSUME NEW r \in Rooms PROVE Once(r)'
  <2>1. Once(r)
    BY DEF EventsInv
  <2> QED
    BY <1>1, <2>1 DEF Once
<1> QED
  BY <1>2, <1>3 DEF EventsInv

LEMMA WaitEvents ==
  ASSUME PoolOK, EventsInv, NEW w \in Workers, EngineWait(w), ~over[Room(w)]
  PROVE  EventsInv'
<1> DEFINE q == Room(w)
           next == happened[q] + 1
<1>1. /\ happened' = [happened EXCEPT ![q] = @ + 1]
      /\ pending' = [pending EXCEPT ![q] = Append(@, happened'[q])]
      /\ workerAt[w] = "wait" /\ workerAt' = [workerAt EXCEPT ![w] = "store"]
      /\ UNCHANGED <<received, drained, job>>
  BY DEF EngineWait, Goto, localVars
<1>2. /\ q \in Rooms
      /\ happened \in [Rooms -> Nat] /\ pending \in [Rooms -> Seq(Nat)]
      /\ workerAt \in [Workers -> WorkerStates]
  BY <1>1 DEF PoolOK, TypeOK, JobsKnown, Updating
<1> HIDE DEF q
<1>3. Carriers'
  BY <1>1, <1>2 DEF EventsInv, Carriers
<1>4. ASSUME NEW v \in Workers, NEW r PROVE Carry(v, r)' = Carry(v, r)
  BY <1>1 DEF Carry, Room
<1>5. ASSUME NEW r \in Rooms, r # q PROVE Once(r)'
  <2>1. Once(r) /\ UNCHANGED <<happened[r], pending[r], received[r]>>
    BY <1>1, <1>2, <1>5 DEF EventsInv
  <2> QED
    BY <1>4, <2>1 DEF Once
<1>6. ASSUME NEW r \in Rooms, r = q PROVE Once(r)'
  <2>1. Once(q)
    BY <1>2 DEF EventsInv
  <2>2. next \in Nat /\ happened[q] \in Nat /\ happened'[q] = next
    BY <1>1, <1>2
  <2>3. pending'[q] = Append(pending[q], next) /\ pending[q] \in Seq(Nat)
    BY <1>1, <1>2, <2>2
  <2> HIDE DEF next
  <2>4. \A e : e \in 1 .. next <=> e \in 1 .. happened[q] \/ e = next
    BY <2>2 DEF next
  <2>5. next \notin 1 .. happened[q]
    BY <2>2 DEF next
  <2>6. /\ next \notin ToSet(received[q]) \union ToSet(pending[q])
        /\ \A v \in Workers : next \notin Carry(v, q)
    BY <2>1, <2>5 DEF Once
  <2>7. /\ ToSet(pending'[q]) = ToSet(pending[q]) \union {next}
        /\ IsInjective(pending'[q])
    BY <2>1, <2>2, <2>3, <2>6, AppendToSet DEF Once
  <2> QED
    BY <1>1, <1>4, <1>6, <2>1, <2>2, <2>4, <2>6, <2>7 DEF Once
<1> QED
  BY <1>3, <1>5, <1>6 DEF EventsInv

LEMMA DrainEvents ==
  ASSUME PoolOK, EventsInv, NEW w \in Workers, serializeSnapshot(w)
  PROVE  EventsInv'
<1> DEFINE q == Room(w)
<1>1. /\ workerAt[w] = "serialize" /\ workerAt' = [workerAt EXCEPT ![w] = "send"]
      /\ drained' = [drained EXCEPT ![w] = pending[q]]
      /\ pending' = [pending EXCEPT ![q] = << >>]
      /\ UNCHANGED <<received, happened, job>>
  BY DEF serializeSnapshot, AfterDrain, Goto, engineVars
<1>2. /\ q \in Rooms
      /\ drained \in [Workers -> Seq(Nat)] /\ pending \in [Rooms -> Seq(Nat)]
      /\ workerAt \in [Workers -> WorkerStates]
  BY <1>1 DEF PoolOK, TypeOK, JobsKnown, Updating
<1>3. drained[w] = << >> /\ Once(q)
  BY <1>1, <1>2 DEF EventsInv, Carriers
<1>4. Carriers'
  BY <1>1, <1>2, <1>3 DEF EventsInv, Carriers, Once
<1>5. ASSUME NEW r \in Rooms, r = q
      PROVE  /\ Carry(w, r) = {} /\ Carry(w, r)' = ToSet(pending[r])
             /\ \A v \in Workers : v # w => Carry(v, r)' = Carry(v, r)
  BY <1>1, <1>2, <1>3, <1>5, EmptySequence DEF Carry, Room
<1>6. ASSUME NEW r \in Rooms, r # q PROVE Once(r)'
  <2>1. Once(r) /\ UNCHANGED <<happened[r], pending[r], received[r]>>
    BY <1>1, <1>2, <1>6 DEF EventsInv
  <2>2. ASSUME NEW v \in Workers PROVE Carry(v, r)' = Carry(v, r)
    BY <1>1, <1>2, <1>6 DEF Carry, Room
  <2> QED
    BY <2>1, <2>2 DEF Once
<1>7. pending'[q] = << >> /\ ToSet(pending'[q]) = {} /\ IsInjective(pending'[q])
  BY <1>1, <1>2, EmptySequence
<1>8. ASSUME NEW r \in Rooms, r = q PROVE Once(r)'
  BY <1>1, <1>3, <1>5, <1>7, <1>8 DEF Once
<1> QED
  BY <1>4, <1>6, <1>8 DEF EventsInv

LEMMA SendEvents ==
  ASSUME PoolOK, EventsInv, NEW w \in Workers, SendToPlayers(w)
  PROVE  EventsInv'
<1> DEFINE q == Room(w)
<1>1. /\ workerAt[w] = "send" /\ workerAt' = [workerAt EXCEPT ![w] = "broadcast"]
      /\ received' = [received EXCEPT ![q] = @ \o drained[w]]
      /\ drained' = [drained EXCEPT ![w] = << >>]
      /\ UNCHANGED <<pending, happened, job>>
  BY DEF SendToPlayers, Goto, engineVars, sessionVars
<1>2. /\ q \in Rooms
      /\ drained \in [Workers -> Seq(Nat)] /\ received \in [Rooms -> Seq(Nat)]
      /\ workerAt \in [Workers -> WorkerStates]
  BY <1>1 DEF PoolOK, TypeOK, JobsKnown, Updating
<1>3. Once(q) /\ IsInjective(drained[w])
  BY <1>2 DEF EventsInv, Carriers
<1>4. Carriers'
  BY <1>1, <1>2, EmptySequence DEF EventsInv, Carriers
<1>5. ASSUME NEW r \in Rooms, r = q
      PROVE  /\ Carry(w, r) = ToSet(drained[w]) /\ Carry(w, r)' = {}
             /\ \A v \in Workers : v # w => Carry(v, r)' = Carry(v, r)
  BY <1>1, <1>2, <1>5, EmptySequence DEF Carry, Room
<1>6. ASSUME NEW r \in Rooms, r # q PROVE Once(r)'
  <2>1. Once(r) /\ UNCHANGED <<happened[r], pending[r], received[r]>>
    BY <1>1, <1>2, <1>6 DEF EventsInv
  <2>2. ASSUME NEW v \in Workers PROVE Carry(v, r)' = Carry(v, r)
    BY <1>1, <1>2, <1>6 DEF Carry, Room
  <2> QED
    BY <2>1, <2>2 DEF Once
<1>7. /\ ToSet(received'[q]) = ToSet(received[q]) \union ToSet(drained[w])
      /\ IsInjective(received'[q])
  <2>1. /\ received'[q] = received[q] \o drained[w]
        /\ received[q] \in Seq(Nat) /\ drained[w] \in Seq(Nat)
    BY <1>1, <1>2
  <2>2. ToSet(received[q]) \intersect ToSet(drained[w]) = {} /\ IsInjective(received[q])
    BY <1>2, <1>3, <1>5 DEF Once
  <2> QED
    BY <1>3, <2>1, <2>2, ConcatSet, ConcatInjective
<1>8. ASSUME NEW r \in Rooms, r = q PROVE Once(r)'
  BY <1>1, <1>3, <1>5, <1>7, <1>8 DEF Once
<1> QED
  BY <1>4, <1>6, <1>8 DEF EventsInv

LEMMA NextEvents == PoolOK /\ EventsInv /\ [Next]_vars => EventsInv'
<1> SUFFICES ASSUME PoolOK, EventsInv, [Next]_vars PROVE EventsInv'
  OBVIOUS
<1>0. /\ workerAt \in [Workers -> WorkerStates]
      /\ job \in [Workers -> [room : Rooms \union {NoRoom}, time : Nat]]
  BY DEF PoolOK, TypeOK
<1>1. CASE UNCHANGED vars
  BY <1>1, EventsUndisturbed DEF vars, localVars, engineVars, sessionVars, Room
<1>2. CASE Timer \/ CreateRoom \/ SetStop \/ StopNotify \/ Join
  <2>1. UNCHANGED <<job, happened, pending, received, drained>>
    BY <1>2 DEF Timer, TimerTest, TimerPush, TimerNotify, TimerWakes, CreateRoom,
       SetStop, StopNotify, Join, localVars, engineVars, sessionVars
  <2>2. UNCHANGED workerAt \/ NotifyAll
    BY <1>2 DEF Timer, TimerTest, TimerPush, TimerNotify, TimerWakes, CreateRoom,
       SetStop, StopNotify, Join
  <2> QED
    BY <1>0, <2>1, <2>2, EventsUndisturbed DEF NotifyAll, Room
<1>3. ASSUME NEW w \in Workers, Worker(w) PROVE EventsInv'
  <2>1. CASE EngineWait(w) /\ ~over[Room(w)]
    BY <2>1, WaitEvents
  <2>2. CASE serializeSnapshot(w)
    BY <2>2, DrainEvents
  <2>3. CASE SendToPlayers(w)
    BY <2>3, SendEvents
  <2>4. CASE ~(EngineWait(w) /\ ~over[Room(w)]) /\ ~serializeSnapshot(w) /\ ~SendToPlayers(w)
    <3>1. UNCHANGED <<happened, pending, received, drained>>
      BY <1>3, <2>4, Zenon DEF Worker, TestCondition, Block, TakeTask, WorkerExits, ReadLastUpdate,
         EngineWait, StoreLastUpdate, TestInterval, getSnapshot, TestEloUpdated, processGameOver,
         SetEloUpdated, StoreLastBroadcast, localVars, engineVars, sessionVars
    <3>2. workerAt[w] # "send" /\ \E label : workerAt' = [workerAt EXCEPT ![w] = label]
      BY <1>3, <2>4, Zenon DEF Worker, TestCondition, Block, TakeTask, WorkerExits, ReadLastUpdate,
         EngineWait, StoreLastUpdate, TestInterval, getSnapshot, TestEloUpdated, processGameOver,
         SetEloUpdated, StoreLastBroadcast, Goto
    <3>3. job' = job \/ \E x : job' = [job EXCEPT ![w] = x]
      BY <1>3, <2>4, Zenon DEF Worker, TestCondition, Block, TakeTask, WorkerExits, ReadLastUpdate,
         EngineWait, StoreLastUpdate, TestInterval, getSnapshot, TestEloUpdated, processGameOver,
         SetEloUpdated, StoreLastBroadcast, localVars
    <3> QED
      BY <1>0, <3>1, <3>2, <3>3, EventsUndisturbed DEF Room
  <2> QED
    BY <2>1, <2>2, <2>3, <2>4
<1> QED
  BY <1>1, <1>2, <1>3 DEF Next

LEMMA OnceIsEventsOnce == PoolOK /\ EventsInv => EventsOnce
<1> SUFFICES ASSUME PoolOK, EventsInv, NEW r \in Rooms
    PROVE /\ IsInjective(Told(r))
          /\ \A w \in InMessages(r) :
               /\ IsInjective(drained[w])
               /\ ToSet(drained[w]) \intersect ToSet(Told(r)) = {}
               /\ \A v \in InMessages(r) \ {w} : ToSet(drained[v]) \intersect ToSet(drained[w]) = {}
          /\ 1 .. happened[r] = ToSet(Told(r)) \union UNION { ToSet(drained[w]) : w \in InMessages(r) }
  BY DEF EventsOnce
<1>1. received[r] \in Seq(Nat) /\ pending[r] \in Seq(Nat)
  BY DEF PoolOK, TypeOK
<1>2. Once(r)
  BY DEF EventsInv
<1>3. IsInjective(Told(r)) /\ ToSet(Told(r)) = ToSet(received[r]) \union ToSet(pending[r])
  BY <1>1, <1>2, ConcatSet, ConcatInjective DEF Once, Told
<1>4. \A w \in InMessages(r) : w \in Workers /\ Carry(w, r) = ToSet(drained[w])
  BY DEF InMessages, Carry
<1>5. \A w \in Workers : Carry(w, r) # {} => w \in InMessages(r)
  BY EmptySequence DEF InMessages, Carry
<1>6. \A w \in InMessages(r) : IsInjective(drained[w])
  BY <1>4 DEF EventsInv, Carriers
<1>7. \A e : e \in 1 .. happened[r] <=> \/ e \in ToSet(Told(r))
                                        \/ \E w \in InMessages(r) : e \in ToSet(drained[w])
  BY <1>2, <1>3, <1>4, <1>5 DEF Once
<1>8. 1 .. happened[r] = ToSet(Told(r)) \union UNION { ToSet(drained[w]) : w \in InMessages(r) }
  BY <1>7, Zenon
<1> QED
  BY <1>2, <1>3, <1>4, <1>6, <1>8 DEF Once

\* However many workers simulate, drain and send for one room at once: no
\* event is lost and none is told twice.
THEOREM NoEventIsLost == Spec => []EventsOnce
<1>1. Init => EventsInv
  <2> SUFFICES ASSUME Init PROVE EventsInv
    OBVIOUS
  <2>1. Carriers /\ \A w \in Workers, r \in Rooms : Carry(w, r) = {}
    BY EmptySequence DEF Init, Carriers, Carry
  <2>2. ASSUME NEW r \in Rooms PROVE Once(r)
    <3>1. happened[r] = 0 /\ received[r] = << >> /\ pending[r] = << >>
      BY DEF Init
    <3>2. 1 .. 0 = {}
      OBVIOUS
    <3> QED
      BY <2>1, <3>1, <3>2, EmptySequence DEF Once
  <2> QED
    BY <2>1, <2>2 DEF EventsInv
<1> QED
  BY <1>1, OnceIsEventsOnce, InitPool, NextPool, NextEvents, PTL DEF Spec

=============================================================================
