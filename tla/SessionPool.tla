----------------------------- MODULE SessionPool -----------------------------
(***************************************************************************)
(* The thread pool of RoomManager and the updates of GameSession it runs.  *)
(*                                                                         *)
(* A timer thread queues one update per room and period, any number of     *)
(* workers take updates from the queue, and nothing keeps two workers from *)
(* updating the same room at the same time.  GameSession::update is        *)
(* modelled by its reads and writes of the fields it shares; what is done  *)
(* under one lock is one step.  The engine appears as its clock, the       *)
(* events it publishes and whether the game is over (GameEngine).          *)
(* Times are in timer periods, which are also the broadcast interval.      *)
(* A spurious wakeup of a worker would only add a turn of its loop.        *)
(***************************************************************************)
EXTENDS Integers, Sequences, SequencesExt, FiniteSets

CONSTANTS Rooms, Workers,
          NoRoom,
          MaxTicks,        \* bound: the clock stops there, the timer does not
          MaxQueued        \* bound: the timer does not push to a queue of this length

ASSUME PoolAssumption ==
  /\ IsFiniteSet(Rooms) /\ IsFiniteSet(Workers) /\ Workers # {}
  /\ NoRoom \notin Rooms
  /\ MaxTicks \in Nat /\ MaxQueued \in Nat \ {0}

VARIABLES
  clock,            \* periods since the start of the timer thread
  tasks,            \* m_tasks
  stopPool,         \* m_stopPool
  timerAt, mainAt,  \* the timer thread, and the thread that runs ~RoomManager
  workerAt, job,    \* of each worker: where it is, and its task
  dt, shown, drained,   \* locals of update: engineDt, the snapshot's time, the events
  exists,           \* the rooms in m_rooms
  engineTime, over, happened,   \* of each room's engine: clock, isGameOver, events published so far
  lastUpdate, lastBroadcast, eloUpdated, pending,   \* fields of GameSession
  received,         \* history: events clients got
  missed            \* history: workers about to block when ~RoomManager notified

taskVars    == <<exists, clock, tasks, stopPool, timerAt, mainAt, missed>>
localVars   == <<job, dt, shown, drained>>
engineVars  == <<engineTime, over, happened>>
sessionVars == <<lastUpdate, lastBroadcast, eloUpdated, pending>>
vars == <<taskVars, workerAt, localVars, engineVars, sessionVars, received>>

WorkerStates == {"ready", "blocking", "waiting", "update", "wait", "store", "interval",
                 "snapshot", "test", "rate", "mark", "serialize", "send",
                 "broadcast", "exited"}

Init ==
  /\ exists = {}
  /\ clock = 0
  /\ tasks = << >>
  /\ stopPool = FALSE
  /\ timerAt = "loop" /\ mainAt = "running"
  /\ missed = {}
  /\ workerAt = [w \in Workers |-> "ready"]
  /\ job = [w \in Workers |-> [room |-> NoRoom, time |-> 0]]
  /\ dt = [w \in Workers |-> 0]
  /\ shown = [w \in Workers |-> 0]
  /\ drained = [w \in Workers |-> << >>]
  /\ engineTime = [r \in Rooms |-> 0]
  /\ over = [r \in Rooms |-> FALSE]
  /\ happened = [r \in Rooms |-> 0]
  /\ lastUpdate = [r \in Rooms |-> 0]
  /\ lastBroadcast = [r \in Rooms |-> 0]
  /\ eloUpdated = [r \in Rooms |-> FALSE]
  /\ pending = [r \in Rooms |-> << >>]
  /\ received = [r \in Rooms |-> << >>]

\* m_queueMutex: a worker holds it from its test of the condition until it
\* has blocked; every other use of it is one step.
QueueIsFree == \A w \in Workers : workerAt[w] # "blocking"

\* Mutant of NotifyAll: notify_one.
NotifyOne ==
  workerAt' = IF \E w \in Workers : workerAt[w] = "waiting"
              THEN [workerAt EXCEPT ![CHOOSE w \in Workers : workerAt[w] = "waiting"] = "ready"]
              ELSE workerAt

\* m_condition.notify_all()
NotifyAll ==
  workerAt' = [w \in Workers |-> IF workerAt[w] = "waiting" THEN "ready" ELSE workerAt[w]]

-----------------------------------------------------------------------------
(* tickTimerLoop                                                           *)

TimerTest ==
  /\ timerAt = "loop"
  /\ timerAt' = IF stopPool THEN "exited" ELSE "push"
  /\ UNCHANGED <<exists, clock, tasks, stopPool, mainAt, missed,
                 workerAt, localVars, engineVars, sessionVars, received>>

\* The rooms come in the order of the map; the time is the same for all.  (A
\* room that is created between the copy of the map and the push has to wait
\* for the next period, as if it had been created after the push.)
TimerPush ==
  /\ timerAt = "push" /\ QueueIsFree
  /\ Len(tasks) < MaxQueued
  /\ \E order \in SetToSeqs(exists) :
       tasks' = tasks \o [k \in 1 .. Len(order) |-> [room |-> order[k], time |-> clock]]
  /\ timerAt' = "notify"
  /\ UNCHANGED <<exists, clock, stopPool, mainAt, missed,
                 workerAt, localVars, engineVars, sessionVars, received>>

TimerNotify ==
  /\ timerAt = "notify"
  /\ NotifyAll
  /\ timerAt' = "sleep"
  /\ UNCHANGED <<exists, clock, tasks, stopPool, mainAt, missed,
                 localVars, engineVars, sessionVars, received>>

\* The timer goes on for as long as the pool does.
TimerWakes ==
  /\ timerAt = "sleep"
  /\ clock' = IF clock < MaxTicks THEN clock + 1 ELSE clock
  /\ timerAt' = "loop"
  /\ UNCHANGED <<exists, tasks, stopPool, mainAt, missed,
                 workerAt, localVars, engineVars, sessionVars, received>>

Timer == TimerTest \/ TimerPush \/ TimerNotify \/ TimerWakes

-----------------------------------------------------------------------------
(* createRoom, on the network thread, at any time: the fields of a new room *)
(* have their initial values, and lastEngineUpdateTime is 0, not the clock. *)

CreateRoom ==
  /\ \E r \in Rooms \ exists : exists' = exists \union {r}
  /\ UNCHANGED <<clock, tasks, stopPool, timerAt, mainAt, missed,
                 workerAt, localVars, engineVars, sessionVars, received>>

-----------------------------------------------------------------------------
(* workerLoop                                                              *)

Goto(w, label) == workerAt' = [workerAt EXCEPT ![w] = label]

\* Mutant of NothingToDo: does not look at the queue.
NotStopped == ~stopPool

\* The negation of the predicate that the worker waits for.
NothingToDo == ~stopPool /\ tasks = << >>

TestCondition(w) ==
  /\ workerAt[w] = "ready" /\ QueueIsFree
  /\ NothingToDo
  /\ Goto(w, "blocking")
  /\ UNCHANGED <<taskVars, localVars, engineVars, sessionVars, received>>

Block(w) ==
  /\ workerAt[w] = "blocking"
  /\ Goto(w, "waiting")
  /\ UNCHANGED <<taskVars, localVars, engineVars, sessionVars, received>>

\* Mutant of TakeTask: takes the newest task.
TakeNewest(w) ==
  /\ workerAt[w] = "ready" /\ QueueIsFree
  /\ tasks # << >>
  /\ job' = [job EXCEPT ![w] = Last(tasks)]
  /\ tasks' = Front(tasks)
  /\ Goto(w, "update")
  /\ UNCHANGED <<exists, clock, stopPool, timerAt, mainAt, missed,
                 dt, shown, drained, engineVars, sessionVars, received>>

TakeTask(w) ==
  /\ workerAt[w] = "ready" /\ QueueIsFree
  /\ tasks # << >>
  /\ job' = [job EXCEPT ![w] = Head(tasks)]
  /\ tasks' = Tail(tasks)
  /\ Goto(w, "update")
  /\ UNCHANGED <<exists, clock, stopPool, timerAt, mainAt, missed,
                 dt, shown, drained, engineVars, sessionVars, received>>

WorkerExits(w) ==
  /\ workerAt[w] = "ready" /\ QueueIsFree
  /\ stopPool /\ tasks = << >>
  /\ Goto(w, "exited")
  /\ UNCHANGED <<taskVars, localVars, engineVars, sessionVars, received>>

-----------------------------------------------------------------------------
(* GameSession::update                                                     *)

Room(w) == job[w].room

\* Mutant of Time: the clock when the update runs.
TimeNow(w) == clock
Time(w) == job[w].time

EngineDt(w) == Time(w) - lastUpdate[Room(w)]

Positive(d) == d > 0

ReadLastUpdate(w) ==
  /\ workerAt[w] = "update"
  /\ dt' = [dt EXCEPT ![w] = EngineDt(w)]
  /\ Goto(w, IF Positive(dt'[w]) THEN "wait" ELSE "interval")
  /\ UNCHANGED <<taskVars, job, shown, drained, engineVars, sessionVars, received>>

\* engine.wait(engineDt) under the engine's mutex, which does nothing once the
\* game is over; each turn of a game that goes on has one event to tell.
EngineWait(w) ==
  /\ workerAt[w] = "wait"
  /\ IF over[Room(w)] THEN UNCHANGED <<engineVars, pending>>
     ELSE /\ engineTime' = [engineTime EXCEPT ![Room(w)] = @ + dt[w]]
          /\ over' \in {over, [over EXCEPT ![Room(w)] = TRUE]}
          /\ happened' = [happened EXCEPT ![Room(w)] = @ + 1]
          /\ pending' = [pending EXCEPT ![Room(w)] = Append(@, happened'[Room(w)])]
  /\ Goto(w, "store")
  /\ UNCHANGED <<taskVars, localVars, lastUpdate, lastBroadcast, eloUpdated, received>>

StoreLastUpdate(w) ==
  /\ workerAt[w] = "store"
  /\ lastUpdate' = [lastUpdate EXCEPT ![Room(w)] = Time(w)]
  /\ Goto(w, "interval")
  /\ UNCHANGED <<taskVars, localVars, engineVars, lastBroadcast, eloUpdated, pending, received>>

TestInterval(w) ==
  /\ workerAt[w] = "interval"
  /\ Goto(w, IF Time(w) - lastBroadcast[Room(w)] >= 1 THEN "snapshot" ELSE "ready")
  /\ UNCHANGED <<taskVars, localVars, engineVars, sessionVars, received>>

getSnapshot(w) ==
  /\ workerAt[w] = "snapshot"
  /\ shown' = [shown EXCEPT ![w] = engineTime[Room(w)]]
  /\ Goto(w, IF over[Room(w)] THEN "test" ELSE "serialize")
  /\ UNCHANGED <<taskVars, job, dt, drained, engineVars, sessionVars, received>>

Rated(w) == eloUpdated[Room(w)]

TestEloUpdated(w) ==
  /\ workerAt[w] = "test"
  /\ Goto(w, IF Rated(w) THEN "serialize" ELSE "rate")
  /\ UNCHANGED <<taskVars, localVars, engineVars, sessionVars, received>>

\* What it does to the ratings is a module of its own (Ratings).
processGameOver(w) ==
  /\ workerAt[w] = "rate"
  /\ Goto(w, "mark")
  /\ UNCHANGED <<taskVars, localVars, engineVars, sessionVars, received>>

SetEloUpdated(w) ==
  /\ workerAt[w] = "mark"
  /\ eloUpdated' = [eloUpdated EXCEPT ![Room(w)] = TRUE]
  /\ Goto(w, "serialize")
  /\ UNCHANGED <<taskVars, localVars, engineVars, lastUpdate, lastBroadcast, pending, received>>

\* Mutant of AfterDrain: the events stay in pendingEvents.
KeepPending(w) == pending
AfterDrain(w) == [pending EXCEPT ![Room(w)] = << >>]

\* serializeSnapshot moves the pending events into the message.
serializeSnapshot(w) ==
  /\ workerAt[w] = "serialize"
  /\ drained' = [drained EXCEPT ![w] = pending[Room(w)]]
  /\ pending' = AfterDrain(w)
  /\ Goto(w, "send")
  /\ UNCHANGED <<taskVars, job, dt, shown, engineVars,
                 lastUpdate, lastBroadcast, eloUpdated, received>>

SendToPlayers(w) ==
  /\ workerAt[w] = "send"
  /\ received' = [received EXCEPT ![Room(w)] = @ \o drained[w]]
  /\ drained' = [drained EXCEPT ![w] = << >>]
  /\ Goto(w, "broadcast")
  /\ UNCHANGED <<taskVars, job, dt, shown, engineVars, sessionVars>>

StoreLastBroadcast(w) ==
  /\ workerAt[w] = "broadcast"
  /\ lastBroadcast' = [lastBroadcast EXCEPT ![Room(w)] = Time(w)]
  /\ Goto(w, "ready")
  /\ UNCHANGED <<taskVars, localVars, engineVars, lastUpdate, eloUpdated, pending, received>>

Worker(w) ==
  \/ TestCondition(w) \/ Block(w) \/ TakeTask(w) \/ WorkerExits(w)
  \/ ReadLastUpdate(w) \/ EngineWait(w) \/ StoreLastUpdate(w) \/ TestInterval(w)
  \/ getSnapshot(w) \/ TestEloUpdated(w) \/ processGameOver(w)
  \/ SetEloUpdated(w) \/ serializeSnapshot(w) \/ SendToPlayers(w) \/ StoreLastBroadcast(w)

-----------------------------------------------------------------------------
(* ~RoomManager sets the flag and notifies without holding m_queueMutex.   *)

SetStop ==
  /\ mainAt = "running"
  /\ stopPool' = TRUE
  /\ mainAt' = "notify"
  /\ UNCHANGED <<exists, clock, tasks, timerAt, missed,
                 workerAt, localVars, engineVars, sessionVars, received>>

StopNotify ==
  /\ mainAt = "notify"
  /\ NotifyAll
  /\ missed' = { w \in Workers : workerAt[w] = "blocking" }
  /\ mainAt' = "join"
  /\ UNCHANGED <<exists, clock, tasks, stopPool, timerAt,
                 localVars, engineVars, sessionVars, received>>

Join ==
  /\ mainAt = "join"
  /\ timerAt = "exited" /\ \A w \in Workers : workerAt[w] = "exited"
  /\ mainAt' = "done"
  /\ UNCHANGED <<exists, clock, tasks, stopPool, timerAt, missed,
                 workerAt, localVars, engineVars, sessionVars, received>>

Next == \/ Timer \/ CreateRoom
        \/ \E w \in Workers : Worker(w)
        \/ SetStop \/ StopNotify \/ Join

Spec == Init /\ [][Next]_vars

\* Every thread that can take a step is scheduled.
FairSpec == /\ Spec
            /\ WF_vars(Timer) /\ WF_vars(StopNotify) /\ WF_vars(Join)
            /\ \A w \in Workers : WF_vars(Worker(w))

-----------------------------------------------------------------------------
(* Properties.                                                             *)

Tasks == [room : Rooms, time : Nat]

\* Every variable holds a value of its type, and wait() is called with a
\* positive time.
TypeOK ==
  /\ exists \subseteq Rooms
  /\ clock \in Nat
  /\ tasks \in Seq(Tasks)
  /\ stopPool \in BOOLEAN
  /\ timerAt \in {"loop", "push", "notify", "sleep", "exited"}
  /\ mainAt \in {"running", "notify", "join", "done"}
  /\ missed \subseteq Workers
  /\ workerAt \in [Workers -> WorkerStates]
  /\ job \in [Workers -> [room : Rooms \union {NoRoom}, time : Nat]]
  /\ dt \in [Workers -> Int] /\ shown \in [Workers -> Nat]
  /\ \A w \in Workers : workerAt[w] = "wait" => dt[w] > 0
  /\ drained \in [Workers -> Seq(Nat)]
  /\ engineTime \in [Rooms -> Nat] /\ over \in [Rooms -> BOOLEAN] /\ happened \in [Rooms -> Nat]
  /\ lastUpdate \in [Rooms -> Nat] /\ lastBroadcast \in [Rooms -> Nat]
  /\ eloUpdated \in [Rooms -> BOOLEAN]
  /\ pending \in [Rooms -> Seq(Nat)]
  /\ received \in [Rooms -> Seq(Nat)]

\* However the updates of a room overlap, its engine never falls behind the
\* time the session believes to have simulated.
EngineNotBehind == \A r \in Rooms : ~over[r] => engineTime[r] >= lastUpdate[r]

\* A state that is sent shows the game at least as far as the period it was
\* made for, whichever worker has simulated that time; the first state of a
\* room that is opened late shows the whole age of the server.
StatesAreCurrent ==
  \A w \in Workers : workerAt[w] \in {"serialize", "send"} /\ ~over[Room(w)]
                       => shown[w] >= Time(w)

\* Every event of a room is told exactly once: it is pending, in the message
\* of one worker, or has been received, and never two of these.
Told(r) == received[r] \o pending[r]
InMessages(r) == { w \in Workers : Room(w) = r /\ drained[w] # << >> }
EventsOnce ==
  \A r \in Rooms :
    /\ IsInjective(Told(r))
    /\ \A w \in InMessages(r) :
         /\ IsInjective(drained[w])
         /\ ToSet(drained[w]) \intersect ToSet(Told(r)) = {}
         /\ \A v \in InMessages(r) \ {w} : ToSet(drained[v]) \intersect ToSet(drained[w]) = {}
    /\ 1 .. happened[r] = ToSet(Told(r)) \union UNION { ToSet(drained[w]) : w \in InMessages(r) }

\* A worker sleeps while there is work only until the timer has notified.
NobodySleepsOnWork ==
  tasks # << >> /\ (\E w \in Workers : workerAt[w] = "waiting") => timerAt = "notify"

\* Although the timer never stops pushing new ones, and may keep the queue full:
\* every update that is queued is taken by a worker.
Queued(task) == \E k \in DOMAIN tasks : tasks[k] = task
TasksRun == \A r \in Rooms, t \in 0 .. MaxTicks - 1 :
              Queued([room |-> r, time |-> t]) ~> ~Queued([room |-> r, time |-> t]) \/ stopPool

\* ~RoomManager returns, unless a worker was between its test and its sleep
\* when the destructor notified: that worker may sleep for ever.
ShutdownCompletes == mainAt = "join" /\ missed = {} ~> mainAt = "done"
=============================================================================
