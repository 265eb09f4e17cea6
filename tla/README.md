# Kung-Fu Chess: a TLA+ development

Kung-Fu Chess is chess without turns: every piece that is idle may take off at
any time, flies to its target while the clock runs, may be stopped or captured
on the way, and rests after it has landed. The program is a C++ server (rooms,
matchmaking, a game engine per room, a pool of threads that drives them) and a
C++ client (dialogs, an OpenCV window, a websocket). This directory holds TLA+
models of it, TLC configurations that check them on small instances, and proofs
of their safety properties for every instance, checked by TLAPS.

Paths below are relative to `src/KungFuChess/`; the code is in its `src/`.

## 1. The system

| Part | State | Operations | Talks to |
|---|---|---|---|
| `shared/model` Board, Piece, Motion | grid of pieces; flights | `addPiece`, `removePiece`, `getCurrentCell` | used by the engine |
| `shared/io` BoardParser, BoardPrinter | none | `parse`, `print` | text of a board |
| `server/rules` | none | `legalDestinations` per kind, promotion, fatal death | called by the engine |
| `server/realtime/real_time_arbiter.cpp` | clock, flying motions | `startMotion`, `advanceTime`, `popArrivedMotions`, `cleanupDeadMotions` | owned by the engine, under its mutex |
| `server/engine/game_engine.cpp` | board, `isGameOver`, `winner`, arbiter | `requestMove`, `requestJump`, `wait`, `getSnapshot` | publishes events on a bus |
| `server/bot/kung_fu_bot.cpp` | time of its last action | `update` | `getSnapshot`, then requests; nothing creates a bot yet |
| `server/network/handelers/game_action_handler.cpp` | none | `processCommand` | network thread; `getSnapshot`, then a request |
| `server/game/game_session.cpp` | players, seats, pending events, times of the last update and broadcast, `eloUpdated` | `update`, `addClient`, `removeClient`, `serializeSnapshot` | workers and network thread |
| `server/game/room.cpp` | grace period | `handlePlayerDisconnect`, `checkAutoResign`, `handleAutoResign` | network thread |
| `server/game/room_manager.cpp` | rooms, task queue, stop flag | `createRoom`, timer thread, worker threads, destructor | calls `Room::update` |
| `server/network/matchmaker.cpp` | queue | `addPlayer`, `processQueue` | calls back into the server |
| `server/network/network_server.cpp` | a `ClientSession` per connection | `on_open`, `on_close`, `on_message`, one-second timer | all of the above |
| `server/db` | users and ratings in SQLite | `create`, `getByUsername`, `updateRating` | login, end of a game |
| `client/game_application.cpp` | login and room status, shown state, clock offset | login, room dialogs, game loop, message handling | main and network thread |
| `client/input/controller.cpp` | selected cell | `click`, `jump` | reads the shown state, sends commands |
| `client/view` managers | score, move list | subscribers of the client's event bus | called on the network thread |
| `client/view` layout, mapper, renderer, animation players | sizes, frames | `calculateLayout`, `pixelToCell`, `renderFrame`, `update` | the game loop, main thread |

The server has one asio thread (all handlers and the one-second timer), one tick
timer thread, and as many workers as cores. Requests reach the engine from the
asio thread, `wait()` from the workers; the engine's mutex serialises them. The
client has its main thread and a network thread. Nothing is persisted but users
and ratings, and there is no recovery: a restarted server starts with no rooms.

What is hard, and was the reason to model it:

* **the physics loop** - ticks that overshoot arrival and rest times, flights
  that are cut short or killed while the loops over them run, a piece that is
  for a while on no board and in one of two vectors, a game that is decided in
  the middle of a call (`OnePlace`, `Accounted`, `NothingOverdue`,
  `GameOverIffKingCaptured`, `WinnerTookAKing`, `CapturedByEnemyThere`,
  `PlayableAgain`);
* **look, then act** - the command handler and the bot look at the board in one
  critical section and act in another (`StaleCheckHarmless`, `JumpSaves`);
* **who is where** - session states, room membership, seats, queue and grace
  period are kept apart and updated by different handlers (`MembershipAgrees`,
  `SeatsAgree`, `ImplementsSessions`, `NoMatchLeft`, and the findings);
* **the pool** - updates of one room that overlap, a room whose clock starts at
  0 on a server that is old, a condition variable notified without its mutex
  (`EngineNotBehind`, `StatesAreCurrent`, `EventsOnce`, `ShutdownCompletes`);
* **the ratings** - names and accounts that are read and written in separate,
  unlocked steps by several workers while seats change (`PointsAreEarned`,
  `HoldersAreRated`, `SettledOncePerWorker`);
* **the client's rounds** - answers and states of one game arriving while the
  next is asked for (`NothingDropped`, `InTheRoomItPlays`, `ScoreIsOfThisGame`);
* **the window** - a layout that changes under a copy of it, turns of the loop
  that take any time (`ClicksHitWhatIsDrawn`, `AnimationKeepsTime`).

`PROJECT.json` lists every hazard at its line.

## 2. Modules

| Module | Models | Uses |
|---|---|---|
| `Board` | `shared/model/board.cpp`, pure operators | |
| `PieceRules` | `server/rules`: destinations as sets of cells | `Board` |
| `PieceRulesLoops` | the loops of `piece_rules.cpp`, one direction or offset at a time | `PieceRules` |
| `BoardText` | `shared/io/board_parser.cpp` and `board_printer.cpp` | `PieceRules` |
| `Motion` | `shared/model/motion.hpp` and what the arbiter does to motions | `Board` |
| `GameEngine` | `game_engine.cpp` with its arbiter | `PieceRules`, `Motion` |
| `PieceLifecycle` | what the engine promises about the life of a piece (abstract) | |
| `CommandHandler` | `game_action_handler.cpp` on top of the engine | `GameEngine` |
| `KungFuBot` | `server/bot` on top of both: a game with the bot, or without | `CommandHandler` |
| `Lobby` | connections, login, rooms, queue, grace period | |
| `PlayerSession` | what the server promises about each player's session (abstract) | |
| `SessionPool` | timer, workers, `GameSession::update`, `createRoom`, shutdown | |
| `Ratings` | `processGameOver`, the Users table, the names in the seats | |
| `Client` | one player's program and the server's side of its connection | |
| `GameWindow` | the window's loop: layout, mapper, animations | |
| `Algorithms` | a behaviour for each of the algorithms above | `PieceRulesLoops`, `BoardText`, `GameWindow` |
| `GameEngineProofs`, `SessionPoolProofs`, `RatingsProofs`, `LobbyProofs`, `ClientProofs` | theorems | the module they are named after |
| `OutcomeProofs` | theorems: captures, the end of the game, the refinement, cells and times of flights, reports | `GameEngineProofs` |
| `AlgorithmProofs` | theorems: the rules' loops, the window, the text format | `Algorithms` |
| `CommandProofs` | theorems of the game with its players and the bot | `KungFuBot`, `GameEngineProofs` |
| `MC...` | small instances of the above for TLC | |

### GameEngine

The variables are the fields of `GameState` and of the arbiter, plus the locals
of `wait()` that outlive one of its steps. `at` is the program counter of the
thread that is inside `wait()` with the mutex: `free`, `tick`, `ground`
(`checkAirToGroundCollisions`), `air` (`checkMidAirCollisions` and the test for
dead kings), `retire` (`cleanupDeadMotions`, `popArrivedMotions`), `land`
(`processArrivals` and the end of rests). A step of a loop is its next iteration
that has an effect, so that the order of the effects is the code's. A request is
one step, as it holds the mutex throughout; a refused one changes nothing.

What is abstracted: a piece is its id and its attributes are kept per id, which
is the same as the copies the code makes as long as no piece is in two places
(`OnePlace`, proved). `std::round` is taken in exact arithmetic. The test of
`isDead` in `processArrivals` (line 228) cannot succeed, because the dead are
removed first; a dead arrival would show as a deadlock. Scores, move texts and
the highlighted cells of a snapshot are left out.

`PieceLifecycle` is the abstract view: a piece is idle, airborne, resting,
captured or lost; it takes off only when idle and only while the game is on, and
what is gone stays gone. `ImplementsLifecycle` is the refinement, with `Status`
as the mapping.

### CommandHandler and KungFuBot

`CommandHandler` adds one variable to `GameEngine`: the command the network
thread is working on, with the piece the handler saw. Between `LookAt` and
`Perform` the engine may run. `requestMove` tests the cell again but not the
owner; `StaleCheckHarmless` says why that is enough: whatever arrives on the
cell in between has to rest, so nobody moves another player's piece unless the
network thread was held up for longer than the shortest rest.

`KungFuBot` puts the steps together into a game, of two players or of a player
and the bot. The bot's `update()` is a snapshot (`BotLooks`, which keeps in
`plan` what the loops over the pieces would ask for: for each piece a jump or
none, and the cells to move to) and then those requests one by one, row by row,
each under the mutex again, until one is accepted
(`BotMoves`, `BotJumps`, `BotRefused`); commands of the other player come in between, `wait()`
does not, because both are called from the game loop. A move of the bot takes the
default duration of `requestMove`, 1000 ms for any distance. The engine's clock
is taken for the `currentTimeMs` that `update()` is given. The bot is not in the
build and nothing creates one; its header says how it is to be used. Its numbers
(tiers, 400 ms) are the code's; `TimeUnit` is how many of its milliseconds a unit
of the model's clock is.

### Lobby

One step per message, open or close; the handler of the timer is modelled step
by step (`rooms`, `timeouts`, `pairs`) because the matchmaker calls back into
the server between reading its queue and finishing. All of it is on one thread,
so messages come only between two timers. Times are ages in timer periods; the
code takes whole seconds of a clock, so that its timeouts may come up to one
period later than the model's. The
code's `connectedClients[hdl]`, which makes an entry for a connection that has
gone, is modelled (`SessionOf`). `WithRoom` and `EnterRoom` are what creating,
joining and being matched have in common. `NoRoom` is the empty room id: that of a
session that is in no room, and a name that a client may give to a room
(`lobby_handler.cpp:10`). `on_close` takes it for no room, as the code does, so
that such a room keeps whoever closes its connection in it; `MembershipAgrees` and
`SeatsAgree` make an exception of these (`Forgotten`) and of nobody else.

`PlayerSession` is the abstract view: a player has connected, is in the lobby,
searches, or plays in one room. Sessions move alone, but for a match, which
takes two that search into a room that holds nobody else. The ways astray
are part of it, because the code has them: a search is *stranded* when its pair
gets no room (`network_server.cpp:217-220`), whoever closes its connection
while searching may still be matched, and is the *ghost* of that room
(`network_server.cpp:71-88`), and so is whoever closes it in the room without a
name (`Unnamed`, line 77). `ImplementsSessions` is the refinement; `Phase` and
`MemberOf` read a player's place off its connection, its session, the queue and
the rooms, four variables that the code changes in different handlers.

### SessionPool and Ratings

`SessionPool` has `GameSession::update` in the steps in which it reads and writes
the fields that nothing protects; what is under one mutex is one step. A worker
holds the queue's mutex from its test of the condition until it sleeps
(`blocking`); the destructor sets the flag and notifies without it. The timer
never stops while the pool lives: only the clock it reads stops at `MaxTicks`, and
it does not push to a queue of `MaxQueued` tasks, which the code, whose queue has
no bound, would. Rooms are
created at any time, with a `lastEngineUpdateTime` of 0 (`CreateRoom`). The engine
is its clock, an event per `wait()`, and whether the game is over.

`Ratings` is what `SessionPool` leaves open: the four accesses of
`processGameOver` to the Users table, with the seats' names read again for each,
while the network thread renames the seats, other workers rate the same room and
others another room of the same users. A name that is read while it is changed
may be the old one, the new one, or no account's (`NoUser`). An empty seat has the
name `Waiting`, which is looked up like any other and may be a user's, as anyone
may register it (`auth_handler.cpp:22`); whether somebody sits there is `taken`.
The ELO formula is there as the points it yields: 32 times a probability, cut off,
is a step function of the difference of the ratings, and `Thresholds` are its steps
(those of the code's floats in `MCRatings`). The history variables say what the properties need: points gained
and lost, whose rating was computed from another's, which rooms have kept their
seats since the king fell.

### Client and GameWindow

In `Client` the main thread's `main` walks through login, dialogs, waiting and
game; the network thread takes messages from `toClient`; the server's side is the
`ClientSession` and the rooms that hold the connection. A worker sends under the
mutex of the player map, so that after `removePlayer` nothing more is sent -
which `ScoreIsOfThisGame` and `BoardsInOrder` depend on. `localSnapshot` is read
without its mutex: a click may see the old state, the new one, or both. A call of
a destroyed subscriber is undefined: the process goes on or dies. Whether two
threads may tear a `std::vector` apart is not modelled. What a state shows is
chosen freely when it is parsed. `ROOM_SUCCESS` of a created and of a joined room
are the same message here; which of them succeeds is `Lobby`'s matter.

`GameWindow` is the loop inside one game: read the window's size and recompute
layout and mapper if it has changed, draw a frame of the piece's animation, wait.
The loop of `AnimationPlayer::update` is a step for each frame (`AdvanceFrame`);
`FrameIsOver` is its condition. A turn may draw a snapshot without the piece
(`renderFrameWithout`), because it was captured, or because `GAME_OVER_RESIGN` was
parsed as an empty one; no view is updated then (`renderer.cpp:45,71`), but the
loop has spent the turn's time (`game_application.cpp:122-123`). The history
variable `watched` counts the time since the animation was set, and `unseen` the
part of it that such turns took. Arithmetic is the code's, in integers. One piece
stands for all: the views are independent of each other.

### BoardText

`print` and `parse` as operators; a line is the sequence of its tokens. `parse`
returns the board or the error that is thrown, in the code's order of tests.
`Rows` and `NextId` count where the code pushes back and increments, so that
nothing in them is recursive.

## 3. Runs

Every run finishes in about three minutes or less on two workers.

| Run | Checks | Instance |
|---|---|---|
| `kings` | `TypeOK OnePlace NothingOverdue GameOverIffKingCaptured WinnerTookAKing CapturedByEnemyThere OverIsFinal ImplementsLifecycle` | 3x3, both kings and a black pawn; requests up to time 4 |
| `knights` | `Accounted ReportedMovesStand FlightsStayOnBoard PlayableAgain` | 3x4, a rook and two knights, fair |
| `commands` | `JumpSaves StaleCheckHarmless CooldownRespected` | 3x2, king, rook and pawn; two players, or one and the bot |
| `algorithms` | `LoopsAgree TextRoundTrip ClicksHitWhatIsDrawn AnimationKeepsTime` | every 4x3 board with up to three pieces; a window of six sizes |
| `lobby` | `TypeOK MembershipAgrees SeatsAgree NothingOverdue NoMatchLeft ImplementsSessions` | 3 connections, ratings 1 to 3, the room without a name and ranked rooms |
| `pool` | `EngineNotBehind StatesAreCurrent EventsOnce NobodySleepsOnWork` | 1 room, 2 workers, 2 periods, 2 tasks in the queue |
| `workers` | `TasksRun ShutdownCompletes` | 1 room, 2 workers, 1 period, 2 tasks in the queue, fair |
| `ratings` | `PointsAreEarned HoldersAreRated SettledOncePerWorker DecidedIsSettled` | 1 room, 2 users, one named as an empty seat, 2 workers, 4 changes of seats, fair |
| `two_games` | `NothingDropped InTheRoomItPlays ScoreIsOfThisGame BoardsInOrder EnterAnswered` | 2 rounds, fair |

**Bounds, and why they are enough.** In the engine time is scaled: a physics tick
is 2, a square takes 4, waits are of 1 and 3, so that a wait may end inside a
tick, a tick may overshoot an arrival, and a flight takes several waits. Three
pieces are the smallest number with which a pair can be disturbed by a third:
`kings` has friends and enemies that cross, stop and bounce each other and a pawn
that is promoted, `knights` a rook that slides past pieces that land on its way.
`RequestHorizon` ends the requests and `MaxTime` the clock, late enough for every
flight to land and every rest to end. `commands` has a bot of the highest tier,
which jumps, looks ahead and acts often, a pawn that it has to save from a rook
over two squares, and rests longer than what fits between look and request.
In `Lobby` three connections are two players and a third that takes a seat,
watches, or waits in between two ratings; a timeout of two periods and a grace
period of one let a player leave or return before, at and after it. They log in as
one user, and are told apart by their connections; the ghosts, whose sessions have
the empty username, are a second name. The only
name clients give there is the empty one, for which closing a connection is special;
ranked rooms stand for the others. In
`SessionPool` two workers and two periods after the first give every overlap of
two updates of one room with a third before or after them; a queue of two is full
before the workers get to it, and the timer refills it for ever. `TasksRun` speaks of
the updates made before the clock stops: later ones of the same time cannot be told
apart. In `Ratings` four
changes of seats fill both, empty one and refill it while two workers rate; one of
the two users has the name of an empty seat, so that an empty seat is met with and
without an account of that name. Several rooms are left to the proofs. In `Client` two rounds are
the least in which something of the first can disturb the second; `MaxInFlight`
lets the rooms send while a message is on the way, beside the one the network
thread is working on and the answer that is owed. The window's sizes are the
theme's, the one `clearScreen` makes, and odd and tiny ones down to 7x5, where a
cell is a pixel wide; turns take less than a frame and more than an animation, and
any of them may be without the piece.

`CHECK_DEADLOCK` is off where the system may stop: when a computation of
`algorithms` is done, when all threads of the pool have ended, when all games of
`ratings` are settled and the seats no longer change, and when the client has
ended. `SYMMETRY` is used in `lobby`, which checks no liveness and never chooses one
connection over another.

**Fairness.** `GameEngine!FairSpec`: the tick timer keeps calling `wait()`, and
a thread that is inside it is scheduled until it returns. `Lobby!FairSpec`: the
asio loop finishes the timer's handler and re-arms it (`start_timer` calls
itself). `SessionPool!FairSpec`: every thread that can step is scheduled, the timer
among them, which goes on pushing updates for as long as the pool lives.
`Ratings!FairSpec`: some worker is scheduled, and the timer gives them an update of
every room again and again. `Client!FairSpec`: the polling loops of the main
thread, the network thread and the server's asio thread. Players are never
assumed to do anything.

### Where the code does not do what it says

Each of these runs checks one property that quotes a comment or a message of the
repository, and TLC finds it violated.

| Run | Property | What happens |
|---|---|---|
| `stranded` | `FindMatchAnswered` | two players matched a second time get neither a room nor an answer |
| `resigned` | `ResignsTheAbsent` | a player that came back within the grace period is announced the loser |
| `unseen` | `ResignationShown` | the announcement of a resignation is shown as an empty board of a running game |

Writing the models showed more of this kind. The models do what the code does,
and no run is devoted to it:

* a motion that is killed as the first of a pair goes on meeting the motions
  after it in the same tick: it may capture them, and may be reported captured
  twice, which the score counts twice (`game_engine.cpp:140`, 163, 185, 192);
* a flight that is stopped in the air may end on a cell it has not reached, as
  its arrival time is overwritten before its position is computed
  (`game_engine.cpp:171-172`, 211-215);
* a pawn that bounces off the last rank is promoted on the rank before
  (`game_engine.cpp:241`);
* a player that disconnects while queued stays in the queue, and may be matched
  (`network_server.cpp:71-88`);
* a room may have the empty name, which neither the dialog nor the handler
  refuses (`room_dialog.hpp:20-25`, `lobby_handler.cpp:10-16`); who closes its
  connection there is taken for being in no room and never leaves it: player and
  seat are kept for ever (`network_server.cpp:77`);
* an account may be called "Waiting...", as an empty seat is: it is rated in the
  place of a player that is missing when the game is settled
  (`auth_handler.cpp:22`, `game_session.cpp:59-69`, 184, 190);
* a resignation only announces a winner: the game goes on, nothing ends it but
  the capture of a king, and it is never rated (`room.cpp:36-59`);
* who is rated is whoever sits in the seats when the next state is broadcast: a
  player that sat down after the king had fallen may be rated for a game of
  others, and a winner whose opponent leaves in between gets nothing
  (`game_session.cpp:59-92`);
* two workers that overlap may send the older of two states last
  (`game_session.cpp:40`): states are sent as current as their task
  (`StatesAreCurrent`), but not in order;
* two workers that overlap may simulate the same time twice, and rate the same
  game once each (`game_session.cpp:15`, 28);
* the first update of a room simulates the server's whole life, as
  `lastEngineUpdateTime` starts at 0 (`game_session.hpp:40`);
* a worker that is about to sleep when the destructor notifies sleeps for ever, and
  the destructor waits for it (`room_manager.cpp:20-32`, 38);
* the time of turns that draw a snapshot without a piece is lost to the piece's
  animation, which goes on where it was if the piece comes back, as after the
  empty snapshot of a resignation (`renderer.cpp:45`, 71,
  `game_application.cpp:122-123`, 193-201);
* events of the second game call the managers that were destroyed with the first
  game's window (`game_application.cpp:83`);
* a client whose server is down polls for ever (`game_application.cpp:295`), and
  so does one that loses its connection, as nothing is told of a close;
* a double click on an empty cell sends a command (`controller.cpp:97`), though
  a test is named after the opposite (`test_controller.cpp:67`).

## 4. Proofs

Each proof shows that the initial states satisfy an inductive invariant and that
each action preserves it, one step per action; the last, temporal step combines
the two. The constants are any that the modules' assumptions allow.

`GameEngineProofs`, for every board size, every set of pieces, every duration and
cooldown (`BoardAssumption`, `RulesAssumption`, `EngineAssumption`):

* `TypeCorrect`: `Spec => []TypeOK`. `TypeOK` is inductive. The work is in the
  sequences: appending to, updating and removing from the motion vectors keeps
  them sequences of motions, and a shortened flight ends on a position.
* `NeverInTwoPlaces`: `Spec => []OnePlace`. `OnePlace` is inductive together
  with `TypeOK`: it says not only that a piece is on one cell, but that it is in
  at most one of board, flying and landing motions and at most once in each, and
  every step moves a piece from one of the three to another or drops it.
  Lemmas describe what `addPiece`, `removePiece`, `Append`, `Tail`, `RemoveAt`
  and a change that keeps the pieces do to these facts.
* `FinishedGamesAreFinal`: `Spec => OverIsFinal`. With the mutex free and the
  game over, every request fails its guard and `wait()` returns at once.
* `NobodyTakesOffResting`: `Spec => CooldownRespected`. A request tests the
  state of the piece and not the time; the invariant `IdleIsRested` (an idle
  piece's rest is over) connects the two. It is preserved because the clock only
  grows and a landing piece never becomes idle at once.

`OutcomeProofs`, under the same assumptions, about who is captured and how the
game ends. A step changes pieces in one of a few ways, whatever code it is: it
lifts one, brings one down, takes one from the board, kills some in flight, lets
one vanish, judges a dead king, or leaves the pieces alone (`EveryStepHasAnEffect`). The
inductive invariant `OutcomeInv` speaks of the same sets: on the board, flying,
dead in flight, landing.

* `NobodyDisappears`: `Spec => []Accounted`. Needs `OnePlace` and that the dead
  in flight are captured, or the clean-up would drop a piece nobody reported.
* `GameEndsWithAKing`: `Spec => []GameOverIffKingCaptured`. Needs that no
  promotion makes or unmakes a king (`KingsStay`).
* `WinnersHaveWon`: `Spec => []WinnerTookAKing`. Two kings that fall together end
  the game without a winner; until `JudgeDead` names one, a dead king is still
  among the motions (`JudgedSoon`).
* `EngineImplementsLifecycle`: `Spec => ImplementsLifecycle`. Each of the effects
  is a step of `PieceLifecycle` or a stutter.

About where pieces are and when:

* `NobodyFliesOff`: `Spec => []FlightsStayOnBoard`. `FlightsFit` bounds every
  motion's ages and path; the rounded share of a path lies between its ends
  (`RoundedShareBetween`), so each cell between two on the board is on it too.
* `EverythingHappensInTime`: `Spec => []NothingOverdue`. `PunctualInv` says what
  each phase of `wait()` has already dealt with.
* `ReportsAreTrue`: `Spec => []ReportedMovesStand`. Within one call a completed
  piece leaves the board only by a capture that is reported as well.
* `NobodyIsCapturedFromAfar`: `Spec => CapturedByEnemyThere`, by cases on the
  step that captures.

`CommandProofs`, for the game of `KungFuBot` under the same assumptions. A step
of the game is for the engine nothing, one accepted take-off, or a step of
`wait()` (`GameSteps`), so the invariants of `GameEngineProofs` carry over:

* `NobodySkipsARest`: `SpecBot => CooldownRespected`, from `IdleIsRested` as
  above.
* `NobodyMovesAnothersPiece`: `SpecBot => StaleCheckHarmless`. `SeenStands` says
  of a command between its two critical sections that what stands on its cell is
  the piece it has seen, nothing, or a piece that rests since the check. Every
  arrival starts a rest, and by `IdleIsRested` a piece that may take off has
  finished one.
* `JumpsSaveThePiece`: `SpecBot => JumpSaves`. `PlanInv` says that `update()`
  only asks for a jump from the first flight it found, which arrives in less
  than 400 ms; a jump lasts at least that long (`BotAssumption`). So the
  flight lands first: `DodgeInv` says that it stands before the jump among the
  motions, arrives no later, and that the jump still covers its piece.

`SessionPoolProofs`, for any number of rooms and workers and any number of
periods (`PoolAssumption`):

* `PoolTypeCorrect`: `Spec => []TypeOK`, inductive together with `JobsKnown` (a
  worker inside `update()` has a room).
* `WorkersAreWoken`: `Spec => []NobodySleepsOnWork`. Not inductive alone: a
  worker might fall asleep on a queue that was filled after its test. The
  invariant `TestStillHolds` says that the queue stays empty from the test to
  the sleep, which is what holding the mutex is for.
* `NoTimeIsSkipped`: `Spec => []EngineNotBehind`. Not inductive alone either: a
  worker stores a time it read long before. `ClockInv` adds what each worker
  knows: before `wait()`, the engine's clock plus its `dt` reaches the time of
  its task, and after it the clock does. Both survive the other workers because
  the engine's clock never goes back, even where `lastEngineUpdateTime` does.
* `WhatIsSentIsCurrent`: `Spec => []StatesAreCurrent`. `ShownInv` carries the
  same knowledge on, from the snapshot to the broadcast.
* `NoEventIsLost`: `Spec => []EventsOnce`. `EventsInv` says for each room that
  pending, received and drained events are disjoint and make up all that
  happened, and that only a worker about to send carries any.

`RatingsProofs`, for any number of users, rooms and workers
(`RatingsAssumption`):

* `RatingsTypeCorrect`: `Spec => []TypeOK`, inductive together with
  `RatesDecided` (a worker only rates a game that is decided).
* `NobodyGetsFreePoints`: `Spec => []PointsAreEarned`. `PointsInv` adds that what
  a worker has read was earned when it was read; since points gained and lost
  only grow, it still is when the worker overwrites a newer rating with it.
* `NoWorkerRatesTwice`: `Spec => []SettledOncePerWorker`. `SettledInv` ties a
  worker's count to where it is and to `eloUpdated`: having rated, it marks the
  game before it can begin again.
* `PlayersAreRated`: `Spec => []HoldersAreRated`. `HoldersInv` follows each
  worker through the four accesses: with steady seats the names it reads are those
  in the seats, and whatever it has written is theirs. Whoever holds a seat has an
  account, so that two holders are both found; nothing is assumed of `Waiting`,
  which may be a user's name. That a torn read is no account's name (`NoUser`) is.

`LobbyProofs`, for any number of connections, users, rooms and ratings and every
timeout and grace period (`LobbyAssumption`, and `RoomAssumption`: the name of a
ranked room is not empty, while names that clients give to rooms, and usernames,
may be):

* `LobbyTypeCorrect`: `Spec => []TypeOK`, inductive together with the queue being
  finite, which sorting it needs.
* `ServerKnowsWhoIsWhere`, `SeatsAreGivenOnce`, `NobodyIsMatchedAway`:
  `MembershipAgrees`, `SeatsAgree` and `QueuedAreWaiting` are proved from one
  invariant, `MemberInv`. (`QueuedAreWaiting`, that nobody in the queue is in the
  lobby or a room, is proved only; `ImplementsSessions` is what a run checks of it.) Each needs the others: the matchmaker moves whoever is
  in its queue, which keeps membership only if nobody there is in a room; a seat
  is freed by the role the room has for the player, which is right only if the
  seats agree. Both theorems except who closed its connection in the room without
  a name, and nobody else.
  It adds that sessions have the fields their states call for (`SessionsFit`)
  and that whoever the matchmaker has still to look at is in its queue, and
  there once (`WaitingFits`). Lemmas say what entering and leaving a room do to one room.
* `TimeoutsAreKept`: `Spec => []NothingOverdue`. `PunctualInv` says how far the
  timer's handler has come: ages reach the timeout only inside it, and are gone
  when the step that looks for them is done.
* `PairingIsMaximal`: `Spec => NoMatchLeft`. `PairingInv` says that whoever
  the greedy pass has skipped is too far from everybody who is still queued:
  those before it were skipped or matched, those after it are rated at least as
  high as its neighbour.
* `LobbyImplementsSessions`: `Spec => ImplementsSessions`, from `MemberInv`. What
  `MembershipAgrees` says makes the rooms of a player a function of its session
  (`MemberIs`), so that what a step does to the abstract state follows from the
  fields it changes (`OneMoves`, `TwoTaken`); each action of `Lobby` is then one
  move of one player, a match, or a stutter.

`ClientProofs`, for any number of games, captures and messages on the way
(`ClientAssumption`, `BoardsAssumption`, and `NothingAssumption`: the value that
says that no answer is due is not an answer):

* `ClientTypeCorrect`: `Spec => []TypeOK`, which is inductive.
* `PlayerAndServerAgree`: `Spec => []NothingDropped`, and `PlaysWhereItIs`:
  `Spec => []InTheRoomItPlays`, from one invariant, `ProtocolInv`. Its part
  `ServerInv` says that the commands on the way come in an order in which the
  session accepts each (`InTurn`), its part `PhaseInv` what may be on the way in
  each of the main thread's loops: a request, one answer, or nothing while the
  answer is in `loginStatus` or `roomStatus`. Each needs the other: the server
  drops nothing because the client waits, and the client's status is that of the
  last request because the server answers each once.
* `ShownRoomsInOrder`: `Spec => BoardsInOrder`. `OrderInv` says that the states
  of one room come before those of a later one in the queue, and that what the
  network thread is working on and what is shown are older still.
* `ScoreCountsThisGame`: `Spec => []ScoreIsOfThisGame`. `ScoreInv` counts, for
  each room, the captures on the way beside those already scored; `ProtocolInv`
  says that none of an earlier room is left when the next game starts.

`AlgorithmProofs`, about the algorithms, for every size of board, window and
animation (`PlacementsAssumption`, `WindowAssumption`: a board of at most ten
cells a side, as at more the layout of a tiny window has cells without a size,
and frames that last at least 1 ms, as otherwise the code's loop does not end):

* `LoopsAreRight`: `Spec => []LoopsAgree`. `LoopsInv` says that what the loops
  have collected and what is left to visit make up the legal destinations: the
  rest of the direction (`Beyond`), the directions and offsets not taken yet.
  That a slide meets no cell twice and ends at the border needs no bound on the
  board.
* `ClicksAreTrue`: `WindowSpec => []ClicksHitWhatIsDrawn`. By the uniqueness of
  quotient and remainder (`Unique`), since `MapperInv` has layout and mapper
  agree and cells at least a pixel wide (`LayoutFits`).
* `FramesKeepTime`: `WindowSpec => []AnimationKeepsTime`. `PlayerInv` accounts
  for the time in which the piece was drawn, which is all but that of the turns
  without it (`Drawn`): the frames shown, the whole repetitions before
  them, and what has passed of the next frame.
* `TextIsReadBack`: `AlgorithmSpec => []TextRoundTrip`. The rows of a printed
  board are the block of lines between title and blank lines (`RowsInBlock`); its
  tokens determine color and kind (`Letters`); and the ids, which count the
  pieces up to a cell, number them from 1 on, as the sets they count are a chain
  (`Numbered`, `IdsFromOne`).

**Only model-checked** is the liveness: `PlayableAgain`, `TasksRun`,
`ShutdownCompletes`, `DecidedIsSettled` and `EnterAnswered` need fairness and
ENABLED, which are out of the prover's reach. So are recursive definitions, of
which the models have none. Every other property of a passing run, invariant or
action property, is stated by a theorem.

## 5. Plan

Done: every part below is modelled and checked, and every safety property that
is checked is proved.

Next: a composition of `Lobby` and `Ratings`, in which the matchmaker pairs by
the rating of the login while the table has moved on.

## 6. Not modelled

* The client's clock offset, which only the drawing uses, and the interpolated
  place of a flying piece.
* A connection that is lost while the client waits or plays: the client is not
  told, its loops go on, and the next `sendMove` or `sendJump` throws.
* The move list, which only grows.
* Drawing, theme, asset loading and the dialogs' widgets: output without state;
  `Client` has what the dialogs return.
* The text-script runner: commented out of the build, and written against an
  earlier `Controller`, so that it does not compile any more.
* `RoomManager::removeRoom`, which nothing calls: rooms are never removed.
* Passwords, and SQL statements that fail.
* Messages that cannot be parsed, which change nothing.
* Third-party code and assets.
