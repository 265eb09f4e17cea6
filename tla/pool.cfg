SPECIFICATION Spec
CONSTANTS
  Rooms = {r1}
  Workers = {w1, w2}
  NoRoom = NoRoom
  MaxTicks = 2
  MaxQueued = 2
INVARIANTS EngineNotBehind StatesAreCurrent EventsOnce NobodySleepsOnWork
CHECK_DEADLOCK FALSE
