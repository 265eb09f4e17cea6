SPECIFICATION FairSpec
CONSTANTS
  Rooms = {r1}
  Workers = {w1, w2}
  NoRoom = NoRoom
  MaxTicks = 1
  MaxQueued = 2
PROPERTIES TasksRun ShutdownCompletes
CHECK_DEADLOCK FALSE
