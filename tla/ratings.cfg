SPECIFICATION FairSpec
CONSTANTS
  Waiting = Waiting
  NoUser = NoUser
  Users = {ann, Waiting}
  Rooms = {r1}
  Workers = {w1, w2}
  StartRating = 1200
  Thresholds <- MCThresholds
  MaxSeatings = 4
INVARIANTS PointsAreEarned HoldersAreRated SettledOncePerWorker
PROPERTIES DecidedIsSettled
CHECK_DEADLOCK FALSE
