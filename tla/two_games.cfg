SPECIFICATION FairSpec
CONSTANTS
  c1 = c1
  c2 = c2
  Cells = {c1}
  Boards <- MCBoards
  Nothing = Nothing
  MaxRounds = 2
  MaxCaptures = 1
  MaxInFlight = 1
INVARIANTS NothingDropped InTheRoomItPlays ScoreIsOfThisGame
PROPERTIES BoardsInOrder EnterAnswered
CHECK_DEADLOCK FALSE
