SPECIFICATION Spec
CONSTANTS
  c1 = c1
  c2 = c2
  Cells = {c1}
  Boards <- MCBoards
  Nothing = Nothing
  MaxRounds = 1
  MaxCaptures = 1
  MaxInFlight = 1
PROPERTY ResignationShown
CHECK_DEADLOCK FALSE
