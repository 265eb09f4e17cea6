SPECIFICATION FairSpec
CONSTANTS
  Width = 4
  Height = 3
  wK = wK
  wR = wR
  wS = wS
  wN = wN
  bK = bK
  bR = bR
  bS = bS
  bN = bN
  bP = bP
  NoPiece = NoPiece
  Pieces = {wR, wN, bN}
  Color <- MCColor
  InitialKind <- MCKind
  InitialCell <- MCKnights
  PhysicsTick = 2
  SquareDuration = 4
  JumpDuration = 4
  Cooldown <- MCCooldown
  WaitSizes = {1, 3}
  RequestHorizon = 1
  MaxTime = 16
INVARIANTS Accounted ReportedMovesStand FlightsStayOnBoard
PROPERTIES PlayableAgain
