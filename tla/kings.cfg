SPECIFICATION Spec
CONSTANTS
  Width = 3
  Height = 3
  wK = wK
  wR = wR
  wS = wS
  wN = wN
  bK = bK
  bR = bR
  bS = bS
  bN = bN
  bP = bP
  NoPiece = NoPiece
  Pieces = {wK, bK, bP}
  Color <- MCColor
  InitialKind <- MCKind
  InitialCell <- MCCorners
  PhysicsTick = 2
  SquareDuration = 4
  JumpDuration = 4
  Cooldown <- MCCooldown
  WaitSizes = {1, 3}
  RequestHorizon = 4
  MaxTime = 16
INVARIANTS TypeOK OnePlace NothingOverdue GameOverIffKingCaptured WinnerTookAKing
PROPERTIES CapturedByEnemyThere OverIsFinal ImplementsLifecycle
