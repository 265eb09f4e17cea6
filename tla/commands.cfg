SPECIFICATION SpecBot
CONSTANTS
  Width = 2
  Height = 3
  wK = wK
  wR = wR
  wS = wS
  wN = wN
  bK = bK
  bR = bR
  bS = bS
  bN = bN
  bP = bP
  NoPiece = NoPiece
  Pieces = {wR, wK, bP}
  Color <- MCColor
  InitialKind <- MCKind
  InitialCell <- MCAttacked
  PhysicsTick = 2
  SquareDuration = 4
  JumpDuration = 4
  Cooldown <- MCRests
  WaitSizes = {1, 3}
  RequestHorizon = 3
  MaxTime = 8
  BotSeats = {"None", "Black"}
  Elo = 2300
  TimeUnit = 250
  BotHorizon = 4
PROPERTIES JumpSaves StaleCheckHarmless CooldownRespected
