SPECIFICATION AlgorithmSpec
CONSTANTS
  Width = 3
  Height = 4
  w1 = w1
  w2 = w2
  b1 = b1
  NoPiece = NoPiece
  Pieces = {w1, w2, b1}
  Color <- MCColor
  Placements <- MCPlacements
  BoardCells = 8
  WindowSizes <- MCWindowSizes
  ThemeSize <- MCThemeSize
  Margins <- MCMargins
  States = {"idle", "jump", "rest"}
  Animation <- MCAnimation
  FrameTimes = {0, 1, 5, 13}
  MaxShown = 20
INVARIANTS LoopsAgree TextRoundTrip ClicksHitWhatIsDrawn AnimationKeepsTime
CHECK_DEADLOCK FALSE
