SPECIFICATION SolveSpec
CONSTANTS
  Pos <- MCPos
  Roots <- MCRoots
  Succ <- MCSucc
  Board <- MCBoard
  Static <- MCStatic
  Expired <- MCExpired
  Truth <- MCTruth
  Dist <- MCDist
  Game = "narrow"
  RootBoards = {1, 14}
  Prefix = {}
  Bounds = {100}
  NoMove = NoMove
  Inf = 1000
  PlyMax = 100
  SliceMax = 100000
  EpsNum = 5
  EpsDen = 4
  FirstSlice = 16
  Growth = 2
  Cutoff = 100000
  RoundCaps = {100000}
  Budget = 100
  CacheCap = 10
  Ways = 50
  MaxPly = 12
  CapNum = 2
  CapDen = 1
  CapMin = 12
  FirstOnly = FALSE
INVARIANTS PvComplete RoundOvershoot CachedDrawExact
PROPERTIES DecisivePermanent SolveTerminates
