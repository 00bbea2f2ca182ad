SPECIFICATION Spec
CONSTANTS
  Pos <- MCPos
  Roots <- MCRoots
  Succ <- MCSucc
  Board <- MCBoard
  Static <- MCStatic
  Expired <- MCExpired
  Truth <- MCTruth
  Dist <- MCDist
  Game = "twin"
  RootBoards = {1}
  Prefix = {}
  Bounds = {100}
  NoMove = NoMove
  Inf = 1000
  PlyMax = 100
  SliceMax = 100000
  EpsNum = 5
  EpsDen = 4
  FirstSlice = 64
  Growth = 2
  Cutoff = 100000
  RoundCaps = {100000}
  Budget = 200
  CacheCap = 10
  Ways = 40
INVARIANT DrawTrue
