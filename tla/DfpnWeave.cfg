SPECIFICATION FairSpec
CONSTANTS
  Pos <- MCPos
  Roots <- MCRoots
  Succ <- MCSucc
  Board <- MCBoard
  Static <- MCStatic
  Expired <- MCExpired
  Truth <- MCTruth
  Dist <- MCDist
  Game = "weave"
  RootBoards = {1, 7, 9, 12, 13}
  Prefix = {13}
  Bounds = {0, 1, 2, 3, 100}
  NoMove = NoMove
  Inf = 1000
  PlyMax = 100
  SliceMax = 100000
  EpsNum = 5
  EpsDen = 4
  FirstSlice = 2
  Growth = 2
  Cutoff = 100000
  RoundCaps = {12, 100000}
  Budget = 30
  CacheCap = 10
  Ways = 4
INVARIANTS WellFormed DecisiveSound AnswerWithinBound WorkBounded
PROPERTY Terminates
