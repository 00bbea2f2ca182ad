SPECIFICATION FairRunSpec
CONSTANTS
  Pos <- MCPos
  Roots <- MCRoots
  Succ <- MCSucc
  Board <- MCBoard
  Clock <- MCClock
  Static <- MCStatic
  Truth <- MCTruth
  Dist <- MCDist
  Snapshots <- MCSnapshots
  Harvests <- MCHarvests
  Game = "meet"
  RootBoards = {1, 3, 7, 11}
  NoMove = NoMove
  FillBase = 2
  FillCap = 5
  Budgets = {2, 100}
  LostSets = {{}, {100}, {703}, {700}, {700, 703}, {201, 1004}, {103, 106, 107}}
  Lying = TRUE
CHECK_DEADLOCK FALSE
INVARIANTS RunSound FaithfulWalks CompleteWalkValid
PROPERTIES RunEnds
