SPECIFICATION Spec
CONSTANTS
    Game = "parry"
    RootBoards = {1, 29, 34}
    Pos <- MCPos
    NoMove = 0
    Inf = 1000
    Ways = 40
    Succ <- SuccOf
    Board <- BoardsOf
    Static <- StaticOf
    Label <- MCLabel
    ByLabel <- MCByLabel
    EpsNum = 5
    EpsDen = 4
    SimulationBudget = 7
    PvMax = 20
    Next <- MCNext
    End <- MCEnd
    RegionBudget = 28
    ClockLimit = 8
    Roots <- MCRoots
    Budgets = {72, 200}
    Options = {{"front", "preflight"}, {"preflight"}}
    FrontBudget = 90
    ProbeCap = 20
    Detected <- MCDetected
    BoardAt <- MCBoardAt
    ClockAt <- MCClockAt
    Truth <- TruthOf
    Distance <- DistOf
    MaxMoves = 4
INVARIANTS ProverSound AnswerTrue PreflightExact BudgetKept
PROPERTIES PrephasesEnd
CHECK_DEADLOCK FALSE
