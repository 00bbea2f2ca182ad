SPECIFICATION Spec
CONSTANTS
    Cells <- MCCells
    Mirror <- MCMirror
    Games <- MCGames
    Plans <- MCPlans
    Pawn = 2
    PassCap = 2
    ProveDepth = 2
    Plies = 9
INVARIANTS TableTrue NoFalseAlarm
PROPERTIES GeneratorEnds
CHECK_DEADLOCK FALSE
