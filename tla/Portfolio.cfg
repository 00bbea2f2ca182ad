SPECIFICATION FairSpec
CONSTANTS
    Salts = {0, 2}
    Values = {"win", "draw"}
    Budgeted = TRUE
    MaxCrashes = 1
    MaxSpawnFailures = 1
INVARIANTS RecordsTrue OneWinner
PROPERTY RaceEnds
