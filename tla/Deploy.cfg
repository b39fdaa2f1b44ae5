SPECIFICATION DeploySpec
CONSTANTS
    NumForeign = 1
    MaxRounds = 3
    MaxPolls = 2
    NonKv = 4
    Pool = 2
    Target = 3
    Gpu = 7
INVARIANTS
    VerdictIsOwn
    FailureIsTheAttemptsOwn
    NothingLeftRunning
PROPERTIES
    SweepMeasuresItsRound
    PortOwnerSpared
    ClientEnds
CHECK_DEADLOCK FALSE
