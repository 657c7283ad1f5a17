SPECIFICATION FairSpec
CONSTANTS
    Cell <- OneCell
    HandoverMode = "FIXED_TTT"
    Level <- Levels
    OutageThreshold = 2
    SinrThresholdDifference = 1
    FixedTtt = 0
    MinDynTtt = 1
    MaxDynTtt = 3
    MinDiff = 1
    MaxDiff = 3
    MaxBearers = 3
    MaxInFlight = 3
INVARIANTS
    TypeOK
    NoUnexpectedMessage
    OneRlcPerBearer
    SplitWhenQuiet
PROPERTIES
    ConnectCompletes
    ImplementsFirstConnection
