SPECIFICATION Spec
CONSTANTS
    Cell <- ThreeCells
    HandoverMode = "THRESHOLD"
    Level <- Levels
    OutageThreshold = 0
    SinrThresholdDifference = 1
    FixedTtt = 0
    MinDynTtt = 1
    MaxDynTtt = 3
    MinDiff = 1
    MaxDiff = 3
    MaxRnti = 3
    AdmittingCells <- TwoOfThree
    Timeouts = TRUE
    MaxInFlight = 1
PROPERTIES
    ImplementsAbstractHandover
