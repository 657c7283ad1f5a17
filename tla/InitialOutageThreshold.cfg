SPECIFICATION FairSpec
CONSTANTS
    Cell <- TwoCells
    HandoverMode = "THRESHOLD"
    Level <- Levels
    OutageThreshold = 2
    SinrThresholdDifference = 1
    FixedTtt = 2
    MinDynTtt = 1
    MaxDynTtt = 3
    MinDiff = 1
    MaxDiff = 3
PROPERTIES
    ConnectsAfterInitialOutage
