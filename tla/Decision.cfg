SPECIFICATION RulesSpec
CONSTANTS
    Cell <- ThreeCells
    HandoverMode = "DYNAMIC_TTT"
    Level <- Levels
    OutageThreshold = 2
    SinrThresholdDifference = 1
    FixedTtt = 2
    MinDynTtt = 1
    MaxDynTtt = 3
    MinDiff = 1
    MaxDiff = 3
INVARIANTS
    TypeOK
    EventIsCurrent
    OneHandoverAtATime
    FalseOnlyDuringHandover
    OneFirstConnection
    FirstConnectionOrder
PROPERTIES
    SwitchBackAlone
    EachRuleSettles
    TttConnectsAfterOutage
