SPECIFICATION Spec
CONSTANTS
    Cell <- TwoCells
    HandoverMode = "FIXED_TTT"
    Level <- Levels
    OutageThreshold = 2
    SinrThresholdDifference = 1
    FixedTtt = 0
    MinDynTtt = 1
    MaxDynTtt = 3
    MinDiff = 1
    MaxDiff = 3
    MaxRnti = 3
    AdmittingCells <- TwoCells
    Timeouts = FALSE
    MaxInFlight = 2
INVARIANTS
    TypeOK
    NoUnexpectedMessage
    AgreementWhenQuiet
    ForwardsWhileLeaving
    DownlinkHasRlc
    OutageReachesUe
PROPERTIES
    ImplementsAbstractHandover
