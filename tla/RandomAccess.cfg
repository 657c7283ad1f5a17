SPECIFICATION FairSpec
CONSTANTS
    UE <- ThreeUes
    Nobody = "nobody"
    DualUe <- TwoDualUes
    NumberOfRaPreambles = 3
    PreambleLimit = 5
    Modulus = 8
    CommandsInTime = TRUE
    MaxAccesses = 2
    MaxRnti = 4
CHECK_DEADLOCK FALSE
INVARIANTS
    TypeOK
    RntiIsOwn
    NoUnexpectedMessage
PROPERTIES
    AccessIsAnswered
