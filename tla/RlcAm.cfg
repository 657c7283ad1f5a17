SPECIFICATION MCFairSpec
CONSTANTS
    Modulus = 5
    Window = 2
    SduSize = 2
    Sdus = 3
    MaxTxBuffer = 1
    MaxPdu = 2
    ChannelBound = 2
    Overtakes = 1
CHECK_DEADLOCK FALSE
INVARIANTS
    TypeOK
    InOrder
    NoByteLost
    HeadIsHeld
    SenderWindow
    NackIsHeld
    ReceiverOrder
    SenderAwake
    DeliveredOrPollOwed
PROPERTIES
    DeliveredUnlessPollOwed
