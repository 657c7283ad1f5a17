SPECIFICATION MCSpec
CONSTANTS
    Modulus = 8
    Window = 4
    SduSize = 1
    Sdus = 3
    MaxTxBuffer = 3
    MaxPdu = 1
    ChannelBound = 1
    Overtakes = 0
CHECK_DEADLOCK FALSE
INVARIANTS
    DeliveredAtTheEnd
