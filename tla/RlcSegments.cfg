SPECIFICATION Spec
CONSTANTS
    Modulus = 5
    Window = 2
    SduSize = 2
    Sdus = 2
    MaxTxBuffer = 1
    MaxPdu = 2
    ChannelBound = 2
    Overtakes = 1
CHECK_DEADLOCK FALSE
PROPERTIES
    WholePduIsPlaced
