SPECIFICATION Spec
CONSTANTS
    w1 = w1
    w2 = w2
    w3 = w3
    w4 = w4
    Writes = {w1, w2, w3, w4}
    WriterOf <- Writers
    LenOf <- Lengths
    DefaultWindow = 1
    MaxQueue = 9
    Settings <- HalfClosing
CHECK_DEADLOCK FALSE
INVARIANT CompletedMeansSent
