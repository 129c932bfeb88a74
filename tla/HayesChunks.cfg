SPECIFICATION Spec
CONSTANTS
    NoFd = NoFd
    Fds = {f1, f2}
    RingLimit = 2
    S0Values = {0}
    S30 = 1
    Direct = FALSE
    MaxChunk = 4
    MaxLine = 2
    MaxRings = 5
PROPERTY EscapeIsHayes
