SPECIFICATION FairSpec
CONSTANTS
    NoFd = NoFd
    Fds = {f1, f2}
    RingLimit = 2
    S0Values = {0, 1, 2}
    S30 = 1
    Direct = FALSE
    MaxChunk = 1
    MaxLine = 2
    MaxRings = 4
INVARIANT TypeOK
INVARIANT OnHookIsIdle
INVARIANT RingingHasCaller
INVARIANT CarrierIsCall
INVARIANT RecogniserReset
PROPERTY EscapeIsHayes
PROPERTY RingingEnds
