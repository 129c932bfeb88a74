SPECIFICATION FairSpec
CONSTANTS
    NoFd = NoFd
    Nobody = Nobody
    RingLimit = 1
    ModemCount = 1
    S0 <- Manual
    Fds = {1, 2}
    Callers = {c1, c2}
    Talkers = {c1}
    Typed = {"ATA", "ATD"}
    DtrLine = FALSE
INVARIANT TypeOK
INVARIANT AcceptFindsCaller
INVARIANT LineIsOpen
PROPERTY CallerIsHeard
PROPERTY CallersAreServed
