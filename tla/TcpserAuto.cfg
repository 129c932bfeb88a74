SPECIFICATION Spec
CONSTANTS
    NoFd = NoFd
    Nobody = Nobody
    RingLimit = 1
    ModemCount = 1
    S0 <- Auto
    Fds = {1, 2, 3}
    Callers = {c1, c2}
    Talkers = {c1, c2}
    Typed = {"ATA", "ATH"}
    DtrLine = FALSE
INVARIANT AcceptFindsCaller
