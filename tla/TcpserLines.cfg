SPECIFICATION Spec
CONSTANTS
    NoFd = NoFd
    Nobody = Nobody
    RingLimit = 1
    ModemCount = 2
    S0 <- Mixed
    Fds = {1}
    Callers = {c1, c2}
    Talkers = {c1, c2}
    Typed = {"ATH"}
    DtrLine = TRUE
INVARIANT DescriptorsApart
PROPERTY OffersAreAnswered
CONSTRAINT Quiet
SYMMETRY Symmetry
