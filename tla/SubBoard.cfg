SPECIFICATION Spec
CONSTANTS
    Nodes = {n1, n2}
    Nobody = Nobody
    Messages = {m1, m2}
    NoRecord = NoRecord
    NoText = NoText
    LastSection = 0
    LastSector = 2
    MaxSize = 2
    MaxMsgs = 1
    MaxPosts = 2
    CacheSize = 1
    Hasty = FALSE
INVARIANT TypeOK
INVARIANT TextIsOwn
INVARIANT WriterSeesFile
INVARIANT StaleIsAnnounced
PROPERTY IsBoard
CONSTRAINT Unmarked
SYMMETRY Symmetry
