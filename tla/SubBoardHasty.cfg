SPECIFICATION Spec
CONSTANTS
    Nodes = {n1, n2}
    Nobody = Nobody
    Messages = {m1, m2}
    NoRecord = NoRecord
    NoText = NoText
    LastSection = 0
    LastSector = 1
    MaxSize = 1
    MaxMsgs = 1
    MaxPosts = 2
    CacheSize = 1
    Hasty = TRUE
INVARIANT WriterSeesFile
SYMMETRY Symmetry
