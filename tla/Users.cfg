SPECIFICATION LookupSpec
CONSTANTS
    n1 = n1
    n2 = n2
    Nodes = {n1, n2}
    Names = {1, 2, 3}
    MaxUsers = 3
    SysopName = 2
    Resetters = {n1, n2}
    NoRecord = NoRecord
INVARIANT TypeOK
INVARIANT NamesInOrder
INVARIANT FoundByName
INVARIANT LogonWasListed
INVARIANT RoomForName
PROPERTY IsDirectory
CONSTRAINT CarefulFew
SYMMETRY Symmetry
