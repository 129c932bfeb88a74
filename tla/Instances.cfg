SPECIFICATION Spec
CONSTANTS
    n1 = n1
    n2 = n2
    Nodes = {n1, n2}
    Users = {u1, s1}
    Exempt = {s1}
    Nobody = Nobody
    Doors = {d1}
    NoDoor = NoDoor
    Names = {f1}
    NoName = NoName
    Messages = {m1, m2, x1}
    Shutdowns = {x1}
INVARIANT TypeOK
INVARIANT TwiceOnlyAtOnce
INVARIANT DoorOnlyAtOnce
PROPERTY IsMailbox
CONSTRAINT OneAfterTheOther
SYMMETRY Symmetry
