SPECIFICATION Spec
CONSTANTS
    n1 = n1
    n2 = n2
    u1 = u1
    u2 = u2
    Nodes = {n1, n2}
    Users = {u1, u2}
    Sysop = u1
    Nobody = Nobody
    Messages = {m1, m2}
    Mailings <- SomeMailings
    Readers = {n1}
    Removers = {n2}
    Places = {p1, p2}
    NoText = NoText
    NoLetter = NoLetter
    LastSlot = 2
    MaxTime = 2
INVARIANT DeletedIsGone
SYMMETRY Symmetry
