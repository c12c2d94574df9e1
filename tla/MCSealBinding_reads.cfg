SPECIFICATION BindSpec
CONSTANTS
    Procs = {p1}
    Writers = {w1}
    Readers = {q1, q2}
    r1 = r1
    r2 = r2
    Records = {r1, r2}
    Erasable = {r1}
    Inodes = {i1, i2}
    Keys = {k1, k2, k3, k4}
    Primary = h1
    Legacy = h1
    None = None
SYMMETRY Symmetry
INVARIANTS BindTypeOK ReadsWhole ErasedNotRead NothingLost
PROPERTIES ImplementsVault
CHECK_DEADLOCK FALSE
