SPECIFICATION FairSpec
CONSTANTS
    Procs = {p1, p2}
    Writers = {w1}
    r1 = r1
    r2 = r2
    r3 = r3
    Records = {r1}
    Erasable = {r1}
    Inodes = {i1, i2, i3}
    Keys = {k1}
    Primary = h1
    Legacy = h1
    None = None
PROPERTIES CallsReturn
CHECK_DEADLOCK FALSE
