SPECIFICATION HostSpec
CONSTANTS
    Procs = {p1}
    Writers = {a1, a2}
    Records = {r1, b1, b2}
    Erasable = {r1}
    Inodes = {i1, i2, i3}
    Keys = {k1}
    Primary = name1
    Legacy = name1
    None = None
    Threads = {a1, a2}
    Names = {"a", "b"}
    SigningKeys = {"k1", "k2"}
    Requests <- SomeRequests
    Scopes <- SomeScopes
    MaxTime = 1
    MaxCalls = 2
    MaxTorn = 1
    Nothing = Nothing
    Hosts = {a1, a2}
    Ids = {b1, b2}
    Texts <- SomeTexts
    Failures <- SomeFailures
    MaxRelease = 2
    MaxIngests = 1
    Models = {"phi", "qwen", "mistral"}
    Ensembles <- SomeEnsembles
    Default <- ThreeModels
    Nobody = Nobody
SYMMETRY Symmetry
INVARIANTS FindingsCaptured
CHECK_DEADLOCK FALSE
