SPECIFICATION Spec
CONSTANTS
    Stores = {s1, s2}
    Hashes = {h1}
    Subjects = {x1}
    SessionOf <- SessionOfStore
    NoSession = NoSession
    TTL = 1
    Previews = {x1}
    Times = {0, 1, 2}
    Scopes = {"session", "always"}
    MaxEvents = 2
    None = None
SYMMETRY Symmetry
INVARIANTS TypeOK DecisionsPersist EraseSticks
PROPERTIES AllowOnlyByClearance
CHECK_DEADLOCK FALSE
