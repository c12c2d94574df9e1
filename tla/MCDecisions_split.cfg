SPECIFICATION Spec
CONSTANTS
    Stores = {s1}
    Hashes = {h1}
    Subjects = {x1}
    SessionOf <- SessionOfStore
    NoSession = NoSession
    TTL = 1
    Previews = {x1}
    Times = {0}
    Scopes = {"session", "always"}
    MaxEvents = 2
    None = None
INVARIANTS AnyReasonPersists
CHECK_DEADLOCK FALSE
