SPECIFICATION Spec
CONSTANTS
    Threads = {t1, t2}
    Texts <- SomeTexts
    Rulesets <- NoRules
    Modes = {"standard", "strict"}
    None = None
SYMMETRY Symmetry
INVARIANTS FailClosed
CHECK_DEADLOCK FALSE
