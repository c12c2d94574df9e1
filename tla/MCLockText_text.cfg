SPECIFICATION WiredFirstSpec
CONSTANTS
    Threads = {t1, t2}
    Texts <- SomeTexts
    Rulesets <- SomeRules
    Modes = {"standard", "strict"}
    None = None
SYMMETRY Symmetry
INVARIANTS TypeOK FailClosed FloorHolds RulesHold
CHECK_DEADLOCK FALSE
