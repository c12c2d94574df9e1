SPECIFICATION WiredFirstSpec
CONSTANTS
    Threads = {t1}
    Texts <- SomeTexts
    Rulesets <- SomeRules
    Modes = {"standard", "strict"}
    None = None
INVARIANTS RulesEnforced
CHECK_DEADLOCK FALSE
