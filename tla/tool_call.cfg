SPECIFICATION Spec
CONSTANTS
    c1 = c1
    c2 = c2
    t1 = t1
    t2 = t2
    None = None
    Calls = {c1}
    Tables = {t1, t2}
    Existing = {t1, t2}
    References <- Keyed
    ToolsUsed <- Tools
    MaxChanges = 2
    Faults = {"database", "audit", "cancel"}
CHECK_DEADLOCK FALSE
INVARIANTS
    ResultsWithinGrants
    NoResultOffTheRecord
    RefusedUntouched
    AnswersAreRecorded
