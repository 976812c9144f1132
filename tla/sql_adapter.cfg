SPECIFICATION FairSpec
CONSTANTS
    Calls = {k1, k2}
    Slots = {s1}
    Dialects <- MCDialects
    Limit = 2
    Grace = 1
    max_rows = 1
    Faults <- MCFaults
    None = None
    Unlimited = Unlimited
INVARIANTS
    SlotsAreHeld
    LimitIsItsOwn
    StatementsEnd
PROPERTIES
    ReportsAreTrue
    QueriesEnd
