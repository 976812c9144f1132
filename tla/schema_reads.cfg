SPECIFICATION Spec
CONSTANTS
    Tools = {r1}
    Pages = {p1}
    Databases = {d1, d2}
    Tables <- MCTables
    casefold <- MCcasefold
    Initially <- MCOneTable
    Described = {"orders"}
    MaxEdits = 1
    MaxChanges = 1
    MaxRequests = 2
    Faults <- MCFaults
    None = None
CHECK_DEADLOCK FALSE
SYMMETRY MCSymmetry
INVARIANTS
    TypeOK
    ReadsAreCurrent
    AbsenceIsTrue
    DescriptionsWereReal
