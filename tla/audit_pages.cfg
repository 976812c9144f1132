SPECIFICATION PagesSpec
CONSTANTS
    u1 = u1
    u2 = u2
    n1 = n1
    Users = {u1, u2}
    Roles = {1, 2, 3}
    Builtin = {3}
    Names = {n1}
    Jobs <- MCJobs
    Initially <- MCInitially
    Writers = {w1, w2}
    OldCalls = 2
    MaxRows = 4
    PAGE_SIZE = 2
    max_page_size = 2
    Sorts <- MCSorts
    Filters <- MCFilters
    MaxOpens = 1
    Absent = Absent
    Nameless = Nameless
    None = None
CHECK_DEADLOCK FALSE
SYMMETRY MCSymmetry
INVARIANTS
    NoWaitInACircle
    PagingSeesAll
PROPERTIES
    RecordsAtOnce
