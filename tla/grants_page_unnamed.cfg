SPECIFICATION Spec
CONSTANTS
    d1 = d1
    d2 = d2
    r1 = r1
    r2 = r2
    t1 = t1
    s1 = s1
    s2 = s2
    Use = Use
    None = None
    Places = {d1}
    Columns <- NoTables
    Rows = {r1, r2}
    Saves = {s1}
    MaxElsewhere = 1
    Faults = {}
PROPERTIES
    UseIsRevokedAsNamed
