SPECIFICATION Spec
CONSTANTS
    q1 = q1
    q2 = q2
    k1 = k1
    r1 = r1
    None = None
    Present = Present
    Requests = {q1, q2}
    Connections = {k1}
    Subjects = {1}
    Tables = {1, 2}
    Reports = {r1}
    Asks <- Edits
    Faults = {}
CHECK_DEADLOCK FALSE
PROPERTIES
    SettingsAreLogged
