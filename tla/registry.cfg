SPECIFICATION RegistryFairSpec
CONSTANTS
    c1 = c1
    c2 = c2
    c3 = c3
    k1 = k1
    k2 = k2
    Null = Null
    Calls = {c1, c2, c3}
    Connections = {k1, k2}
    MaxUpdates = 1
    Failures = {"connect", "close", "cancel", "shutdown"}
CHECK_DEADLOCK FALSE
INVARIANTS
    HandedTheRecord
    NoLeak
    InterruptedByEdit
PROPERTIES
    EveryCallEnds
