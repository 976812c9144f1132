SPECIFICATION FairSpec
CONSTANTS
    r1 = r1
    r2 = r2
    k1 = k1
    k2 = k2
    t1 = t1
    None = None
    Requests = {r1, r2}
    Kids = {k1, k2}
    MaxAge = 2
    MinRefetch = 1
    Tokens = {t1}
    Lifetime = 5
    CacheTtl = 2
    NegativeTtl = 1
    FlightTime = 1
    Faults = {"down", "redis", "cancel"}
PROPERTIES
    WithdrawnKeysExpire
    NewKeysArePickedUp
    RefetchesAreSpaced
    RevocationTakesEffect
    EveryVerifyEnds
