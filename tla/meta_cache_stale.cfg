SPECIFICATION FairSpec
CONSTANTS
    r1 = r1
    r2 = r2
    p1 = p1
    p2 = p2
    a1 = a1
    a2 = a2
    k1 = k1
    k2 = k2
    None = None
    Readers = {r1, r2}
    Replicas = {p1, p2}
    ReplicaOf <- OneReplica
    Admins = {a1}
    Keys = {k1}
    Ttl <- TwoTicks
    Cooldown = 1
    MaxChanges = 1
    Faults = {"call", "bump", "die", "crash"}
PROPERTIES
    ServedWithinTtl
    Converges
