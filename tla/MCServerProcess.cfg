\* Two servers that start, stop, fail and crash, next to one etcd.
SPECIFICATION FairSpec
CONSTANTS
    s1 = s1
    s2 = s2
    own = own
    Servers = {s1, s2}
    Ids = {own, u1, u2, u3}
    NoId = NoId
    Leases = {l1, l2}
    NoLease = NoLease
    NoStore = NoStore
    Nobody = Nobody
    Deployments <- Pairs
    Faults = {"crash", "etcd", "grpc", "start"}
INVARIANTS
    ServerTypeOK
    
PROPERTIES
    OwnEntriesKept
    StartEnds
    EntriesVanish
