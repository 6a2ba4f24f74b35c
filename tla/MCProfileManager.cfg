SPECIFICATION Spec
CONSTANTS
    t1 = t1
    t2 = t2
    p1 = p1
    p2 = p2
    d1 = d1
    d2 = d2
    Revision = {r1, r2}
    Transport <- TransportSet
    Peers <- PeersSet
    Dns <- DnsSet
    Profiles <- Supplied
    MountedProfile <- Base
    ConfigSources = {"gui", "mounted"}
    MaxEvents = 1
    NoProfile = NoProfile
    NoRevision = NoRevision
    NoActive = NoActive
    NoIface = NoIface
    NoDns = NoDns
SYMMETRY RevisionSymmetry
INVARIANTS
    
    StoredIsActive
