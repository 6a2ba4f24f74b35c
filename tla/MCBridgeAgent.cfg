SPECIFICATION FairSpec
CONSTANTS
    a = a
    b = b
    c = c
    Identity = {a, b, c}
    Malformed = Malformed
    Missing = Missing
    Unset = Unset
    NoTable = NoTable
    NoPolicy = NoPolicy
    BoundRange <- MCBoundRange
    Gateway <- MCGateway
    EgressNetwork = 1
    MaxLeases = 2
    MaxAge = 0
    MaxEvents = 3
    Modes = {"Enforce", "Audit", "Disabled"}
    Pools <- MCPools
INVARIANTS
    
    SendersKnown
PROPERTIES
    DockerKeepsLease
    TableFollows
