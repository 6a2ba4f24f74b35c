SPECIFICATION FairSpec
CONSTANTS
    Usage = {1, 2}
    Configured = 1
    Port = {1, 2}
    None = None
    Responses <- MCResponses
    Freshness = 0
    MaxTime = 1
    MaxEvents = 2
INVARIANTS
    EvidenceMatches
    PrimaryAgrees

    
