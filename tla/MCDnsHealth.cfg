SPECIFICATION MCFairSpec
CONSTANTS
    Component <- MCComponent
    Critical <- MCCritical
    TransitionCapacity = 4
    NoCheck = NoCheck
    NoVerdict = NoVerdict
    QueryTask = {w1, w2}
    FailureThreshold = 2
    SuccessThreshold = 2
    RecoveryWindow = 4
    RecoveryMinSamples = 2
    RecoveryFailureRatio = 3
    DegradedDwell = 1
    RepublishInterval = 1
    Peer = {p1, p2}
    Endpoint = {e1, e2}
    SampleCapacity = 3
    LatencyProbeEnabled = TRUE
    NoPeer = NoPeer
    NoEndpoint = NoEndpoint

    
PROPERTIES
    QuietSurvives
    VerdictSettles
