SPECIFICATION FairSpec
CONSTANTS
    Profile = {"v4"}
    Ipv6Routing = TRUE
    FailureThreshold = 1
    SuccessThreshold = 1
    EventuallyCalm = TRUE
INVARIANTS
    FirewallFirst
    RoutesHold
PROPERTIES
    EventuallyRecovers
CHECK_DEADLOCK FALSE
