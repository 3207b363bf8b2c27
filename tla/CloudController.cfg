SPECIFICATION FairSpec
CONSTANTS
    Node = {n1, n2}
    Network = {net1, net2}
    Address = {c1, c2, byo}
    Controller = {c1, c2}
    OtherClass = other
    c1 = c1
    c2 = c2
    Scenarios <- MCScenarios
    Removals = FALSE
INVARIANT TypeOK
PROPERTIES
    ServiceOutlivesLoadBalancer
    DeletedServiceGoes
    ServiceIsPublished
    UnwantedLoadBalancerGoes
    EndpointsFollowNodes
    SettingsFollowService
CHECK_DEADLOCK FALSE
