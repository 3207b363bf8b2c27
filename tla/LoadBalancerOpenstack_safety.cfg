SPECIFICATION Spec
CONSTANTS
    Keep <- NoKinds
    Vanishing <- PortAndGroup
    FirstPolicies = {"affinity"}
    MaxChanges = 2
    MaxErrors = 1
INVARIANTS TypeOK NoDuplicates
PROPERTIES ImplementsFinalizerProtocol UsedResourcesStay
