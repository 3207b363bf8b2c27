SPECIFICATION FairSpec
CONSTANTS
    Keep <- NoKinds
    Vanishing <- NoKinds
    FirstPolicies = {"none", "affinity"}
    MaxChanges = 2
    MaxErrors = 0
PROPERTY FloatingIPIsAssigned
