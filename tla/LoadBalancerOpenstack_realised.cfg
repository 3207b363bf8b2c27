SPECIFICATION FairSpec
CONSTANTS
    Keep <- GroupAndFip
    Vanishing <- PortAndGroup
    FirstPolicies = {"none", "affinity"}
    MaxChanges = 1
    MaxErrors = 1
PROPERTIES SpecIsRealised DeletionCompletes
