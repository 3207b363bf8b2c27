SPECIFICATION FairSpec
CONSTANTS
    Machine = {m1, m2, m3}
    MaxReplicas = 2
    MaxChanges = 2
    ReadYourWrites = TRUE
    ApiErrors = FALSE
INVARIANTS TypeOK NeverMoreThanAsked
PROPERTIES FinalizerOutlivesMachines ScaleDownKeepsReadyMachines Converges
