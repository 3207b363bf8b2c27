SPECIFICATION FairSpec
CONSTANTS
    EnvoyConditions <- OneEnvoyCondition
    StaleAfter = 1
    GracePeriod = 1
    CreationTimeout = 2
    AgeCap = 2
    YawolletPeriod = 1
    PromptWatch = FALSE
    MaxOutages = 1
    MaxFaults = 1
INVARIANTS TypeOK MarksAreEarned
PROPERTY DeadMachineIsDeleted
