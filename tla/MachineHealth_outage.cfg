SPECIFICATION Spec
CONSTANTS
    EnvoyConditions <- AllEnvoyConditions
    StaleAfter = 3
    GracePeriod = 2
    CreationTimeout = 10
    AgeCap = 10
    YawolletPeriod = 1
    PromptWatch = TRUE
    MaxOutages = 1
    MaxFaults = 0
INVARIANT WorkingMachineIsKept
