SPECIFICATION Spec
CONSTANTS
    Hash = {h1, h2}
    Machine = {m1, m2, m3}
    MaxReplicas = 2
    MaxChanges = 1
    Rollback = FALSE
    PromptCaches = TRUE
    ApiErrors = TRUE
INVARIANTS TypeOK CurrentSetHasLatestRevision MachinesHaveCurrentSpec
PROPERTIES NoDowntime VipIsHandedOver
SYMMETRY Symmetry
