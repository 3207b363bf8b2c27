SPECIFICATION RolledOutFairSpec
CONSTANTS
    Hash = {h1, h2}
    Machine = {m1, m2}
    MaxReplicas = 1
    MaxChanges = 2
    Rollback = TRUE
    PromptCaches = TRUE
    ApiErrors = FALSE
PROPERTY RolloutCompletes
