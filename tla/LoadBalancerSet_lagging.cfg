SPECIFICATION FairSpec
CONSTANTS
    Machine = {m1, m2}
    MaxReplicas = 1
    MaxChanges = 2
    ReadYourWrites = FALSE
    ApiErrors = TRUE
PROPERTY DeletedSetIsCleanedUp
