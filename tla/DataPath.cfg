SPECIFICATION FairSpec
CONSTANTS
    Specs <- MCSpecs
    V4 <- MCV4
    V6 <- MCV6
    Covers <- MCCovers
    MaxChanges = 1
    MaxFaults = 2
INVARIANT TypeOK
PROPERTIES ForwardingFollowsSpec RulesSettle NoOverlap UpToDateIsTrue
