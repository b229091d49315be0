SPECIFICATION FairSpec
CONSTANTS
    Configs <- MCConfigs
    Counts = {1, 2, 3}
    MaxCrashes = 2
    MaxErrors = 1
    MaxDeploys = 2
INVARIANTS OneActingMaster Configured CatalogWellFormed
PROPERTIES ComesUp
CHECK_DEADLOCK FALSE
