SPECIFICATION FairSpec
CONSTANTS
    Configs <- MCAlone
    Counts = {1}
    MaxCrashes = 1
    MaxErrors = 0
    MaxDeploys = 1
PROPERTIES MasterRestarts
CHECK_DEADLOCK FALSE
