SPECIFICATION FairSpec
CONSTANTS
    Tracked <- MCTracked
    Specs <- MCSpread
    Counts = {}
    Images = {"v1"}
    MaxUID = 1
    MaxLag = 1
    MaxJobLag = 1
    MaxFaults = 1
    PatientUser = TRUE
PROPERTIES EventuallyRunning DeletionCompletes NothingLeftBehind
CHECK_DEADLOCK FALSE
