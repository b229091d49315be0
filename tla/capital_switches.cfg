SPECIFICATION FairSpec
CONSTANTS
    Tracked <- MCTracked
    Specs <- MCCapital
    Counts = {}
    Images = {"v1"}
    MaxUID = 1
    MaxLag = 1
    MaxJobLag = 1
    MaxFaults = 0
    PatientUser = TRUE
PROPERTIES EventuallyRunning
CHECK_DEADLOCK FALSE
