SPECIFICATION FairSpec
CONSTANTS
    Tracked <- MCTracked
    Specs <- MCPlain
    Counts = {2, 3}
    Images = {"v1"}
    MaxUID = 1
    MaxLag = 1
    MaxJobLag = 1
    MaxFaults = 0
    PatientUser = TRUE
PROPERTIES ExpansionCompletes
INVARIANTS ExpansionWithinSpec
CHECK_DEADLOCK FALSE
