SPECIFICATION Spec
CONSTANTS
    Tracked <- MCTracked
    Specs <- MCSpread
    Counts = {}
    Images = {"v1", "v2"}
    MaxUID = 2
    MaxLag = 1
    MaxJobLag = 1
    MaxFaults = 2
    PatientUser = TRUE
INVARIANTS TypeOK FinalizerBeforeResources RunningIsProvisioned OneImage
PROPERTIES SshKeyKept ImplementsLifecycle
CHECK_DEADLOCK FALSE
