SPECIFICATION FairSpec
CONSTANTS
    Hosts = {"master-0", "segment-a-1"}
    HostLists <- MCHostLists
    Master = "master-0"
    MaxCrashes = 2
    MaxEvents = 2
INVARIANTS KeysAreTrue GpexpandCanSsh
PROPERTIES AllTrustAll
CHECK_DEADLOCK FALSE
