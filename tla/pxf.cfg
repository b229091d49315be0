SPECIFICATION FairSpec
CONSTANTS
    Images = {"v1", "v2"}
    Specs <- MCSpecs
    MaxWrites = 2
    MaxLag = 1
    MaxFaults = 1
PROPERTIES PxfSettles ImageKept
CHECK_DEADLOCK FALSE
