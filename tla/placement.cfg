SPECIFICATION FairSpec
CONSTANTS
    Nodes = {n1, n2}
    FirstNodes = {n1}
    None = none
    Asked = {{}, {"segments"}, {"masters", "segments"}}
    MaxDeploys = 2
    MaxLag = 1
    MaxFaults = 1
INVARIANTS MirrorApart
PROPERTIES PodsPlaced
CHECK_DEADLOCK FALSE
