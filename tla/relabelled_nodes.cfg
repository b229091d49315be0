SPECIFICATION Spec
CONSTANTS
    Nodes = {n1, n2}
    FirstNodes = {n1}
    None = none
    Asked = {{}, {"segments"}, {"masters", "segments"}}
    MaxDeploys = 1
    MaxLag = 2
    MaxFaults = 1
INVARIANTS AntiAffinityGuaranteed
CHECK_DEADLOCK FALSE
