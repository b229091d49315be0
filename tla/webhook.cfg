SPECIFICATION FairSpec
CONSTANTS
    MaxPods = 2
    Keys = {1, 2, 3, 4, 5, 6, 7}
    MaxFaults = 2
INVARIANTS ServedIsTrusted
PROPERTIES WebhookComesUp
CHECK_DEADLOCK FALSE
