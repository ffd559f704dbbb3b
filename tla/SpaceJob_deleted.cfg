SPECIFICATION Spec
CONSTANTS
    j1 = j1
    w1 = w1
    Jobs = {j1}
    Wallets = {w1}
    Owner <- MCOwner
    Kind <- MCDockerfile
    Enabled = {"cli"}
    Faults = {}
    Duration = 1
    Old = 0
    ArriveBy = 0
    MaxTime = 1
    MaxRenew = 0
    MaxCrash = 0
PROPERTIES
    DeletedStaysGone
CHECK_DEADLOCK FALSE
