SPECIFICATION Spec
CONSTANTS
    j1 = j1
    w1 = w1
    Jobs = {j1}
    Wallets = {w1}
    Owner <- MCOwner
    Kind <- MCDockerfile
    Enabled = {"sweep"}
    Faults = {"deploy"}
    Duration = 1
    Old = 1
    ArriveBy = 0
    MaxTime = 2
    MaxRenew = 0
    MaxCrash = 0
PROPERTIES
    CompletedWasDeployed
CHECK_DEADLOCK FALSE
