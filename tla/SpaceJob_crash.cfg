SPECIFICATION FairSpec
CONSTANTS
    j1 = j1
    w1 = w1
    Jobs = {j1}
    Wallets = {w1}
    Owner <- MCOwner
    Kind <- MCDockerfile
    Enabled = {"sweep","chain"}
    Faults = {"deploy","crash"}
    Duration = 1
    Old = 1
    ArriveBy = 0
    MaxTime = 2
    MaxRenew = 0
    MaxCrash = 1
PROPERTIES
    OverdueIsRetired DeployedIsShown
CHECK_DEADLOCK FALSE
