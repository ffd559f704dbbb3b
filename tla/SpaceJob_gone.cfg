SPECIFICATION FairSpec
CONSTANTS
    j1 = j1
    w1 = w1
    Jobs = {j1}
    Wallets = {w1}
    Owner <- MCOwner
    Kind <- MCImage
    Enabled = {"sweep","abnormal","namespace"}
    Faults = {"deploy","delete"}
    Duration = 1
    Old = 1
    ArriveBy = 0
    MaxTime = 2
    MaxRenew = 0
    MaxCrash = 0
INVARIANTS
    RefusedNeverDeployed
PROPERTIES
    VanishedIsRetired
CHECK_DEADLOCK FALSE
