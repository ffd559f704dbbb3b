SPECIFICATION Spec
CONSTANTS
    j1 = j1
    w1 = w1
    Jobs = {j1}
    Wallets = {w1}
    Owner <- MCOwner
    Kind <- MCDockerfile
    Enabled = {"renew","chain","sweep"}
    Faults = {"chain"}
    Duration = 1
    Old = 1
    ArriveBy = 0
    MaxTime = 2
    MaxRenew = 1
    MaxCrash = 0
INVARIANTS
    RunningWasDeployed
PROPERTIES
    VerdictKept PaidTimeKept
CHECK_DEADLOCK FALSE
