SPECIFICATION Spec
CONSTANTS
    r1 = r1
    r2 = r2
    j1 = j1
    j2 = j2
    NoName = NoName
    Requests = {r1, r2}
    Jobs = {j1, j2}
    Uuid <- MCApart
    Gpus = {1, 2}
    Need <- MCOneEach
    Build = {}
    Enabled <- MCApiCli
    Faults = {}
    MaxCrash = 0
PROPERTIES
    OnlyOwnRemoved
CHECK_DEADLOCK FALSE
