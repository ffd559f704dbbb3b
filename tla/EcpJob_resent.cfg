SPECIFICATION Spec
CONSTANTS
    r1 = r1
    r2 = r2
    j1 = j1
    j2 = j2
    NoName = NoName
    Requests = {r1, r2}
    Jobs = {j1}
    Uuid <- MCResent
    Gpus = {1}
    Need <- MCOneEach
    Build = {r2}
    Enabled <- MCPayment
    Faults = {"docker", "crash"}
    MaxCrash = 1
PROPERTIES
    ReservationKept
CHECK_DEADLOCK FALSE
