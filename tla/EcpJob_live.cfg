SPECIFICATION FairSpec
CONSTANTS
    r1 = r1
    r2 = r2
    j1 = j1
    j2 = j2
    NoName = NoName
    Requests = {r1, r2}
    Jobs = {j1}
    Uuid <- MCResent
    Gpus = {1}
    Need <- MCOneEach
    Build = {r2}
    Enabled <- MCNobody
    Faults = {"docker", "crash"}
    MaxCrash = 1
PROPERTIES
    ReservationReleased
CHECK_DEADLOCK FALSE
