SPECIFICATION BackgroundSpec
CONSTANTS
    p1 = p1
    p2 = p2
    p3 = p3
    j1 = j1
    j2 = j2
    Payments = {p1, p2, p3}
    Jobs = {j1, j2}
    Job <- MCJob
    Amount <- MCAmount
    Created = 1
    Faults = {"crash", "iterator", "load", "save", "row"}
    MaxHeight = 3
    MaxBroken = 2
    r1 = r1
    r2 = r2
    r3 = r3
    t1 = t1
    t2 = t2
    x1 = x1
    x2 = x2
    Rewards = {r1, r2, r3}
    Tasks = {t1, t2}
    Txs = {x1, x2}
    TaskOf <- MCTaskOf
    TxOf <- MCTxOf
    LastTask <- MCLastTask
    JobManagerCreated = 1
    EdgeTaskPaymentCreated = 2
    ChunkSize = 2
    ScanFaults = {"load", "save", "crash", "iterator", "event", "force"}
    MaxBlocks = 4
    MaxScanFaults = 1
    MaxOldRows = 1
    u1 = u1
    u2 = u2
    Uuids = {u1, u2}
    C2Ids = {3}
    MaxId = 4
    Hosts <- MCHosts
    d1 = d1
    d2 = d2
    Deployers = {d1, d2}
    MaxNonce = 2
    MaxUnseen = 1
    MaxDropped = 1
    MaxLines = 4
    ChanCap = 2
    s1 = s1
    s2 = s2
    Spaces = {s1, s2}
    Need <- MCNeed
    Gpus = {1, 2, 3}
    NodePorts = {1, 2}
    MaxRestarts = 1
    h1 = h1
    h2 = h2
    h3 = h3
    PortJobs = {h1, h2, h3}
    Asked <- MCAsked
    PortRange = {1, 2, 3}
    Foreign = {2}
    Provers = {"prover"}
    Pollers = {"cron", "sender"}
    Imports = {"import"}
    MaxTries = 1
    MaxImports = 1
    MaxRenewals = 1
    MaxReboots = 1
    c1 = c1
    c2 = c2
    Account0 <- MCAccount
    Commands = {c1, c2}
    Changes <- MCChanges
    Syncs = {"start", "reader"}
    MaxMishaps = 1
    a1 = a1
    a2 = a2
    a3 = a3
    Adds = {a1, a2, a3}
    AddAmount <- MCAmounts
    MaxLosses = 2
CHECK_DEADLOCK FALSE
INVARIANTS
    BackgroundTypeOK
    ReplayedOnlyIfBroken
    RewardsShown
    RowLostOnlyToSameId
    DuplicatesHaveCause
    NoNonceGap
    GpuSharedOnlyByRace
    PortsAsAnswered
    CacheCountsDeploying
    InfoIsChain
    AddsAsTold
PROPERTIES
    BooksEveryPayment
    EverySettled
    EveryRewardReached
    FinalVerdictWins
    DeploysAsPromised
    LogArrives
    LogGoroutinesEnd
    KeysGiveToken
