SPECIFICATION FairSpec
CONSTANTS
    p1 = p1
    p2 = p2
    Proofs = {p1, p2}
    MaxRequests = 2
    MaxSends = 2
    Faults = {"crash", "db", "unseen", "setup"}
    Providers <- MCProviders
CHECK_DEADLOCK FALSE
INVARIANTS
    TypeOK
    ReceiptKept
    DeliveredOnce
    SubmittedIsReal
    AutoChainDelivers
PROPERTIES
    OverdueSettles
    SubmissionsEnd
