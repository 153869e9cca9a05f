CONSTANTS
    t1 = t1
    t2 = t2
    Instances = {a1}
    Tokens = {t1, t2}
    ExpiresAt <- MCExpiresAt
    Presented <- MCPresented
    BatchSize = 2
    MaxTime = 2
    MaxRows = 2
    MaxFaults = 2
    Faults = {"ackLost", "writeFails", "markFails", "authdCrash", "consumerCrash", "postsDbError", "relatedDbError"}
SPECIFICATION FairSpec
INVARIANTS TypeOK CommittedIsRefused
PROPERTIES RefusedForGood AtLeastOnceDelivery EventuallyRefused PostsTableBounded
CHECK_DEADLOCK FALSE
