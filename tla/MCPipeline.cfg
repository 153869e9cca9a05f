CONSTANTS
    plain = plain
    other = other
    Workers = {w1, w2}
    Consumers = {c1}
    Ids <- MCIds
    Slugs = {s1, s2}
    Titles <- MCTitles
    Clean <- MCClean
    Strip <- MCStrip
    Operations = {"create", "update", "destroy"}
    Renames = FALSE
    MaxRequests = 3
    Partitions = {"post_created", "post_updated", "post_deleted"}
    PartitionOf <- MCPartitionOf
    MaxCopies = 2
    MaxEvents = 0
    MaxRecords = 0
    MaxFaults = 1
    Faults = {"crash", "rebalance"}
SPECIFICATION FairPipelineSpec
INVARIANTS ConvergesWhenQuiet RelatesBothWays ReferencesExist
PROPERTY EventuallyConverges
CHECK_DEADLOCK FALSE
