CONSTANTS
    plain = plain
    other = other
    Workers = {w1}
    Consumers = {c1}
    Ids <- MCIds
    Slugs = {s1, s2}
    Titles <- MCTitles
    Clean <- MCClean
    Strip <- MCStrip
    Operations = {"create", "update", "destroy"}
    Renames = FALSE
    MaxRequests = 2
    Partitions = {"post_created", "post_updated", "post_deleted"}
    PartitionOf <- MCPartitionOf
    MaxCopies = 1
    MaxEvents = 0
    MaxRecords = 0
    MaxFaults = 0
    Faults = {}
SPECIFICATION PipelineSpec
INVARIANT AgreeWhenQuiet
CHECK_DEADLOCK FALSE
