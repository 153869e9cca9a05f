CONSTANTS
    plain = plain
    padded = padded
    other = other
    Consumers = {c1}
    Ids = {1, 2}
    Slugs = {s1, s2}
    Titles <- MCTitlesTwo
    Clean <- MCClean
    Strip <- MCStrip
    Renames = FALSE
    Partitions = {"post_created", "post_updated", "post_deleted"}
    PartitionOf <- MCPartitionOf
    MaxEvents = 3
    MaxRecords = 2
    MaxFaults = 0
    Faults = {}
SPECIFICATION Spec
INVARIANT CommittedIsApplied
CHECK_DEADLOCK FALSE
