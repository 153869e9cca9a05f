CONSTANTS
    plain = plain
    padded = padded
    other = other
    Consumers = {c1, c2}
    Ids = {1}
    Slugs = {s1, s2}
    Titles <- MCTitlesTwo
    Clean <- MCClean
    Strip <- MCStrip
    Renames = FALSE
    Partitions = {"post_created", "post_updated", "post_deleted"}
    PartitionOf <- MCPartitionOf
    MaxEvents = 3
    MaxRecords = 2
    MaxFaults = 2
    Faults = {"crash", "dbError", "rebalance"}
SYMMETRY GroupSymmetry
SPECIFICATION Spec
INVARIANTS TypeOK CommittedIsHandled
PROPERTY AppliedOnce
CHECK_DEADLOCK FALSE
