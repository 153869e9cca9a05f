CONSTANTS
    Relays = {r1}
    Events = {k1, k2}
    Deletes = {k2}
    Partitions = {p1}
    PartitionOf <- MCPartitionOne
    BatchSize = 1
    MaxEvents = 2
    MaxFaults = 1
    MaxStops = 0
    Faults = {"connLost"}
SPECIFICATION FairSpec
PROPERTY EventuallyPublished
CHECK_DEADLOCK FALSE
