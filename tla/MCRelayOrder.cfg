CONSTANTS
    Relays = {r1}
    Events = {k1, k2}
    Deletes = {k2}
    Partitions = {p1}
    PartitionOf <- MCPartitionOne
    BatchSize = 2
    MaxEvents = 4
    MaxFaults = 2
    MaxStops = 1
    Faults = {"ackLost", "passFails", "crash", "connLost"}
SPECIFICATION Spec
INVARIANT RowOrderKept
CHECK_DEADLOCK FALSE
