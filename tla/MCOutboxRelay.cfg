CONSTANTS
    Relays = {r1, r2}
    Events = {k1, k2}
    Deletes = {k2}
    Partitions = {k1, k2}
    PartitionOf <- MCPartitionEach
    BatchSize = 2
    MaxEvents = 3
    MaxFaults = 1
    MaxStops = 1
    Faults = {"ackLost", "sendFails", "passFails", "crash", "connLost"}
SPECIFICATION FairSpec
INVARIANTS TypeOK PublishedIsInLog DuplicatesNeedFaults
PROPERTIES AtLeastOnceDelivery EventuallyPublished
CHECK_DEADLOCK FALSE
