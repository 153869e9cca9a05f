CONSTANTS
    plain = plain
    shouted = shouted
    other = other
    Workers = {w1, w2, w3}
    Slugs = {s1, s2}
    Titles <- MCTitles
    Clean <- MCClean
    Strip <- MCStrip
    Operations = {"create", "update", "destroy"}
    Renames = TRUE
    MaxRequests = 5
SYMMETRY ReplaySymmetry
SPECIFICATION Spec
INVARIANTS TypeOK OutboxExplainsTable ReplayAgrees ReplayRelatesBothWays ReplayNoDangling
CHECK_DEADLOCK FALSE
