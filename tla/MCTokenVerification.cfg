CONSTANTS
    Instances = {a1, a2}
    Files = 2
    MaxKeys = 3
    MaxCrashes = 1
    MaxOutages = 1
    Workers = {w1}
    Exponent = 65537
    Digest <- MCDigest
    AccessTTL = 2
    Lifespan = 1
    MaxCachedKeys = 2
    MaxTokens = 3
    MaxClock = 2
SPECIFICATION FairSpec
INVARIANTS TypeOK SchemaWhole CurrentTokenAccepted VerifiesWithoutAuthd OldKeyBounded
PROPERTY EventuallyServing
CHECK_DEADLOCK FALSE
