CONSTANTS
    Users = {u1, u2}
    Handlers = {h1, h2}
    AccessTTL = 2
    RefreshTTL = 3
    MaxTime = 3
    MaxSessions = 2
    MaxTokens = 3
    MaxRevokes = 2
SPECIFICATION Spec
SYMMETRY AuthSymmetry
INVARIANTS TypeOK OneLiveToken RevokeEndsSessions AccessBounded
CHECK_DEADLOCK FALSE
