CONSTANTS
    Handlers = {h1, h2}
    Approvals = {a1, a2}
    FindLimit = 2
    ResolveLimit = 2
    ReplayLimit = 3
    MaxEvents = 3
    MaxRebuilds = 1
    MaxCrashes = 1
SYMMETRY HandlerSymmetry
SPECIFICATION Spec
CHECK_DEADLOCK FALSE
INVARIANT TypeOK
INVARIANT RowFollowsLog
INVARIANT DecidedNotPending
INVARIANT AnnouncedOnce
PROPERTY DecisionSticks
