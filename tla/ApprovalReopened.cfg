CONSTANTS
    Handlers = {h1, h2}
    Approvals = {a1}
    FindLimit = 2
    ResolveLimit = 2
    ReplayLimit = 3
    MaxEvents = 3
    MaxRebuilds = 0
    MaxCrashes = 0
SYMMETRY HandlerSymmetry
SPECIFICATION Spec
CHECK_DEADLOCK FALSE
PROPERTY DecidedNeverReopened
