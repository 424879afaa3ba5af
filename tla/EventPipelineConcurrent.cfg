CONSTANTS
    Requests = {q1, q2, q3}
    Sends = {"event", "approval"}
    Goals = {}
    Reported = {"running", "failed"}
    Stated = {1}
    NoRun = NoRun
    NoGoal = NoGoal
    MaxInFlight = 2
    MaxCrashes = 1
SYMMETRY RequestSymmetry
SPECIFICATION Spec
CHECK_DEADLOCK FALSE
INVARIANT VersionsGapFree
INVARIANT SessionVersionLogged
INVARIANT PromotedAfterProposal
INVARIANT BriefBehindLog
PROPERTY ReadersServed
