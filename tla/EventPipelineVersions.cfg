CONSTANTS
    Requests = {q1, q2}
    Sends = {"event", "approval"}
    Goals = {}
    Reported = {"running"}
    Stated = {0}
    NoRun = NoRun
    NoGoal = NoGoal
    MaxInFlight = 2
    MaxCrashes = 0
SPECIFICATION Spec
CHECK_DEADLOCK FALSE
INVARIANT DistinctVersions
