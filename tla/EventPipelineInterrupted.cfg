CONSTANTS
    Requests = {q1, q2, q3, q4}
    Sends = {"event", "dispatch", "complete"}
    Goals = {}
    Reported = {"running"}
    Stated = {0}
    NoRun = NoRun
    NoGoal = NoGoal
    MaxInFlight = 1
    MaxCrashes = 0
SPECIFICATION Spec
CHECK_DEADLOCK FALSE
INVARIANT InterruptedRunSilenced
