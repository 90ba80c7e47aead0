\* The default account is offline and no account is entitled.
CONSTANTS
    Steps <- ShortSteps
    Accounts = {"offline"}
    Hurried = FALSE
    MaxLaunches = 2
    MaxStops = 1
SPECIFICATION Spec
INVARIANTS StopReachesTheGame
CHECK_DEADLOCK FALSE
