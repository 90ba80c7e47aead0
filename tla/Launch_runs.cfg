\* Three launches in turn, with an entitled account or a named offline one; four stops.
CONSTANTS
    Steps <- OnlineSteps
    Accounts = {"online", "named"}
    Hurried = FALSE
    MaxLaunches = 3
    MaxStops = 4
    Ids = {"ann", "new", "off"}
    MSA = {"ann", "new"}
    Files <- TheLists
    Controllers = {"l1", "l2"}
    MaxHost = 1
SPECIFICATION MCSpec
INVARIANTS AtRest StopReachesTheGame StopSticks RoundGoesOn
PROPERTIES LaunchEnds UsedAccountsRest WaitIsServed
CHECK_DEADLOCK FALSE
