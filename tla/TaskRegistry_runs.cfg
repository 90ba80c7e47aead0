\* Four plain tasks in a table of two; or one task of any kind and three nested
\* calls of a reentrant host, which has a loop of its own; a log of three lines; a login; two messages
\* on the two streams of a game; or an account over three grants and two restarts.
CONSTANTS
    Limit = 2
    Kinds <- EveryKind
    HostLoop = TRUE
    Reentrant = TRUE
    MaxTasks = 4
    MaxCalls = 3
    Lines = {"a", "b"}
    Levels = {"Info"}
    MaxLines = 3
    Expires = FALSE
    Lifetime = 3
    MaxCodes = 3
    MaxCancels = 2
    Clients = {1, 2}
    MaxGrants = 3
    MaxRestarts = 2
    Messages <- TheMessages
    MaxMessages = 2
SPECIFICATION MCSpec
INVARIANTS UnfinishedIsKnown RecentIsKnown StatusIsTrue ExportCancelSticks LoginGoesOn OutputIsShown OnlineIsGranted
PROPERTIES HostIsServed KeepsLog
CHECK_DEADLOCK FALSE
