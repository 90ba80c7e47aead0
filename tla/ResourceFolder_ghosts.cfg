\* Two mods, a handful of changes, three requests.
CONSTANTS
    Ids = {"a", "b"}
    Refused = {2}
    MaxEdits = 3
    MaxRequests = 3
SPECIFICATION FolderSpec
INVARIANT IndexIsRows
CHECK_DEADLOCK FALSE
