\* Two versions of one file, two downloads of it, two events (one under an
\* entity): a publication, an edit, an eviction or a restart.  Four times a load is
\* made or the parent of the entity merged.
\* Two names of directories, two groups, two events, or one beside one staging.
CONSTANTS
    Nothing = Nothing
    Versions = {v1, v2}
    Edited = Edited
    Downloads = {d1, d2}
    MetaEvents = 2
    EntityEvents = 1
    LoadsAndMerges = 4
    Groups = {g1, g2}
    NoGroup = NoGroup
    LastId = 2
    ListEvents = 2
    StagingEvents = 1
    Stagings = {s1}
SPECIFICATION StoredSpec
INVARIANTS FreshIsOnDisk LoadedIsExpected ListFollowsDisk GroupsAgree RetriesEnd
PROPERTIES SuccessMeansLoaded UndoRestores
SYMMETRY StoredSymmetry
VIEW StoredView
CHECK_DEADLOCK FALSE
