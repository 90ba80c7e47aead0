\* Three tasks, one that refuses its abort, added at any moment; one abort at
\* any moment, one restart.
\* Two files of a folder with two dates of content, three requests to update it.
\* Three launches of an instance, one cancelled or cut off; a Java replaced and the
\* setting changed, or the setting changed and changed back.
CONSTANTS
    t1 = t1
    t2 = t2
    t3 = t3
    Tasks <- ThreeTasks
    Abortable <- OneStubborn
    MaxConcurrent = 2
    LateAdds = TRUE
    MaxRuns = 2
    MaxAborts = 1
    Ids = {"a", "b"}
    Refused = {2}
    MaxEdits = 2
    MaxRequests = 3
    Majors = 2
    MaxLaunches = 3
    MaxCancels = 1
    MaxChanges = 2
    MaxReplaced = 1
    MaxStarts = 3
    MaxFaults = 3
SPECIFICATION MCSpec
INVARIANTS SlotsBounded Accounted WakeupNeverLost FolderIsListed GameIsPrepared
PROPERTIES VerdictsEarned TasksConclude
CHECK_DEADLOCK FALSE
