\* Two slots, three tasks, a restart, tasks added at any moment; no abort.
CONSTANTS
    t1 = t1
    t2 = t2
    t3 = t3
    Tasks <- ThreeTasks
    Abortable <- OneStubborn
    MaxConcurrent = 2
    LateAdds = TRUE
    MaxRuns = 2
    MaxAborts = 0
SPECIFICATION MCSpec
INVARIANTS TypeOK
PROPERTIES KeepsContract
CHECK_DEADLOCK FALSE
