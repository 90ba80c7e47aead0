\* Two downloads, an abort at any moment, a restart, one manual retry; a file
\* download with a local copy, two redirects or one more, two retries at most.
\* A pack of two files, one round of retries, one cancellation.
CONSTANTS
    t1 = t1
    t2 = t2
    Tasks = {t1, t2}
    Abortable = {t1, t2}
    MaxConcurrent = 2
    LateAdds = FALSE
    MaxRuns = 2
    MaxAborts = 1
    AskRetry = TRUE
    ManualRetries = 1
    None = None
    MaxRedirects = 2
    MaxRetries = 2
    AutoRetry = TRUE
    AcceptLocalFiles = TRUE
    CacheHits = TRUE
    LocalFile = TRUE
    BadLocation = FALSE
    LateData = FALSE
    ServerRedirects = 2
    Files = {t1, t2}
    Query = Query
    MaxTries = 1
    MaxCancels = 1
    MaxStarts = 2
    Metadata <- TheMetadata
    Minecraft = "game"
    Follows = {"mapping"}
    UidOrder <- TheOrder
    Default <- TheDefault
    PackFiles <- TheFiles
    Patches = {{}, {"lib"}}
    MaxSteps = 14
    MaxChecks = 2
    MaxRestarts = 1
SPECIFICATION MCSpec
INVARIANTS EndsOnce FileIsOneReply ResolvedOnSuccess SavedIsMemory ImportIsWhole
PROPERTIES JobVerdictEarned DownloadsConclude
CHECK_DEADLOCK FALSE
