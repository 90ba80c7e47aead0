----------------------------- MODULE MCDownloads ----------------------------
(* For TLC, side by side: a job of two downloads; one request as it usually *)
(* goes; one with more redirects than are followed and with data left       *)
(* unread when a reply finishes; the components of an instance, which are   *)
(* resolved when their metadata was downloaded; the import of a pack.        *)
EXTENDS NetJob, Request, PackImport, Components, ComponentData

CONSTANTS t1, t2

VARIABLE subject

Ragged == INSTANCE Request WITH
    AcceptLocalFiles <- FALSE, BadLocation <- TRUE, LateData <- TRUE, ServerRedirects <- 3

allVars == <<netVars, requestVars, componentsVars, importVars, subject>>

MCInit ==
    /\ subject \in {"job", "request", "ragged", "parts", "import"}
    /\ NetInit /\ RequestInit /\ ComponentsInit /\ ImportInit
    /\ subject # "parts" =>
        refresh /\ patches = {} /\ packFile = <<>> /\ hashed = {} /\ \A k \in DOMAIN meta : meta[k] = "none"
    /\ subject # "import" =>
        pack.local /\ pack.format = "Unknown" /\ pack.files = {} /\ ~pack.gameFiles

MCNext ==
    /\ \/ subject = "job" /\ NetNext /\ UNCHANGED <<requestVars, componentsVars, importVars>>
       \/ subject = "request" /\ RequestNext /\ UNCHANGED <<netVars, componentsVars, importVars>>
       \/ subject = "ragged" /\ Ragged!RequestNext /\ UNCHANGED <<netVars, componentsVars, importVars>>
       \/ subject = "parts" /\ ComponentsNext /\ UNCHANGED <<netVars, requestVars, importVars>>
       \/ subject = "import" /\ ImportNext /\ UNCHANGED <<netVars, requestVars, componentsVars>>
    /\ UNCHANGED subject

(* The fairness of the job, of the request and of the components. *)
InJob == subject = "job" /\ UNCHANGED <<requestVars, componentsVars, importVars, subject>>
InRequest == subject = "request" /\ UNCHANGED <<netVars, componentsVars, importVars, subject>>
JobServes == InJob /\ ServeWakeup
JobStarts(t) == InJob /\ StartRequest(t)
JobHears(t) == InJob /\ RequestConcludes(t)
ReplyEnds == InRequest /\ ReplyFinished
TimerFires == InRequest /\ RetryTimeout
LoadEnds ==
    /\ subject = "parts" /\ UNCHANGED <<netVars, requestVars, importVars, subject>>
    /\ \E i \in DOMAIN update.slots : RemoteLoadSucceeded(i) \/ RemoteLoadFailed(i)
Imports == subject = "import" /\ ImportWorks /\ UNCHANGED <<netVars, requestVars, componentsVars, subject>>

MCSpec ==
    /\ MCInit /\ [][MCNext]_allVars
    /\ WF_allVars(JobServes) /\ WF_allVars(ReplyEnds) /\ WF_allVars(TimerFires)
    /\ WF_allVars(LoadEnds) /\ WF_allVars(Imports)
    /\ \A t \in {t1, t2} : WF_allVars(JobStarts(t)) /\ WF_allVars(JobHears(t))

-----------------------------------------------------------------------------
(* What was started concludes: a job, retries, 404s, aborts and restarts    *)
(* included; a request, whose redirects and retries are bounded; the check  *)
(* of the components; and an import, unless the answer about the projects   *)
(* cannot be read.                                                          *)
Busy ==
    \/ subject = "job" /\ state = "Running"
    \/ subject = "request" /\ starts > 0 /\ ~Concluded
    \/ CheckRuns
    \/ ImportAtWork
DownloadsConclude == Busy ~> ~Busy
=============================================================================
