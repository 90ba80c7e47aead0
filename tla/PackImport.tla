----------------------------- MODULE PackImport -----------------------------
(***************************************************************************)
(* The import of a pack (auracore_import_instance): InstanceImportTask     *)
(* downloads the archive, finds out what kind of pack it is, unpacks it    *)
(* and hands it to the creation task of that kind, which asks the mod      *)
(* platform about the files, downloads them and writes their index.  One   *)
(* piece of work leads to the next; `stage' says which is under way.       *)
(*                                                                         *)
(* The creation task and the import conclude together: what concludes the  *)
(* one is heard by the other at once, and `import' stands for both.  The   *)
(* work is not tied to them: it may go on after they have concluded.       *)
(* Pieces that are downloads are NetJobs, of which the model keeps the     *)
(* rounds of tries; while nothing is active a wakeup of the job is queued. *)
(*                                                                         *)
(* No instance of the name exists when the import begins (the caller       *)
(* passes no original name), so the branches that update one are unreached.*)
(***************************************************************************)
EXTENDS FiniteSets, Integers

CONSTANTS
    Files,          \* the files a pack may list
    Query,          \* the one request of a download that is not of files (no file)
    MaxTries,       \* bound: rounds of tries of a job after the first
    MaxCancels      \* bound: calls of auracore_cancel_task

VARIABLES
    pack,       \* what is imported: [local, format, files, gameFiles]; the last
                \* is the setting DownloadGameFilesDuringInstanceCreation
    import,     \* m_state of the InstanceImportTask
    stage,      \* the work under way
    job,        \* the NetJob of a stage in NetStages
    blocked,    \* files the platform gives no link for (Flame)
    mirrors,    \* files with an unused second link (Modrinth)
    got,        \* files of the pack in the staging directory
    cancels

importVars == <<pack, import, stage, job, blocked, mirrors, got, cancels>>

Formats == {"MultiMC", "Technic", "Flame", "Modrinth", "Unknown"}

NetStages == {"download", "ids", "alternatives", "projects", "mods", "versions", "metadata"}

NoJob == [queue |-> {}, active |-> {}, again |-> {}, lost |-> {}, tries |-> 0]

ImportInit ==
    /\ pack \in [local : BOOLEAN, format : Formats, files : {{}, Files}, gameFiles : BOOLEAN]
    /\ import = "Inactive" /\ stage = "start" /\ job = NoJob
    /\ blocked = {} /\ mirrors = {} /\ got = {}
    /\ cancels = 0

-----------------------------------------------------------------------------
(* What a step may lead to *)

(* The end of the creation and of the import, unless they had one before.   *)
(* InstanceStaging deletes the directory of an import that did not succeed. *)
ConcludeImport(s) ==
    /\ import' = IF import = "Running" THEN s ELSE import
    /\ got' = IF import = "Running" /\ s # "Succeeded" THEN {} ELSE got

GoOn == UNCHANGED <<import, got>>

(* A stage that is no download; a download of the requests in S.            *)
Enter(s) == stage' = s /\ job' = NoJob
Ask(s, S) == stage' = s /\ job' = [NoJob EXCEPT !.queue = S]

Fail == ConcludeImport("Failed") /\ Enter("none")

(* The end of finishInstall: the game's own files, if they are wanted.      *)
DownloadFiles ==
    IF pack.gameFiles THEN Enter("game") /\ GoOn
                      ELSE Enter("none") /\ ConcludeImport("Succeeded")

-----------------------------------------------------------------------------
(* The rounds of a NetJob *)

NothingActive == stage \in NetStages /\ job.active = {}

BeginQueued ==
    /\ stage \in NetStages
    /\ job.queue # {}
    /\ job' = [job EXCEPT !.active = @ \cup job.queue, !.queue = {}]
    /\ UNCHANGED <<pack, import, stage, blocked, mirrors, got, cancels>>

RoundOver == NothingActive /\ job.queue = {}

TryAgain ==
    /\ RoundOver
    /\ job.again # {} /\ job.tries < MaxTries
    /\ job' = [job EXCEPT !.active = job.again, !.again = {}, !.tries = @ + 1]
    /\ UNCHANGED <<pack, import, stage, blocked, mirrors, got, cancels>>

RequestSucceeds(r) ==
    /\ stage \in NetStages /\ r \in job.active
    /\ job' = [job EXCEPT !.active = @ \ {r}]
    /\ got' = IF stage = "mods" THEN got \cup {r} ELSE got
    /\ UNCHANGED <<pack, import, stage, blocked, mirrors, cancels>>

(* Mutated form of RequestFails: the request of the second link is not      *)
(* added to the job.                                                        *)
RequestFailsForGood(r) ==
    /\ stage \in NetStages /\ r \in job.active
    /\ IF r \in mirrors
       THEN /\ mirrors' = mirrors \ {r}
            /\ job' = [job EXCEPT !.active = @ \ {r}]
       ELSE /\ \/ job' = [job EXCEPT !.active = @ \ {r}, !.again = @ \cup {r}]
               \/ job' = [job EXCEPT !.active = @ \ {r}, !.lost = @ \cup {r}]
            /\ UNCHANGED mirrors
    /\ UNCHANGED <<pack, import, stage, blocked, got, cancels>>

(* Not found (404) is not tried again.  A file with a second link adds a    *)
(* request for that to the job and says itself that it succeeded.           *)
RequestFails(r) ==
    /\ stage \in NetStages /\ r \in job.active
    /\ IF r \in mirrors
       THEN /\ mirrors' = mirrors \ {r}
            /\ job' = [job EXCEPT !.active = @ \ {r}, !.queue = @ \cup {r}]
       ELSE /\ \/ job' = [job EXCEPT !.active = @ \ {r}, !.again = @ \cup {r}]
               \/ job' = [job EXCEPT !.active = @ \ {r}, !.lost = @ \cup {r}]
            /\ UNCHANGED mirrors
    /\ UNCHANGED <<pack, import, stage, blocked, got, cancels>>

(* The wakeup that finds the job of a stage done, for better or worse.      *)
JobSucceeded(s) == stage = s /\ RoundOver /\ job.again \cup job.lost = {}
JobFailed(s) ==
    /\ stage = s /\ RoundOver
    /\ job.again \cup job.lost # {}
    /\ job.again = {} \/ job.tries = MaxTries

-----------------------------------------------------------------------------
(* InstanceImportTask *)

(* processZipPack: the events served while the archive is listed find       *)
(* nothing of this task to act on, so the listing is one step.              *)
ProcessZipPack ==
    \/ Fail
    \/ pack.format # "Unknown" /\ Enter("extract") /\ GoOn

Begin ==
    /\ import = "Inactive"
    /\ got' = got
    /\ IF pack.local
       THEN \/ import' = "Failed" /\ Enter("none")
            \/ pack.format # "Unknown" /\ import' = "Running" /\ Enter("extract")
       ELSE import' = "Running" /\ Ask("download", {Query})
    /\ UNCHANGED <<pack, blocked, mirrors, cancels>>

Downloaded ==
    /\ \/ JobSucceeded("download") /\ ProcessZipPack
       \/ JobFailed("download") /\ Fail
    /\ UNCHANGED <<pack, blocked, mirrors, cancels>>

(* The thread of ExtractZipTask ends; the event loop hears of that; the     *)
(* success is passed on by one more event.                                  *)
ExtractionEnds ==
    /\ \/ stage = "extract" /\ stage' \in {"ended", "broken"}
       \/ stage = "cancelling" /\ stage' = "cancelled"
    /\ UNCHANGED <<pack, import, job, blocked, mirrors, got, cancels>>

ExtractionHeard ==
    /\ \/ stage = "ended" /\ Enter("extracted") /\ GoOn
       \/ stage = "broken" /\ Fail
       \/ stage = "cancelled" /\ ConcludeImport("Aborted") /\ Enter("none")
    /\ UNCHANGED <<pack, blocked, mirrors, cancels>>

(* FlameCreationTask::idResolverSucceeded and setupDownloadJob: a blocked   *)
(* file is left out (no local copy is ever matched).                        *)
DownloadMods == Ask("mods", pack.files \ blocked) /\ GoOn

ResolveFiles == IF pack.files = {} THEN DownloadMods ELSE Ask("ids", {Query}) /\ GoOn

(* FlameCreationTask::createInstance; a recommended loader needs the list   *)
(* of its versions, for which the call waits in an event loop of its own.   *)
CreateFlame == Fail \/ (Enter("loader") /\ GoOn) \/ ResolveFiles

(* ModrinthCreationTask::createInstance, with any files having a mirror.    *)
CreateModrinth ==
    \/ Fail /\ UNCHANGED mirrors
    \/ mirrors' \in SUBSET pack.files /\ Ask("mods", pack.files) /\ GoOn

(* The other kinds are done in one go. *)
ProcessMultiMC == ConcludeImport("Succeeded") /\ Enter("none")
ProcessTechnic == Fail \/ (ConcludeImport("Succeeded") /\ Enter("none"))

ExtractFinished ==
    /\ stage = "extracted"
    /\ \/ pack.format = "MultiMC" /\ ProcessMultiMC /\ UNCHANGED mirrors
       \/ pack.format = "Technic" /\ ProcessTechnic /\ UNCHANGED mirrors
       \/ pack.format = "Flame" /\ CreateFlame /\ UNCHANGED mirrors
       \/ pack.format = "Modrinth" /\ CreateModrinth
    /\ UNCHANGED <<pack, blocked, cancels>>

-----------------------------------------------------------------------------
(* FlameCreationTask and its FileResolvingTask *)

LoaderListed ==
    /\ stage = "loader"
    /\ Fail \/ ResolveFiles
    /\ UNCHANGED <<pack, blocked, mirrors, cancels>>

(* The answer names the files without a link; when their hashes are known   *)
(* the other platform is asked for them.                                    *)
IdsAnswered ==
    /\ \/ JobFailed("ids") /\ Fail /\ UNCHANGED blocked
       \/ JobSucceeded("ids") /\ Fail /\ UNCHANGED blocked
       \/ /\ JobSucceeded("ids")
          /\ blocked' \in SUBSET pack.files
          /\ \/ Ask("projects", {Query})
             \/ blocked' # {} /\ Ask("alternatives", {Query})
          /\ GoOn
    /\ UNCHANGED <<pack, mirrors, cancels>>

AlternativesAnswered ==
    /\ \/ JobFailed("alternatives") /\ UNCHANGED blocked
       \/ JobSucceeded("alternatives") /\ blocked' \in SUBSET blocked
    /\ Ask("projects", {Query})
    /\ UNCHANGED <<pack, import, mirrors, got, cancels>>

(* An answer that cannot be read is dropped: nothing concludes the task.    *)
ProjectsAnswered ==
    /\ \/ JobFailed("projects") /\ Fail
       \/ JobSucceeded("projects") /\ DownloadMods
       \/ JobSucceeded("projects") /\ Enter("hung") /\ GoOn
    /\ UNCHANGED <<pack, blocked, mirrors, cancels>>

(* finished() follows failed(): validateOtherResources and the index of the *)
(* mods are begun in either case.                                           *)
FlameModsDownloaded ==
    /\ pack.format = "Flame"
    /\ \/ JobFailed("mods") /\ ConcludeImport("Failed")
       \/ JobSucceeded("mods") /\ GoOn
    /\ Enter("index")
    /\ UNCHANGED <<pack, blocked, mirrors, cancels>>

(* The pool that writes the index has ended, in whatever way.               *)
IndexFinished ==
    /\ stage = "index"
    /\ DownloadFiles
    /\ UNCHANGED <<pack, blocked, mirrors, cancels>>

-----------------------------------------------------------------------------
(* ModrinthCreationTask and its EnsureMetadataTask *)

ModrinthModsDownloaded ==
    /\ pack.format = "Modrinth"
    /\ \/ JobFailed("mods") /\ Fail
       \/ JobSucceeded("mods") /\ Ask("versions", {Query}) /\ GoOn
    /\ UNCHANGED <<pack, blocked, mirrors, cancels>>

(* The versions of the mods.  Without an answer, or with no mod in it, the  *)
(* metadata is given up and the installation finished.                      *)
VersionsAnswered ==
    /\ \/ JobFailed("versions") /\ DownloadFiles
       \/ JobSucceeded("versions") /\ DownloadFiles
       \/ JobSucceeded("versions") /\ Ask("metadata", {Query}) /\ GoOn
    /\ UNCHANGED <<pack, blocked, mirrors, cancels>>

(* An answer that cannot be read emits failed() and then goes on as if      *)
(* there were no mod in it.                                                 *)
VersionsUnreadable ==
    /\ JobSucceeded("versions")
    /\ ConcludeImport("Failed")
    /\ Enter(IF pack.gameFiles THEN "game" ELSE "none")
    /\ UNCHANGED <<pack, blocked, mirrors, cancels>>

MetadataAnswered ==
    /\ \/ JobFailed("metadata") /\ Fail
       \/ JobSucceeded("metadata") /\ DownloadFiles
    /\ UNCHANGED <<pack, blocked, mirrors, cancels>>

(* The download of the game's own files decides nothing.                    *)
GameFilesFinished ==
    /\ stage = "game"
    /\ ConcludeImport("Succeeded") /\ Enter("none")
    /\ UNCHANGED <<pack, blocked, mirrors, cancels>>

-----------------------------------------------------------------------------
(* abort(), of whatever task the chain of tasks leads to *)

(* NetJob::abort with nothing active: true is returned, the queued requests *)
(* count as failed, and the queued wakeup tries them again.                 *)
DropQueue == job' = [job EXCEPT !.queue = {}, !.again = @ \cup job.queue]

CancelDownload ==
    /\ stage = "download"
    /\ IF job.active = {} THEN DropQueue /\ GoOn /\ UNCHANGED stage
                          ELSE ConcludeImport("Aborted") /\ Enter("none")

CancelExtraction ==
    /\ stage = "extract"
    /\ stage' = "cancelling" /\ GoOn /\ UNCHANGED job

(* canAbort() of the creation is set by copyBlockedMods and by              *)
(* downloadFiles only.                                                      *)
FlameMayAbort ==
    /\ pack.format = "Flame"
    /\ stage = "game" \/ (stage \in {"mods", "index"} /\ blocked # {})

(* The downloads end, which begins the index, and then the task.  The pool  *)
(* of the index ends, which finishes the installation before the task can   *)
(* be aborted; a pool that had not begun is found done once more.  It also  *)
(* ends once more when the game's files are skipped: they are downloaded a  *)
(* second time and that download is skipped, the first goes on.             *)
CancelFlame ==
    /\ FlameMayAbort
    /\ \/ /\ stage = "mods"
          /\ IF job.active = {} THEN DropQueue /\ UNCHANGED stage ELSE Enter("index")
          /\ ConcludeImport("Aborted")
       \/ /\ stage = "index"
          /\ stage' \in {"none", "index"} /\ UNCHANGED job
          /\ ConcludeImport("Succeeded")
       \/ stage = "game" /\ ConcludeImport("Succeeded") /\ UNCHANGED <<stage, job>>

(* EnsureMetadataTask::abort cuts its own signals first: only the abort of  *)
(* the creation itself, after it, is heard.                                 *)
CancelModrinth ==
    /\ pack.format = "Modrinth"
    /\ \/ /\ stage = "mods"
          /\ IF job.active = {} THEN DropQueue /\ UNCHANGED stage ELSE Enter("none")
          /\ ConcludeImport("Aborted")
       \/ stage \in {"versions", "metadata"} /\ ConcludeImport("Aborted") /\ Enter("none")
       \/ stage = "game" /\ ConcludeImport("Succeeded") /\ Enter("none")

Cancel ==
    /\ cancels < MaxCancels
    /\ cancels' = cancels + 1
    /\ CancelDownload \/ CancelExtraction \/ CancelFlame \/ CancelModrinth
    /\ UNCHANGED <<pack, blocked, mirrors>>

-----------------------------------------------------------------------------
RequestEnds == \E r \in Files \cup {Query} : RequestSucceeds(r) \/ RequestFails(r)

ImportWorks ==
    \/ Begin \/ BeginQueued \/ TryAgain \/ RequestEnds
    \/ Downloaded \/ ExtractionEnds \/ ExtractionHeard \/ ExtractFinished
    \/ LoaderListed \/ IdsAnswered \/ AlternativesAnswered \/ ProjectsAnswered
    \/ FlameModsDownloaded \/ IndexFinished
    \/ ModrinthModsDownloaded \/ VersionsAnswered \/ VersionsUnreadable \/ MetadataAnswered
    \/ GameFilesFinished

ImportNext == ImportWorks \/ Cancel

ImportSpec == ImportInit /\ [][ImportNext]_importVars

-----------------------------------------------------------------------------
(* Properties *)

(* An import that succeeds has every file of the pack that can be had, with *)
(* retries, second links and aborts in between.                             *)
ImportIsWhole ==
    import = "Succeeded" /\ pack.format \in {"Flame", "Modrinth"} =>
        pack.files \ blocked \subseteq got

(* At work, and not waiting for good after an answer that cannot be read.   *)
ImportAtWork == import = "Running" /\ stage # "hung"
=============================================================================
