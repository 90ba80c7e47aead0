---------------------------- MODULE Request_proofs ----------------------------
(***************************************************************************)
(* Theorems about Request, for any bounds on redirects and retries and any *)
(* options of a request; and about PackImport, for any pack, any number of *)
(* retries and cancellations.                                              *)
(***************************************************************************)
EXTENDS Request, PackImport, Components, WellFoundedInduction, TLAPS

States == {"Inactive", "Running", "Succeeded", "Failed", "AbortedByUser"}
UnderWay == reply \in {"open", "errored"}

RequestTyped ==
    /\ signals \in Seq(Endings) /\ starts \in Nat /\ replies \in Nat
    /\ timer \in BOOLEAN /\ requestState \in States
    /\ reply \in {"none", "open", "errored", "finished"}

(* Each start but the last has had its one signal, and so has the last when *)
(* nothing of it is under way.                                              *)
OneSignal ==
    /\ Len(signals) <= starts /\ starts <= Len(signals) + 1
    /\ UnderWay \/ timer => starts = Len(signals) + 1

(* While a reply is under way no abort has been seen, and the temporary     *)
(* file of a request that goes well has the data of that reply only.        *)
DataIsOfReply ==
    UnderWay => /\ requestState \in {"Running", "Succeeded", "Failed"}
                /\ requestState = "Running" => temp \in {{}, {replies}}

RequestInv == RequestTyped /\ OneSignal /\ DataIsOfReply /\ SignalMatchesState /\ FileIsOneReply

LEMMA RequestInitHolds == RequestInit => RequestInv
<1> SUFFICES ASSUME RequestInit PROVE RequestInv
  OBVIOUS
<1>1. signals \in Seq(Endings) /\ starts = 0 /\ replies = 0 /\ timer = FALSE /\ requestState = "Inactive" /\ reply = "none"
  BY DEF RequestInit
<1>2. RequestTyped
  BY <1>1 DEF RequestTyped, States
<1> QED
  BY <1>2 DEF RequestInit, RequestInv, OneSignal, DataIsOfReply, UnderWay, SignalMatchesState, FileIsOneReply, OldFile

(* The target stays in order as long as it is left alone.                   *)
LEMMA FileStays ==
    ASSUME FileIsOneReply, file' = file, sound \subseteq sound' PROVE FileIsOneReply'
BY DEF FileIsOneReply, OldFile

(* A start that goes on, with the request unanswered, is without a signal.  *)
LEMMA GoingOnKeeps ==
    ASSUME RequestTyped, RequestTyped', signals' = signals, starts' = Len(signals) + 1,
           DataIsOfReply', FileIsOneReply'
    PROVE  RequestInv'
<1>1. Len(signals') \in Nat /\ starts' = Len(signals') + 1
  BY DEF RequestTyped
<1>2. OneSignal'
  BY <1>1 DEF OneSignal
<1>3. ~Concluded'
  BY <1>1 DEF Concluded
<1> QED
  BY <1>2, <1>3 DEF RequestInv, SignalMatchesState

(* A signal that is the last thing to happen, with the state that goes with *)
(* it.                                                                      *)
LEMMA SignalKeeps ==
    ASSUME RequestTyped, starts' = Len(signals) + 1, NEW signal \in Endings, Say(signal),
           reply' \in {"none", "finished"}, ~timer', timer' \in BOOLEAN, replies' \in Nat,
           requestState' \in States, FileIsOneReply',
           \/ signal = "succeeded" /\ requestState' = "Succeeded"
           \/ signal = "failed" /\ requestState' = "Failed"
           \/ signal = "aborted" /\ requestState' = "AbortedByUser"
           \/ signal = "failed" /\ requestState' = "Running" /\ replies' \in sound'
    PROVE  RequestInv'
<1>1. /\ signals' \in Seq(Endings) /\ Len(signals') = Len(signals) + 1 /\ Len(signals) \in Nat
      /\ signals'[Len(signals) + 1] = signal
  BY DEF Say, RequestTyped
<1>2. RequestTyped'
  BY <1>1 DEF RequestTyped
<1>3. OneSignal' /\ DataIsOfReply'
  BY <1>1 DEF OneSignal, DataIsOfReply, UnderWay
<1>4. signals'[starts'] = signal
  BY <1>1
<1>5. SignalMatchesState'
  BY <1>4 DEF SignalMatchesState, Endings
<1> QED
  BY <1>2, <1>3, <1>5 DEF RequestInv

(* executeTask, for a start that has no signal yet.                         *)
LEMMA ExecuteTaskKeeps ==
    ASSUME RequestInv, ExecuteTask, starts' = Len(signals) + 1, timer' = FALSE, UNCHANGED sound
    PROVE  RequestInv'
<1>1. RequestTyped /\ FileIsOneReply /\ Len(signals) \in Nat
  BY DEF RequestInv, RequestTyped
<1>2. file' = file /\ FileIsOneReply'
  BY <1>1, FileStays DEF ExecuteTask, Send, CacheHit, SinkRefuses, target
<1>3. CASE Send
  <2>1. RequestTyped'
    <3>1. starts' \in Nat /\ replies' \in Nat /\ signals' \in Seq(Endings)
      BY <1>1, <1>3 DEF Send, RequestTyped
    <3> QED
      BY <1>3, <3>1 DEF Send, RequestTyped, States
  <2>2. DataIsOfReply' /\ signals' = signals
    BY <1>3 DEF Send, DataIsOfReply
  <2> QED
    BY <1>1, <1>2, <2>1, <2>2, GoingOnKeeps
<1>4. CASE CacheHit
  <2>1. /\ requestState' = "Succeeded" /\ Say("succeeded") /\ reply' \in {"none", "finished"} /\ replies' \in Nat
        /\ "succeeded" \in Endings /\ requestState' \in States
    BY <1>1, <1>4 DEF CacheHit, Ended, RequestTyped, Endings, States
  <2> QED
    BY <1>1, <1>2, <2>1, SignalKeeps
<1>5. CASE SinkRefuses
  <2>1. /\ requestState' = "Failed" /\ Say("failed") /\ reply' \in {"none", "finished"} /\ replies' \in Nat
        /\ "failed" \in Endings /\ requestState' \in States
    BY <1>1, <1>5 DEF SinkRefuses, Ended, RequestTyped, Endings, States
  <2> QED
    BY <1>1, <1>2, <2>1, SignalKeeps
<1> QED
  BY <1>3, <1>4, <1>5 DEF ExecuteTask

LEMMA StartKeeps == RequestInv /\ StartTransfer => RequestInv'
<1> SUFFICES ASSUME RequestInv, StartTransfer PROVE RequestInv'
  OBVIOUS
<1>1. ExecuteTask /\ starts' = starts + 1 /\ timer' = timer /\ UNCHANGED sound /\ Concluded
  BY DEF StartTransfer, transfer
<1>2. starts = Len(signals) /\ timer = FALSE
  BY <1>1 DEF RequestInv, RequestTyped, OneSignal, Concluded
<1> QED
  BY <1>1, <1>2, ExecuteTaskKeeps

LEMMA RetryTimeoutKeeps == RequestInv /\ RetryTimeout => RequestInv'
<1> SUFFICES ASSUME RequestInv, RetryTimeout PROVE RequestInv'
  OBVIOUS
<1>1. ExecuteTask /\ starts' = starts /\ timer /\ timer' = FALSE /\ UNCHANGED sound
  BY DEF RetryTimeout
<1>2. starts = Len(signals) + 1
  BY <1>1 DEF RequestInv, OneSignal
<1> QED
  BY <1>1, <1>2, ExecuteTaskKeeps

LEMMA ReadyReadKeeps == RequestInv /\ ReadyRead => RequestInv'
<1> SUFFICES ASSUME RequestInv, ReadyRead PROVE RequestInv'
  OBVIOUS
<1>1. /\ reply = "open" /\ requestState = "Running" /\ SinkWrites
      /\ UNCHANGED <<reply, timer, file, signals, replies, sound, starts>>
  BY DEF ReadyRead, transfer
<1>2. RequestTyped /\ starts' = Len(signals) + 1 /\ temp \in {{}, {replies}} /\ FileIsOneReply
  BY <1>1 DEF RequestInv, OneSignal, DataIsOfReply, UnderWay
<1>3. RequestTyped'
  BY <1>1, <1>2 DEF SinkWrites, RequestTyped, States
<1>4. DataIsOfReply'
  <2>1. CASE temp' = temp \cup {replies} /\ UNCHANGED requestState
    <3>1. temp' = {replies}
      BY <1>2, <2>1
    <3> QED
      BY <1>1, <2>1, <3>1 DEF DataIsOfReply
  <2>2. CASE requestState' = "Failed"
    BY <2>2 DEF DataIsOfReply
  <2> QED
    BY <1>1, <2>1, <2>2 DEF SinkWrites
<1> QED
  BY <1>1, <1>2, <1>3, <1>4, FileStays, GoingOnKeeps

LEMMA ReplyErrorKeeps == RequestInv /\ ReplyError => RequestInv'
<1> SUFFICES ASSUME RequestInv, ReplyError PROVE RequestInv'
  OBVIOUS
<1>1. /\ reply = "open" /\ reply' = "errored" /\ requestState' \in {requestState, "Failed", "Succeeded"}
      /\ timer' \in {timer, TRUE} /\ UNCHANGED <<temp, file, signals, replies, sound, starts>>
  BY DEF ReplyError, RateLimited, ErrorState, target
<1>2. RequestTyped /\ starts' = Len(signals) + 1 /\ FileIsOneReply
  BY <1>1 DEF RequestInv, OneSignal, UnderWay
<1>3. RequestTyped'
  BY <1>1, <1>2 DEF RequestTyped, States
<1>4. DataIsOfReply'
  BY <1>1 DEF RequestInv, DataIsOfReply, UnderWay
<1> QED
  BY <1>1, <1>2, <1>3, <1>4, FileStays, GoingOnKeeps

(* A Location header that cannot be parsed, in whatever handler.            *)
LEMMA BadRedirectKeeps ==
    ASSUME RequestInv, starts' = Len(signals) + 1, BadRedirect, reply' = "finished", timer' = FALSE,
           UNCHANGED <<file, replies, sound>>
    PROVE  RequestInv'
<1>1. RequestTyped /\ FileIsOneReply' /\ replies' \in Nat
  BY FileStays DEF RequestInv, RequestTyped
<1>2. requestState' \in {"Failed", "Succeeded"} /\ Say(IF requestState' = "Succeeded" THEN "succeeded" ELSE "failed")
  BY DEF BadRedirect, ErrorState
<1>3. CASE requestState' = "Succeeded"
  BY <1>1, <1>2, <1>3, SignalKeeps DEF Endings, States
<1>4. CASE requestState' = "Failed"
  BY <1>1, <1>2, <1>4, SignalKeeps DEF Endings, States
<1> QED
  BY <1>2, <1>3, <1>4

LEMMA FollowRedirectKeeps ==
    ASSUME RequestInv, UnderWay, starts' = Len(signals) + 1, FollowRedirect, timer' = FALSE
    PROVE  RequestInv'
<1>1. UNCHANGED sound /\ (TooManyRedirects \/ ExecuteTask)
  BY DEF FollowRedirect
<1>2. CASE ExecuteTask
  BY <1>1, <1>2, ExecuteTaskKeeps
<1>3. CASE TooManyRedirects
  <2>1. RequestTyped /\ FileIsOneReply' /\ replies' \in Nat /\ reply' = "finished"
    BY <1>1, <1>3, FileStays DEF RequestInv, RequestTyped, TooManyRedirects
  <2>2. CASE requestState' = "Failed" /\ Say("failed")
    BY <2>1, <2>2, SignalKeeps DEF Endings, States
  <2>3. CASE UNCHANGED <<requestState, signals>>
    <3>1. Len(signals) + 1 \in Nat /\ requestState \in States /\ signals \in Seq(Endings)
      BY <2>1 DEF RequestTyped
    <3>2. RequestTyped'
      BY <2>1, <2>3, <3>1 DEF RequestTyped
    <3>3. DataIsOfReply'
      BY <2>1 DEF DataIsOfReply, UnderWay
    <3> QED
      BY <2>1, <2>3, <3>2, <3>3, GoingOnKeeps
  <2> QED
    BY <1>3, <2>2, <2>3 DEF TooManyRedirects
<1> QED
  BY <1>1, <1>2, <1>3

LEMMA SettledKeeps ==
    ASSUME RequestInv, UnderWay, starts' = Len(signals) + 1, Settled, timer' = FALSE
    PROVE  RequestInv'
<1>1. /\ RequestTyped /\ FileIsOneReply' /\ replies' \in Nat /\ reply' = "finished" /\ requestState' = requestState
      /\ requestState \in {"Succeeded", "Failed"}
      /\ Say(CASE requestState = "Succeeded" -> "succeeded" [] requestState = "Failed" -> "failed" [] OTHER -> "aborted")
  BY FileStays DEF RequestInv, RequestTyped, DataIsOfReply, Settled
<1>2. CASE requestState = "Succeeded" /\ Say("succeeded")
  BY <1>1, <1>2, SignalKeeps DEF Endings, States
<1>3. CASE requestState = "Failed" /\ Say("failed")
  BY <1>1, <1>3, SignalKeeps DEF Endings, States
<1> QED
  BY <1>1, <1>2, <1>3

LEMMA WriteRestKeeps ==
    ASSUME RequestInv, starts' = Len(signals) + 1, WriteRest, timer' = FALSE
    PROVE  RequestInv'
<1>1. /\ RequestTyped /\ FileIsOneReply' /\ replies' \in Nat /\ reply' = "finished"
      /\ replies' \in sound' /\ requestState' \in {"Running", "Failed"} /\ Say("failed")
  BY FileStays DEF RequestInv, RequestTyped, WriteRest
<1> QED
  BY <1>1, SignalKeeps DEF Endings, States

LEMMA FinalizeKeeps ==
    ASSUME RequestInv, UnderWay, starts' = Len(signals) + 1, Finalize, timer' = FALSE
    PROVE  RequestInv'
<1>1. /\ RequestTyped /\ replies' \in Nat /\ reply' = "finished" /\ replies' = replies
      /\ temp \in {{}, {replies}} /\ FileIsOneReply
  BY DEF RequestInv, RequestTyped, DataIsOfReply, Finalize
<1>2. FileIsOneReply'
  <2>1. CASE file' = temp /\ sound' = sound \cup {replies}
    BY <1>1, <2>1 DEF FileIsOneReply
  <2>2. CASE UNCHANGED <<file, sound>>
    BY <1>1, <2>2, FileStays
  <2> QED
    BY <2>1, <2>2 DEF Finalize
<1>3. (requestState' = "Succeeded" /\ Say("succeeded")) \/ (requestState' = "Failed" /\ Say("failed"))
  BY DEF Finalize
<1> QED
  BY <1>1, <1>2, <1>3, SignalKeeps DEF Endings, States

LEMMA ReplyFinishedKeeps == RequestInv /\ ReplyFinished => RequestInv'
<1> SUFFICES ASSUME RequestInv, ReplyFinished PROVE RequestInv'
  OBVIOUS
<1>1. UnderWay /\ starts' = starts /\ starts = Len(signals) + 1 /\ RequestTyped
  BY DEF ReplyFinished, UnderWay, RequestInv, OneSignal
<1>2. CASE timer
  <2>1. reply' = "finished" /\ UNCHANGED <<requestState, timer, signals, replies, sound, file>>
    BY <1>2 DEF ReplyFinished, target
  <2>2. RequestTyped'
    BY <1>1, <2>1 DEF RequestTyped
  <2>3. DataIsOfReply' /\ FileIsOneReply'
    BY <2>1, FileStays DEF DataIsOfReply, UnderWay, RequestInv
  <2> QED
    BY <1>1, <2>1, <2>2, <2>3, GoingOnKeeps
<1>3. CASE ~timer
  <2>1. DownloadFinished /\ timer' = FALSE
    BY <1>1, <1>3 DEF ReplyFinished, RequestTyped
  <2> QED
    BY <1>1, <2>1, FollowRedirectKeeps, BadRedirectKeeps, SettledKeeps, WriteRestKeeps, FinalizeKeeps
       DEF DownloadFinished
<1> QED
  BY <1>2, <1>3

LEMMA AbortKeeps == RequestInv /\ AbortRequest => RequestInv'
<1> SUFFICES ASSUME RequestInv, AbortRequest PROVE RequestInv'
  OBVIOUS
<1>1. /\ timer' = FALSE /\ starts' = Len(signals) + 1 /\ UNCHANGED <<file, replies, sound>>
      /\ RequestTyped /\ FileIsOneReply' /\ replies' \in Nat
  BY FileStays DEF AbortRequest, RequestInv, RequestTyped, OneSignal, Concluded
<1>2. CASE reply' = "finished" /\ requestState' = "AbortedByUser" /\ Say("aborted")
  BY <1>1, <1>2, SignalKeeps DEF Endings, States
<1>3. CASE reply' = "finished" /\ BadRedirect
  BY <1>1, <1>3, BadRedirectKeeps
<1>4. CASE reply' = "finished" /\ requestState' = "AbortedByUser" /\ UNCHANGED signals
  <2>1. RequestTyped'
    <3>1. Len(signals) + 1 \in Nat /\ signals \in Seq(Endings)
      BY <1>1 DEF RequestTyped
    <3> QED
      BY <1>1, <1>4, <3>1 DEF RequestTyped, States
  <2>2. DataIsOfReply'
    BY <1>4 DEF DataIsOfReply, UnderWay
  <2> QED
    BY <1>1, <1>4, <2>1, <2>2, GoingOnKeeps
<1> QED
  BY <1>2, <1>3, <1>4 DEF AbortRequest, AbortReply

LEMMA RequestStepKeeps == RequestInv /\ [RequestNext]_requestVars => RequestInv'
<1>1. RequestInv /\ UNCHANGED requestVars => RequestInv'
  <2> SUFFICES ASSUME RequestInv, UNCHANGED requestVars PROVE RequestInv'
    OBVIOUS
  <2>1. UNCHANGED <<requestState, reply, timer, temp, file, signals, replies, sound, starts>>
    BY DEF requestVars
  <2>2. RequestTyped' /\ OneSignal' /\ DataIsOfReply'
    BY <2>1 DEF RequestInv, RequestTyped, OneSignal, DataIsOfReply, UnderWay
  <2>3. SignalMatchesState' /\ FileIsOneReply'
    BY <2>1 DEF RequestInv, SignalMatchesState, Concluded, FileIsOneReply
  <2> QED
    BY <2>2, <2>3 DEF RequestInv
<1> QED
  BY <1>1, StartKeeps, RetryTimeoutKeeps, ReadyReadKeeps, ReplyErrorKeeps, ReplyFinishedKeeps, AbortKeeps
     DEF RequestNext

(* Every start of a request ends in at most one of its signals, with no     *)
(* reply and no retry under way behind it and in the state the signal says, *)
(* however often it is redirected, rate limited, aborted or started again.  *)
THEOREM RequestEndsOnce == RequestSpec => []EndsOnce
<1>1. RequestInv => EndsOnce
  BY DEF RequestInv, OneSignal, RequestTyped, UnderWay, EndsOnce, ConcludesOnce, Concluded
<1> QED
  BY <1>1, RequestInitHolds, RequestStepKeeps, PTL DEF RequestSpec

(* The target file is what it was before, or the data of one reply that     *)
(* ended well: no data of two replies, or of one that failed, gets there.   *)
THEOREM TargetIsOneReply == RequestSpec => []FileIsOneReply
<1>1. RequestInv => FileIsOneReply
  BY DEF RequestInv
<1> QED
  BY <1>1, RequestInitHolds, RequestStepKeeps, PTL DEF RequestSpec
-----------------------------------------------------------------------------
(* The import of a pack. *)

Requests == Files \cup {Query}
Jobs == [queue : SUBSET Requests, active : SUBSET Requests, again : SUBSET Requests,
         lost : SUBSET Requests, tries : Nat]

(* Before its files are downloaded a pack's import is under way: only then  *)
(* does it become known which files are blocked.                            *)
Early == {"download", "extract", "ended", "broken", "extracted", "loader",
          "ids", "alternatives", "projects"}

(* After them an import that is under way has them all.                     *)
Late == {"index", "versions", "metadata", "game"}

Expected == pack.files \ blocked
Asked == job.queue \cup job.active \cup job.again \cup job.lost

ImportTyped ==
    /\ pack \in [local : BOOLEAN, format : Formats, files : SUBSET Files, gameFiles : BOOLEAN]
    /\ job \in Jobs

(* With ImportIsWhole goes what holds on the way: a file of the pack is     *)
(* there or its request is somewhere in the job, until the job is done.     *)
ImportInv ==
    /\ ImportTyped
    /\ stage \in Early => import = "Running"
    /\ stage = "mods" => import # "Succeeded"
    /\ stage = "mods" /\ import = "Running" => Expected \subseteq got \cup Asked
    /\ stage \in Late /\ import = "Running" => Expected \subseteq got
    /\ ImportIsWhole

LEMMA ImportInitHolds == ImportInit => ImportInv
BY DEF ImportInit, ImportInv, ImportTyped, Jobs, NoJob, Early, Late, ImportIsWhole, Formats

LEMMA AskedJob ==
    ASSUME NEW S \in SUBSET Requests
    PROVE  /\ NoJob \in Jobs /\ [NoJob EXCEPT !.queue = S] \in Jobs
           /\ [NoJob EXCEPT !.queue = S].queue = S
BY DEF Jobs, NoJob

(* A step that ends the import for the worse, or that does so if it is      *)
(* still under way, has nothing left to keep.                               *)
LEMMA FailureKeeps ==
    ASSUME ImportInv, NEW s \in {"Failed", "Aborted"}, ConcludeImport(s),
           UNCHANGED <<pack, blocked>>, job' \in Jobs, stage' \notin Early, stage' = "mods" => stage = "mods"
    PROVE  ImportInv'
<1>1. import' # "Running"
  BY DEF ConcludeImport
<1>2. stage' = "mods" => import' # "Succeeded"
  BY DEF ConcludeImport, ImportInv
<1> QED
  BY <1>1, <1>2 DEF ConcludeImport, ImportInv, ImportTyped, ImportIsWhole, Expected

LEMMA FailKeeps ==
    ASSUME ImportInv, Fail, UNCHANGED <<pack, blocked>>
    PROVE  ImportInv'
BY FailureKeeps, AskedJob DEF Fail, Enter, Early

(* What is left when the files are there: the game's own, or nothing.       *)
LEMMA SuccessKeeps ==
    ASSUME ImportInv, ConcludeImport("Succeeded"), UNCHANGED <<pack, blocked>>, job' \in Jobs,
           stage \in Late, stage' \in {"none", "index", "game"}
    PROVE  ImportInv'
BY DEF ConcludeImport, ImportInv, ImportTyped, ImportIsWhole, Expected, Early, Late

LEMMA DownloadFilesKeeps ==
    ASSUME ImportInv, DownloadFiles, stage \in Late, UNCHANGED <<pack, blocked>>
    PROVE  ImportInv'
<1>1. CASE pack.gameFiles
  BY <1>1, AskedJob DEF DownloadFiles, Enter, GoOn, ImportInv, ImportTyped, ImportIsWhole, Expected, Early, Late
<1>2. CASE ~pack.gameFiles
  BY <1>2, AskedJob, SuccessKeeps DEF DownloadFiles, Enter
<1> QED
  BY <1>1, <1>2

(* An early stage leads to another.                                         *)
LEMMA EarlyKeeps ==
    ASSUME ImportInv, stage \in Early, GoOn, UNCHANGED pack, job' \in Jobs,
           stage' \in Early \cup {"cancelling", "cancelled", "hung"}
    PROVE  ImportInv'
BY DEF GoOn, ImportInv, ImportTyped, ImportIsWhole, Early, Late

(* The job of the files asks for each of them.                              *)
LEMMA AskForFilesKeeps ==
    ASSUME ImportInv, stage \in Early, GoOn, UNCHANGED <<pack, blocked>>,
           NEW S, Ask("mods", S), Expected \subseteq S, S \subseteq Files
    PROVE  ImportInv'
<1>1. job' \in Jobs /\ job'.queue = S
  BY AskedJob DEF Ask, Requests
<1>2. Expected' \subseteq got' \cup Asked'
  BY <1>1 DEF Asked, Expected
<1> QED
  BY <1>1, <1>2 DEF Ask, GoOn, ImportInv, ImportTyped, ImportIsWhole, Early, Late

-----------------------------------------------------------------------------
(* The requests of a job: none is ever forgotten.                           *)

LEMMA JobStaysKeeps ==
    ASSUME ImportInv, UNCHANGED <<pack, import, stage, blocked>>, job' \in Jobs,
           got \subseteq got', got \cup Asked \subseteq got' \cup Asked'
    PROVE  ImportInv'
BY DEF ImportInv, ImportTyped, ImportIsWhole, Expected

LEMMA JobFields ==
    ASSUME NEW j \in Jobs
    PROVE  /\ j.queue \in SUBSET Requests /\ j.active \in SUBSET Requests
           /\ j.again \in SUBSET Requests /\ j.lost \in SUBSET Requests /\ j.tries \in Nat
BY DEF Jobs

LEMMA RoundsKeep ==
    ASSUME ImportInv, BeginQueued \/ TryAgain
    PROVE  ImportInv'
<1>1. job \in Jobs
  BY DEF ImportInv, ImportTyped
<1>2. CASE BeginQueued
  BY <1>1, <1>2, JobStaysKeeps DEF BeginQueued, Asked, Jobs
<1>3. CASE TryAgain
  <2>1. job'.active = job.again /\ job'.again = {} /\ job'.queue = job.queue /\ job'.lost = job.lost
        /\ job.active = {} /\ job' \in Jobs
    <3>1. job' = [job EXCEPT !.active = job.again, !.again = {}, !.tries = @ + 1] /\ job.active = {}
      BY <1>3 DEF TryAgain, RoundOver, NothingActive
    <3>2. job' = [queue |-> job.queue, active |-> job.again, again |-> {}, lost |-> job.lost,
                  tries |-> job.tries + 1]
      BY <1>1, <3>1 DEF Jobs
    <3> QED
      BY <1>1, <3>1, <3>2 DEF Jobs
  <2>2. Asked \subseteq Asked'
    BY <2>1 DEF Asked
  <2> QED
    BY <1>3, <2>1, <2>2, JobStaysKeeps DEF TryAgain
<1> QED
  BY <1>2, <1>3

LEMMA RequestEndsKeeps ==
    ASSUME ImportInv, RequestEnds
    PROVE  ImportInv'
<1>1. PICK r \in Requests : RequestSucceeds(r) \/ RequestFails(r)
  BY DEF RequestEnds, Requests
<1>2. job \in Jobs
  BY DEF ImportInv, ImportTyped
<1>3. CASE RequestSucceeds(r)
  <2>1. job' \in Jobs /\ Asked \subseteq Asked' \cup {r}
    BY <1>2, <1>3 DEF RequestSucceeds, Asked, Jobs
  <2>2. CASE stage = "mods"
    BY <1>3, <2>1, <2>2, JobStaysKeeps DEF RequestSucceeds
  <2>3. CASE stage # "mods"
    BY <1>3, <2>1, <2>3 DEF RequestSucceeds, ImportInv, ImportTyped, ImportIsWhole, Expected
  <2> QED
    BY <2>2, <2>3
<1>4. CASE RequestFails(r)
  <2>1. job' \in Jobs /\ Asked \subseteq Asked'
    <3>1. CASE job' = [job EXCEPT !.active = @ \ {r}, !.queue = @ \cup {r}]
      BY <1>2, <3>1 DEF Asked, Jobs
    <3>2. CASE job' = [job EXCEPT !.active = @ \ {r}, !.again = @ \cup {r}]
      BY <1>2, <3>2 DEF Asked, Jobs
    <3>3. CASE job' = [job EXCEPT !.active = @ \ {r}, !.lost = @ \cup {r}]
      BY <1>2, <3>3 DEF Asked, Jobs
    <3> QED
      BY <1>4, <3>1, <3>2, <3>3 DEF RequestFails
  <2> QED
    BY <1>4, <2>1, JobStaysKeeps DEF RequestFails
<1> QED
  BY <1>1, <1>3, <1>4

(* A job of the files that has succeeded has fetched them.                  *)
LEMMA SuccessfulJob ==
    ASSUME ImportInv, JobSucceeded("mods"), import = "Running"
    PROVE  Expected \subseteq got
BY DEF JobSucceeded, RoundOver, NothingActive, ImportInv, Asked

LEMMA DropQueueKeeps ==
    ASSUME ImportInv, DropQueue
    PROVE  job' \in Jobs /\ Asked \subseteq Asked'
BY DEF DropQueue, ImportInv, ImportTyped, Asked, Jobs

-----------------------------------------------------------------------------
(* The stages *)

LEMMA BeginKeepsImport ==
    ASSUME ImportInv, Begin
    PROVE  ImportInv'
<1>1. stage \notin Early /\ import = "Inactive" /\ got' = got /\ UNCHANGED <<pack, blocked>>
  BY DEF Begin, ImportInv
<1>2. job' \in Jobs /\ stage' \in {"none", "extract", "download"}
  BY AskedJob DEF Begin, Enter, Ask, Requests
<1>3. import' \in {"Running", "Failed"} /\ (stage' \in Early => import' = "Running")
  BY DEF Begin, Enter, Ask, Early
<1> QED
  BY <1>1, <1>2, <1>3 DEF ImportInv, ImportTyped, ImportIsWhole, Late

LEMMA UnpackingKeeps ==
    ASSUME ImportInv, Downloaded \/ ExtractionEnds \/ ExtractionHeard
    PROVE  ImportInv'
<1>1. job \in Jobs
  BY DEF ImportInv, ImportTyped
<1>2. CASE Downloaded
  <2>1. CASE Fail
    BY <1>2, <2>1, FailKeeps DEF Downloaded
  <2>2. CASE stage = "download" /\ Enter("extract") /\ GoOn
    BY <1>2, <2>2, EarlyKeeps, AskedJob DEF Downloaded, Enter, Early
  <2> QED
    BY <1>2, <2>1, <2>2 DEF Downloaded, JobSucceeded, JobFailed, ProcessZipPack
<1>3. CASE ExtractionEnds
  <2>1. CASE stage = "extract"
    BY <1>1, <1>3, <2>1, EarlyKeeps DEF ExtractionEnds, GoOn, Early
  <2>2. CASE stage = "cancelling"
    BY <1>3, <2>2 DEF ExtractionEnds, ImportInv, ImportTyped, ImportIsWhole, Early, Late
  <2> QED
    BY <1>3, <2>1, <2>2 DEF ExtractionEnds
<1>4. CASE ExtractionHeard
  <2>1. CASE stage = "ended" /\ Enter("extracted") /\ GoOn
    BY <1>4, <2>1, EarlyKeeps, AskedJob DEF ExtractionHeard, Enter, Early
  <2>2. CASE Fail
    BY <1>4, <2>2, FailKeeps DEF ExtractionHeard
  <2>3. CASE ConcludeImport("Aborted") /\ Enter("none")
    BY <1>4, <2>3, FailureKeeps, AskedJob DEF ExtractionHeard, Enter, Early
  <2> QED
    BY <1>4, <2>1, <2>2, <2>3 DEF ExtractionHeard
<1> QED
  BY <1>2, <1>3, <1>4

LEMMA ResolveFilesKeeps ==
    ASSUME ImportInv, stage \in Early, ResolveFiles, UNCHANGED <<pack, blocked>>
    PROVE  ImportInv'
<1>1. CASE pack.files = {}
  BY <1>1, AskForFilesKeeps DEF ResolveFiles, DownloadMods, Expected, ImportInv, ImportTyped
<1>2. CASE pack.files # {}
  BY <1>2, EarlyKeeps, AskedJob DEF ResolveFiles, Ask, Early, Requests
<1> QED
  BY <1>1, <1>2

(* The kinds that are done in one go have no files to fetch.                *)
LEMMA ExtractFinishedKeeps ==
    ASSUME ImportInv, ExtractFinished
    PROVE  ImportInv'
<1>1. stage = "extracted" /\ UNCHANGED <<pack, blocked>>
  BY DEF ExtractFinished
<1>2. CASE Fail
  BY <1>1, <1>2, FailKeeps
<1>3. CASE pack.format \in {"MultiMC", "Technic"} /\ ConcludeImport("Succeeded") /\ Enter("none")
  BY <1>1, <1>3, AskedJob
     DEF ConcludeImport, Enter, ImportInv, ImportTyped, ImportIsWhole, Early, Late
<1>4. CASE Enter("loader") /\ GoOn
  BY <1>1, <1>4, EarlyKeeps, AskedJob DEF Enter, Early
<1>5. CASE ResolveFiles
  BY <1>1, <1>5, ResolveFilesKeeps DEF Early
<1>6. CASE Ask("mods", pack.files) /\ GoOn
  BY <1>1, <1>6, AskForFilesKeeps DEF Expected, Early, ImportInv, ImportTyped
<1> QED
  BY <1>2, <1>3, <1>4, <1>5, <1>6
     DEF ExtractFinished, ProcessMultiMC, ProcessTechnic, CreateFlame, CreateModrinth

LEMMA LoaderListedKeeps == ImportInv /\ LoaderListed => ImportInv'
BY FailKeeps, ResolveFilesKeeps DEF LoaderListed, Early

(* Only here does it change which files are blocked.                        *)
LEMMA AnswersKeep ==
    ASSUME ImportInv, IdsAnswered \/ AlternativesAnswered \/ ProjectsAnswered
    PROVE  ImportInv'
<1>1. CASE Fail /\ UNCHANGED <<pack, blocked>>
  BY <1>1, FailKeeps
<1>2. CASE stage \in Early /\ (Ask("projects", {Query}) \/ Ask("alternatives", {Query})) /\ GoOn /\ UNCHANGED pack
  BY <1>2, EarlyKeeps, AskedJob DEF Ask, Requests, Early
<1>3. CASE stage = "projects" /\ UNCHANGED <<pack, blocked>> /\ DownloadMods
  <2>1. pack.files \ blocked \subseteq Files
    BY DEF ImportInv, ImportTyped
  <2> QED
    BY <1>3, <2>1, AskForFilesKeeps DEF DownloadMods, Expected, Early
<1>4. CASE stage = "projects" /\ UNCHANGED <<pack, blocked>> /\ Enter("hung") /\ GoOn
  BY <1>4, EarlyKeeps, AskedJob DEF Enter, Early
<1> QED
  BY <1>1, <1>2, <1>3, <1>4
     DEF IdsAnswered, AlternativesAnswered, ProjectsAnswered, JobSucceeded, JobFailed, Early, GoOn

LEMMA ModsDownloadedKeeps ==
    ASSUME ImportInv, FlameModsDownloaded \/ ModrinthModsDownloaded
    PROVE  ImportInv'
<1>1. UNCHANGED <<pack, blocked>>
  BY DEF FlameModsDownloaded, ModrinthModsDownloaded
<1>2. CASE ConcludeImport("Failed") /\ (Enter("index") \/ Enter("none"))
  BY <1>1, <1>2, FailureKeeps, AskedJob DEF Enter, Early
<1>3. CASE JobSucceeded("mods") /\ (Enter("index") \/ Ask("versions", {Query})) /\ GoOn
  <2>1. import = "Running" => Expected \subseteq got
    BY <1>3, SuccessfulJob
  <2>2. job' \in Jobs /\ stage' \in Late
    BY <1>3, AskedJob DEF Enter, Ask, Requests, Late
  <2>3. import # "Succeeded"
    BY <1>3 DEF JobSucceeded, ImportInv
  <2> QED
    BY <1>1, <1>3, <2>1, <2>2, <2>3
       DEF GoOn, ImportInv, ImportTyped, ImportIsWhole, Expected, Early, Late
<1> QED
  BY <1>2, <1>3 DEF FlameModsDownloaded, ModrinthModsDownloaded, Fail

(* The metadata of the mods and the game's own files come last.             *)
LEMMA LateStagesKeep ==
    ASSUME ImportInv,
           \/ IndexFinished \/ VersionsAnswered \/ VersionsUnreadable
           \/ MetadataAnswered \/ GameFilesFinished
    PROVE  ImportInv'
<1>1. stage \in Late /\ UNCHANGED <<pack, blocked>>
  BY DEF IndexFinished, VersionsAnswered, VersionsUnreadable, MetadataAnswered, GameFilesFinished,
         JobSucceeded, JobFailed, Late
<1>2. CASE DownloadFiles
  BY <1>1, <1>2, DownloadFilesKeeps
<1>3. CASE Ask("metadata", {Query}) /\ GoOn
  BY <1>1, <1>3, AskedJob
     DEF Ask, GoOn, Requests, ImportInv, ImportTyped, ImportIsWhole, Expected, Early, Late
<1>4. CASE Fail
  BY <1>1, <1>4, FailKeeps
<1>5. CASE VersionsUnreadable
  BY <1>1, <1>5, FailureKeeps, AskedJob DEF VersionsUnreadable, Enter, Early
<1>6. CASE GameFilesFinished
  BY <1>1, <1>6, SuccessKeeps, AskedJob DEF GameFilesFinished, Enter
<1> QED
  BY <1>2, <1>3, <1>4, <1>5, <1>6 DEF IndexFinished, VersionsAnswered, MetadataAnswered

(* A cancellation takes effect at once, or drops what has not begun, or     *)
(* comes when the files are there.                                          *)
LEMMA CancelKeepsImport ==
    ASSUME ImportInv, Cancel
    PROVE  ImportInv'
<1>1. UNCHANGED <<pack, blocked>> /\ job \in Jobs
  BY DEF Cancel, ImportInv, ImportTyped
<1>2. CASE stage = "download" /\ DropQueue /\ GoOn /\ UNCHANGED stage
  BY <1>1, <1>2, EarlyKeeps, DropQueueKeeps DEF Early
<1>3. CASE ConcludeImport("Aborted") /\ (Enter("none") \/ Enter("index"))
  BY <1>1, <1>3, FailureKeeps, AskedJob DEF Enter, Early
<1>4. CASE stage = "mods" /\ DropQueue /\ UNCHANGED stage /\ ConcludeImport("Aborted")
  BY <1>1, <1>4, FailureKeeps, DropQueueKeeps DEF Early
<1>5. CASE CancelExtraction
  BY <1>1, <1>5, EarlyKeeps DEF CancelExtraction, Early
<1>6. CASE stage = "index" /\ stage' \in {"none", "index"} /\ UNCHANGED job /\ ConcludeImport("Succeeded")
  BY <1>1, <1>6, SuccessKeeps DEF Late
<1>7. CASE stage = "game" /\ ConcludeImport("Succeeded") /\ (UNCHANGED <<stage, job>> \/ Enter("none"))
  BY <1>1, <1>7, SuccessKeeps, AskedJob DEF Late, Enter
<1> QED
  BY <1>2, <1>3, <1>4, <1>5, <1>6, <1>7
     DEF Cancel, CancelDownload, CancelFlame, CancelModrinth

LEMMA ImportStepKeeps == ImportInv /\ [ImportNext]_importVars => ImportInv'
<1> SUFFICES ASSUME ImportInv, [ImportNext]_importVars PROVE ImportInv'
  OBVIOUS
<1>1. CASE UNCHANGED importVars
  BY <1>1 DEF importVars, ImportInv, ImportTyped, ImportIsWhole, Expected, Asked
<1> QED
  BY <1>1, BeginKeepsImport, RoundsKeep, RequestEndsKeeps, UnpackingKeeps, ExtractFinishedKeeps,
     LoaderListedKeeps, AnswersKeep, ModsDownloadedKeeps, LateStagesKeep, CancelKeepsImport
     DEF ImportNext, ImportWorks

(* An import that succeeds has every file of the pack that can be had, for  *)
(* any pack and any number of retries, second links and cancellations.      *)
THEOREM ImportsAreWhole == ImportSpec => []ImportIsWhole
<1>1. ImportInit => ImportInv
  BY ImportInitHolds
<1>2. ImportInv /\ [ImportNext]_importVars => ImportInv'
  BY ImportStepKeeps
<1>3. ImportInv => ImportIsWhole
  BY DEF ImportInv
<1> QED
  BY <1>1, <1>2, <1>3, PTL DEF ImportSpec

-----------------------------------------------------------------------------
(* The components of an instance.  What the update task does in one go is a *)
(* function that is defined by recursion; a number of steps is reached by   *)
(* induction, for which a set of numbers has its least member.              *)

LEMMA LeastOf ==
    ASSUME NEW B, B \subseteq Nat, B # {}
    PROVE  \E m \in B : \A y \in B : ~ (y < m)
<1>1. PICK m \in B : \A y \in B : ~ (<<y, m>> \in OpToRel(<, Nat))
  BY NatLessThanWellFounded, WFMin
<1> QED
  BY <1>1 DEF OpToRel

LEMMA OneOutcome ==
    ASSUME NEW work
    PROVE  (CHOOSE next \in {Proceed(w) : w \in {work}} : TRUE) = Proceed(work)
OBVIOUS

(* The first k steps.                                                       *)
Trail(f, work, k) == f = [n \in 0..k |-> IF n = 0 THEN work ELSE Proceed(f[n - 1])]

LEMMA TrailsExist ==
    ASSUME NEW work, NEW k \in Nat
    PROVE  \E f : Trail(f, work, k)
<1> DEFINE B == {j \in Nat : ~\E f : Trail(f, work, j)}
<1> SUFFICES ASSUME B # {} PROVE FALSE
  OBVIOUS
<1>1. PICK m \in B : \A y \in B : ~ (y < m)
  BY LeastOf
<1>2. m # 0
  <2> DEFINE g == [n \in 0..0 |-> work]
  <2>1. Trail(g, work, 0)
    BY DEF Trail
  <2> QED
    BY <2>1
<1>3. m - 1 \in Nat /\ m - 1 \notin B
  BY <1>1, <1>2
<1>4. PICK g : Trail(g, work, m - 1)
  BY <1>3
<1> DEFINE f == [n \in 0..m |-> IF n = m THEN Proceed(g[m - 1]) ELSE g[n]]
<1>5. \A n \in 0..(m - 1) : g[n] = IF n = 0 THEN work ELSE Proceed(g[n - 1])
  BY <1>4 DEF Trail
<1>6. ASSUME NEW n \in 0..m PROVE f[n] = IF n = 0 THEN work ELSE Proceed(f[n - 1])
  <2>1. m \in Nat \ {0}
    BY <1>2
  <2>2. CASE n = m
    BY <2>1, <2>2
  <2>3. CASE n # m
    <3>1. n \in 0..(m - 1) /\ (n # 0 => n - 1 \in 0..m /\ n - 1 # m)
      BY <2>1, <2>3
    <3> QED
      BY <1>5, <2>3, <3>1
  <2> QED
    BY <2>2, <2>3
<1>7. Trail(f, work, m)
  BY <1>6 DEF Trail
<1> QED
  BY <1>7

(* What is done ends a trail of MaxSteps steps.                             *)
LEMMA DoneIsReached ==
    ASSUME NEW work
    PROVE  \E f : Trail(f, work, MaxSteps) /\ Done(work) = f[MaxSteps]
<1> DEFINE Recursion(f) == f = [n \in 0..MaxSteps |-> IF n = 0 THEN work
              ELSE CHOOSE next \in {Proceed(w) : w \in {f[n - 1]}} : TRUE]
<1>1. \A f : Recursion(f) <=> Trail(f, work, MaxSteps)
  BY OneOutcome DEF Trail
<1>2. \E f : Recursion(f)
  BY <1>1, TrailsExist, StepsAssumption
<1>3. Recursion(CHOOSE f : Recursion(f))
  BY <1>2
<1>4. Done(work) = (CHOOSE f : Recursion(f))[MaxSteps]
  BY DEF Done
<1> QED
  BY <1>1, <1>3, <1>4

(* The states on the way: no removal is left when changes are looked for.   *)
Sound(work) ==
    /\ work.state = "changing" => Removals(work.comps) = {}
    /\ work.state = "succeeded" => Resolved(work.comps)

LEMMA ProceedsSoundly ==
    ASSUME NEW work, Sound(work)
    PROVE  Sound(Proceed(work))
<1>1. CASE work.state = "loading"
  BY <1>1 DEF Proceed, LoadComponents, Work, Sound
<1>2. CASE work.state = "removing"
  BY <1>2 DEF Proceed, RemoveObsolete, Work, Turn, Sound
<1>3. CASE work.state = "changing"
  <2> DEFINE cs == work.comps
  <2>1. Removals(cs) = {}
    BY <1>3 DEF Sound
  <2>2. Proceed(work) = ResolveDependencies(work)
    BY <1>3 DEF Proceed
  <2>3. CASE ToAdd(cs) \cup ToChange(cs) = {}
    <3>1. ASSUME NEW r \in AllRequires(cs)
          PROVE  \E i \in DOMAIN cs : cs[i].uid = r.uid /\ r.equals \in {0, cs[i].cached}
      <4>1. r.uid \in Required(cs) /\ r.uid \in Uids(cs)
        BY <2>3 DEF ToAdd, Required
      <4>2. At(cs, r.uid) \in DOMAIN cs /\ cs[At(cs, r.uid)].uid = r.uid
        BY <4>1 DEF At, Uids
      <4>3. Exact(cs, r.uid) \in {{}, {cs[At(cs, r.uid)].cached}}
        BY <2>3, <4>1 DEF ToChange
      <4>4. r.equals # 0 => r.equals \in Exact(cs, r.uid)
        BY DEF Exact
      <4> QED
        BY <4>2, <4>3, <4>4
    <3>2. Resolved(cs)
      BY <2>1, <3>1 DEF Resolved, Removals
    <3> QED
      BY <2>2, <2>3, <3>2 DEF ResolveDependencies, Turn, Work, Sound
  <2>4. CASE ToAdd(cs) \cup ToChange(cs) # {}
    BY <2>2, <2>4 DEF ResolveDependencies, Turn, Work, Sound
  <2> QED
    BY <2>3, <2>4
<1>4. CASE work.state \notin {"loading", "removing", "changing"}
  BY <1>4 DEF Proceed
<1> QED
  BY <1>1, <1>2, <1>3, <1>4

LEMMA DoneSoundly ==
    ASSUME NEW work, Sound(work)
    PROVE  Sound(Done(work))
<1>1. PICK f : Trail(f, work, MaxSteps) /\ Done(work) = f[MaxSteps]
  BY DoneIsReached
<1>2. \A n \in 0..MaxSteps : f[n] = IF n = 0 THEN work ELSE Proceed(f[n - 1])
  BY <1>1 DEF Trail
<1> DEFINE B == {n \in 0..MaxSteps : ~Sound(f[n])}
<1>3. B = {}
  <2> SUFFICES ASSUME B # {} PROVE FALSE
    OBVIOUS
  <2>1. PICK m \in B : \A y \in B : ~ (y < m)
    <3>1. B \subseteq Nat
      BY StepsAssumption
    <3> HIDE DEF B
    <3> QED
      BY <3>1, LeastOf
  <2>2. m # 0
    BY <1>2, <2>1
  <2>3. m - 1 \in 0..MaxSteps /\ m - 1 < m
    BY <2>1, <2>2, StepsAssumption
  <2>4. Sound(f[m - 1])
    BY <2>1, <2>3
  <2> QED
    BY <1>2, <2>1, <2>2, <2>4, ProceedsSoundly
<1> QED
  BY <1>1, <1>3, StepsAssumption

(* A change of the list that is not announced to the timer is none of what  *)
(* is saved.                                                                *)
LEMMA SameDataSameFile ==
    ASSUME NEW cs, NEW ds, Data(cs) = Data(ds)
    PROVE  Saved(cs) = Saved(ds)
BY DEF Data

(* A downloaded version is waited for only by a check that read the list.   *)
UpdateShape ==
    update = [state |-> update.state, online |-> update.online, slots |-> update.slots, ok |-> update.ok]
SlotsAreLoaded == update.slots # <<>> => loaded

ComponentsInv == UpdateShape /\ SlotsAreLoaded /\ ResolvedOnSuccess /\ SavedIsMemory

LEMMA CheckLeavesSound ==
    ASSUME UpdateShape, NEW cs, NEW m, NEW slots, NEW ok, CheckIfAllFinished(cs, m, slots, ok)
    PROVE  /\ UpdateShape'
           /\ update'.state = "succeeded" => Resolved(comps')
           /\ dirty' = TRUE \/ (dirty' = dirty /\ Saved(comps') = Saved(comps))
<1> DEFINE w == IF InProgress(slots) # {} THEN Work(cs, m, TRUE, "running", slots)
                ELSE IF ok THEN Done(Work(cs, m, TRUE, "removing", <<>>))
                ELSE Work(cs, m, TRUE, "failed", <<>>)
<1>1. /\ comps' = w.comps
      /\ update' = [update EXCEPT !.state = w.state, !.slots = w.slots, !.ok = ok \/ InProgress(slots) = {}]
      /\ \/ Data(cs) = Data(comps) /\ w.comps = cs /\ dirty' = dirty
         \/ dirty' = TRUE
  BY DEF CheckIfAllFinished, ScheduleSave
<1>2. Sound(w)
  <2>1. Sound(Work(cs, m, TRUE, "removing", <<>>))
    BY DEF Sound, Work
  <2>2. Sound(Done(Work(cs, m, TRUE, "removing", <<>>)))
    BY <2>1, DoneSoundly
  <2>3. Sound(Work(cs, m, TRUE, "running", slots)) /\ Sound(Work(cs, m, TRUE, "failed", <<>>))
    BY DEF Sound, Work
  <2> QED
    BY <2>2, <2>3
<1> HIDE DEF w
<1>3. update'.state = w.state /\ UpdateShape'
  BY <1>1 DEF UpdateShape
<1>4. update'.state = "succeeded" => Resolved(comps')
  BY <1>1, <1>2, <1>3 DEF Sound
<1>5. Data(cs) = Data(comps) => Saved(cs) = Saved(comps)
  BY SameDataSameFile
<1>6. comps' = cs => Saved(comps') = Saved(cs)
  OBVIOUS
<1>7. dirty' = TRUE \/ (dirty' = dirty /\ Saved(comps') = Saved(comps))
  BY <1>1, <1>5, <1>6
<1> QED
  BY <1>3, <1>4, <1>7

LEMMA CheckKeeps ==
    ASSUME ComponentsInv, NEW online \in BOOLEAN, Check(online)
    PROVE  ComponentsInv'
<1>1. PICK list \in IF dirty THEN {packFile, Saved(comps)} ELSE {packFile} :
        /\ packFile' = list
        /\ \/ UNCHANGED <<comps, loaded, dirty, update>>
           \/ /\ loaded' = TRUE /\ dirty' = TRUE
              /\ \E w \in {Done(Work(FromFile(list), meta, online, "loading", <<>>))} :
                    /\ comps' = w.comps
                    /\ update' = [state |-> w.state, online |-> online, slots |-> w.slots, ok |-> TRUE]
  BY DEF Check, ScheduleSave
<1>2. CASE UNCHANGED <<comps, loaded, dirty, update>>
  BY <1>1, <1>2 DEF ComponentsInv, UpdateShape, SlotsAreLoaded, ResolvedOnSuccess, SavedIsMemory
<1>3. CASE loaded' = TRUE /\ dirty' = TRUE
  <2>1. SavedIsMemory' /\ SlotsAreLoaded'
    BY <1>3 DEF SavedIsMemory, SlotsAreLoaded
  <2>2. CASE UNCHANGED <<comps, update>>
    BY <2>1, <2>2 DEF ComponentsInv, UpdateShape, ResolvedOnSuccess
  <2>3. ASSUME NEW w, Sound(w), comps' = w.comps,
               update' = [state |-> w.state, online |-> online, slots |-> w.slots, ok |-> TRUE]
        PROVE  ComponentsInv'
    BY <2>1, <2>3 DEF ComponentsInv, UpdateShape, ResolvedOnSuccess, Sound
  <2>4. Sound(Done(Work(FromFile(list), meta, online, "loading", <<>>)))
    <3>1. Sound(Work(FromFile(list), meta, online, "loading", <<>>))
      BY DEF Sound, Work
    <3> QED
      BY <3>1, DoneSoundly
  <2> QED
    BY <1>1, <2>2, <2>3, <2>4
<1> QED
  BY <1>1, <1>2, <1>3

LEMMA LoadEndKeeps ==
    ASSUME ComponentsInv, NEW i, RemoteLoadSucceeded(i) \/ RemoteLoadFailed(i)
    PROVE  ComponentsInv'
<1>1. /\ Awaited(i) /\ UNCHANGED <<packFile, loaded>>
      /\ \E cs, m, slots, ok : CheckIfAllFinished(cs, m, slots, ok)
  BY DEF RemoteLoadSucceeded, RemoteLoadFailed
<1>2. loaded
  BY <1>1 DEF Awaited, ComponentsInv, SlotsAreLoaded
<1>3. /\ UpdateShape'
      /\ update'.state = "succeeded" => Resolved(comps')
      /\ dirty' = TRUE \/ (dirty' = dirty /\ Saved(comps') = Saved(comps))
  BY <1>1, CheckLeavesSound DEF ComponentsInv
<1> QED
  BY <1>1, <1>2, <1>3 DEF ComponentsInv, SlotsAreLoaded, ResolvedOnSuccess, SavedIsMemory

LEMMA ComponentsStepKeeps == ComponentsInv /\ [ComponentsNext]_componentsVars => ComponentsInv'
<1> SUFFICES ASSUME ComponentsInv, [ComponentsNext]_componentsVars PROVE ComponentsInv'
  OBVIOUS
<1> USE DEF ComponentsInv, UpdateShape, SlotsAreLoaded, ResolvedOnSuccess, SavedIsMemory
<1>1. CASE AbortUpdate
  <2>1. update' = [state |-> "failed", online |-> update.online, slots |-> <<>>, ok |-> update.ok]
    BY <1>1 DEF AbortUpdate
  <2> QED
    BY <1>1, <2>1 DEF AbortUpdate, saveVars
<1>2. CASE StrayEnds
  BY <1>2 DEF StrayEnds, saveVars
<1>3. CASE SaveTimeout
  BY <1>3 DEF SaveTimeout, SaveInternal
<1>4. CASE Restart
  BY <1>4 DEF Restart, NoUpdate
<1>5. CASE UNCHANGED componentsVars
  BY <1>5 DEF componentsVars, saveVars
<1> QED
  BY <1>1, <1>2, <1>3, <1>4, <1>5, CheckKeeps, LoadEndKeeps DEF ComponentsNext

LEMMA ComponentsInitHolds == ComponentsInit => ComponentsInv
BY DEF ComponentsInit, NoUpdate, ComponentsInv, UpdateShape, SlotsAreLoaded, ResolvedOnSuccess, SavedIsMemory

(* An update that succeeded leaves a list without an unmet requirement and  *)
(* without a dependency that nothing requires (ComponentUpdateTask::        *)
(* resolveDependencies), whatever versions there are and whatever they      *)
(* require, however often the task goes around.                             *)
THEOREM UpdatesResolve == ComponentsSpec => []ResolvedOnSuccess
<1>1. ComponentsInv => ResolvedOnSuccess
  BY DEF ComponentsInv
<1> QED
  BY <1>1, ComponentsInitHolds, ComponentsStepKeeps, PTL DEF ComponentsSpec

(* With no save due the file says what the components say (PackProfile::    *)
(* scheduleSave, save_internal): no change of the list goes unannounced,    *)
(* and a list that could not be read is never written over.                 *)
THEOREM SavesFollowMemory == ComponentsSpec => []SavedIsMemory
<1>1. ComponentsInv => SavedIsMemory
  BY DEF ComponentsInv
<1> QED
  BY <1>1, ComponentsInitHolds, ComponentsStepKeeps, PTL DEF ComponentsSpec
=============================================================================
