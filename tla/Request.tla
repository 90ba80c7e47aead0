------------------------------- MODULE Request ------------------------------
(***************************************************************************)
(* launcher/net/Request: one HTTP transfer into a sink, with redirects and *)
(* retries after "429 Too Many Requests".  The sink is a FileSink: a       *)
(* temporary file that replaces the target when it is committed.  The      *)
(* network answers through the signals of a reply (readyRead,              *)
(* errorOccurred, finished), the retry timer through executeTask, and the  *)
(* owner may abort between any two of them.  Several terminal paths emit   *)
(* succeeded(), failed() or aborted() themselves instead of going through  *)
(* Task::emitSucceeded and its kind.                                       *)
(***************************************************************************)
EXTENDS Naturals, Sequences, FiniteSets

CONSTANTS
    None,              \* no temporary file, no target
    MaxRedirects,      \* 10 in the code
    MaxRetries,        \* 4 in the code
    AutoRetry,         \* Option::AutoRetry
    AcceptLocalFiles,  \* Option::AcceptLocalFiles
    CacheHits,         \* may init() find the file in the cache? (MetaCacheSink)
    LocalFile,         \* is there a target file before the first transfer?
    BadLocation,       \* can a Location header be unparsable?
    LateData,          \* can data be left unread when a reply finishes?
    ServerRedirects,   \* bound: redirects the server sends
    MaxStarts          \* bound: calls of start()

ASSUME RequestAssumption ==
    /\ {MaxRedirects, MaxRetries, ServerRedirects, MaxStarts} \subseteq Nat
    /\ {AutoRetry, AcceptLocalFiles, CacheHits, LocalFile, BadLocation, LateData} \subseteq BOOLEAN

VARIABLES
    requestState, \* m_state
    reply,      \* m_reply: none yet, open, errored (finished() is to come), finished
    timer,      \* is m_retryTimer running?
    retries,    \* m_retryCount
    redirects,  \* m_redirectCount
    temp,       \* m_output_file: None or the replies whose data was written to it
    file,       \* the target: None or the replies it was made of, 0 for the file of old
    signals,    \* history: the terminal signals
    replies,    \* history: how many requests were sent; the number of m_reply
    sound,      \* history: replies that ended with a status and data to keep
    starts      \* calls of start() so far

requestVars == <<requestState, reply, timer, retries, redirects, temp, file, signals, replies, sound, starts>>
transfer == <<timer, retries, redirects>>
target == <<temp, file>>

OldFile == {0}
Endings == {"succeeded", "failed", "aborted"}
Concluded == Len(signals) >= starts
HasLocalData == file \notin {None, {}}

RequestInit ==
    /\ requestState = "Inactive"
    /\ reply = "none"
    /\ timer = FALSE
    /\ retries = 0 /\ redirects = 0
    /\ temp = None
    /\ file = IF LocalFile THEN OldFile ELSE None
    /\ signals = <<>>
    /\ replies = 0 /\ sound = {}
    /\ starts = 0

-----------------------------------------------------------------------------
(* executeTask *)

Say(signal) == signals' = Append(signals, signal)

(* Mutated form of Send: the temporary file of the last reply is kept.      *)
SendKeepingData ==
    /\ requestState' = "Running"
    /\ temp' = IF temp = None THEN {} ELSE temp
    /\ reply' = "open"
    /\ replies' = replies + 1
    /\ UNCHANGED <<file, signals>>

(* The sink opens a new temporary file and the request is sent.             *)
Send ==
    /\ requestState' = "Running"
    /\ temp' = {}
    /\ reply' = "open"
    /\ replies' = replies + 1
    /\ UNCHANGED <<file, signals>>

(* No new request is sent: m_reply stays what it was. *)
Ended == IF reply = "none" THEN "none" ELSE "finished"

CacheHit ==
    /\ CacheHits
    /\ HasLocalData
    /\ requestState' = "Succeeded"
    /\ Say("succeeded")
    /\ reply' = Ended
    /\ UNCHANGED <<replies, target>>

SinkRefuses ==
    /\ requestState' = "Failed"
    /\ temp' = None
    /\ Say("failed")
    /\ reply' = Ended
    /\ UNCHANGED <<replies, file>>

ExecuteTask == Send \/ CacheHit \/ SinkRefuses

(* Task::start sets m_state to Running and calls executeTask, whatever came *)
(* before: the counters are those of earlier starts.                        *)
StartTransfer ==
    /\ starts < MaxStarts
    /\ Concluded /\ requestState # "Running"
    /\ starts' = starts + 1
    /\ ExecuteTask
    /\ UNCHANGED <<transfer, sound>>

(* The retry timer fires, a second or more after the reply it was started   *)
(* for has finished.                                                        *)
RetryTimeout ==
    /\ timer /\ reply = "finished"
    /\ timer' = FALSE
    /\ ExecuteTask
    /\ UNCHANGED <<retries, redirects, sound, starts>>

-----------------------------------------------------------------------------
(* The sink writes; a failed write, or a validator that objects, closes the *)
(* temporary file.                                                          *)
SinkWrites ==
    \/ temp' = temp \cup {replies} /\ UNCHANGED requestState
    \/ temp' = None /\ requestState' = "Failed"

(* The reply delivers data: downloadReadyRead hands it to the sink while    *)
(* the request is running.                                                  *)
ReadyRead ==
    /\ reply = "open"
    /\ requestState = "Running"
    /\ SinkWrites
    /\ UNCHANGED <<reply, transfer, file, signals, replies, sound, starts>>

(* downloadError: every error that is neither a cancellation nor a rate     *)
(* limit.                                                                   *)
ErrorState == IF AcceptLocalFiles /\ HasLocalData THEN "Succeeded" ELSE "Failed"

(* handleAutoRetry: the server's delay may be too long.  m_state is set     *)
(* before emitFailed() is called, which therefore only hits its assertion.  *)
RateLimited ==
    /\ retries' = retries + 1
    /\ \/ /\ retries < MaxRetries
          /\ timer' = TRUE
          /\ UNCHANGED requestState
       \/ /\ requestState' = "Failed"
          /\ UNCHANGED timer

ReplyError ==
    /\ reply = "open"
    /\ reply' = "errored"
    /\ \/ RateLimited /\ AutoRetry
       \/ requestState' \in {"Failed", ErrorState} /\ UNCHANGED <<timer, retries>>
    /\ UNCHANGED <<redirects, target, signals, replies, sound, starts>>

-----------------------------------------------------------------------------
(* downloadFinished *)

(* handleRedirect follows a Location header, before anything else is        *)
(* looked at.                                                               *)
TooManyRedirects ==
    /\ redirects >= MaxRedirects
    /\ temp' = None
    /\ IF requestState = "Running"
       THEN requestState' = "Failed" /\ Say("failed")
       ELSE UNCHANGED <<requestState, signals>>
    /\ reply' = "finished"
    /\ UNCHANGED <<file, replies>>

FollowRedirect ==
    /\ redirects < ServerRedirects
    /\ redirects' = redirects + 1
    /\ \/ TooManyRedirects
       \/ /\ redirects < MaxRedirects
          /\ ExecuteTask
    /\ UNCHANGED sound

(* A Location header that cannot be parsed is an error like any other,      *)
(* whatever state the request was in.                                       *)
BadRedirect ==
    /\ BadLocation
    /\ temp' = None
    /\ requestState' \in {"Failed", ErrorState}
    /\ Say(IF requestState' = "Succeeded" THEN "succeeded" ELSE "failed")
    /\ UNCHANGED redirects

(* The result was settled before finished() came.                           *)
Settled ==
    /\ requestState # "Running"
    /\ reply' = "finished"
    /\ temp' = None
    /\ Say(CASE requestState = "Succeeded" -> "succeeded" [] requestState = "Failed" -> "failed" [] OTHER -> "aborted")
    /\ UNCHANGED <<requestState, redirects, file, replies, sound>>

(* Data was left unread: it is written, and every result of the write is    *)
(* taken for a failure.                                                     *)
WriteRest ==
    /\ LateData
    /\ requestState = "Running"
    /\ reply' = "finished"
    /\ sound' = sound \cup {replies}
    /\ temp' = None
    /\ requestState' \in {"Running", "Failed"}
    /\ Say("failed")
    /\ UNCHANGED <<redirects, file, replies>>

(* The sink is finalized: the data is kept if the status was 200 or 203 or  *)
(* any was written, unless a validator or the commit fails.                 *)
Finalize ==
    /\ requestState = "Running"
    /\ reply' = "finished"
    /\ temp' = None
    /\ \/ requestState' = "Succeeded" /\ Say("succeeded") /\ file' = temp /\ sound' = sound \cup {replies}
       \/ requestState' = "Succeeded" /\ Say("succeeded") /\ temp = {} /\ UNCHANGED <<file, sound>>
       \/ requestState' = "Failed" /\ Say("failed") /\ UNCHANGED <<file, sound>>
    /\ UNCHANGED <<redirects, replies>>

DownloadFinished ==
    \/ FollowRedirect
    \/ BadRedirect /\ reply' = "finished" /\ UNCHANGED <<file, replies, sound>>
    \/ Settled
    \/ WriteRest
    \/ Finalize

ReplyFinished ==
    /\ reply \in {"open", "errored"}
    /\ IF timer
       THEN reply' = "finished" /\ UNCHANGED <<requestState, timer, redirects, target, signals, replies, sound>>
       ELSE DownloadFinished /\ UNCHANGED timer
    /\ UNCHANGED <<retries, starts>>

-----------------------------------------------------------------------------
(* abort(): a reply that is not finished finishes at once, and is handled   *)
(* by downloadFinished with m_state AbortedByUser.                          *)
AbortReply ==
    /\ reply \in {"open", "errored"}
    /\ reply' = "finished"
    /\ \/ BadRedirect
       \/ /\ redirects < ServerRedirects
          /\ redirects' = redirects + 1
          /\ requestState' = "AbortedByUser"
          /\ IF redirects >= MaxRedirects
             THEN temp' = None /\ UNCHANGED signals
             ELSE Say("aborted") /\ UNCHANGED temp  \* executeTask
       \/ /\ temp' = None
          /\ requestState' = "AbortedByUser" /\ Say("aborted")
          /\ UNCHANGED redirects

(* Mutated form: an abort while a retry is due waits for the timer.         *)
AbortKeepingTimer ==
    /\ ~Concluded
    /\ \/ AbortReply
       \/ /\ reply = "finished"
          /\ requestState' = "AbortedByUser" /\ Say("aborted")
          /\ UNCHANGED <<reply, redirects, temp>>
    /\ UNCHANGED <<timer, retries, file, replies, sound, starts>>

(* The owner aborts a request that has not concluded.                       *)
AbortRequest ==
    /\ ~Concluded
    /\ timer' = FALSE
    /\ \/ AbortReply
       \/ /\ reply = "finished"
          /\ requestState' = "AbortedByUser" /\ Say("aborted")
          /\ UNCHANGED <<reply, redirects, temp>>
    /\ UNCHANGED <<retries, file, replies, sound, starts>>

-----------------------------------------------------------------------------
RequestNext == StartTransfer \/ RetryTimeout \/ ReadyRead \/ ReplyError \/ ReplyFinished \/ AbortRequest

RequestSpec == RequestInit /\ [][RequestNext]_requestVars

(* Every reply finishes (there is a transfer timeout) and timers fire.      *)
RequestFairSpec == RequestSpec /\ WF_requestVars(ReplyFinished) /\ WF_requestVars(RetryTimeout)

-----------------------------------------------------------------------------
(* Properties *)

(* Every start ends in at most one of succeeded(), failed(), aborted(),     *)
(* whatever happens between the signals of a reply, the timer and abort();  *)
(* and then nothing of the request is under way any more.                   *)
ConcludesOnce ==
    /\ Len(signals) <= starts
    /\ (starts > 0 /\ Concluded) => reply \notin {"open", "errored"} /\ ~timer

(* The last signal tells the state the request is left in: its owner can    *)
(* start it again.  Only a reply whose data was left unread fails the       *)
(* request and may leave it Running.                                        *)
SignalMatchesState ==
    (starts > 0 /\ Concluded) =>
        \/ requestState = CASE signals[starts] = "succeeded" -> "Succeeded"
                     [] signals[starts] = "failed" -> "Failed"
                     [] signals[starts] = "aborted" -> "AbortedByUser"
        \/ signals[starts] = "failed" /\ requestState = "Running" /\ replies \in sound

(* A request announces its end once, with nothing left under way, and in    *)
(* the state it says.                                                       *)
EndsOnce == ConcludesOnce /\ SignalMatchesState

(* The target is only ever what it was, or the data of one single reply     *)
(* that ended well: no body of a redirect, of a rate limit or of an earlier *)
(* try is mixed in, and an empty file is one such reply's.                  *)
FileIsOneReply ==
    file \in {None, OldFile, {}} \/ \E r \in sound : file = {r}
=============================================================================
