------------------------------- MODULE NetJob -------------------------------
(***************************************************************************)
(* launcher/net/NetJob: a ConcurrentTask of downloads (Net::Request).  It  *)
(* overrides three things: before the pool's wakeup is served, a finished  *)
(* job queues its failed downloads again, a few times; a failed verdict is *)
(* turned into another round of tries while the setting                    *)
(* NumberOfManualRetries allows; and abort() files the queued downloads as *)
(* failed and aborts the active ones, which report back at once.           *)
(***************************************************************************)
EXTENDS ConcurrentTask

CONSTANTS
    AskRetry,       \* m_ask_retry (MaxConcurrent is positive: the job takes no
                    \* other limit over)
    ManualRetries   \* the setting NumberOfManualRetries

VARIABLES
    try,        \* m_try
    manualTry,  \* m_manual_try
    lastReply,  \* how the last reply of every download looked
    attempts    \* history: how often every download was begun

netVars == <<vars, try, manualTry, lastReply, attempts>>
retryVars == <<try, manualTry>>

MaxTry == 3

(* A reply with status 404, a failure to reach the network at all, any     *)
(* other failure; also a request that has had no reply.                     *)
Reply == {"404", "offline", "other"}

NetInit ==
    /\ Init
    /\ try = 1 /\ manualTry = 0
    /\ lastReply = [t \in Tasks |-> "other"]
    /\ attempts = [t \in Tasks |-> 0]

-----------------------------------------------------------------------------
(* The queue after the failed downloads were put back, in the order of a    *)
(* hash table.                                                              *)
OrdersOf(S) == {q \in [1..Cardinality(S) -> S] : \A i, j \in DOMAIN q : q[i] = q[j] => i = j}

Retryable == {t \in failed : lastReply[t] # "404"}

IsOnline == \E t \in failed : lastReply[t] # "offline"

(* Every download has finished and some failed.                             *)
RoundFailed ==
    /\ state = "Running"
    /\ queue = <<>> /\ doing = {} /\ failed # {}

(* NetJob::emitFailed: is another round granted? *)
AnotherRound == AskRetry /\ manualTry < ManualRetries /\ IsOnline

(* The failed downloads are queued again and, with the same wakeup, the     *)
(* first of them is begun.                                                  *)
Requeue ==
    /\ \E q \in OrdersOf(Retryable) :
          /\ queue' = Tail(q)
          /\ doing' = {Head(q)}
          /\ events' = Append(Tail(events), StartOf(Head(q)))
    /\ failed' = failed \ Retryable
    /\ done' = done \ Retryable
    /\ UNCHANGED <<succeeded, taskVars, child, muted>>

Retry ==
    /\ RoundFailed
    /\ try < MaxTry
    /\ Retryable # {}
    /\ try' = try + 1
    /\ Requeue
    /\ UNCHANGED manualTry

(* The verdict is a failure, but emitFailed starts over: m_try is reset and *)
(* executeNextSubTask called again, directly.                               *)
RetryManually ==
    /\ RoundFailed
    /\ try >= MaxTry
    /\ Retryable # {}
    /\ AnotherRound
    /\ manualTry' = manualTry + 1
    /\ try' = 1
    /\ Requeue

(* Mutated form of GiveUp: without asking for the tries that are left.      *)
GiveUpEarly ==
    /\ RoundFailed
    /\ ~AnotherRound
    /\ Emit("Failed")
    /\ events' = Tail(events)
    /\ UNCHANGED <<poolVars, child, muted, retryVars>>

(* The same when nothing is worth a retry: the rounds are used up at once,  *)
(* one inside the other, and the job fails.                                 *)
GiveUp ==
    /\ RoundFailed
    /\ \/ Retryable = {}
       \/ try >= MaxTry /\ ~AnotherRound
    /\ Emit("Failed")
    /\ try' = IF AnotherRound THEN 1 ELSE IF try < MaxTry THEN try + 1 ELSE try
    /\ manualTry' = IF AnotherRound THEN ManualRetries ELSE manualTry
    /\ events' = Tail(events)
    /\ UNCHANGED <<poolVars, child, muted>>

Succeed ==
    /\ state = "Running"
    /\ queue = <<>> /\ doing = {} /\ failed = {}
    /\ Emit("Succeeded")
    /\ events' = Tail(events)
    /\ UNCHANGED <<poolVars, child, muted, retryVars>>

ServeWakeup ==
    /\ events # <<>>
    /\ Head(events) = Wakeup
    /\ \/ (SkipWakeup \/ StartSubTask) /\ UNCHANGED retryVars
       \/ Retry
       \/ RetryManually
       \/ GiveUp
       \/ Succeed
    /\ UNCHANGED <<history, budget, lastReply, attempts>>

-----------------------------------------------------------------------------
(* A request concludes.  The job hears it while the request is one of its   *)
(* active downloads; after that its signals are disconnected.               *)
Report(t, result, pending) ==
    /\ child' = [child EXCEPT ![t] = result]
    /\ \E r \in Reply :
          /\ result = "Succeeded" => r = "other"
          /\ lastReply' = [lastReply EXCEPT ![t] = r]
    /\ IF t \in doing
       THEN SubTaskFinished(t, result, pending)
       ELSE events' = pending /\ UNCHANGED poolVars

(* The queued Task::start of a request: one that runs is left alone (an     *)
(* assertion is hit), any other is begun, an aborted one included.          *)
StartRequest(t) ==
    /\ events # <<>>
    /\ Head(events) = StartOf(t)
    /\ \/ /\ child[t] = "Running"
          /\ asserted' = TRUE
          /\ events' = Tail(events)
          /\ UNCHANGED <<poolVars, state, emitted, child, lastReply, attempts>>
       \/ /\ child[t] # "Running"
          /\ attempts' = [attempts EXCEPT ![t] = @ + 1]
          /\ \/ /\ child' = [child EXCEPT ![t] = "Running"]
                /\ events' = Tail(events)
                /\ UNCHANGED <<poolVars, lastReply>>
             \/ \E result \in {"Succeeded", "Failed"} : Report(t, result, Tail(events))
          /\ UNCHANGED taskVars
    /\ UNCHANGED <<muted, history, budget, retryVars>>

RequestConcludes(t) ==
    /\ child[t] = "Running"
    /\ \E result \in {"Succeeded", "Failed"} : Report(t, result, events)
    /\ UNCHANGED <<taskVars, muted, history, budget, retryVars, attempts>>

-----------------------------------------------------------------------------
(* abort() *)

AbortQueued ==
    /\ doing = {}
    /\ failed' = failed \cup Queued
    /\ queue' = <<>>
    /\ UNCHANGED <<doing, done, succeeded, taskVars, events, child>>

(* Every request accepts its abort and says so at once, also one whose      *)
(* start is still queued: it is filed as failed and a wakeup is posted.     *)
AbortActive ==
    /\ doing # {}
    /\ failed' = failed \cup Queued \cup doing
    /\ queue' = <<>>
    /\ done' = done \cup doing
    /\ doing' = {}
    /\ child' = [t \in Tasks |-> IF t \in doing THEN "AbortedByUser" ELSE child[t]]
    /\ events' = events \o [i \in 1..Cardinality(doing) |-> Wakeup]
    /\ Emit("AbortedByUser")
    /\ UNCHANGED succeeded

AbortJob ==
    /\ aborts < MaxAborts
    /\ aborts' = aborts + 1
    /\ AbortQueued \/ AbortActive
    /\ dismissed' = dismissed \cup Queued
    /\ UNCHANGED <<muted, added, runs, retryVars, lastReply, attempts>>

-----------------------------------------------------------------------------
NetNext ==
    \/ Start /\ UNCHANGED <<retryVars, lastReply, attempts>>
    \/ ServeWakeup
    \/ AbortJob
    \/ \E t \in Tasks :
          \/ AddTask(t) /\ UNCHANGED <<retryVars, lastReply, attempts>>
          \/ StartRequest(t)
          \/ RequestConcludes(t)

NetSpec == NetInit /\ [][NetNext]_netVars

(* The event loop serves what was posted and every request concludes (it    *)
(* has a transfer timeout).                                                 *)
NetFairness ==
    /\ WF_netVars(ServeWakeup)
    /\ \A t \in Tasks : WF_netVars(StartRequest(t)) /\ WF_netVars(RequestConcludes(t))

NetFairSpec == NetSpec /\ NetFairness

-----------------------------------------------------------------------------
(* Properties *)

(* The job gives up on a download only when it was not found or has had all *)
(* its tries, and reports success only when every download has reported it. *)
VerdictEarned ==
    /\ (state = "Running" /\ state' = "Succeeded") => added \subseteq succeeded
    /\ (state = "Running" /\ state' = "Failed" /\ runs = 1 /\ aborts = 0) =>
          \A t \in failed : lastReply[t] = "404" \/ attempts[t] >= MaxTry

(* The job neither gives up early nor overlooks a failure.                  *)
JobVerdictEarned == [][VerdictEarned]_netVars
=============================================================================
