--------------------------- MODULE ConcurrentTask ---------------------------
(***************************************************************************)
(* launcher/tasks/ConcurrentTask: a Task that runs other Tasks, at most    *)
(* MaxConcurrent at a time.  Everything happens on one Qt event loop: the  *)
(* pool never calls itself or a child directly but posts queued calls of   *)
(* executeNextSubTask and of Task::start, which the loop runs one by one,  *)
(* in the order they were posted.  Between two of them anything else the   *)
(* loop serves can happen: a child finishes, the owner adds a task, starts,*)
(* aborts or clears the pool.  Each of these is one action.                *)
(***************************************************************************)
EXTENDS Naturals, Sequences, FiniteSets

CONSTANTS
    Tasks,          \* the child tasks an owner can hand to the pool
    Abortable,      \* those whose canAbort() is true
    MaxConcurrent,  \* m_total_max_size
    LateAdds,       \* may the owner add tasks while the pool runs?
    MaxRuns,        \* bound: calls of start()
    MaxAborts       \* bound: calls of abort()

ASSUME PoolAssumption ==
    /\ IsFiniteSet(Tasks)
    /\ Abortable \subseteq Tasks
    /\ MaxConcurrent \in Nat
    /\ LateAdds \in BOOLEAN
    /\ MaxRuns \in Nat
    /\ MaxAborts \in Nat

VARIABLES
    state,      \* m_state of the pool
    queue,      \* m_queue
    doing,      \* m_doing; also the children whose signals are connected
    done,       \* m_done
    failed,     \* m_failed
    succeeded,  \* m_succeeded
    events,     \* queued calls posted to the event loop, oldest first
    child,      \* m_state of every child
    muted,      \* children whose aborted signal abort() disconnected
    emitted,    \* history: terminal signals emitted since the last start()
    asserted,   \* history: has an ASSERT_NEVER been hit?
    added,      \* history: tasks handed to addTask()
    dismissed,  \* history: tasks whose record abort() or clear() threw away
    runs,       \* calls of start() so far
    aborts      \* calls of abort() so far

poolVars == <<queue, doing, done, failed, succeeded>>
taskVars == <<state, emitted, asserted>>
budget == <<runs, aborts>>
history == <<added, dismissed>>
vars == <<poolVars, taskVars, events, child, muted, history, budget>>

Terminal == {"Succeeded", "Failed", "AbortedByUser"}
State == {"Inactive", "Running"} \cup Terminal
Event == [call : {"executeNextSubTask"}] \cup [call : {"start"}, task : Tasks]

Wakeup == [call |-> "executeNextSubTask"]
StartOf(t) == [call |-> "start", task |-> t]
Queued == {queue[i] : i \in DOMAIN queue}
Pending(e) == \E i \in DOMAIN events : events[i] = e
Running == {t \in Tasks : child[t] = "Running"}

Init ==
    /\ state = "Inactive"
    /\ queue = <<>>
    /\ doing = {} /\ done = {} /\ failed = {} /\ succeeded = {}
    /\ events = <<>>
    /\ child = [t \in Tasks |-> "Inactive"]
    /\ muted = {}
    /\ emitted = <<>>
    /\ asserted = FALSE
    /\ added = {} /\ dismissed = {}
    /\ runs = 0 /\ aborts = 0

-----------------------------------------------------------------------------
(* Task::emitSucceeded, emitFailed, emitAborted: only a running task may    *)
(* conclude; otherwise the assertion is hit and nothing is emitted.         *)
Emit(verdict) ==
    IF state = "Running"
    THEN /\ state' = verdict
         /\ emitted' = Append(emitted, verdict)
         /\ UNCHANGED asserted
    ELSE /\ asserted' = TRUE
         /\ UNCHANGED <<state, emitted>>

AddTask(t) ==
    /\ t \notin added
    /\ LateAdds \/ runs = 0
    /\ added' = added \cup {t}
    /\ queue' = Append(queue, t)
    /\ UNCHANGED <<doing, done, failed, succeeded, taskVars, events, child, muted, dismissed, budget>>

(* Task::start with ConcurrentTask::executeTask: one wakeup per slot. *)
Start ==
    /\ state # "Running"
    /\ runs < MaxRuns
    /\ runs' = runs + 1
    /\ state' = "Running"
    /\ emitted' = <<>>
    /\ events' = events \o [i \in 1..MaxConcurrent |-> Wakeup]
    /\ UNCHANGED <<poolVars, asserted, child, muted, history, aborts>>

Clear ==
    /\ state # "Running"
    /\ done' = {} /\ failed' = {} /\ queue' = <<>>
    /\ dismissed' = dismissed \cup Queued \cup done
    /\ UNCHANGED <<doing, succeeded, taskVars, events, child, muted, added, budget>>

-----------------------------------------------------------------------------
(* executeNextSubTask *)

(* Mutated form: a verdict that forgets the failures once something         *)
(* succeeded.                                                               *)
VerdictOfAnySuccess == IF succeeded # {} THEN "Succeeded" ELSE IF failed = {} THEN "Succeeded" ELSE "Failed"

NoFreeSlot == Cardinality(doing) >= MaxConcurrent
Verdict == IF failed = {} THEN "Succeeded" ELSE "Failed"

SkipWakeup ==
    /\ \/ state # "Running"
       \/ NoFreeSlot
       \/ queue = <<>> /\ doing # {}
    /\ events' = Tail(events)
    /\ UNCHANGED <<poolVars, taskVars, child, muted>>

(* Mutated form of Conclude: without waiting for m_doing to drain.          *)
ConcludeEarly ==
    /\ state = "Running"
    /\ ~NoFreeSlot
    /\ queue = <<>>
    /\ Emit(Verdict)
    /\ events' = Tail(events)
    /\ UNCHANGED <<poolVars, child, muted>>

Conclude ==
    /\ state = "Running"
    /\ ~NoFreeSlot
    /\ queue = <<>> /\ doing = {}
    /\ Emit(Verdict)
    /\ events' = Tail(events)
    /\ UNCHANGED <<poolVars, child, muted>>

(* Mutated form of StartSubTask: a child whose start is never posted.       *)
StartSubTaskUnposted ==
    /\ state = "Running"
    /\ ~NoFreeSlot
    /\ queue # <<>>
    /\ queue' = Tail(queue)
    /\ doing' = doing \cup {Head(queue)}
    /\ events' = Tail(events)
    /\ UNCHANGED <<done, failed, succeeded, taskVars, child, muted>>

StartSubTask ==
    /\ state = "Running"
    /\ ~NoFreeSlot
    /\ queue # <<>>
    /\ queue' = Tail(queue)
    /\ doing' = doing \cup {Head(queue)}
    /\ muted' = muted \ {Head(queue)}
    /\ events' = Append(Tail(events), StartOf(Head(queue)))
    /\ UNCHANGED <<done, failed, succeeded, taskVars, child>>

ExecuteNextSubTask ==
    /\ events # <<>>
    /\ Head(events) = Wakeup
    /\ SkipWakeup \/ Conclude \/ StartSubTask
    /\ UNCHANGED <<history, budget>>

-----------------------------------------------------------------------------
(* Mutated forms of SubTaskFinished: m_done not updated, no wakeup posted.  *)
SubTaskFinishedUnfiled(t, result, pending) ==
    /\ doing' = doing \ {t}
    /\ succeeded' = IF result = "Succeeded" THEN succeeded \cup {t} ELSE succeeded
    /\ failed' = IF result = "Succeeded" THEN failed ELSE failed \cup {t}
    /\ events' = Append(pending, Wakeup)
    /\ UNCHANGED <<queue, done>>

SubTaskFinishedSilent(t, result, pending) ==
    /\ doing' = doing \ {t}
    /\ done' = done \cup {t}
    /\ succeeded' = IF result = "Succeeded" THEN succeeded \cup {t} ELSE succeeded
    /\ failed' = IF result = "Succeeded" THEN failed ELSE failed \cup {t}
    /\ events' = pending
    /\ UNCHANGED queue

(* subTaskSucceeded, subTaskFailed: the child's terminal signal reaches the *)
(* pool, which files the child under its result and posts a wakeup.         *)
SubTaskFinished(t, result, pending) ==
    /\ doing' = doing \ {t}
    /\ done' = done \cup {t}
    /\ succeeded' = IF result = "Succeeded" THEN succeeded \cup {t} ELSE succeeded
    /\ failed' = IF result = "Succeeded" THEN failed ELSE failed \cup {t}
    /\ events' = Append(pending, Wakeup)
    /\ UNCHANGED queue

(* The queued Task::start of a child.  Its executeTask may stay running or  *)
(* conclude before it returns, e.g. a download answered by the cache.       *)
StartChild(t) ==
    /\ events # <<>>
    /\ Head(events) = StartOf(t)
    /\ \/ /\ child' = [child EXCEPT ![t] = "Running"]
          /\ events' = Tail(events)
          /\ UNCHANGED poolVars
       \/ \E result \in {"Succeeded", "Failed"} :
             /\ child' = [child EXCEPT ![t] = result]
             /\ SubTaskFinished(t, result, Tail(events))
    /\ UNCHANGED <<taskVars, muted, history, budget>>

(* A running child reports its result. *)
ChildConcludes(t) ==
    /\ child[t] = "Running"
    /\ \E result \in {"Succeeded", "Failed"} :
          /\ child' = [child EXCEPT ![t] = result]
          /\ SubTaskFinished(t, result, events)
    /\ UNCHANGED <<taskVars, muted, history, budget>>

(* Somebody other than the pool aborts a child: heard as a failure, unless  *)
(* the pool has disconnected that signal.                                   *)
ChildAborted(t) ==
    /\ child[t] = "Running"
    /\ t \in Abortable
    /\ child' = [child EXCEPT ![t] = "AbortedByUser"]
    /\ IF t \in muted
       THEN UNCHANGED <<poolVars, events>>
       ELSE SubTaskFinished(t, "Aborted", events)
    /\ UNCHANGED <<taskVars, muted, history, budget>>

-----------------------------------------------------------------------------
(* abort() *)

AbortIdle ==
    /\ doing = {}
    /\ queue' = <<>>
    /\ emitted' = Append(emitted, "AbortedByUser")
    /\ UNCHANGED <<state, asserted, doing, done, failed, succeeded, events, child, muted>>

(* Mutated form of AbortInFlight: m_doing is emptied, children or not.      *)
AbortInFlightForgets ==
    /\ doing # {}
    /\ queue' = <<>> /\ doing' = {}
    /\ child' = [t \in Tasks |-> IF t \in doing \cap Abortable \cap Running
                                 THEN "AbortedByUser" ELSE child[t]]
    /\ Emit(IF doing \subseteq Abortable THEN "AbortedByUser" ELSE "Failed")
    /\ UNCHANGED <<done, failed, succeeded, events, muted>>

AbortInFlight ==
    /\ doing # {}
    /\ queue' = <<>>
    /\ muted' = muted \cup doing
    /\ child' = [t \in Tasks |-> IF t \in doing \cap Abortable \cap Running
                                 THEN "AbortedByUser" ELSE child[t]]
    /\ Emit(IF doing \subseteq Abortable THEN "AbortedByUser" ELSE "Failed")
    /\ UNCHANGED <<doing, done, failed, succeeded, events>>

Abort ==
    /\ aborts < MaxAborts
    /\ aborts' = aborts + 1
    /\ AbortIdle \/ AbortInFlight
    /\ dismissed' = dismissed \cup Queued
    /\ UNCHANGED <<added, runs>>

-----------------------------------------------------------------------------
Next ==
    \/ Start
    \/ Clear
    \/ ExecuteNextSubTask
    \/ Abort
    \/ \E t \in Tasks :
          AddTask(t) \/ StartChild(t) \/ ChildConcludes(t) \/ ChildAborted(t)

Spec == Init /\ [][Next]_vars

(* The event loop keeps serving what was posted and every started child     *)
(* concludes; nothing obliges the owner to do anything.                     *)
Fairness ==
    /\ WF_vars(ExecuteNextSubTask)
    /\ \A t \in Tasks : WF_vars(StartChild(t)) /\ WF_vars(ChildConcludes(t))

FairSpec == Spec /\ Fairness

-----------------------------------------------------------------------------
(* Properties *)

(* The state is well formed: in particular m_failed only records finished   *)
(* tasks and a recorded result is the child's own final state.              *)
TypeOK ==
    /\ state \in State
    /\ queue \in Seq(Tasks)
    /\ doing \subseteq Tasks /\ muted \subseteq Tasks
    /\ done \subseteq Tasks /\ failed \subseteq done /\ succeeded \subseteq Tasks
    /\ events \in Seq(Event)
    /\ child \in [Tasks -> State]
    /\ emitted \in Seq(Terminal)
    /\ asserted \in BOOLEAN
    /\ added \subseteq Tasks /\ dismissed \subseteq Tasks
    /\ runs \in 0..MaxRuns /\ aborts \in 0..MaxAborts

(* Never more than max_concurrent children run, whatever was aborted,       *)
(* orphaned or restarted: every running child still occupies a slot of      *)
(* m_doing.                                                                 *)
SlotsBounded ==
    /\ Running \subseteq doing
    /\ Cardinality(doing) <= MaxConcurrent

(* A task handed to addTask is in exactly one of m_queue, m_doing, m_done   *)
(* until abort() or clear() throws its record away; none is lost or run     *)
(* twice on the way through queued calls.                                   *)
Accounted ==
    /\ added = Queued \cup doing \cup done \cup dismissed
    /\ Queued \cap doing = {}
    /\ (Queued \cup doing) \cap (done \cup dismissed) = {}
    /\ done \cap dismissed = {}
    /\ \A i, j \in DOMAIN queue : queue[i] = queue[j] => i = j

(* A running pool always has something that will move it: a wakeup in the   *)
(* event loop, or a child that runs or is about to be started.  (Children   *)
(* whose signal abort() disconnected move nothing.)                         *)
WakeupNeverLost ==
    (state = "Running" /\ doing \cap muted = {}) =>
        \/ Pending(Wakeup)
        \/ \E t \in doing : child[t] = "Running" \/ Pending(StartOf(t))

(* The run is concluded as a success only when no child is unfinished and   *)
(* every task ever added succeeded, was thrown away by abort() or clear(),  *)
(* and nobody's failure was overlooked.                                     *)
SuccessEarned ==
    (state = "Running" /\ state' = "Succeeded") =>
        \A t \in added \ dismissed : child[t] = "Succeeded"

(* A started pool concludes, also one that is started again behind an       *)
(* abort, with children of the earlier run still in m_doing - except when   *)
(* one of these was aborted: its signal is disconnected, so that it stays   *)
(* in m_doing, which clear() leaves alone ("allows the same task to be      *)
(* re-used"), and no run can empty it.                                      *)
LeftBehind == {t \in doing : child[t] = "AbortedByUser"}

Concludes == state = "Running" ~> state # "Running" \/ LeftBehind # {}

(* Without aborts the pool keeps the contract of PoolContract: a task whose *)
(* start is still queued counts as waiting.                                 *)
HasRoom(S) == Cardinality(S) < MaxConcurrent

Contract == INSTANCE PoolContract WITH
    HasRoom <- HasRoom,
    waiting <- Queued \cup {t \in doing : child[t] = "Inactive"},
    active <- {t \in doing : child[t] = "Running"},
    good <- done \ failed,
    bad <- failed,
    outcome <- state

KeepsContract == Contract!Spec
=============================================================================
