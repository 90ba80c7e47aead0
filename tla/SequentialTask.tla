--------------------------- MODULE SequentialTask ---------------------------
(***************************************************************************)
(* launcher/tasks/SequentialTask: a ConcurrentTask with one slot that      *)
(* fails as soon as one child fails.  Only the report of a child differs:  *)
(* subTaskFailed files the child like the pool does and then concludes the *)
(* whole task, with the next wakeup still queued.                          *)
(***************************************************************************)
EXTENDS ConcurrentTask

(* subTaskSucceeded is inherited; subTaskFailed, which also hears a child's *)
(* aborted signal, ends in emitFailed.                                      *)
SubTaskReported(t, result, pending) ==
    /\ SubTaskFinished(t, result, pending)
    /\ IF result = "Succeeded" THEN UNCHANGED taskVars ELSE Emit("Failed")

StartStep(t) ==
    /\ events # <<>>
    /\ Head(events) = StartOf(t)
    /\ \/ /\ child' = [child EXCEPT ![t] = "Running"]
          /\ events' = Tail(events)
          /\ UNCHANGED <<poolVars, taskVars>>
       \/ \E result \in {"Succeeded", "Failed"} :
             /\ child' = [child EXCEPT ![t] = result]
             /\ SubTaskReported(t, result, Tail(events))
    /\ UNCHANGED <<muted, history, budget>>

StepConcludes(t) ==
    /\ child[t] = "Running"
    /\ \E result \in {"Succeeded", "Failed"} :
          /\ child' = [child EXCEPT ![t] = result]
          /\ SubTaskReported(t, result, events)
    /\ UNCHANGED <<muted, history, budget>>

StepAborted(t) ==
    /\ child[t] = "Running"
    /\ t \in Abortable
    /\ child' = [child EXCEPT ![t] = "AbortedByUser"]
    /\ IF t \in muted
       THEN UNCHANGED <<poolVars, taskVars, events>>
       ELSE SubTaskReported(t, "Aborted", events)
    /\ UNCHANGED <<muted, history, budget>>

SeqNext ==
    \/ Start
    \/ Clear
    \/ ExecuteNextSubTask
    \/ Abort
    \/ \E t \in Tasks : AddTask(t) \/ StartStep(t) \/ StepConcludes(t) \/ StepAborted(t)

SeqSpec == Init /\ [][SeqNext]_vars

SeqFairness ==
    /\ WF_vars(ExecuteNextSubTask)
    /\ \A t \in Tasks : WF_vars(StartStep(t)) /\ WF_vars(StepConcludes(t))

SeqFairSpec == SeqSpec /\ SeqFairness

-----------------------------------------------------------------------------
(* A later step begins only when every earlier one has succeeded.  The      *)
(* order is that of addTask: whatever is still queued came after it; clear() may     *)
(* have thrown a record away.                                               *)
StepBuildsOnSuccess ==
    \A t \in Tasks :
        (child[t] # "Running" /\ child'[t] = "Running" /\ runs = 1 /\ aborts = 0) =>
            \A u \in added \ (Queued \cup dismissed \cup {t}) : child[u] = "Succeeded"
=============================================================================
