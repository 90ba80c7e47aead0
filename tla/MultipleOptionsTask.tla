------------------------ MODULE MultipleOptionsTask -------------------------
(***************************************************************************)
(* launcher/tasks/MultipleOptionsTask: a ConcurrentTask with one slot that *)
(* tries its children in turn until one succeeds.  It overrides            *)
(* executeNextSubTask, whose tests come before those of the pool: there is *)
(* no isRunning() in front of the two conclusions.                         *)
(***************************************************************************)
EXTENDS ConcurrentTask

SomeOptionWorked == Cardinality(done) # Cardinality(failed)

ConcludeOptions ==
    /\ SomeOptionWorked \/ queue = <<>>
    /\ Emit(IF SomeOptionWorked THEN "Succeeded" ELSE "Failed")
    /\ events' = Tail(events)
    /\ UNCHANGED <<poolVars, child, muted>>

TryNextOption ==
    /\ ~SomeOptionWorked
    /\ queue # <<>>
    /\ SkipWakeup \/ StartSubTask

ExecuteNextOption ==
    /\ events # <<>>
    /\ Head(events) = Wakeup
    /\ ConcludeOptions \/ TryNextOption
    /\ UNCHANGED <<history, budget>>

OptNext ==
    \/ Start
    \/ Clear
    \/ ExecuteNextOption
    \/ Abort
    \/ \E t \in Tasks :
          AddTask(t) \/ StartChild(t) \/ ChildConcludes(t) \/ ChildAborted(t)

OptSpec == Init /\ [][OptNext]_vars

OptFairness ==
    /\ WF_vars(ExecuteNextOption)
    /\ \A t \in Tasks : WF_vars(StartChild(t)) /\ WF_vars(ChildConcludes(t))

OptFairSpec == OptSpec /\ OptFairness

-----------------------------------------------------------------------------
(* "When that happens, the remaining tasks will not run": once an option    *)
(* has worked, in this run or, without clear(), in an earlier one, no other *)
(* is begun; and the task fails only when every option was tried and failed. *)
OptionDecides ==
    /\ (succeeded \cap done # {} /\ ~LateAdds) => Running' \subseteq Running
    /\ (state = "Running" /\ state' = "Failed" /\ aborts' = 0) =>
          queue = <<>> /\ doing = {} /\ \A t \in added \ dismissed : t \in failed
=============================================================================
