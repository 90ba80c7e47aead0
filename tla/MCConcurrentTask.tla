-------------------------- MODULE MCConcurrentTask --------------------------
(* The pool while nobody aborts it, and constants of its run.             *)
EXTENDS ConcurrentTask

CONSTANTS t1, t2, t3

ThreeTasks == {t1, t2, t3}
OneStubborn == {t1, t2}

(* Next without Abort, which MaxAborts = 0 rules out.                     *)
NextUnaborted ==
    \/ Start
    \/ Clear
    \/ ExecuteNextSubTask
    \/ \E t \in Tasks :
          AddTask(t) \/ StartChild(t) \/ ChildConcludes(t) \/ ChildAborted(t)

MCSpec == Init /\ [][NextUnaborted]_vars
=============================================================================
