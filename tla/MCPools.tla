------------------------------- MODULE MCPools -------------------------------
(* The pool with aborts, the two tasks with one slot derived from it, the   *)
(* folder of mods or of packs, whose resolver is a pool, the Java of an     *)
(* instance and its files: side by side, for TLC.  A behaviour begins with  *)
(* the choice of one.                                                       *)
EXTENDS ConcurrentTask, Preparation, ResourceFolder

CONSTANTS t1, t2, t3

VARIABLE subject

ThreeTasks == {t1, t2, t3}
OneStubborn == {t1, t2}

Sequence == INSTANCE SequentialTask WITH MaxConcurrent <- 1
Options == INSTANCE MultipleOptionsTask WITH MaxConcurrent <- 1, LateAdds <- FALSE

launchVars == <<javaVars, fileVars>>
poolsVars == <<vars, folderVars, launchVars, subject>>

MCInit ==
    /\ subject \in {"pool", "sequence", "options", "folder", "java", "files"}
    /\ Init /\ FolderInit /\ JavaInit /\ FilesInit
    /\ subject # "folder" => mods /\ \A id \in Ids : disk[id] = 0
    /\ subject # "java" =>
           /\ \A place \in DOMAIN machine : machine[place].kind = "missing"
           /\ setup = [java |-> "off", delivery |-> "manifest", ignore |-> FALSE, checker |-> FALSE]
    /\ setup.java # "download" => setup.delivery = "manifest"
    /\ subject # "files" => ~legacy /\ ~virtual /\ store = {}

MCNext ==
    /\ \/ subject = "pool" /\ Next /\ UNCHANGED <<folderVars, launchVars>>
       \/ subject = "sequence" /\ Sequence!SeqNext /\ UNCHANGED <<folderVars, launchVars>>
       \/ subject = "options" /\ Options!OptNext /\ UNCHANGED <<folderVars, launchVars>>
       \/ subject = "folder" /\ FolderNext /\ UNCHANGED <<vars, launchVars>>
       \/ subject = "java" /\ JavaNext /\ UNCHANGED <<vars, folderVars, fileVars>>
       \/ subject = "files" /\ FilesNext /\ UNCHANGED <<vars, folderVars, javaVars>>
    /\ UNCHANGED subject

(* The fairness of the modules. *)
PoolWakes ==
    /\ subject \in {"pool", "sequence"}
    /\ ExecuteNextSubTask /\ UNCHANGED <<folderVars, launchVars, subject>>
OptionsWake ==
    subject = "options" /\ Options!ExecuteNextOption /\ UNCHANGED <<folderVars, launchVars, subject>>
JavaProceeds ==
    subject = "java" /\ Proceed /\ UNCHANGED <<vars, folderVars, fileVars, subject>>
StartsChild(t) ==
    /\ \/ subject = "sequence" /\ Sequence!StartStep(t)
       \/ subject \in {"pool", "options"} /\ StartChild(t)
    /\ UNCHANGED <<folderVars, launchVars, subject>>
EndsChild(t) ==
    /\ \/ subject = "sequence" /\ Sequence!StepConcludes(t)
       \/ subject \in {"pool", "options"} /\ ChildConcludes(t)
    /\ UNCHANGED <<folderVars, launchVars, subject>>

MCSpec ==
    /\ MCInit /\ [][MCNext]_poolsVars
    /\ WF_poolsVars(PoolWakes) /\ WF_poolsVars(OptionsWake)
    /\ WF_poolsVars(JavaProceeds)
    /\ \A t \in Tasks : WF_poolsVars(StartsChild(t)) /\ WF_poolsVars(EndsChild(t))

-----------------------------------------------------------------------------
(* A verdict is earned: a pool succeeds only if every task that was not     *)
(* thrown away did, a step of a sequence begins only when every earlier one *)
(* succeeded, and one option that works ends the task with options, which   *)
(* only the failure of all fails.                                           *)
VerdictsEarned ==
    [][/\ subject = "pool" => SuccessEarned
       /\ subject = "sequence" => Sequence!StepBuildsOnSuccess
       /\ subject = "options" => Options!OptionDecides]_poolsVars

(* A pool, a sequence or a task with options concludes each of its runs,    *)
(* aborted in between or not, unless a child that was aborted is left in    *)
(* m_doing; and the steps of a launch that see to its Java end.             *)
TasksConclude == Concludes /\ JavaStepsEnd
=============================================================================
