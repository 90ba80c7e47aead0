---------------------------- MODULE TaskRegistry ----------------------------
(***************************************************************************)
(* corebackend/src/Backend.cpp, the asynchronous half of the C interface:  *)
(* a host begins tasks, polls, awaits or cancels them by id, and makes     *)
(* calls that run a task to its end before they return.  Everything runs   *)
(* on the host's thread.  Events are delivered by a loop: the host's own   *)
(* one, if it has a Qt application, and the nested ones of wait_task, of   *)
(* runTaskSync and of the launch steps, each on top of the others.         *)
(***************************************************************************)
EXTENDS Naturals, Sequences, FiniteSets

CONSTANTS
    Limit,      \* 32 in the code
    Kinds,      \* the kinds of tasks begun: "staging", "export", "login", "launch"
    HostLoop,   \* does the host run a Qt event loop of its own?
    Reentrant,  \* does it call the backend from inside a nested loop?
    MaxTasks,   \* bound: tasks begun
    MaxCalls    \* bound: calls that pump the loop

ASSUME RegistryAssumption ==
    /\ Limit \in Nat \ {0} /\ {MaxTasks, MaxCalls} \subseteq Nat
    /\ Kinds \subseteq {"staging", "export", "login", "launch"}
    /\ {HostLoop, Reentrant} \subseteq BOOLEAN

VARIABLES
    issued,    \* m_nextTaskId - 1
    known,     \* the ids in m_tasks
    kind,      \* the type each task was begun with
    phase,     \* Task::m_state of each task; "queued" while its start is posted
    reported,  \* what task_status says
    stack,     \* the nested loops, innermost last
    sync,      \* the task runTaskSync runs
    calls,     \* wait and sync calls so far
    accepted   \* history: unfinished tasks that accepted a cancellation

vars == <<issued, known, kind, phase, reported, stack, sync, calls, accepted>>
registry == <<issued, known, kind>>

Ids == 1..MaxTasks
Ended == {"Succeeded", "Failed", "AbortedByUser"}
Unfinished(id) == phase[id] \in {"queued", "running", "canceling"}
Report(p) == CASE p = "Succeeded" -> "succeeded"
               [] p = "Failed" -> "failed"
               [] p = "AbortedByUser" -> "aborted"
               [] OTHER -> "running"

Frame(what, id) == [what |-> what, id |-> id, over |-> FALSE]
Push(frame) == stack' = Append(stack, frame)
Finish(frames) == [i \in 1..Len(stack) |-> [stack[i] EXCEPT !.over = @ \/ stack[i] \in frames]]
Top == stack[Len(stack)]

(* A loop that was told to quit delivers nothing more; the ones below it    *)
(* deliver nothing until it has returned.                                   *)
Pumped == IF stack = <<>> THEN HostLoop ELSE ~Top.over
HostFree == stack = <<>> \/ Reentrant

Init ==
    /\ issued = 0 /\ known = {}
    /\ kind = [id \in Ids |-> "none"]
    /\ phase = [id \in Ids |-> "none"]
    /\ reported = [id \in Ids |-> "running"]
    /\ stack = <<>> /\ sync = "none"
    /\ calls = 0
    /\ accepted = {}

-----------------------------------------------------------------------------
(* Calls of the host *)

(* Mutated forms of Pruned: unfinished tasks are erased, the newest goes    *)
(* first.                                                                   *)
PrunedAny(ids) == {id \in ids : Cardinality({other \in ids : other >= id}) <= Limit}
PrunedNewest(ids) ==
    {id \in ids : \/ Cardinality({other \in ids : other <= id}) <= Limit
                  \/ Unfinished(id)}

(* pruneFinishedTasks: the oldest go while there are too many, up to the    *)
(* first one that is unfinished.                                            *)
Pruned(ids) ==
    {id \in ids : \/ Cardinality({other \in ids : other >= id}) <= Limit
                  \/ \E other \in ids : other <= id /\ reported[other] = "running"}

(* create, import, export, login and launch: the task is tracked and its    *)
(* start is posted.                                                         *)
Begin(k) ==
    /\ HostFree
    /\ issued < MaxTasks
    /\ issued' = issued + 1
    /\ kind' = [kind EXCEPT ![issued'] = k]
    /\ phase' = [phase EXCEPT ![issued'] = "queued"]
    /\ known' = Pruned(known \cup {issued'})
    /\ UNCHANGED <<reported, stack, sync, calls, accepted>>

(* Mutated form of CancelOutcome: an export says it is aborted and goes on. *)
CancelOutcomeCareless(k, p) == {<<TRUE, p>>, <<FALSE, p>>}

(* What abort() of a task of that kind answers, and the phase it leaves it  *)
(* in: the flow of a login, the launch controller (with and without a       *)
(* launcher), the future of an export, the child of an InstanceStaging.     *)
CancelOutcome(k, p) ==
    CASE k = "login" -> {<<TRUE, IF p = "running" THEN "AbortedByUser" ELSE p>>}
      [] k = "launch" /\ p = "queued" -> {<<TRUE, p>>}
      [] k = "launch" /\ p = "running" -> {<<TRUE, p>>, <<FALSE, p>>, <<TRUE, "canceling">>}
      [] k = "launch" /\ p = "canceling" -> {<<FALSE, p>>}
      [] k = "export" /\ p = "running" -> {<<TRUE, "canceling">>, <<FALSE, p>>}
      [] k = "export" /\ p = "canceling" -> {<<TRUE, p>>, <<FALSE, p>>}
      [] k = "staging" /\ p = "running" -> {<<TRUE, p>>, <<FALSE, p>>, <<TRUE, "AbortedByUser">>}
      [] k \in {"export", "staging"} /\ p = "queued" -> {<<FALSE, p>>}
      [] OTHER -> {<<TRUE, p>>, <<FALSE, p>>}

Cancel(id) ==
    /\ HostFree
    /\ id \in known
    /\ \E outcome \in CancelOutcome(kind[id], phase[id]) :
          /\ phase' = [phase EXCEPT ![id] = outcome[2]]
          /\ reported' = [reported EXCEPT ![id] = IF outcome[2] = "AbortedByUser" THEN "aborted" ELSE @]
          /\ accepted' = IF outcome[1] /\ Unfinished(id) THEN accepted \cup {id} ELSE accepted
    /\ UNCHANGED <<registry, stack, sync, calls>>

(* wait_task for a task that is known and has not finished.                 *)
Wait(id) ==
    /\ HostFree
    /\ calls < MaxCalls
    /\ calls' = calls + 1
    /\ id \in known /\ reported[id] = "running"
    /\ Push(Frame("wait", id))
    /\ UNCHANGED <<registry, phase, reported, sync, accepted>>

(* runTaskSync of a task that does not end while it is started; the model   *)
(* has one at a time.                                                       *)
RunSync ==
    /\ HostFree
    /\ calls < MaxCalls
    /\ calls' = calls + 1
    /\ sync = "none"
    /\ sync' = "running"
    /\ Push(Frame("sync", 0))
    /\ UNCHANGED <<registry, phase, reported, accepted>>

-----------------------------------------------------------------------------
(* Events, delivered by whatever loop is innermost *)

StartTask(id) ==
    /\ Pumped
    /\ phase[id] = "queued"
    /\ phase' = [phase EXCEPT ![id] = "running"]
    /\ UNCHANGED <<registry, reported, stack, sync, calls, accepted>>

StepsOf(id) == {frame \in {stack[i] : i \in 1..Len(stack)} : frame.what = "step" /\ frame.id = id}

(* A launch step that reports progress is awaited in a loop of its own.     *)
EnterStep(id) ==
    /\ Pumped
    /\ kind[id] = "launch" /\ phase[id] = "running"
    /\ StepsOf(id) = {}
    /\ Push(Frame("step", id))
    /\ UNCHANGED <<registry, phase, reported, sync, calls, accepted>>

StepEnds(id) ==
    /\ Pumped
    /\ StepsOf(id) # {}
    /\ stack' = Finish(StepsOf(id))
    /\ UNCHANGED <<registry, phase, reported, sync, calls, accepted>>

(* A killed launch fails, a cancelled export is aborted. *)
Outcomes(id) ==
    CASE phase[id] = "running" -> Ended
      [] phase[id] = "canceling" -> IF kind[id] = "launch" THEN {"Failed"} ELSE {"AbortedByUser"}
      [] OTHER -> {}

(* Mutated form of Conclude: aborted() is not connected to the entry.       *)
ConcludeUnseen(id) ==
    /\ Pumped
    /\ \A frame \in StepsOf(id) : frame.over
    /\ \E p \in Outcomes(id) :
          /\ phase' = [phase EXCEPT ![id] = p]
          /\ reported' = [reported EXCEPT ![id] = IF p = "AbortedByUser" THEN "running" ELSE Report(p)]
    /\ UNCHANGED <<registry, stack, sync, calls, accepted>>

(* A task concludes; the slots of its entry record how.                     *)
Conclude(id) ==
    /\ Pumped
    /\ \A frame \in StepsOf(id) : frame.over
    /\ \E p \in Outcomes(id) :
          /\ phase' = [phase EXCEPT ![id] = p]
          /\ reported' = [reported EXCEPT ![id] = Report(p)]
    /\ UNCHANGED <<registry, stack, sync, calls, accepted>>

SyncFrames == {frame \in {stack[i] : i \in 1..Len(stack)} : frame.what = "sync"}

(* The synchronous task ends: failed() and aborted() quit the loop,         *)
(* succeeded() only notes the success.                                      *)
SyncConcludes ==
    /\ Pumped
    /\ sync = "running"
    /\ sync' \in Ended
    /\ stack' = IF sync' = "Succeeded" THEN stack ELSE Finish(SyncFrames)
    /\ UNCHANGED <<registry, phase, reported, calls, accepted>>

(* Mutated form of SyncValve: there is none. *)
SyncValveMissing == FALSE /\ UNCHANGED vars

SyncValve ==
    /\ Pumped
    /\ SyncFrames # {}
    /\ stack' = Finish(SyncFrames)
    /\ UNCHANGED <<registry, phase, reported, sync, calls, accepted>>

(* The time of a wait_task is up. *)
Expire ==
    /\ \E i \in 1..Len(stack) :
          /\ stack[i].what = "wait" /\ ~stack[i].over
          /\ stack' = [stack EXCEPT ![i].over = TRUE]
    /\ UNCHANGED <<registry, phase, reported, sync, calls, accepted>>

(* The innermost loop returns.  That of wait_task looks at the task again   *)
(* at least once a second.                                                  *)
Return ==
    /\ stack # <<>>
    /\ \/ Top.over
       \/ Top.what = "wait" /\ (Top.id \notin known \/ reported[Top.id] # "running")
    /\ stack' = SubSeq(stack, 1, Len(stack) - 1)
    /\ sync' = IF Top.what = "sync" THEN "none" ELSE sync
    /\ UNCHANGED <<registry, phase, reported, calls, accepted>>

-----------------------------------------------------------------------------
Next ==
    \/ \E k \in Kinds : Begin(k)
    \/ \E id \in 1..issued :
          \/ Cancel(id) \/ Wait(id)
          \/ StartTask(id) \/ EnterStep(id) \/ StepEnds(id) \/ Conclude(id)
    \/ RunSync \/ SyncConcludes \/ SyncValve
    \/ Expire
    \/ Return

Spec == Init /\ [][Next]_vars

(* Timers fire, a loop that was told to quit returns, and a loop that runs  *)
(* delivers what every task has to say; a task works on without the loop    *)
(* (network, processes, worker threads) and always comes to an end.  The    *)
(* host owes nothing.                                                       *)
Fairness ==
    /\ WF_vars(Expire) /\ WF_vars(Return) /\ WF_vars(SyncValve)
    /\ \A id \in Ids : SF_vars(StartTask(id)) /\ SF_vars(Conclude(id)) /\ SF_vars(StepEnds(id))

FairSpec == Spec /\ Fairness

-----------------------------------------------------------------------------
(* Properties *)

(* The entry of a task that has not finished is never erased, whatever was  *)
(* begun after it: its host can still poll, await and cancel it.            *)
UnfinishedIsKnown == \A id \in 1..issued : Unfinished(id) => id \in known

(* The results of the last Limit tasks can be asked for. *)
RecentIsKnown == \A id \in 1..issued : id + Limit > issued => id \in known

(* task_status tells how a task ended as soon as it has.                    *)
StatusIsTrue == \A id \in 1..issued : reported[id] = Report(phase[id])

(* An export that accepted its cancellation does not succeed, whenever the  *)
(* cancellation came and however often it was repeated.  (A login or the    *)
(* creation of an instance may: their abort() accepts without effect before *)
(* the posted start and between two steps.)                                 *)
ExportCancelSticks == \A id \in accepted : kind[id] = "export" => phase[id] # "Succeeded"
=============================================================================
