-------------------------------- MODULE Launch --------------------------------
(***************************************************************************)
(* Launching one instance: CoreApplication::launch and kill keep one slot  *)
(* per instance for its LaunchController; the controller decides on an     *)
(* account and creates the LaunchTask, which takes its steps one after the *)
(* other; a step may run a process of the system, and one of them is the   *)
(* game.  A new LaunchTask destroys the previous one of the instance.      *)
(* Everything runs on one thread; who delivers the events is the business  *)
(* of TaskRegistry.                                                        *)
(***************************************************************************)
EXTENDS Naturals, Sequences, FiniteSets

CONSTANTS
    Steps,        \* the kinds of the steps of a LaunchTask, in order
    Accounts,     \* whom a controller may find to launch with
    Hurried,      \* does the host launch while an earlier launch has no LaunchTask yet?
    MaxLaunches,  \* bound: calls of launch()
    MaxStops      \* bound: calls of stop and cancel that have an effect

(* "instant": done when start() returns; "claim": ClaimAccount, instant as  *)
(* well; "ask": asynchronous, aborts at once; "wrap": a task awaited in a   *)
(* nested loop (TaskStepWrapper); "wait": asynchronous, cannot be aborted;  *)
(* "command" and "game" run a process.                                      *)
StepKinds == {"instant", "claim", "ask", "wrap", "wait", "command", "game"}

(* "online": an entitled account; "named": an offline account the host      *)
(* named; "offline": the default one is offline and none is entitled.       *)
ASSUME LaunchAssumption ==
    /\ Steps \in Seq(StepKinds) /\ Steps # <<>>
    /\ Accounts \subseteq {"online", "named", "offline"}
    /\ Hurried \in BOOLEAN
    /\ {MaxLaunches, MaxStops} \subseteq Nat

VARIABLES
    ctl,      \* Task::m_state of each controller; "posted", "refresh": see Start
    slot,     \* m_controllers: the controller kept for the instance, or 0
    account,  \* the accountState() of the online account and its refresh
    owner,    \* the controller whose LaunchTask is m_launchProcess, or 0
    running,  \* BaseInstance::m_isRunning, and whether that LaunchTask runs
    lt,       \* LaunchTask::state
    step,     \* LaunchTask::currentStep, from 1
    claimed,  \* does ClaimAccount hold the account?
    proc,     \* the process of the current step
    killed,   \* LoggedProcess::m_is_aborting
    strays,   \* history: games left behind by a destroyed LaunchTask
    stops,    \* stops and cancellations with an effect
    stopped   \* history: launches whose process was killed

launchTask == <<running, lt, step, claimed, proc, killed>>
vars == <<ctl, slot, account, owner, launchTask, strays, stops, stopped>>

Launches == 1..MaxLaunches
Over == {"Succeeded", "Failed", "AbortedByUser"}
Processes == {"command", "game"}

(* The states of the account: a launch asks for a refresh in the first      *)
(* three (Unchecked or about to expire, Errored, Offline); in the next two  *)
(* the refresh exists and waits to be started, or runs; "refused" are       *)
(* Expired, Disabled and Gone.                                              *)
NeedsRefresh == {"stale", "errored", "unreachable"}
AccountStates == NeedsRefresh \cup {"created", "refreshing", "fresh", "refused"}

In(phase) == {c \in Launches : ctl[c] = phase}
InProgress(kinds) == running /\ Steps[step] \in kinds

Init ==
    /\ ctl = [c \in Launches |-> "none"] /\ slot = 0
    /\ account \in {"stale", "fresh"}
    /\ owner = 0
    /\ running = FALSE /\ lt = "Running" /\ step = 1
    /\ claimed = FALSE
    /\ proc = "none" /\ killed = FALSE
    /\ strays = 0
    /\ stops = 0 /\ stopped = {}

-----------------------------------------------------------------------------
(* The chain of steps *)

(* A chain of steps that begins at i comes to rest at a step that waits for *)
(* something, at one that fails at once, or behind the last.                *)
Rests(i) ==
    LET Passes(k) == Steps[k] \notin Processes \cup {"ask"}
        Reached == {j \in i..Len(Steps) : \A k \in i..(j - 1) : Passes(k)}
    IN  {[step |-> j, how |-> "in"] : j \in {k \in Reached : Steps[k] \notin {"instant", "claim"}}}
        \cup {[step |-> j, how |-> "Failed"] : j \in {k \in Reached : Steps[k] # "ask"}}
        \cup IF \A k \in i..Len(Steps) : Passes(k)
             THEN {[step |-> Len(Steps), how |-> "Succeeded"]} ELSE {}

Among(kind, i, j) == \E k \in i..j : Steps[k] = kind

(* controllerFinished removes whatever the map holds for the instance.      *)
Slot(was) == IF \E c \in Launches : ctl'[c] \in Over /\ was[c] \notin Over THEN 0 ELSE slot

(* What finalizeSteps leaves of the claim when a launch ends. *)
Held(rest, held) == held /\ rest.how = "in"

(* The chain that began at i comes to rest, in the LaunchTask of controller *)
(* c: a wrapper that was started sets its state to Waiting, a LaunchTask    *)
(* that ends tells its controller, and a controller that is told after it   *)
(* has ended asserts and keeps its state.                                   *)
Settle(c, i, rest, before) ==
    /\ step' = rest.step
    /\ lt' = IF Among("wrap", i, rest.step) THEN "Waiting" ELSE before.lt
    /\ claimed' = Held(rest, before.claimed \/ Among("claim", i, rest.step))
    /\ running' = (rest.how = "in")
    /\ proc' = IF running' /\ Steps[rest.step] \in Processes THEN "starting" ELSE "none"
    /\ killed' = FALSE
    /\ ctl' = [ctl EXCEPT ![c] = IF before.ctl = "Running" /\ ~running' THEN rest.how ELSE before.ctl]
    /\ slot' = Slot(ctl)

RunFrom(c, i, before) == \E rest \in Rests(i) : Settle(c, i, rest, before)

Now(c) == [lt |-> lt, claimed |-> claimed, ctl |-> ctl[c]]

StepSucceeds == RunFrom(owner, step + 1, Now(owner))
StepFails == Settle(owner, step + 1, [step |-> step, how |-> "Failed"], Now(owner))

(* launchInstance: the LaunchTask of an earlier launch is destroyed, its    *)
(* game (LoggedProcess::m_is_detachable) is not.                            *)
LaunchInstance(c, phase) ==
    /\ RunFrom(c, 1, [lt |-> "Running", claimed |-> FALSE, ctl |-> phase])
    /\ owner' = c
    /\ strays' = IF InProgress({"game"}) THEN strays + 1 ELSE strays

Conclude(c, phase) ==
    /\ ctl' = [ctl EXCEPT ![c] = phase]
    /\ slot' = Slot(ctl)
    /\ UNCHANGED <<owner, launchTask, strays>>

-----------------------------------------------------------------------------
(* The host *)

(* Mutated form of MayLaunch: the instance is not asked. *)
MayLaunchAlways == TRUE

(* canLaunch *)
MayLaunch == ~running

(* CoreApplication::launch: the controller takes the slot, its start is     *)
(* posted.                                                                  *)
LaunchCall(c) ==
    /\ ctl[c] = "none" /\ \A d \in 1..(c - 1) : ctl[d] # "none"
    /\ MayLaunch
    /\ Hurried \/ In("posted") \cup In("refresh") = {}
    /\ ctl' = [ctl EXCEPT ![c] = "posted"]
    /\ slot' = c
    /\ UNCHANGED <<account, owner, launchTask, strays, stops, stopped>>

(* LaunchTask::abort, reached through the controller c.  Without a launcher *)
(* it is TRUE and has no effect; a task of a step may accept and go on.     *)
Abort(c) ==
    /\ owner = c /\ running
    /\ lt # "Aborted"
    /\ \/ /\ InProgress(Processes)
          /\ killed' = TRUE /\ lt' = "Aborted"
          /\ stopped' = stopped \cup {c}
          /\ UNCHANGED <<ctl, slot, running, step, claimed, proc>>
       \/ /\ InProgress({"wrap"})
          /\ lt' = "Aborted"
          /\ UNCHANGED <<ctl, slot, running, step, claimed, proc, killed, stopped>>
       \/ /\ InProgress({"ask", "wrap"})
          /\ Settle(c, step + 1, [step |-> step, how |-> "Failed"], [Now(c) EXCEPT !.lt = "Aborted"])
          /\ UNCHANGED stopped

(* stop_instance; CoreApplication::kill looks for the controller in the map *)
Stop ==
    /\ stops < MaxStops
    /\ stops' = stops + 1
    /\ slot # 0
    /\ Abort(slot)
    /\ UNCHANGED <<account, owner, strays>>

(* cancel_task: the registry has kept the controller. *)
CancelTask(c) ==
    /\ stops < MaxStops
    /\ stops' = stops + 1
    /\ ctl[c] # "none"
    /\ Abort(c)
    /\ UNCHANGED <<account, owner, strays>>

-----------------------------------------------------------------------------
(* Events.  Posted starts come first and in order. *)

(* LaunchController::executeTask up to the launch or the wait for the       *)
(* account.  A launch with a default account that is offline has failed     *)
(* (decideAccount) and goes on.                                             *)
Start(c) ==
    /\ ctl[c] = "posted" /\ \A d \in In("posted") : c <= d
    /\ \/ /\ Conclude(c, "Failed")  \* Java arguments, settings, no account
          /\ UNCHANGED account
       \/ /\ "online" \in Accounts /\ account \in NeedsRefresh \cup {"created", "refreshing"}
          /\ account' = IF account = "refreshing" THEN account ELSE "created"
          /\ ctl' = [ctl EXCEPT ![c] = "refresh"]
          /\ UNCHANGED <<slot, owner, launchTask, strays>>
       \/ /\ "online" \in Accounts /\ account = "refused"
          /\ Conclude(c, "AbortedByUser")
          /\ UNCHANGED account
       \/ \E who \in Accounts :
             /\ who = "online" => account = "fresh"
             /\ LaunchInstance(c, IF who = "offline" THEN "Failed" ELSE "Running")
             /\ UNCHANGED account
    /\ UNCHANGED <<stops, stopped>>

(* AccountList::tryNext, in its round at the start of the program and every *)
(* hour: only it starts a refresh, also the one a launch waits for; not     *)
(* while a game uses the account.                                           *)
RefreshStarts ==
    /\ In("posted") = {}
    /\ \/ account = "created"
       \/ account \in NeedsRefresh /\ In("refresh") = {}
    /\ ~claimed
    /\ account' = "refreshing"
    /\ UNCHANGED <<ctl, slot, owner, launchTask, strays, stops, stopped>>

RefreshEnds ==
    /\ In("posted") = {}
    /\ account = "refreshing"
    /\ account' \in {"fresh", "refused", "errored", "unreachable"}
    /\ UNCHANGED <<ctl, slot, owner, launchTask, strays, stops, stopped>>

(* Mutated form of Resume: a launch that is refused says nothing. *)
ResumeMute(c) ==
    /\ ctl[c] = "refresh" /\ \A d \in In("refresh") : d <= c
    /\ account \in {"fresh", "unreachable"}
    /\ ~(InProgress({"wrap"}) /\ owner > c)
    /\ LaunchInstance(c, "Running")
    /\ UNCHANGED <<account, stops, stopped>>

(* The loop in decideLaunchMode returns: not while a loop above it runs,    *)
(* that of a later launch or of one of its wrappers.  With an account that  *)
(* cannot be reached the launch goes on in offline mode.                    *)
Resume(c) ==
    /\ ctl[c] = "refresh" /\ \A d \in In("refresh") : d <= c
    /\ account \notin {"created", "refreshing"}
    /\ ~(InProgress({"wrap"}) /\ owner > c)
    /\ IF account \in {"fresh", "unreachable"} THEN LaunchInstance(c, "Running") ELSE Conclude(c, "AbortedByUser")
    /\ UNCHANGED <<account, stops, stopped>>

StepEnds ==
    /\ In("posted") = {}
    /\ \/ InProgress({"ask", "wrap", "wait"}) /\ StepSucceeds
       \/ InProgress({"wrap", "wait"}) /\ StepFails
    /\ UNCHANGED <<account, owner, strays, stops, stopped>>

(* Mutated form of ProcessStarts: onReadyForLaunch does not set the state. *)
ProcessStartsUnready ==
    /\ In("posted") = {}
    /\ proc = "starting"
    /\ proc' = "running"
    /\ UNCHANGED <<ctl, slot, account, owner, running, lt, step, claimed, killed, strays, stops, stopped>>

(* LoggedProcess::on_stateChange; the game is told to go on at once, since  *)
(* no profiler is ever registered.                                          *)
ProcessStarts ==
    /\ In("posted") = {}
    /\ proc = "starting"
    /\ proc' = "running"
    /\ lt' = IF Steps[step] = "game" THEN "Waiting" ELSE lt
    /\ UNCHANGED <<ctl, slot, account, owner, running, step, claimed, killed, strays, stops, stopped>>

ProcessFailsToStart ==
    /\ In("posted") = {}
    /\ proc = "starting"
    /\ StepFails
    /\ UNCHANGED <<account, owner, strays, stops, stopped>>

(* Mutated form of ProcessExits: a killed process is judged by its code. *)
ProcessExitsUnjudged ==
    /\ In("posted") = {}
    /\ proc = "running"
    /\ StepSucceeds \/ StepFails
    /\ UNCHANGED <<account, owner, strays, stops, stopped>>

(* LoggedProcess::on_exit *)
ProcessExits ==
    /\ In("posted") = {}
    /\ proc = "running"
    /\ \/ ~killed /\ StepSucceeds
       \/ StepFails
    /\ UNCHANGED <<account, owner, strays, stops, stopped>>

-----------------------------------------------------------------------------
Next ==
    \/ \E c \in Launches : LaunchCall(c) \/ CancelTask(c) \/ Start(c) \/ Resume(c)
    \/ Stop
    \/ RefreshStarts \/ RefreshEnds
    \/ StepEnds
    \/ ProcessStarts \/ ProcessFailsToStart \/ ProcessExits

Spec == Init /\ [][Next]_vars

(* Events are delivered, the account list comes round to the account, a     *)
(* refresh and a step come to an end, and a process exits: the system       *)
(* reports that of a killed one, the player ends a game.                    *)
Fairness ==
    /\ \A c \in Launches : WF_vars(Start(c)) /\ WF_vars(Resume(c))
    /\ WF_vars(RefreshStarts) /\ WF_vars(RefreshEnds) /\ WF_vars(StepEnds)
    /\ WF_vars(ProcessStarts \/ ProcessFailsToStart) /\ WF_vars(ProcessExits)

FairSpec == Spec /\ Fairness

-----------------------------------------------------------------------------
(* Properties *)

(* An instance that may be launched is at rest: no game of an earlier       *)
(* launch is still there, and its account is free.                          *)
AtRest == ~running => strays = 0 /\ proc = "none" /\ ~claimed

(* stop_instance reaches a game that runs: the map leads to the controller  *)
(* whose LaunchTask runs it, and that LaunchTask would kill it.             *)
StopReachesTheGame ==
    InProgress({"game"}) /\ proc = "running" /\ ~killed =>
        /\ slot # 0 /\ slot = owner
        /\ lt # "Aborted"

(* A launch whose process was killed by a stop is not reported a success,   *)
(* whatever the process made of it.                                         *)
StopSticks == \A c \in stopped : ctl[c] # "Succeeded"

(* Every launch that launch() accepted comes to an end its host is told of. *)
LaunchEnds == \A c \in Launches : (ctl[c] = "posted") ~> (ctl[c] \in Over)
=============================================================================
