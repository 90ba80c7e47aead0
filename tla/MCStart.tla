------------------------------- MODULE MCStart -------------------------------
(* For TLC, side by side: the launches of one instance with one account,    *)
(* and the accounts that launches of several instances wait for.            *)
EXTENDS MCLaunch, Accounts

VARIABLES subject

TheLists == {<<"ann">>, <<"off">>}

startVars == <<vars, listVars, subject>>

MCInit ==
    /\ subject \in {"launch", "list"}
    /\ Init /\ ListInit
    /\ IF subject = "launch" THEN list = <<"off">> /\ default = "off" ELSE account = "fresh"

MCNext ==
    /\ \/ subject = "launch" /\ Next /\ UNCHANGED listVars
       \/ subject = "list" /\ ListNext /\ UNCHANGED vars
    /\ UNCHANGED subject

(* The fairness of the two modules; what happens to a launch or a flow once *)
(* need not be fair to each of them.                                        *)
InLaunch == subject = "launch" /\ UNCHANGED <<listVars, subject>>
InList == subject = "list" /\ UNCHANGED <<vars, subject>>

Starts == InLaunch /\ \E c \in Launches : Start(c)
Resumes == InLaunch /\ \E c \in Launches : Resume(c)
Refreshes == InLaunch /\ RefreshStarts
Refreshed == InLaunch /\ RefreshEnds
StepsEnd == InLaunch /\ StepEnds
ProcessBegins == InLaunch /\ (ProcessStarts \/ ProcessFailsToStart)
ProcessEnds == InLaunch /\ ProcessExits

Rounds == InList /\ FillQueue
Nexts == InList /\ NextTimeout
Loops == InList /\ LoopReturns
Flows == InList /\ \E a \in Ids : FlowConcludes(a)
Ages(a) == InList /\ Age(a)
Games == InList /\ \E l \in Controllers : GameEnds(l)

MCSpec ==
    /\ MCInit /\ [][MCNext]_startVars
    /\ WF_startVars(Starts) /\ WF_startVars(Resumes)
    /\ WF_startVars(Refreshes) /\ WF_startVars(Refreshed) /\ WF_startVars(StepsEnd)
    /\ WF_startVars(ProcessBegins) /\ WF_startVars(ProcessEnds)
    /\ WF_startVars(Rounds) /\ WF_startVars(Nexts) /\ WF_startVars(Loops)
    /\ WF_startVars(Flows) /\ WF_startVars(Games)
    /\ \A a \in Ids : WF_startVars(Ages(a))

=============================================================================
