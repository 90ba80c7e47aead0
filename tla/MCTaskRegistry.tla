--------------------------- MODULE MCTaskRegistry ---------------------------
(* What a host of the backend asks for, as instances for TLC side by side:  *)
(* many plain tasks and no nested loops (subject "table"), one task of any  *)
(* kind under nested calls ("calls"), the log of a game ("log"), a login    *)
(* whose code does not expire unnoticed ("login"), what a game writes       *)
(* ("output"), and an account over refreshes and restarts ("account").      *)
EXTENDS TaskRegistry, LogModel, DeviceLogin, AccountSession, GameOutput

VARIABLE subject

\* A line; an event over two lines; two events in three lines, with text
\* between them; an event that lacks its logger; and one that is not XML.
TheMessages == {<<"text", "end of line">>, <<"event", "end of line", "message", "end", "end of line">>,
                <<"event", "end", "text", "event", "end of line", "message", "end of line", "end", "end of line">>,
                <<"nameless", "end", "end of line">>, <<"event", "broken", "end", "end of line">>}

EveryKind == {"staging", "export", "login", "launch"}
PlainKinds == {"none", "staging", "export"}

MCInit ==
    /\ Init /\ LogInit /\ LoginInit /\ OutputInit /\ SessionInit
    /\ subject \in {"table", "calls", "log", "login", "output", "account"}
    /\ subject # "account" => client = 1

TableNext == subject = "table" /\ Next /\ calls' = 0 /\ \A id \in Ids : kind'[id] \in PlainKinds
CallsNext == subject = "calls" /\ Next /\ issued' <= 1

MCNext ==
    /\ \/ (TableNext \/ CallsNext) /\ UNCHANGED <<logVars, loginVars, outputVars, sessionVars>>
       \/ subject = "log" /\ LogNext /\ UNCHANGED <<vars, loginVars, outputVars, sessionVars>>
       \/ subject = "login" /\ LoginNext /\ UNCHANGED <<vars, logVars, outputVars, sessionVars>>
       \/ /\ subject = "output" /\ ~mixed /\ OutputNext
          /\ UNCHANGED <<vars, logVars, loginVars, sessionVars>>
       \/ /\ subject = "account" /\ SessionNext
          /\ UNCHANGED <<vars, logVars, loginVars, outputVars>>
    /\ UNCHANGED subject

(* The fairness of TaskRegistry, for the one task of the calls. *)
InCalls(action) ==
    /\ subject = "calls" /\ action
    /\ UNCHANGED <<subject, logVars, loginVars, outputVars, sessionVars>>
WaitEnds == InCalls(Expire)
Returns == InCalls(Return)
Valves == InCalls(SyncValve)
Starts == InCalls(StartTask(1))
Ends == InCalls(Conclude(1))
StepsEnd == InCalls(StepEnds(1))

registryVars == <<vars, subject, logVars, loginVars, outputVars, sessionVars>>

MCSpec ==
    /\ MCInit /\ [][MCNext]_registryVars
    /\ WF_registryVars(WaitEnds) /\ WF_registryVars(Returns) /\ WF_registryVars(Valves)
    /\ SF_registryVars(Starts) /\ SF_registryVars(Ends) /\ SF_registryVars(StepsEnd)

(* Every call that pumps the loop returns to its host, and a host that only *)
(* polls sees its task end.                                                 *)
HostIsServed ==
    /\ (subject = "calls" /\ stack # <<>>) ~> (stack = <<>>)
    /\ (subject = "calls" /\ phase[1] = "queued") ~> (reported[1] # "running")
=============================================================================
