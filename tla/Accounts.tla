------------------------------ MODULE Accounts ------------------------------
(***************************************************************************)
(* launcher/minecraft/auth and the account of a LaunchController: the list *)
(* refreshes its accounts one after the other, in a round at the start and *)
(* every hour; an account has at most one authentication flow.  A launch   *)
(* may create the flow of its account and wait for it in an event loop of  *)
(* its own, but only the list starts flows; the session of a launch is     *)
(* filled when its mode is decided, and the account is claimed when the    *)
(* steps of the launch come to ClaimAccount.                               *)
(* Accounts with a Microsoft login own the game; nobody asks for a refresh *)
(* of an account (requestRefresh has no caller) and nobody aborts one.     *)
(***************************************************************************)
EXTENDS Naturals, FiniteSets, SequencesExt

CONSTANTS
    Ids,          \* accounts, of which MSA are those with a Microsoft login
    MSA,
    Files,        \* the lists the file may hold
    Controllers,  \* launches of different instances
    MaxHost       \* bound: calls of the host that change the list

ASSUME ListAssumption == MSA \subseteq Ids /\ Files \subseteq Seq(Ids)

VARIABLES
    list,      \* m_accounts
    default,   \* m_defaultAccount, or NoAccount
    validity,  \* AccountData::validity_
    old,       \* does the token of a Certain account expire within 12 hours?
    state,     \* AccountData::accountState
    uses,      \* Usable::m_useCount
    flow,      \* the AuthFlow of an account: "none", "created" or "running"
    queue,     \* m_refreshQueue
    next,      \* is m_nextTimer active?
    hourly,    \* is m_refreshTimer active?
    launch,    \* each launch: its phase and, while it matters, its account
    loops,     \* the launches that wait in an event loop, the outermost first
    calls      \* calls of the host

accountVars == <<validity, old, state, uses, flow>>
timerVars == <<queue, next, hourly>>
launchVars == <<launch, loops>>
listVars == <<list, default, accountVars, timerVars, launchVars, calls>>

NoAccount == "no account"
At(p, a) == [phase |-> p, account |-> a]
Listed == ToSet(list)

(* What is read from the file, where an account with a Microsoft login may *)
(* have no profile; the round of the start is the timer's first. *)
ListInit ==
    /\ list \in Files /\ default \in Listed \cup {NoAccount}
    /\ \E bare \in SUBSET (MSA \cap Listed) :
        validity = [a \in Ids |-> IF a \in Listed \ bare THEN "Assumed" ELSE "None"]
    /\ old = [a \in Ids |-> FALSE]
    /\ state = [a \in Ids |-> IF a \in Listed THEN "Unchecked" ELSE "New"]
    /\ uses = [a \in Ids |-> 0] /\ flow = [a \in Ids |-> "none"]
    /\ queue = <<>> /\ next = FALSE /\ hourly = TRUE
    /\ launch = [l \in Controllers |-> At("none", NoAccount)]
    /\ loops = <<>> /\ calls = 0

-----------------------------------------------------------------------------
(* The list *)

(* MinecraftAccount::shouldRefresh                                          *)
ShouldRefresh(a) ==
    /\ uses[a] = 0
    /\ validity[a] = "Assumed" \/ (validity[a] = "Certain" /\ old[a])

(* Mutated form of Refreshable: accounts that were queued are not looked at again. *)
QueuedIsRefreshable(a) == a \in Listed

(* Mutated form of Refreshable: an account that has a flow is left alone. *)
IdleIsRefreshable(a) == a \in Listed /\ ShouldRefresh(a) /\ flow[a] = "none"

(* What tryNext() asks of an account that it takes from the queue.          *)
Refreshable(a) == a \in Listed /\ ShouldRefresh(a)

(* tryNext: the first account of a queue that is still due gets the flow it *)
(* has or a new one, which is started; an offline account has no steps and  *)
(* concludes at once.  The next round is an hour after the queue is empty.  *)
TryNext(q) ==
    LET due == {i \in DOMAIN q : Refreshable(q[i])} IN
    IF due = {}
    THEN /\ queue' = <<>> /\ hourly' = TRUE /\ next' = FALSE
         /\ UNCHANGED <<validity, state, flow>>
    ELSE \E i \in due :
         /\ \A j \in due : i <= j
         /\ queue' = SubSeq(q, i + 1, Len(q)) /\ hourly' = FALSE
         /\ IF q[i] \in MSA
            THEN /\ flow' = [flow EXCEPT ![q[i]] = "running"]
                 /\ state' = [state EXCEPT ![q[i]] = "Working"]
                 /\ next' = FALSE /\ UNCHANGED validity
            ELSE /\ validity' = [validity EXCEPT ![q[i]] = "Certain"]
                 /\ state' = [state EXCEPT ![q[i]] = "Online"]
                 /\ next' = TRUE /\ UNCHANGED flow

(* fillQueue: the default account first, then the others in their order.    *)
FillQueue ==
    LET first == IF default # NoAccount /\ ShouldRefresh(default) THEN <<default>> ELSE <<>>
        others == SelectSeq(list, LAMBDA a : a # default /\ ShouldRefresh(a) /\ ~Contains(queue, a))
    IN  /\ hourly
        /\ TryNext(queue \o first \o others)
        /\ UNCHANGED <<list, default, old, uses, launchVars, calls>>

NextTimeout ==
    /\ next /\ TryNext(queue)
    /\ UNCHANGED <<list, default, old, uses, launchVars, calls>>

(* The flow of an account concludes: AuthFlow::changeState, then            *)
(* MinecraftAccount::authSucceeded or authFailed, then the list's, which    *)
(* starts the timer.  A token may be new although a later step failed.      *)
Outcomes == [state : {"Online"}, validity : {"Certain"}]
            \cup [state : {"Offline", "Disabled", "Errored"}, validity : {"kept"}]
            \cup [state : {"Expired"}, validity : {"None"}]

(* A loop ends when the flow that was current when it began has concluded.  *)
Answered(a) ==
    launch' = [l \in Controllers |->
        IF launch[l].phase = "waiting" /\ launch[l].account = a
        THEN [launch[l] EXCEPT !.phase = "answered"] ELSE launch[l]]

FlowEnds(a, out) ==
    /\ flow[a] = "running" /\ flow' = [flow EXCEPT ![a] = "none"]
    /\ state' = [state EXCEPT ![a] = out.state]
    /\ validity' = [validity EXCEPT ![a] = IF out.validity = "kept" THEN @ ELSE out.validity]
    /\ old' \in {[old EXCEPT ![a] = FALSE]} \cup (IF out.state = "Online" THEN {} ELSE {old})
    /\ Answered(a)

(* Mutated form of FlowConcludes: the list does not go on after a failure. *)
FlowConcludesForgotten(a) ==
    /\ \E out \in Outcomes : FlowEnds(a, out) /\ next' = (next \/ out.state = "Online")
    /\ UNCHANGED <<list, default, uses, queue, hourly, loops, calls>>

FlowConcludes(a) ==
    /\ \E out \in Outcomes : FlowEnds(a, out)
    /\ next' = TRUE
    /\ UNCHANGED <<list, default, uses, queue, hourly, loops, calls>>

(* A token gets old; that of an offline account is never renewed.           *)
Age(a) ==
    /\ validity[a] = "Certain" /\ ~old[a] /\ old' = [old EXCEPT ![a] = TRUE]
    /\ UNCHANGED <<list, default, validity, state, uses, flow, timerVars, launchVars, calls>>

-----------------------------------------------------------------------------
(* Launches *)

(* The mode follows from the state of the account: the launch is given up   *)
(* or goes on without the account, or, if it has a profile and is listed    *)
(* when ClaimAccount looks for it, with it.                                 *)
Decided(l, a) ==
    \/ launch' = [launch EXCEPT ![l] = At("ended", NoAccount)]
    \/ /\ a \in Listed /\ (a \in MSA => state[a] = "Online")
       /\ launch' = [launch EXCEPT ![l] = At("filled", a)]

(* decideLaunchMode of a launch with an account that owns the game, or with *)
(* an offline account, which is not asked for anything.  The flow is        *)
(* created and not started.                                                 *)
Begin(l, a) ==
    /\ launch[l].phase = "none" /\ a \in Listed
    /\ IF a \in MSA /\ (state[a] \in {"Unchecked", "Errored", "Offline", "Working"} \/ ShouldRefresh(a))
       THEN /\ flow' = [flow EXCEPT ![a] = IF @ = "none" THEN "created" ELSE @]
            /\ launch' = [launch EXCEPT ![l] = At("waiting", a)]
            /\ loops' = Append(loops, l)
       ELSE Decided(l, a) /\ UNCHANGED <<flow, loops>>
    /\ UNCHANGED <<list, default, validity, old, state, uses, timerVars, calls>>

(* Only the innermost loop can return, and the state is read when it does.  *)
LoopReturns ==
    /\ loops # <<>> /\ launch[Last(loops)].phase = "answered"
    /\ loops' = Front(loops)
    /\ Decided(Last(loops), launch[Last(loops)].account)
    /\ UNCHANGED <<list, default, accountVars, timerVars, calls>>

(* ClaimAccount::executeTask                                                *)
Claim(l) ==
    /\ launch[l].phase = "filled"
    /\ launch' = [launch EXCEPT ![l].phase = "playing"]
    /\ uses' = [uses EXCEPT ![launch[l].account] = @ + 1]
    /\ UNCHANGED <<list, default, validity, old, state, flow, timerVars, loops, calls>>

(* The launch ends: before its account is claimed, or after the game.       *)
GameEnds(l) ==
    /\ launch[l].phase \in {"filled", "playing"}
    /\ launch' = [launch EXCEPT ![l] = At("ended", NoAccount)]
    /\ uses' = IF launch[l].phase = "playing" THEN [uses EXCEPT ![launch[l].account] = @ - 1] ELSE uses
    /\ UNCHANGED <<list, default, validity, old, state, flow, timerVars, loops, calls>>

-----------------------------------------------------------------------------
(* The host *)

HostCalls == calls < MaxHost /\ calls' = calls + 1

(* addAccount: of a new offline account, or of one that was just logged in, *)
(* which may replace the account with the same profile.                     *)
AddAccount(a) ==
    /\ HostCalls /\ state[a] = "New"
    /\ IF a \in MSA
       THEN /\ validity' = [validity EXCEPT ![a] = "Certain"]
            /\ state' = [state EXCEPT ![a] = "Online"]
            /\ \/ list' = Append(list, a) /\ UNCHANGED default
               \/ \E i \in DOMAIN list :
                    /\ list[i] \in MSA /\ list' = [list EXCEPT ![i] = a]
                    /\ default' = IF default = list[i] THEN a ELSE default
       ELSE /\ list' = Append(list, a) /\ state' = [state EXCEPT ![a] = "Unchecked"]
            /\ UNCHANGED <<default, validity>>
    /\ UNCHANGED <<old, uses, flow, timerVars, launchVars>>

(* removeAccount; the flow of a removed account goes on.                    *)
RemoveAccount(a) ==
    /\ HostCalls
    /\ \E i \in DOMAIN list : list[i] = a /\ list' = RemoveAt(list, i)
    /\ default' = IF default = a THEN NoAccount ELSE default
    /\ UNCHANGED <<accountVars, timerVars, launchVars>>

SetDefaultAccount(a) ==
    /\ HostCalls /\ a \in Listed \ {default} /\ default' = a
    /\ UNCHANGED <<list, accountVars, timerVars, launchVars>>

-----------------------------------------------------------------------------
ListNext ==
    \/ FillQueue \/ NextTimeout \/ LoopReturns
    \/ \E a \in Ids : FlowConcludes(a) \/ Age(a) \/ AddAccount(a) \/ RemoveAccount(a) \/ SetDefaultAccount(a)
    \/ \E l \in Controllers : (\E a \in Ids : Begin(l, a)) \/ Claim(l) \/ GameEnds(l)

ListSpec == ListInit /\ [][ListNext]_listVars

(* Timers fire, flows conclude, tokens get old, event loops run and games   *)
(* end.                                                                     *)
ListFairness ==
    /\ WF_listVars(FillQueue) /\ WF_listVars(NextTimeout) /\ WF_listVars(LoopReturns)
    /\ WF_listVars(\E a \in Ids : FlowConcludes(a)) /\ \A a \in Ids : WF_listVars(Age(a))
    /\ WF_listVars(\E l \in Controllers : GameEnds(l))

ListFairSpec == ListSpec /\ ListFairness

-----------------------------------------------------------------------------
(* Properties *)

(* The rounds never stop and never run twice: at any time exactly one of    *)
(* the two timers is active or one flow is running, whatever accounts are   *)
(* added, removed, used or refused in between.                              *)
RoundGoesOn ==
    Cardinality({a \in Ids : flow[a] = "running"}) + (IF next THEN 1 ELSE 0) + (IF hourly THEN 1 ELSE 0) = 1

(* No refresh of an account begins while a game uses it, although it may    *)
(* have been queued or its flow created before the game claimed it.         *)
UsedAccountsRest ==
    [][\A a \in Ids : flow[a] # "running" /\ flow'[a] = "running" => uses[a] = 0]_listVars

(* A launch that waits for its account is answered and goes on, unless it   *)
(* or a launch that began to wait after it waits for an account that was    *)
(* removed, replaced or has no profile, whose flow nobody starts.           *)
Waits(l) == launch[l].phase \in {"waiting", "answered"}
Unserved(l) ==
    /\ launch[l].phase = "waiting" /\ flow[launch[l].account] # "running"
    /\ launch[l].account \notin Listed \/ validity[launch[l].account] = "None"
IsServed(l) == Waits(l) ~> (~Waits(l) \/ \E k \in Controllers : Unserved(k))
WaitIsServed == \A l \in Controllers : IsServed(l)

(* No refresh of an account is under way while a game uses it.              *)
UndisturbedGame == \A a \in Ids : uses[a] > 0 => flow[a] # "running"
=============================================================================
