---------------------------- MODULE PoolContract ----------------------------
(***************************************************************************)
(* What a task pool promises its owner, with no event loop and no queued   *)
(* calls: offered tasks wait, one begins only while there is room, each    *)
(* ends good or bad, and the run is closed once, when nothing waits and no *)
(* task is active, with a success exactly when no result is bad.           *)
(***************************************************************************)
CONSTANTS
    Tasks,
    HasRoom(_)  \* may one more task join this set of active tasks?

VARIABLES waiting, active, good, bad, outcome

vars == <<waiting, active, good, bad, outcome>>

Init ==
    /\ waiting = {} /\ active = {} /\ good = {} /\ bad = {}
    /\ outcome = "Inactive"

Offer(t) ==
    /\ t \notin waiting \cup active \cup good \cup bad
    /\ waiting' = waiting \cup {t}
    /\ UNCHANGED <<active, good, bad, outcome>>

Open ==
    /\ outcome # "Running"
    /\ outcome' = "Running"
    /\ UNCHANGED <<waiting, active, good, bad>>

Begin(t) ==
    /\ outcome = "Running"
    /\ t \in waiting
    /\ HasRoom(active)
    /\ waiting' = waiting \ {t}
    /\ active' = active \cup {t}
    /\ UNCHANGED <<good, bad, outcome>>

(* A task ends; one that never became visibly active needs a free place too *)
End(t) ==
    /\ outcome = "Running"
    /\ t \in active \/ (t \in waiting /\ HasRoom(active))
    /\ waiting' = waiting \ {t}
    /\ active' = active \ {t}
    /\ \/ good' = good \cup {t} /\ UNCHANGED bad
       \/ bad' = bad \cup {t} /\ UNCHANGED good
    /\ UNCHANGED outcome

Close ==
    /\ outcome = "Running"
    /\ waiting = {} /\ active = {}
    /\ outcome' = IF bad = {} THEN "Succeeded" ELSE "Failed"
    /\ UNCHANGED <<waiting, active, good, bad>>

Forget ==
    /\ outcome # "Running"
    /\ waiting' = {} /\ good' = {} /\ bad' = {}
    /\ UNCHANGED <<active, outcome>>

Next ==
    \/ Open \/ Close \/ Forget
    \/ \E t \in Tasks : Offer(t) \/ Begin(t) \/ End(t)

Spec == Init /\ [][Next]_vars
=============================================================================
