------------------------------ MODULE MCStored ------------------------------
(* For TLC, side by side: the cache and the entity of MCMeta, the list of   *)
(* instances by itself ("list"), and with a task that stages an instance.   *)
EXTENDS MCMeta, InstanceStaging

CONSTANT StagingEvents   \* bound: events of the list while tasks stage

StoredInit ==
    /\ StagingInit
    /\ \/ MCInit /\ dirs = {} /\ ~book.filed
       \/ subject \in {"list", "staging"} /\ EntityInit /\ expected = Nothing /\ made = 0

StoredNext ==
    \/ MCNext /\ UNCHANGED instanceVars
    \/ /\ subject \in {"list", "staging"} /\ InstanceNext
       /\ IF subject = "list" THEN UNCHANGED stagingVars ELSE budget' <= StagingEvents
       /\ UNCHANGED mcVars

StoredSpec == StoredInit /\ [][StoredNext]_<<mcVars, instanceVars>>

StoredSymmetry == Symmetry \cup Permutations(Groups)
StoredView == IF subject \in {"list", "staging"} THEN <<subject, instanceVars>> ELSE View
=============================================================================
