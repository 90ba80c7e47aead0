--------------------------- MODULE InstanceStaging ---------------------------
(***************************************************************************)
(* InstanceStaging and commitStagedInstance (launcher/InstanceList.cpp):   *)
(* a task builds an instance in a directory of its own; when it is done    *)
(* the directory is moved into the instance folder, or copied over an      *)
(* existing instance.  A commit that fails is tried again with growing     *)
(* pauses.                                                                 *)
(***************************************************************************)
EXTENDS InstanceList

CONSTANT Stagings    \* the tasks

VARIABLES
    staging,    \* per task: state, group, the instance it overrides, pause;
                \* history: tries, its commits that failed
    leftovers   \* history: directories that a failed move left behind

stagingVars == <<staging, leftovers>>
instanceVars == <<listVars, stagingVars>>

MinBackoff == 1
MaxBackoff == 16
NoStaging == [state |-> "none", group |-> NoGroup, over |-> 0, pause |-> MinBackoff, tries |-> 0]
In(t, states) == staging[t].state \in states
Goes(t, state) == staging' = [staging EXCEPT ![t].state = state]

StagingInit == ListInit /\ staging = [t \in Stagings |-> NoStaging] /\ leftovers = {}

(* wrapInstanceTask and the start. *)
WrapInstanceTask(t) ==
    /\ In(t, {"none"})
    /\ \E g \in Names, over \in {0} \cup loaded :
          staging' = [staging EXCEPT ![t] = [NoStaging EXCEPT !.state = "building", !.group = g, !.over = over]]
    /\ UNCHANGED <<listVars, leftovers>>

(* The child has built the instance and goes on to download the game files, *)
(* which may be skipped or fail; or it fails, or is aborted.                *)
ChildBuilds(t) == In(t, {"building"}) /\ Goes(t, "filling") /\ UNCHANGED <<listVars, leftovers>>

ChildFails(t) == In(t, {"building"}) /\ Goes(t, "failed") /\ UNCHANGED <<listVars, leftovers>>

(* abort() asks the child: an abort while it fills the instance skips the   *)
(* downloads, and a child that has ended does not hear it.                  *)
AbortStaging(t) == In(t, {"building"}) /\ Goes(t, "aborted") /\ UNCHANGED <<listVars, leftovers>>

(* ExponentialSeries: the pause doubles up to the limit.                    *)
NextPause(pause) == IF 2 * pause > MaxBackoff THEN MaxBackoff ELSE 2 * pause

(* Mutated form: the limit must be passed. *)
LastPauseExclusive(pause) == pause > MaxBackoff
LastPause(pause) == pause = MaxBackoff

(* Mutated form of ListCommitted: nobody is told. *)
ListUntold(groups) == loaded' = loaded /\ book' = SaveGroupList(groups)

(* instancesChanged is emitted, then the groups are saved.                  *)
ListCommitted(groups) ==
    /\ loaded' = dirs'
    /\ book' = SaveGroupList(Reloaded(groups, dirs'))

(* The watcher does not look while the directory arrives. *)
CommitStagedInstance(t) ==
    /\ \/ staging[t].over = 0
          /\ \E id \in Ids \ dirs :
                /\ dirs' = dirs \cup {id}
                /\ ListCommitted(Increase(Assign(book, id, staging[t].group), staging[t].group))
       \/ staging[t].over # 0
          /\ dirs' = dirs \cup {staging[t].over}
          /\ ListCommitted(book)
    /\ Goes(t, "succeeded")
    /\ UNCHANGED <<notified, trash, astray, budget, leftovers>>

(* A move that fails is tried as a copy, which may stop half way.           *)
CommitFails(t) ==
    /\ \/ UNCHANGED <<dirs, leftovers, astray>>
       \/ \E id \in IF staging[t].over = 0 THEN Ids \ dirs ELSE {staging[t].over} :
             /\ dirs' = dirs \cup {id}
             /\ leftovers' = leftovers \cup ({id} \ dirs)
             /\ astray' = TRUE
    /\ staging' = [staging EXCEPT ![t].state = IF LastPause(staging[t].pause) THEN "failed" ELSE "waiting",
                                  ![t].pause = NextPause(@), ![t].tries = @ + 1]
    /\ UNCHANGED <<loaded, book, notified, trash, budget>>

ChildSucceeded(t) == In(t, {"filling", "waiting"}) /\ (CommitStagedInstance(t) \/ CommitFails(t))

StagingStep(t) == ChildBuilds(t) \/ ChildFails(t) \/ ChildSucceeded(t)

InstanceNext ==
    \/ \E t \in Stagings : WrapInstanceTask(t) \/ AbortStaging(t) \/ StagingStep(t)
    \/ ListNext /\ UNCHANGED stagingVars
    \/ ListRestart /\ staging' = [t \in Stagings |-> NoStaging] /\ leftovers' = {}

InstanceSpec == StagingInit /\ [][InstanceNext]_instanceVars

-----------------------------------------------------------------------------
(* Properties *)

(* A difference between the list and the instance folder is on its way to   *)
(* be noticed: by a report of the watcher, unless the directory is what a   *)
(* failed commit left behind while the watcher did not look.                *)
ListFollowsDisk == ~notified => loaded \subseteq dirs /\ dirs \ loaded \subseteq leftovers

(* Listed instances have one group, after groups are renamed and deleted,   *)
(* instances trashed, restored, deleted in vain, or overridden: a program   *)
(* that is started again finds every instance in it, and it is one of the   *)
(* groups shown, unless a directory was renamed or changed from outside,    *)
(* when the counts are no longer those of the members.                      *)
GroupsAgree ==
    \A i \in loaded \cap dirs :
        /\ GroupOf(GroupsAtStart, i) = GroupOf(book, i)
        /\ ~astray /\ GroupOf(book, i) # NoGroup => book.count[GroupOf(book, i)] > 0

(* An instance that comes back from the trash is in the list again, in the  *)
(* group it was in, and the file says so.                                   *)
UndoRestores ==
    [][\A i \in dirs' \ dirs :
          (Len(trash') < Len(trash) /\ budget' = budget) =>
              /\ i \in loaded'
              /\ GroupOf(book', i) = trash[Len(trash)].group
              /\ GroupOf(book', i) # NoGroup => GroupOf([index |-> book'.file], i) = GroupOf(book', i)]_instanceVars

(* Retries come to an end: a commit is tried at most five times, and a task *)
(* that failed for it has waited the longest pause.                         *)
RetriesEnd ==
    \A t \in Stagings :
        /\ staging[t].tries <= 5
        /\ In(t, {"failed"}) => staging[t].tries \in {0, 5}

(* An instance that was created with a group is in it.                      *)
JoinsItsGroup ==
    [][\A t \in Stagings, i \in dirs' \ dirs :
          (staging[t].state # "succeeded" /\ staging'[t].state = "succeeded" /\ staging[t].over = 0)
              => GroupOf(book', i) = staging[t].group]_instanceVars
=============================================================================
