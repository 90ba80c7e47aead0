---------------------------- MODULE InstanceList ----------------------------
(***************************************************************************)
(* launcher/InstanceList: the instances found under the instance folder,   *)
(* the groups they are in, and the trash.  The list follows the folder     *)
(* through a file watcher; the groups live in an index by instance id, in  *)
(* a count of members per group and in instgroups.json, which is read when *)
(* the first instance is loaded.  An id is a number: the directory name    *)
(* id + "1" is the number that follows.                                    *)
(***************************************************************************)
EXTENDS Naturals, FiniteSets, Sequences, Functions

CONSTANTS
    Groups,       \* names of groups
    NoGroup,      \* the empty name
    LastId,       \* bound: ids are 1..LastId
    ListEvents    \* bound: trashed, renamed, outside changes, restarts

ASSUME ListAssumption ==
    /\ NoGroup \notin Groups
    /\ LastId \in Nat \ {0} /\ ListEvents \in Nat

VARIABLES
    dirs,      \* the directories that hold an instance
    loaded,    \* m_instances
    book,      \* the groups: m_instanceGroupIndex, m_groupNameCache,
               \* instgroups.json (filed: is there one?), m_groupsLoaded
    notified,  \* is a directoryChanged of the watcher on its way?
    trash,     \* m_trashHistory
    astray,    \* history: was there ever a directory that came or went without
               \* its group, or a group without its directory?
    budget     \* events so far

listVars == <<dirs, loaded, book, notified, trash, astray, budget>>

Ids == 1..LastId
Names == Groups \cup {NoGroup}
NoMembers == [g \in Groups |-> 0]
GroupOf(groups, id) == IF id \in DOMAIN groups.index THEN groups.index[id] ELSE NoGroup
Within(bound) == budget < bound /\ budget' = budget + 1

-----------------------------------------------------------------------------
(* The groups.  Every operator gives the groups after the call.             *)

Assign(groups, id, g) ==
    [groups EXCEPT !.index = [i \in DOMAIN @ \cup {id} |-> IF i = id THEN g ELSE @[i]]]

Unassign(groups, ids) == [groups EXCEPT !.index = Restrict(@, DOMAIN @ \ ids)]

(* increaseGroupCount, decreaseGroupCount; a group that reaches 0 is gone.  *)
Increase(groups, g) == IF g = NoGroup THEN groups ELSE [groups EXCEPT !.count[g] = @ + 1]

Decrease(groups, g) ==
    IF g = NoGroup \/ groups.count[g] = 0 THEN groups ELSE [groups EXCEPT !.count[g] = @ - 1]

(* saveGroupList writes what has a group. *)
SaveGroupList(groups) ==
    [groups EXCEPT !.filed = TRUE,
                   !.file = Restrict(groups.index, {i \in DOMAIN groups.index : groups.index[i] # NoGroup})]

(* loadGroupList forgets what it knew; without a file that is all it does,  *)
(* and the groups do not count as loaded.                                   *)
LoadGroupList(groups) ==
    IF ~groups.filed
    THEN [groups EXCEPT !.index = <<>>, !.count = NoMembers]
    ELSE [groups EXCEPT !.index = groups.file, !.known = TRUE,
            !.count = [g \in Groups |-> Cardinality({i \in DOMAIN groups.file : groups.file[i] = g})]]

(* loadInstance reads the groups first. *)
LoadInstance(groups) == IF groups.known THEN groups ELSE LoadGroupList(groups)

(* loadList keeps the instances that are still there and loads new ones.    *)
Reloaded(groups, found) == IF found \subseteq loaded THEN groups ELSE LoadInstance(groups)

LoadList(groups, found) ==
    /\ loaded' = found
    /\ book' = Reloaded(groups, found)

ListInit ==
    /\ dirs \in SUBSET Ids
    /\ loaded = dirs
    /\ book = [index |-> <<>>, count |-> NoMembers, file |-> <<>>, filed |-> FALSE, known |-> FALSE]
    /\ notified = FALSE
    /\ trash = <<>>
    /\ astray = FALSE
    /\ budget = 0

-----------------------------------------------------------------------------
(* setInstanceGroup; an instance is looked up among the loaded ones.        *)
SetInstanceGroup(id, g) ==
    /\ id \in loaded
    /\ id \in DOMAIN book.index => book.index[id] # g
    /\ book' = SaveGroupList(Increase(Assign(Decrease(book, GroupOf(book, id)), id, g), g))
    /\ astray' = (astray \/ id \notin dirs)
    /\ UNCHANGED <<dirs, loaded, notified, trash, budget>>

Members(g) == {i \in loaded : GroupOf(book, i) = g}
Forget(groups, g) == [groups EXCEPT !.count[g] = 0]

(* deleteGroup and renameGroup look at the loaded instances only, and save  *)
(* only if one of them was in the group.                                    *)
DeleteGroup(g) ==
    /\ LET left == Unassign(Forget(book, g), Members(g))
       IN  book' = IF Members(g) = {} THEN left ELSE SaveGroupList(left)
    /\ UNCHANGED <<dirs, loaded, notified, trash, astray, budget>>

(* Mutated form of MoveMembers: the new group is not counted. *)
MoveMembersUncounted(groups, g, to) ==
    [groups EXCEPT !.index = [i \in DOMAIN @ |-> IF i \in Members(g) THEN to ELSE @[i]]]

MoveMembers(groups, g, to) ==
    [groups EXCEPT !.index = [i \in DOMAIN @ |-> IF i \in Members(g) THEN to ELSE @[i]],
                   !.count = [h \in Groups |-> @[h] + IF h = to THEN Cardinality(Members(g)) ELSE 0]]

RenameGroup(g, to) ==
    /\ LET moved == MoveMembers(Forget(book, g), g, to)
       IN  book' = IF Members(g) = {} THEN moved ELSE SaveGroupList(moved)
    /\ UNCHANGED <<dirs, loaded, notified, trash, astray, budget>>

(* What trashInstance and deleteInstance do first: the instance leaves its  *)
(* group, whatever becomes of its directory.                                *)
Ungrouped(id) == SaveGroupList(Decrease(Unassign(book, {id}), GroupOf(book, id)))

Removed(id) == dirs' = dirs \ {id} /\ notified' = TRUE

TrashInstance(id) ==
    /\ id \in loaded /\ Within(ListEvents)
    /\ book' = Ungrouped(id)
    /\ \/ id \in dirs /\ Removed(id) /\ trash' = Append(trash, [id |-> id, group |-> GroupOf(book, id)])
       \/ UNCHANGED <<dirs, notified, trash>>
    /\ UNCHANGED <<loaded, astray>>

(* The host's call deletes and loads the list again. *)
DeleteInstance(id) ==
    /\ id \in loaded /\ Within(ListEvents)
    /\ Removed(id) \/ UNCHANGED <<dirs, notified>>
    /\ LoadList(Ungrouped(id), dirs')
    /\ UNCHANGED <<trash, astray>>

(* Mutated form of UndoTrashInstance: the list is loaded before the groups  *)
(* are saved, as a commit does.                                             *)
UndoBeforeSaving ==
    /\ trash # <<>>
    /\ LET top == trash[Len(trash)]
           free == {i \in Ids \ dirs : top.id..(i - 1) \subseteq dirs /\ i >= top.id}
       IN  \E id \in free :
             /\ dirs' = dirs \cup {id} /\ notified' = TRUE
             /\ loaded' = dirs'
             /\ book' = SaveGroupList(Reloaded(Increase(Assign(book, id, top.group), top.group), dirs'))
    /\ trash' = SubSeq(trash, 1, Len(trash) - 1)
    /\ UNCHANGED <<astray, budget>>

(* undoTrashInstance: the last one comes back, under a longer name while    *)
(* there is a directory of that name; if it cannot be moved it is forgotten. *)
UndoTrashInstance ==
    /\ trash # <<>>
    /\ LET top == trash[Len(trash)]
           free == {i \in Ids \ dirs : top.id..(i - 1) \subseteq dirs /\ i >= top.id}
       IN  \/ UNCHANGED <<dirs, loaded, book, notified>>
           \/ \E id \in free :
                /\ dirs' = dirs \cup {id} /\ notified' = TRUE
                /\ LoadList(SaveGroupList(Increase(Assign(book, id, top.group), top.group)), dirs')
    /\ trash' = SubSeq(trash, 1, Len(trash) - 1)
    /\ UNCHANGED <<astray, budget>>

(* The host renames an instance: its directory moves, the list is loaded    *)
(* again, the groups stay with the old name.                                *)
RenameInstance(id) ==
    /\ id \in loaded \cap dirs /\ Within(ListEvents)
    /\ \E new \in Ids \ dirs : dirs' = (dirs \ {id}) \cup {new}
    /\ notified' = TRUE /\ astray' = TRUE
    /\ LoadList(book, dirs')
    /\ UNCHANGED trash

(* providerUpdated, when the watcher reports. *)
InstancesChanged ==
    /\ notified
    /\ notified' = FALSE
    /\ LoadList(book, dirs)
    /\ UNCHANGED <<dirs, trash, astray, budget>>

-----------------------------------------------------------------------------
(* Directories come and go from outside; the program ends and starts again. *)
OutsideChange ==
    /\ Within(ListEvents)
    /\ \E id \in Ids : dirs' = IF id \in dirs THEN dirs \ {id} ELSE dirs \cup {id}
    /\ notified' = TRUE /\ astray' = TRUE
    /\ UNCHANGED <<loaded, book, trash>>

GroupsAtStart ==
    LET empty == [book EXCEPT !.index = <<>>, !.count = NoMembers, !.known = FALSE]
    IN  IF dirs = {} THEN empty ELSE LoadGroupList(empty)

ListRestart ==
    /\ Within(ListEvents)
    /\ loaded' = dirs
    /\ book' = GroupsAtStart
    /\ notified' = FALSE
    /\ trash' = <<>>
    /\ UNCHANGED <<dirs, astray>>

ListStep(id) == TrashInstance(id) \/ DeleteInstance(id) \/ RenameInstance(id) \/ \E g \in Names : SetInstanceGroup(id, g)

ListNext ==
    \/ \E id \in Ids : ListStep(id)
    \/ \E g \in Groups : DeleteGroup(g) \/ \E to \in Names : RenameGroup(g, to)
    \/ UndoTrashInstance \/ InstancesChanged \/ OutsideChange
=============================================================================
