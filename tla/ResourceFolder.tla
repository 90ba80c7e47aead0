--------------------------- MODULE ResourceFolder ---------------------------
(* The list of the mods, or of the packs, of an instance: scans of the      *)
(* folder on a worker thread, and a resolver pool that parses what they     *)
(* found (ResourceFolderModel, ModFolderModel, ResourceFolderLoadTask).     *)
(*                                                                          *)
(* Everything but the scan and the start of the resolver runs on the main   *)
(* thread, in the order in which posted holds it.  Each resource that is    *)
(* put into the list is resolved under a ticket of its own, by which it is  *)
(* known here.  A file is its date, that is its content; 0 is no file.      *)
EXTENDS Naturals, SequencesExt

CONSTANTS Ids,          \* names of files
          Refused,      \* content that a parser of packs refuses, beside a file that is gone
          MaxEdits,     \* bound: changes of the folder
          MaxRequests   \* bound: requests for an update

ASSUME FolderAssumption ==
    IsFiniteSet(Ids) /\ Refused \subseteq Nat /\ MaxEdits \in Nat /\ MaxRequests \in Nat

VARIABLES
    mods,        \* a folder of mods (ModFolderModel), or of packs; for good
    disk,        \* the folder: the date of each file
    task,        \* m_currentUpdateTask: "none", "posted", "scanned", "done"
    scan,        \* its result: the folder as it was
    scheduled,   \* m_scheduledUpdate
    rows,        \* m_resources: [id, date, ticket, resolving, details]
    index,       \* m_resourcesIndex, from names to rows
    parses,      \* the parse task of each ticket: [id, active, aborted, read]
    waiting,     \* the queue of m_resourceResolver
    resolver,    \* "idle", "posted" on the thread pool, "running"
    posted,      \* what is posted to the main thread
    changes, requests,
    asked        \* history: an update was asked for after the last change

diskVars == <<disk, changes, requests, asked>>
updateVars == <<task, scheduled>>
listVars == <<rows, index, parses>>
resolverVars == <<waiting, resolver>>
folderVars == <<mods, diskVars, updateVars, scan, listVars, resolverVars, posted>>

Found(folder) == {id \in Ids : folder[id] # 0}
Signal(kind, ticket) == [kind |-> kind, ticket |-> ticket]
Served(kind) == posted # <<>> /\ Head(posted).kind = kind /\ posted' = Tail(posted)

(* The row of each name, as the index is rebuilt after every change.        *)
IndexOf(list) ==
    LET RowsOf(id) == {i \in DOMAIN list : list[i].id = id}
    IN [id \in {list[i].id : i \in DOMAIN list} |->
           CHOOSE i \in RowsOf(id) : \A j \in RowsOf(id) : j <= i]

FolderInit ==
    /\ mods \in BOOLEAN
    /\ disk \in [Ids -> {0, 1}] /\ changes = 1 /\ requests = 0 /\ asked = FALSE
    /\ task = "none" /\ scheduled = FALSE /\ scan = [id \in Ids |-> 0]
    /\ rows = <<>> /\ index = IndexOf(rows) /\ parses = <<>>
    /\ waiting = <<>> /\ resolver = "idle" /\ posted = <<>>

-----------------------------------------------------------------------------
(* Somebody, or a download, changes the folder.  Nothing watches it.        *)
ChangeFile(id) ==
    /\ changes < MaxEdits /\ changes' = changes + 1
    /\ \E date \in {0, changes + 1} \ {disk[id]} : disk' = [disk EXCEPT ![id] = date]
    /\ asked' = FALSE
    /\ UNCHANGED <<requests, updateVars, scan, listVars, resolverVars, posted>>

(* One scan at a time; what is asked for meanwhile is done after it.        *)
StartUpdate ==
    /\ IF task = "none" THEN task' = "posted" /\ UNCHANGED scheduled
                        ELSE scheduled' = TRUE /\ UNCHANGED task
    /\ asked' = TRUE

Update ==
    /\ requests < MaxRequests /\ requests' = requests + 1
    /\ StartUpdate
    /\ UNCHANGED <<disk, changes, scan, listVars, resolverVars, posted>>

(* A newer version was downloaded: the file of the older one goes.          *)
UninstallResource(id) ==
    /\ requests < MaxRequests /\ requests' = requests + 1
    /\ \E i \in DOMAIN rows : rows[i].id = id
    /\ disk' = [disk EXCEPT ![id] = 0]
    /\ StartUpdate
    /\ UNCHANGED <<changes, scan, listVars, resolverVars, posted>>

(* On the worker thread: the folder is read, then two signals are posted.   *)
ScanFolder ==
    /\ task = "posted" /\ task' = "scanned"
    /\ scan' = disk
    /\ UNCHANGED <<diskVars, scheduled, listVars, resolverVars, posted>>

ScanReports ==
    /\ task = "scanned" /\ task' = "done"
    /\ posted' = posted \o <<Signal("succeeded", 0), Signal("finished", 0)>>
    /\ UNCHANGED <<diskVars, scheduled, scan, listVars, resolverVars>>

-----------------------------------------------------------------------------
(* A resource that the scan found, in the list and with the resolver.       *)
Resource(id, ticket) ==
    [id |-> id, date |-> scan[id], ticket |-> ticket, resolving |-> TRUE, details |-> 0]
ParseOf(id) == [id |-> id, active |-> TRUE, aborted |-> FALSE, read |-> 0]

AbortParse(tasks, row) ==
    IF row.resolving /\ tasks[row.ticket].active
    THEN [tasks EXCEPT ![row.ticket].aborted = TRUE] ELSE tasks

(* Mutated form of Keep: a resource that is still being parsed is left.     *)
KeepResolving(list, id) ==
    LET i == index[id]
    IN IF i \notin DOMAIN list.rows \/ list.rows[i].date = scan[id] \/ list.rows[i].resolving
       THEN list
       ELSE [rows |-> [list.rows EXCEPT ![i] = Resource(id, Len(list.parses) + 1)],
             parses |-> Append(AbortParse(list.parses, list.rows[i]), ParseOf(id))]

(* The list, as pairs of rows and parse tasks, while a scan is applied: a   *)
(* resource that has changed is replaced in its row, ...                    *)
Keep(list, id) ==
    LET i == index[id]
    IN IF i \notin DOMAIN list.rows \/ list.rows[i].date = scan[id] THEN list
       ELSE [rows |-> [list.rows EXCEPT ![i] = Resource(id, Len(list.parses) + 1)],
             parses |-> Append(AbortParse(list.parses, list.rows[i]), ParseOf(id))]

(* ... one that is gone is removed, ...                                     *)
Drop(list, id) ==
    LET i == index[id]
    IN IF i \notin DOMAIN list.rows THEN list
       ELSE [rows |-> RemoveAt(list.rows, i), parses |-> AbortParse(list.parses, list.rows[i])]

(* ... and a new one put at the end.                                        *)
Add(list, id) ==
    [rows |-> Append(list.rows, Resource(id, Len(list.parses) + 1)),
     parses |-> Append(list.parses, ParseOf(id))]

Treat(list, how, id) ==
    CASE how = "keep" -> Keep(list, id) [] how = "drop" -> Drop(list, id) [] how = "add" -> Add(list, id)

(* The list when some names were treated, one after the other.              *)
Treated(list, how, names) ==
    LET after[n \in 0..Len(names)] == IF n = 0 THEN list ELSE Treat(after[n - 1], how, names[n])
    IN  after[Len(names)]

Resolve(tickets) ==
    /\ waiting' = waiting \o tickets
    /\ resolver' = IF tickets # <<>> /\ resolver = "idle" THEN "posted" ELSE resolver

(* Sets of names are walked in any order, the rows to remove from below.    *)
ApplyUpdates ==
    \E kept \in SetToSeqs(DOMAIN index \cap Found(scan)), gone \in SetToSeqs(DOMAIN index \ Found(scan)),
       new \in SetToSeqs(Found(scan) \ DOMAIN index) :
        LET keeps == Treated([rows |-> rows, parses |-> parses], "keep", kept)
            list == Treated(Treated(keeps, "drop", gone), "add", new)
        IN /\ \A i, j \in DOMAIN gone : i < j => index[gone[i]] >= index[gone[j]]
           /\ rows' = list.rows /\ index' = IndexOf(list.rows) /\ parses' = list.parses
           /\ Resolve([k \in 1..(Len(list.parses) - Len(parses)) |-> Len(parses) + k])

OnUpdateSucceeded ==
    /\ Served("succeeded")
    /\ ApplyUpdates
    /\ UNCHANGED <<diskVars, updateVars, scan>>

(* The end of a scan starts the one that was asked for during it.           *)
UpdateFinished ==
    /\ Served("finished")
    /\ task' = IF scheduled THEN "posted" ELSE "none"
    /\ scheduled' = FALSE
    /\ UNCHANGED <<diskVars, scan, listVars, resolverVars>>

-----------------------------------------------------------------------------
(* The resolver is started on a worker thread; it posts the starts of its   *)
(* tasks to the main thread and concludes when all of them have.            *)
ResolverStarts ==
    /\ resolver = "posted" /\ resolver' = "running"
    /\ UNCHANGED <<diskVars, updateVars, scan, listVars, waiting, posted>>

ResolverPosts ==
    /\ resolver = "running" /\ waiting # <<>>
    /\ waiting' = Tail(waiting)
    /\ posted' = Append(posted, Signal("parse", Head(waiting)))
    /\ UNCHANGED <<diskVars, updateVars, scan, listVars, resolver>>

ResolverEnds ==
    /\ resolver = "running" /\ waiting = <<>>
    /\ \A i \in DOMAIN posted : posted[i].kind # "parse"
    /\ resolver' = "idle"
    /\ UNCHANGED <<diskVars, updateVars, scan, listVars, waiting, posted>>

(* A parse task reads the file as it is now.  That of a mod always ends     *)
(* well; that of a pack writes what it read into its resource.              *)
Parse ==
    /\ posted # <<>> /\ Head(posted).kind = "parse"
    /\ LET t == Head(posted).ticket
           read == disk[parses[t].id]
           end == IF ~mods /\ read \in Refused \cup {0} THEN <<Signal("refused", t)>>
                  ELSE IF parses[t].aborted THEN <<>> ELSE <<Signal("parsed", t)>>
       IN /\ posted' = Tail(posted) \o end \o <<Signal("over", t)>>
          /\ parses' = [parses EXCEPT ![t].read = read]
          /\ rows' = IF mods THEN rows
                     ELSE [i \in DOMAIN rows |->
                              IF rows[i].ticket = t THEN [rows[i] EXCEPT !.details = read] ELSE rows[i]]
    /\ UNCHANGED <<diskVars, updateVars, scan, index, resolverVars>>

(* What was parsed belongs to whatever resource has that name now.          *)
Details(id, read) ==
    LET named == {i \in DOMAIN rows : rows[i].id = id}
    IN IF named = {} THEN rows
       ELSE [rows EXCEPT ![CHOOSE i \in named : \A j \in named : i <= j] =
                [@ EXCEPT !.resolving = FALSE, !.details = read]]

OnParseSucceeded ==
    /\ Served("parsed")
    /\ LET parse == parses[Head(posted).ticket]
       IN IF mods /\ parse.active
          THEN /\ index' = IF parse.id \in DOMAIN index THEN index
                           ELSE [id \in DOMAIN index \cup {parse.id} |-> IF id = parse.id THEN 1 ELSE index[id]]
               /\ rows' = Details(parse.id, parse.read)
          ELSE UNCHANGED <<rows, index>>
    /\ UNCHANGED <<diskVars, updateVars, scan, parses, resolverVars>>

(* What cannot be parsed leaves the list.                                   *)
OnParseFailed ==
    /\ Served("refused")
    /\ LET parse == parses[Head(posted).ticket]
       IN IF parse.active /\ parse.id \in DOMAIN index
          THEN /\ rows' = RemoveAt(rows, index[parse.id])
               /\ index' = IndexOf(rows')
          ELSE UNCHANGED <<rows, index>>
    /\ UNCHANGED <<diskVars, updateVars, scan, parses, resolverVars>>

ParseFinished ==
    /\ Served("over")
    /\ parses' = [parses EXCEPT ![Head(posted).ticket].active = FALSE]
    /\ UNCHANGED <<diskVars, updateVars, scan, rows, index, resolverVars>>

-----------------------------------------------------------------------------
FolderNext ==
    /\ \/ Update
       \/ \E id \in Ids : ChangeFile(id) \/ UninstallResource(id)
       \/ ScanFolder \/ ScanReports
       \/ OnUpdateSucceeded \/ UpdateFinished
       \/ ResolverStarts \/ ResolverPosts \/ ResolverEnds
       \/ Parse \/ OnParseSucceeded \/ OnParseFailed \/ ParseFinished
    /\ UNCHANGED mods

FolderSpec == FolderInit /\ [][FolderNext]_folderVars

-----------------------------------------------------------------------------
(* Nothing is under way and nobody has touched the folder since an update   *)
(* was asked for.                                                           *)
FolderAtRest == asked /\ task = "none" /\ posted = <<>> /\ resolver = "idle"

(* At rest the list of packs is the folder: no request is lost while a scan *)
(* is under way, and no late refusal takes a pack off the list that         *)
(* replaced the one it is about.                                            *)
PacksAreListed ==
    FolderAtRest /\ ~mods =>
        /\ {rows[i].id : i \in DOMAIN rows} = {id \in Found(disk) : disk[id] \notin Refused}
        /\ \A i, j \in DOMAIN rows : rows[i].id = rows[j].id => i = j

(* At rest a listed resource shows what its file says now, however often    *)
(* the file was replaced while older content was still being parsed.        *)
DetailsAreCurrent ==
    FolderAtRest => \A i \in DOMAIN rows :
        rows[i].date = disk[rows[i].id] /\ rows[i].details = rows[i].date

(* At rest the list is the folder: every resource shows what its file says, *)
(* and of packs those that their parser takes are there, each once          *)
(* (applyUpdates, onParseSucceeded, onParseFailed).                         *)
FolderIsListed == DetailsAreCurrent /\ PacksAreListed

(* The index gives "the relationship between a resource's internal ID and   *)
(* it's row position on the model".                                         *)
IndexIsRows == index = IndexOf(rows)
=============================================================================
