----------------------------- MODULE BaseEntity -----------------------------
(***************************************************************************)
(* launcher/meta/BaseEntity: one piece of version metadata, loaded from    *)
(* the file the cache keeps or downloaded again.  The sha256 it should     *)
(* have comes from its parent (an index or a list), which may be merged    *)
(* again at any time.  Each load task downloads with the download of the   *)
(* same name; a task that is aborted while the start of its download is    *)
(* still queued leaves the download behind.                                *)
(***************************************************************************)
EXTENDS MetaCache

VARIABLES
    expected,  \* m_sha256: Nothing or the content with that hash
    fileSha,   \* m_file_sha256, likewise
    status,    \* m_load_status
    data,      \* what parse() was last given
    load,      \* the load tasks: state, mode, force and the sha the validator
               \* expects; history: merged, was the parent merged since then?
    current,   \* m_task: the task loadTask() made last
    doubts     \* history: why fileSha may not be the hash of data

entityVars == <<expected, fileSha, status, data, load, current, doubts>>
entityAll == <<metaVars, entityVars>>

(* A parent may also name a file that this launcher cannot parse.           *)
Hashes == Versions \cup {Edited}

NoLoad == [state |-> "none", online |-> FALSE, force |-> FALSE, sha |-> Nothing, merged |-> FALSE]
Loading(l) == load[l].state = "running"
Ended(l, result) == load' = [load EXCEPT ![l] = [NoLoad EXCEPT !.state = result]]

(* isLoaded: with no hash to compare, only what was loaded remotely counts. *)
IsLoaded ==
    IF expected = Nothing THEN status = "Remote" ELSE status # "NotLoaded" /\ expected = fileSha

EntityInit ==
    /\ MetaInit
    /\ expected \in Hashes \cup {Nothing} /\ fileSha = Nothing
    /\ status = "NotLoaded" /\ data = Nothing
    /\ load = [l \in Downloads |-> NoLoad] /\ current = Nothing
    /\ doubts = {}

-----------------------------------------------------------------------------
(* loadTask: the running task, or a new one; the caller starts it later.    *)
LoadTask(l) ==
    /\ current # Nothing => ~Loading(current)
    /\ load[l].state \notin {"created", "running"} /\ ~Busy(l)
    /\ \E online, force \in BOOLEAN :
        /\ force => online
        /\ load' = [load EXCEPT ![l] = [NoLoad EXCEPT !.state = "created", !.online = online, !.force = force]]
    /\ current' = l
    /\ UNCHANGED <<metaVars, expected, fileSha, status, data, doubts>>

-----------------------------------------------------------------------------
(* executeTask *)

(* The file is hashed if nothing is loaded or no hash is known.             *)
ReadSha == IF disk # Nothing /\ (status = "NotLoaded" \/ fileSha = Nothing) THEN disk ELSE fileSha

HashMatches == disk # Nothing /\ expected = ReadSha

(* The file is deleted when its hash is wrong or when it does not parse.    *)
Unusable(l) ==
    /\ disk # Nothing
    /\ \/ load[l].online /\ expected # Nothing /\ ~HashMatches
       \/ status = "NotLoaded" /\ disk = Edited

ParsesFile(l) == disk # Nothing /\ ~Unusable(l) /\ status = "NotLoaded"

StatusAfterFile(l) ==
    IF Unusable(l) THEN "NotLoaded" ELSE IF ParsesFile(l) THEN "Local" ELSE status

(* A loaded file is good enough offline; online, when its hash is the       *)
(* expected one (or it came from the server) and no reload is forced.       *)
GoodEnough(l) ==
    \/ ~load[l].online /\ StatusAfterFile(l) # "NotLoaded"
    \/ /\ ~load[l].force
       /\ IF expected = Nothing THEN StatusAfterFile(l) = "Remote" ELSE HashMatches

(* The file of an entity that was loaded without a hash is hashed for data  *)
(* that is in memory already.                                               *)
HashedForOther == disk # Nothing /\ status # "NotLoaded" /\ fileSha = Nothing /\ data # disk

TakeFile(l) ==
    /\ fileSha' = ReadSha
    /\ status' = StatusAfterFile(l)
    /\ data' = IF ParsesFile(l) THEN disk ELSE data
    /\ doubts' = IF ParsesFile(l) THEN {} ELSE doubts \cup IF HashedForOther THEN {"file"} ELSE {}

LoadFromFile(l) ==
    /\ GoodEnough(l)
    /\ Ended(l, "succeeded")
    /\ IF Unusable(l)
       THEN Replaced(Nothing) /\ entries' = [o \in Objects |-> Outdated(entries[o])] /\ get' = AllLate
       ELSE UNCHANGED <<disk, index, entries, get>>
    /\ UNCHANGED <<server, listed, saving, events>>

(* The entry is resolved, stripped of its ETag if the load is forced, and   *)
(* made stale: the download is wanted in every case.                        *)
Wanted(l, entry) == [entry EXCEPT !.stale = TRUE, !.etag = IF load[l].force THEN Nothing ELSE @]

DownloadEntity(l) ==
    /\ ~GoodEnough(l) /\ Unused # {}
    /\ load' = [load EXCEPT ![l].state = "running", ![l].sha = expected]
    /\ LET content == IF Unusable(l) THEN Nothing ELSE disk
           others == IF Unusable(l) THEN AllLate ELSE get
       IN  /\ disk' = content
           /\ index' = IF Unusable(l) THEN OutdatedIndex ELSE index
           /\ \E found \in ResolveEntry(content) :
                /\ entries' = [found.entries EXCEPT ![found.entry] = Wanted(l, @)]
                /\ listed' = found.listed /\ saving' = found.saving
                /\ get' = [others EXCEPT ![l] = Queued(found.entry)]
    /\ UNCHANGED <<server, events>>

ExecuteLoad(l) ==
    /\ load[l].state = "created"
    /\ TakeFile(l)
    /\ LoadFromFile(l) \/ DownloadEntity(l)
    /\ UNCHANGED <<expected, current>>

-----------------------------------------------------------------------------
(* The download *)

(* Mutated form of LoadSucceeded: the hash is left as it was. *)
LoadSucceededUnhashed(l) ==
    /\ status' = "Remote"
    /\ UNCHANGED fileSha
    /\ IF Loading(l) THEN Ended(l, "succeeded") ELSE UNCHANGED load

(* The download of an aborted load may succeed too.  In every case the hash *)
(* of the file is taken to be the one expected now.                         *)
LoadSucceeded(l) ==
    /\ status' = "Remote"
    /\ fileSha' = expected
    /\ IF Loading(l) THEN Ended(l, "succeeded") ELSE UNCHANGED load

LoadFailed(l) ==
    IF Loading(l) THEN Ended(l, "failed") ELSE UNCHANGED load

(* The job starts a download that failed again, while it may; one that it   *)
(* gives up is the failure of the load.                                     *)
RetryGet(l) ==
    /\ get' = [get EXCEPT ![l] = [Queued(get[l].entry) EXCEPT !.late = get[l].late]]
    /\ UNCHANGED <<metaStore, entries, listed, saving, events>>

GetFails(l) ==
    \/ FailGet(l) /\ LoadFailed(l)
    \/ RetryGet(l) /\ UNCHANGED load

(* Mutated form of Accepted: the checksum is not compared. *)
AcceptedUnchecked(l) == TRUE

(* The checksum is compared first, then the data is parsed into the entity, *)
(* then the file is committed.                                              *)
Accepted(l) == load[l].sha \in {Nothing, get[l].body}

MarkedLate(l) == IF load[l].merged THEN {"merged"} ELSE {}

EntityArrives(l) ==
    /\ get[l].state = "answered"
    /\ get[l].body = Nothing \/ Accepted(l)
    /\ data' = IF get[l].body = Nothing THEN data ELSE get[l].body
    /\ \/ /\ FinishGet(l) /\ LoadSucceeded(l)
          /\ doubts' = MarkedLate(l) \cup IF get[l].body = Nothing THEN doubts ELSE {}
       \/ /\ get[l].body # Nothing
          /\ GetFails(l)
          /\ doubts' = {"commit"}
          /\ UNCHANGED <<status, fileSha>>
    /\ UNCHANGED <<expected, current>>

EntityFresh(l) ==
    /\ AlreadyFresh(l)
    /\ LoadSucceeded(l)
    /\ doubts' = doubts \cup MarkedLate(l)
    /\ UNCHANGED <<expected, data, current>>

(* No connection, a body with another hash, or one that does not parse.     *)
EntityFails(l) ==
    /\ Busy(l)
    /\ GetFails(l)
    /\ UNCHANGED <<expected, fileSha, status, data, current, doubts>>

(* abort() announces the end and aborts the download; one whose start is    *)
(* still queued starts all the same.                                        *)
AbortLoad(l) ==
    /\ Loading(l)
    /\ load' = [load EXCEPT ![l].state = "aborted"]
    /\ get' = IF get[l].state = "queued" THEN get ELSE Over(get, l)
    /\ UNCHANGED <<metaStore, entries, listed, saving, events, expected, fileSha, status, data, current, doubts>>

(* The parent was loaded again and brings the hash the entity should have.  *)
Merge ==
    /\ expected' \in Hashes \ {expected}
    /\ load' = [l \in Downloads |-> [load[l] EXCEPT !.merged = @ \/ Busy(l)]]
    /\ UNCHANGED <<metaVars, fileSha, status, data, current, doubts>>

-----------------------------------------------------------------------------
KeepsEntity == UNCHANGED entityVars

Request(l) == (SendGet(l) \/ ServerAnswers(l)) /\ KeepsEntity

Environment == (SaveNow \/ Publish \/ EditFile) /\ KeepsEntity

Restarted ==
    /\ MetaRestart
    /\ expected' \in Hashes \cup {Nothing} /\ fileSha' = Nothing
    /\ status' = "NotLoaded" /\ data' = Nothing
    /\ load' = [l \in Downloads |-> NoLoad] /\ current' = Nothing
    /\ doubts' = {}

LoadStep(l) == ExecuteLoad(l) \/ Request(l) \/ EntityArrives(l) \/ EntityFresh(l) \/ EntityFails(l)

EntityNext ==
    \/ \E l \in Downloads : LoadTask(l) \/ LoadStep(l) \/ AbortLoad(l)
    \/ Merge \/ Environment \/ Restarted

EntitySpec == EntityInit /\ [][EntityNext]_entityAll

-----------------------------------------------------------------------------
(* Properties *)

(* An entity that counts as loaded holds the data its parent expects: not   *)
(* that of a file or of a download with another hash, whatever was loaded,  *)
(* aborted, retried, edited or merged before.  There are three exceptions,  *)
(* until other data comes: the file of the data could not be committed      *)
(* ("commit"), the parent was merged while the load or its download was     *)
(* under way ("merged"), or the entity was loaded without a hash and hashed *)
(* later, from a file that holds something else by then ("file").           *)
LoadedIsExpected == (IsLoaded /\ expected # Nothing) => data = expected \/ doubts # {}

(* The hash matches and the file does not parse: it is deleted, and the     *)
(* load succeeds with nothing loaded.                                       *)
MatchedUnreadable == expected = Edited /\ disk = Edited /\ disk' = Nothing /\ status' = "NotLoaded"

(* A load that succeeds online leaves the entity loaded, with the data its  *)
(* parent expects (if it expects any) or with a doubt of LoadedIsExpected.  *)
(* The one exception is the file with the expected hash that does not parse.*)
SuccessMeansLoaded ==
    [][\A l \in Downloads :
        (load[l].state # "succeeded" /\ load'[l].state = "succeeded" /\ load[l].online)
            => \/ IsLoaded' /\ data' # Nothing /\ (expected' \in {Nothing, data'} \/ doubts' # {})
               \/ MatchedUnreadable]_entityAll
=============================================================================
