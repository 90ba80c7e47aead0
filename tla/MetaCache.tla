------------------------------ MODULE MetaCache -----------------------------
(***************************************************************************)
(* launcher/net/HttpMetaCache and MetaCacheSink: what the launcher knows   *)
(* of one downloaded file.  An entry holds the md5 and the time stamp of   *)
(* the file and the ETag the server gave it.  Entries are shared objects:  *)
(* a download keeps the one it resolved while the list may drop it.  The   *)
(* index of the list is written 30 s after the last change, so a program   *)
(* that dies leaves an older index beside a newer file.  Contents stand    *)
(* for their own md5, sha256 and ETag; a time stamp is modelled by whether *)
(* it is the one the file has now.                                         *)
(***************************************************************************)
EXTENDS Naturals, FiniteSets

CONSTANTS
    Nothing,      \* no file, no entry, no hash, no ETag
    Versions,     \* contents the server publishes
    Edited,       \* content that somebody else wrote, and that does not parse
    Downloads,    \* the downloads of the file that may be under way at once
    MetaEvents    \* bound: publications, edits by others, restarts

ASSUME MetaAssumption ==
    /\ IsFiniteSet(Downloads)
    /\ Nothing \notin Versions \cup {Edited}
    /\ Edited \notin Versions
    /\ MetaEvents \in Nat

VARIABLES
    server,   \* what the server publishes
    disk,     \* the file
    entries,  \* the MetaEntry objects
    listed,   \* the object in m_entries, or Nothing
    index,    \* the saved index: Nothing or an entry
    saving,   \* does saveBatchingTimer run?
    get,      \* the downloads: state, entry, what the server answered; history:
              \* late, was the file replaced since it was resolved?
    events    \* publications, edits and restarts so far

metaStore == <<server, disk, index>>
metaVars == <<server, disk, entries, listed, index, saving, get, events>>

Objects == 1..(Cardinality(Downloads) + 1)
StaleEntry == [md5 |-> Nothing, etag |-> Nothing, stamped |-> FALSE, stale |-> TRUE, late |-> FALSE]
NoDownload == [state |-> "none", entry |-> Nothing, cond |-> Nothing, body |-> Nothing, late |-> FALSE]
InFlight == {"queued", "sent", "answered"}
Busy(d) == get[d].state \in InFlight
Unused == {o \in Objects : o # listed /\ \A d \in Downloads : Busy(d) => get[d].entry # o}
FreshObject == CHOOSE o \in Unused : TRUE

MetaInit ==
    /\ server \in Versions
    /\ disk = Nothing
    /\ entries = [o \in Objects |-> StaleEntry]
    /\ listed = Nothing /\ index = Nothing
    /\ saving = FALSE
    /\ get = [d \in Downloads |-> NoDownload]
    /\ events = 0

(* The file is replaced: every time stamp taken of it is out of date.       *)
Outdated(entry) == [entry EXCEPT !.stamped = FALSE]
OutdatedIndex == IF index = Nothing THEN Nothing ELSE Outdated(index)

Replaced(content) ==
    /\ disk' = content
    /\ index' = OutdatedIndex

AllLate == [d \in Downloads |-> [get[d] EXCEPT !.late = Busy(d)]]
Over(downloads, d) == [downloads EXCEPT ![d] = NoDownload]

-----------------------------------------------------------------------------
(* resolveEntry *)

(* The stamp differs: the md5 decides, and a match is stamped anew.         *)
Intact(entry) == entry.stamped \/ entry.md5 = disk

(* The listed entry is returned when the file is there and unchanged.       *)
KeptListed == [entry |-> listed, entries |-> [entries EXCEPT ![listed].stamped = TRUE],
               listed |-> listed, saving |-> saving \/ ~entries[listed].stamped]

(* Otherwise a listed entry is disowned and a new stale one is returned; an *)
(* intact one may be too old.                                               *)
Disowned == [entry |-> FreshObject, entries |-> [entries EXCEPT ![FreshObject] = StaleEntry],
             listed |-> Nothing, saving |-> saving]

(* Mutated form of ResolveEntry: a listed entry is believed.                *)
ResolveUnchecked(content) ==
    {Disowned} \cup (IF listed # Nothing /\ content # Nothing THEN {KeptListed} ELSE {})

ResolveEntry(content) ==
    {Disowned} \cup (IF listed # Nothing /\ content # Nothing /\ Intact(entries[listed]) THEN {KeptListed} ELSE {})

(* A client resolves the entry and queues a download if it is stale.        *)
Queued(entry) == [NoDownload EXCEPT !.state = "queued", !.entry = entry]

Fetch(d) ==
    /\ ~Busy(d) /\ Unused # {}
    /\ \E found \in ResolveEntry(disk) :
        /\ entries' = found.entries /\ listed' = found.listed /\ saving' = found.saving
        /\ get' = IF found.entries[found.entry].stale THEN [get EXCEPT ![d] = Queued(found.entry)] ELSE get
    /\ UNCHANGED <<metaStore, events>>

-----------------------------------------------------------------------------
(* MetaCacheSink *)

HeldEntry(d) == entries[get[d].entry]

(* init(): an entry that is fresh by now needs no request.                  *)
AlreadyFresh(d) ==
    /\ get[d].state = "queued"
    /\ ~HeldEntry(d).stale
    /\ get' = Over(get, d)
    /\ UNCHANGED <<metaStore, entries, listed, saving, events>>

(* With a file on disk, the request asks only for what has another ETag.     *)
SendGet(d) ==
    /\ get[d].state = "queued"
    /\ HeldEntry(d).stale
    /\ get' = [get EXCEPT ![d].state = "sent",
                          ![d].cond = IF disk = Nothing THEN Nothing ELSE HeldEntry(d).etag]
    /\ UNCHANGED <<metaStore, entries, listed, saving, events>>

(* The server answers "304 Not Modified" (no body) or with the content.     *)
ServerAnswers(d) ==
    /\ get[d].state = "sent"
    /\ get' = [get EXCEPT ![d].state = "answered",
                          ![d].body = IF get[d].cond = server THEN Nothing ELSE server]
    /\ UNCHANGED <<metaStore, entries, listed, saving, events>>

(* finalizeCache: the entry takes the md5 of the data that was written, the *)
(* ETag of the reply and the stamp of the file, and is listed.              *)
Recorded(d) ==
    IF get[d].body # Nothing
    THEN [md5 |-> get[d].body, etag |-> get[d].body, stamped |-> TRUE, stale |-> FALSE, late |-> FALSE]
    ELSE [HeldEntry(d) EXCEPT !.etag = get[d].cond, !.stamped = TRUE, !.stale = FALSE, !.late = @ \/ get[d].late]

(* The file is committed, if there is data, and the entry updated, in the   *)
(* same handler.                                                            *)
FinishGet(d) ==
    /\ get[d].state = "answered"
    /\ IF get[d].body # Nothing
       THEN /\ Replaced(get[d].body)
            /\ entries' = [o \in Objects |-> IF o = get[d].entry THEN Recorded(d) ELSE Outdated(entries[o])]
            /\ get' = Over(AllLate, d)
       ELSE /\ entries' = [entries EXCEPT ![get[d].entry] = Recorded(d)]
            /\ get' = Over(get, d)
            /\ UNCHANGED <<disk, index>>
    /\ listed' = get[d].entry
    /\ saving' = TRUE
    /\ UNCHANGED <<server, events>>

(* A network error, a validator that objects or a failing commit.           *)
FailGet(d) ==
    /\ Busy(d)
    /\ get' = Over(get, d)
    /\ UNCHANGED <<metaStore, entries, listed, saving, events>>

-----------------------------------------------------------------------------
(* evictEntry leaves the entry listed; evictAll empties the list and the    *)
(* directory.                                                               *)
EvictEntry ==
    /\ listed # Nothing /\ ~entries[listed].stale
    /\ entries' = [entries EXCEPT ![listed].stale = TRUE]
    /\ saving' = TRUE
    /\ UNCHANGED <<metaStore, listed, get, events>>

EvictAll ==
    /\ listed # Nothing /\ events < MetaEvents /\ events' = events + 1
    /\ Replaced(Nothing)
    /\ entries' = [o \in Objects |->
            IF o = listed THEN [Outdated(entries[o]) EXCEPT !.stale = TRUE] ELSE Outdated(entries[o])]
    /\ get' = AllLate
    /\ listed' = Nothing
    /\ saving' = TRUE
    /\ UNCHANGED server

(* SaveNow writes the list to the index, without the stale entries.         *)
Kept == IF listed # Nothing /\ ~entries[listed].stale THEN entries[listed] ELSE Nothing

SaveNow ==
    /\ saving
    /\ saving' = FALSE
    /\ index' = Kept
    /\ UNCHANGED <<server, disk, entries, listed, get, events>>

(* The program ends, after SaveNow in the destructor or by dying, and       *)
(* starts again: Load lists what the index holds as fresh.                  *)
LoadIndex(saved) ==
    /\ entries' = [o \in Objects |-> IF o = 1 /\ saved # Nothing THEN saved ELSE StaleEntry]
    /\ listed' = IF saved = Nothing THEN Nothing ELSE 1

MetaRestart ==
    /\ events < MetaEvents /\ events' = events + 1
    /\ \E saved \in {index, Kept} : index' = saved /\ LoadIndex(saved)
    /\ saving' = FALSE
    /\ get' = [d \in Downloads |-> NoDownload]
    /\ UNCHANGED <<server, disk>>

(* The server publishes something else; somebody edits, touches or deletes  *)
(* the file, or puts another one in its place.                              *)
Publish ==
    /\ events < MetaEvents /\ events' = events + 1
    /\ server' \in Versions \ {server}
    /\ UNCHANGED <<disk, entries, listed, index, saving, get>>

EditFile ==
    /\ events < MetaEvents /\ events' = events + 1
    /\ \E content \in Versions \cup {Edited, Nothing} : Replaced(content)
    /\ entries' = [o \in Objects |-> Outdated(entries[o])]
    /\ get' = AllLate
    /\ UNCHANGED <<server, listed, saving>>

MetaStep(d) == Fetch(d) \/ AlreadyFresh(d) \/ SendGet(d) \/ ServerAnswers(d) \/ FinishGet(d) \/ FailGet(d)

MetaNext ==
    \/ \E d \in Downloads : MetaStep(d)
    \/ EvictEntry \/ EvictAll \/ SaveNow \/ MetaRestart \/ Publish \/ EditFile

MetaSpec == MetaInit /\ [][MetaNext]_metaVars

-----------------------------------------------------------------------------
(* Properties *)

FreshNow == listed # Nothing /\ disk # Nothing /\ ~entries[listed].stale /\ Intact(entries[listed])

(* An entry that resolveEntry would return as fresh describes the file that *)
(* is on disk, not an earlier one: after edits, evictions, restarts with an *)
(* index older than the file, and downloads that end in any order.  The one *)
(* exception is an entry recorded by a "304 Not Modified" when the file was *)
(* replaced after the download had resolved the entry.                      *)
FreshIsOnDisk == FreshNow => entries[listed].md5 = disk \/ entries[listed].late
=============================================================================
