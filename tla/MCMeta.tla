-------------------------------- MODULE MCMeta ------------------------------
(* Instances for TLC, side by side: the cache by itself with any client     *)
(* that fetches (subject "cache"), and the cache under an entity's loads.   *)
EXTENDS BaseEntity, TLC

VARIABLES
    subject,
    made      \* load tasks made and merges of the parent

CONSTANTS
    EntityEvents,    \* bound: events while an entity is loaded
    LoadsAndMerges   \* bound: of made

MCInit ==
    /\ subject \in {"cache", "entity"}
    /\ made = 0
    /\ IF subject = "cache" THEN EntityInit /\ expected = Nothing ELSE EntityInit

LoadMade == \E l \in Downloads : load[l].state # "created" /\ load'[l].state = "created"
Merged == expected' # expected /\ events' = events

Bounded ==
    /\ events' <= EntityEvents
    /\ made' = IF LoadMade \/ Merged THEN made + 1 ELSE made
    /\ made' <= LoadsAndMerges

MCNext ==
    /\ \/ subject = "cache" /\ MetaNext /\ UNCHANGED <<entityVars, made>>
       \/ subject = "entity" /\ EntityNext /\ Bounded
    /\ UNCHANGED subject

mcVars == <<entityAll, subject, made>>
MCSpec == MCInit /\ [][MCNext]_mcVars

Symmetry == Permutations(Versions) \cup Permutations(Downloads)

(* MetaEntry objects nobody refers to are alike, and so are load tasks that *)
(* ended; the saved index matters until the last restart, the history       *)
(* "late" to the property of the cache alone, the hash of the file when     *)
(* something is loaded, and the data as long as nothing is doubted of it.   *)
Late(record) == [record EXCEPT !.late = @ /\ subject = "cache"]
CanRestart == events < IF subject = "cache" THEN MetaEvents ELSE EntityEvents
SeenEntries == [o \in Objects |-> IF o \in Unused THEN StaleEntry ELSE Late(entries[o])]
SeenGet == [d \in Downloads |-> Late(get[d])]
SeenIndex == IF index = Nothing \/ ~CanRestart THEN Nothing ELSE Late(index)
SeenLoad == [l \in Downloads |->
    IF load[l].state \in {"created", "running"} THEN load[l]
    ELSE IF Busy(l) THEN [NoLoad EXCEPT !.sha = load[l].sha, !.merged = load[l].merged] ELSE NoLoad]
SeenCurrent == IF current # Nothing /\ Loading(current) THEN current ELSE Nothing
SeenFileSha == IF status = "NotLoaded" THEN Nothing ELSE fileSha
SeenData == IF doubts = {} THEN data ELSE data # Nothing
View == <<server, disk, SeenEntries, listed, SeenIndex, saving /\ CanRestart, SeenGet, events,
          expected, SeenFileSha, status, SeenData, doubts = {}, SeenLoad, SeenCurrent, subject, made>>
=============================================================================
