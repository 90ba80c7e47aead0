--------------------------- MODULE BaseEntity_proofs ---------------------------
(***************************************************************************)
(* Theorems about MetaCache and BaseEntity, for any versions of a file,    *)
(* any number of downloads and load tasks, and any number of publications, *)
(* edits, evictions and restarts.                                          *)
(***************************************************************************)
EXTENDS BaseEntity, FiniteSetTheorems, TLAPS

Contents == Versions \cup {Edited, Nothing}
Entry == [md5 : Contents, etag : Contents, stamped : BOOLEAN, stale : BOOLEAN, late : BOOLEAN]
Get == [state : {"none"} \cup InFlight, entry : Objects \cup {Nothing}, cond : Contents, body : Contents,
        late : BOOLEAN]

CacheTyped ==
    /\ server \in Versions
    /\ entries \in [Objects -> Entry]
    /\ listed \in Objects \cup {Nothing}
    /\ index \in Entry \cup {Nothing}
    /\ get \in [Downloads -> Get]

(* An entry whose stamp is the one the file has now was taken of that file, *)
(* or recorded late; and an ETag never comes without the data's md5.        *)
Describes(entry) ==
    /\ entry.stamped /\ disk # Nothing => entry.md5 = disk \/ entry.late
    /\ entry.etag # Nothing => entry.md5 # Nothing

(* A download that is not late holds an entry without data or with the md5  *)
(* of the file, and only one with data can be answered by "304".            *)
Holds(d) ==
    LET held == entries[get[d].entry]
    IN  /\ get[d].entry \in Objects
        /\ ~get[d].late /\ held.md5 # Nothing => held.md5 = disk \/ held.late
        /\ get[d].cond # Nothing => held.md5 # Nothing
        /\ get[d].state = "answered" /\ get[d].body = Nothing => get[d].cond # Nothing

CacheInv ==
    /\ CacheTyped
    /\ \A o \in Objects : Describes(entries[o])
    /\ index # Nothing => Describes(index)
    /\ \A d \in Downloads : Busy(d) => Holds(d)

-----------------------------------------------------------------------------
(* The cache *)

LEMMA FirstObject == 1 \in Objects
BY FS_CardinalityType, MetaAssumption DEF Objects

LEMMA FreshObjectIsUnused ==
    ASSUME Unused # {}
    PROVE  FreshObject \in Objects /\ FreshObject # listed
           /\ \A d \in Downloads : Busy(d) => get[d].entry # FreshObject
BY DEF Unused, FreshObject

LEMMA StaleIsEntry == StaleEntry \in Entry /\ Describes(StaleEntry)
BY DEF StaleEntry, Entry, Contents, Describes

(* Taking the stamp off an entry changes nothing else of it.                *)
LEMMA OutdatedEntry ==
    ASSUME NEW entry \in Entry
    PROVE  /\ Outdated(entry) \in Entry /\ ~Outdated(entry).stamped
           /\ Outdated(entry).md5 = entry.md5 /\ Outdated(entry).etag = entry.etag
           /\ Outdated(entry).late = entry.late /\ Outdated(entry).stale = entry.stale
BY DEF Outdated, Entry

LEMMA CacheInitHolds == MetaInit => CacheInv
<1> SUFFICES ASSUME MetaInit PROVE CacheInv
  OBVIOUS
<1>1. /\ server \in Versions /\ entries = [o \in Objects |-> StaleEntry] /\ listed = Nothing /\ index = Nothing
      /\ get = [d \in Downloads |-> NoDownload]
  BY DEF MetaInit
<1>2. NoDownload \in Get /\ NoDownload.state = "none"
  BY DEF NoDownload, Get, Contents
<1>3. \A d \in Downloads : ~Busy(d)
  BY <1>1, <1>2 DEF Busy, InFlight
<1> QED
  BY <1>1, <1>2, <1>3, StaleIsEntry DEF CacheInv, CacheTyped

(* What a download holds does not change while nothing does that it has     *)
(* seen of the cache.                                                       *)
LEMMA HoldsStays ==
    ASSUME NEW d \in Downloads, Holds(d), get'[d] = get[d], disk' = disk,
           entries'[get[d].entry].md5 = entries[get[d].entry].md5,
           entries[get[d].entry].late => entries'[get[d].entry].late
    PROVE  Holds(d)'
BY DEF Holds

(* A step of one download that leaves the cache alone.                      *)
LEMMA DownloadStepKeeps ==
    ASSUME CacheInv, NEW d \in Downloads, NEW g \in Get, get' = [get EXCEPT ![d] = g],
           UNCHANGED <<server, disk, entries, listed, index>>,
           g.state \in InFlight => Holds(d)'
    PROVE  CacheInv'
<1>1. get \in [Downloads -> Get]
  BY DEF CacheInv, CacheTyped
<1>2. get' \in [Downloads -> Get] /\ get'[d] = g /\ \A e \in Downloads : e # d => get'[e] = get[e]
  BY <1>1
<1>3. CacheTyped'
  BY <1>2 DEF CacheInv, CacheTyped
<1>4. ASSUME NEW e \in Downloads, Busy(e)' PROVE Holds(e)'
  <2>1. CASE e = d
    BY <1>2, <1>4, <2>1 DEF Busy
  <2>2. CASE e # d
    BY <1>2, <1>4, <2>2, HoldsStays DEF Busy, CacheInv
  <2> QED
    BY <2>1, <2>2
<1>5. \A o \in Objects : Describes(entries[o])'
  BY DEF CacheInv, Describes
<1>6. (index # Nothing => Describes(index))'
  BY DEF CacheInv, Describes
<1> QED
  BY <1>3, <1>4, <1>5, <1>6 DEF CacheInv

(* A download that is over holds nothing.                                   *)
LEMMA EndedDownloadKeeps ==
    ASSUME CacheInv, NEW d \in Downloads, get' = Over(get, d), UNCHANGED <<server, disk, entries, listed, index>>
    PROVE  CacheInv'
<1>1. NoDownload \in Get /\ NoDownload.state \notin InFlight
  BY DEF NoDownload, Get, Contents, InFlight
<1> QED
  BY <1>1, DownloadStepKeeps DEF Over

LEMMA AllLateIs ==
    ASSUME CacheInv, NEW d \in Downloads
    PROVE  /\ AllLate[d] \in Get /\ AllLate[d].late = Busy(d) /\ AllLate[d].state = get[d].state
           /\ AllLate[d].entry = get[d].entry /\ AllLate[d].cond = get[d].cond
           /\ AllLate[d].body = get[d].body
           /\ AllLate[d].state \in InFlight <=> Busy(d)
<1>1. get[d] \in Get /\ Busy(d) \in BOOLEAN
  BY DEF Busy, CacheInv, CacheTyped
<1>2. AllLate[d] = [get[d] EXCEPT !.late = Busy(d)]
  BY DEF AllLate
<1>3. get[d].state \in InFlight <=> Busy(d)
  BY DEF Busy
<1> HIDE DEF Busy
<1> QED
  BY <1>1, <1>2, <1>3 DEF Get

(* The file is replaced behind the back of the downloads under way: no      *)
(* entry is stamped, and all of them are late.                              *)
LEMMA ReplacedKeeps ==
    ASSUME CacheInv, NEW content, Replaced(content), get' = AllLate, server' = server,
           listed' \in {listed, Nothing}, entries' \in [Objects -> Entry],
           \A o \in Objects : /\ ~entries'[o].stamped /\ entries'[o].md5 = entries[o].md5
                              /\ entries'[o].etag = entries[o].etag
    PROVE  CacheInv'
<1>1. /\ get \in [Downloads -> Get] /\ index' = OutdatedIndex /\ index \in Entry \cup {Nothing}
      /\ listed \in Objects \cup {Nothing} /\ server \in Versions
  BY DEF CacheInv, CacheTyped, Replaced
<1>2. /\ index' \in Entry \cup {Nothing}
      /\ index' # Nothing => ~index'.stamped /\ index # Nothing /\ index'.md5 = index.md5 /\ index'.etag = index.etag
  BY <1>1, OutdatedEntry DEF OutdatedIndex
<1>3. \A d \in Downloads : /\ AllLate[d] \in Get /\ AllLate[d].late = Busy(d) /\ AllLate[d].state = get[d].state
                           /\ AllLate[d].entry = get[d].entry /\ AllLate[d].cond = get[d].cond
                           /\ AllLate[d].body = get[d].body
  BY AllLateIs
<1>4. CacheTyped'
  <2>1. get' \in [Downloads -> Get]
    BY <1>3 DEF AllLate
  <2> QED
    BY <1>1, <1>2, <2>1 DEF CacheTyped
<1>5. \A o \in Objects : Describes(entries[o])'
  BY DEF CacheInv, Describes
<1>6. (index # Nothing => Describes(index))'
  BY <1>2 DEF CacheInv, Describes
<1>7. ASSUME NEW d \in Downloads, Busy(d)' PROVE Holds(d)'
  <2>1. /\ get'[d].late /\ get'[d].state = get[d].state /\ get'[d].entry = get[d].entry
        /\ get'[d].cond = get[d].cond /\ get'[d].body = get[d].body
    BY <1>3, <1>7 DEF Busy
  <2>2. Holds(d)
    BY <1>7, <2>1 DEF CacheInv, Busy
  <2>3. entries'[get[d].entry].md5 = entries[get[d].entry].md5
    BY <2>2 DEF Holds
  <2> QED
    BY <2>1, <2>2, <2>3 DEF Holds
<1> QED
  BY <1>4, <1>5, <1>6, <1>7 DEF CacheInv

(* What resolveEntry finds, in the two ways it may go: an entry that nobody *)
(* else has, or the listed one, of the file that is there.                  *)
Found(content, found) ==
    /\ found.entry \in Objects /\ found.entries \in [Objects -> Entry] /\ found.listed \in {listed, Nothing}
    /\ \A o \in Objects : Describes(found.entries[o])
    /\ \A d \in Downloads : Busy(d) =>
          /\ found.entries[get[d].entry].md5 = entries[get[d].entry].md5
          /\ found.entries[get[d].entry].etag = entries[get[d].entry].etag
          /\ found.entries[get[d].entry].late = entries[get[d].entry].late
          /\ found.entries[get[d].entry].stale = entries[get[d].entry].stale
    /\ \/ /\ found.entries[found.entry] = StaleEntry /\ found.listed = Nothing
          /\ \A d \in Downloads : Busy(d) => get[d].entry # found.entry
          /\ found.entry # listed
       \/ /\ content # Nothing /\ listed # Nothing /\ found.entry = listed
          /\ found.entries[found.entry].md5 = disk \/ found.entries[found.entry].late

LEMMA ResolveFinds ==
    ASSUME CacheInv, Unused # {}, NEW content, content \in {disk, Nothing}, NEW found \in ResolveEntry(content)
    PROVE  Found(content, found)
<1>1. /\ entries \in [Objects -> Entry] /\ listed \in Objects \cup {Nothing}
      /\ \A o \in Objects : Describes(entries[o])
      /\ \A d \in Downloads : Busy(d) => get[d].entry \in Objects
  BY DEF CacheInv, CacheTyped, Holds
<1>2. CASE found = Disowned
  <2>1. /\ FreshObject \in Objects /\ FreshObject # listed
        /\ \A d \in Downloads : Busy(d) => get[d].entry # FreshObject
    BY FreshObjectIsUnused
  <2>2. /\ found.entry = FreshObject /\ found.entries = [entries EXCEPT ![FreshObject] = StaleEntry]
        /\ found.listed = Nothing
    BY <1>2 DEF Disowned
  <2>3. /\ found.entries \in [Objects -> Entry] /\ found.entries[FreshObject] = StaleEntry
        /\ \A o \in Objects : o # FreshObject => found.entries[o] = entries[o]
    BY <1>1, <2>1, <2>2, StaleIsEntry
  <2>4. \A o \in Objects : Describes(found.entries[o])
    BY <1>1, <2>3, StaleIsEntry
  <2> QED
    BY <1>1, <2>1, <2>2, <2>3, <2>4 DEF Found
<1>3. CASE found = KeptListed /\ listed # Nothing /\ content # Nothing /\ Intact(entries[listed])
  <2> DEFINE kept == [entries[listed] EXCEPT !.stamped = TRUE]
  <2>1. listed \in Objects /\ entries[listed] \in Entry /\ content = disk
    BY <1>1, <1>3
  <2>2. /\ kept \in Entry /\ kept.md5 = entries[listed].md5 /\ kept.etag = entries[listed].etag
        /\ kept.late = entries[listed].late /\ kept.stale = entries[listed].stale
    BY <2>1 DEF Entry
  <2>3. found.entry = listed /\ found.entries = [entries EXCEPT ![listed] = kept] /\ found.listed = listed
    BY <1>3 DEF KeptListed
  <2> HIDE DEF kept
  <2>4. /\ found.entries \in [Objects -> Entry] /\ found.entries[listed] = kept
        /\ \A o \in Objects : o # listed => found.entries[o] = entries[o]
    BY <1>1, <2>1, <2>2, <2>3
  <2>5. kept.md5 = disk \/ kept.late
    BY <1>1, <1>3, <2>1, <2>2 DEF Intact, Describes
  <2>6. Describes(kept)
    BY <1>1, <2>1, <2>2, <2>5 DEF Describes
  <2>7. \A o \in Objects : Describes(found.entries[o])
    BY <1>1, <2>4, <2>6
  <2> QED
    BY <1>1, <1>3, <2>1, <2>2, <2>3, <2>4, <2>5, <2>7 DEF Found
<1> QED
  BY <1>2, <1>3 DEF ResolveEntry

(* A download is queued for what was found, or nothing is.                  *)
LEMMA FetchKeeps ==
    ASSUME CacheInv, NEW d \in Downloads, Fetch(d) PROVE CacheInv'
<1>1. PICK found \in ResolveEntry(disk) :
          /\ entries' = found.entries /\ listed' = found.listed
          /\ get' \in {[get EXCEPT ![d] = Queued(found.entry)], get}
  BY DEF Fetch
<1>2. Unused # {} /\ ~Busy(d) /\ UNCHANGED <<server, disk, index>>
  BY DEF Fetch, metaStore
<1>3. Found(disk, found)
  BY <1>2, ResolveFinds
<1>4. get \in [Downloads -> Get] /\ listed \in Objects \cup {Nothing} /\ server \in Versions /\ index \in Entry \cup {Nothing}
  BY DEF CacheInv, CacheTyped
<1> DEFINE q == Queued(found.entry)
<1>5. q \in Get /\ q.state = "queued" /\ q.entry = found.entry /\ q.cond = Nothing /\ ~q.late
  BY <1>3 DEF Queued, NoDownload, Get, Contents, InFlight, Found
<1> HIDE DEF q
<1>6. get' \in [Downloads -> Get] /\ get'[d] \in {q, get[d]} /\ \A e \in Downloads : e # d => get'[e] = get[e]
  BY <1>1, <1>4, <1>5 DEF q
<1>7. CacheTyped'
  BY <1>1, <1>2, <1>3, <1>4, <1>6 DEF CacheTyped, Found
<1>8. \A o \in Objects : Describes(entries[o])'
  BY <1>1, <1>2, <1>3 DEF Found, Describes
<1>9. (index # Nothing => Describes(index))'
  BY <1>2 DEF CacheInv, Describes
<1>10. ASSUME NEW e \in Downloads, Busy(e)' PROVE Holds(e)'
  <2>1. CASE Busy(e) /\ get'[e] = get[e]
    <3>1. Holds(e) /\ /\ found.entries[get[e].entry].md5 = entries[get[e].entry].md5
                      /\ found.entries[get[e].entry].late = entries[get[e].entry].late
      BY <1>3, <2>1 DEF CacheInv, Found
    <3> QED
      BY <1>1, <1>2, <2>1, <3>1, HoldsStays
  <2>2. CASE e = d /\ get'[d] = q
    <3>1. found.entry \in Objects /\ (found.entries[found.entry].md5 # Nothing =>
              found.entries[found.entry].md5 = disk \/ found.entries[found.entry].late)
      BY <1>3 DEF Found, StaleEntry
    <3> QED
      BY <1>1, <1>2, <1>5, <2>2, <3>1 DEF Holds
  <2> QED
    BY <1>2, <1>6, <1>10, <2>1, <2>2 DEF Busy
<1> QED
  BY <1>7, <1>8, <1>9, <1>10 DEF CacheInv

LEMMA AlreadyFreshKeeps ==
    ASSUME CacheInv, NEW d \in Downloads, AlreadyFresh(d) PROVE CacheInv'
BY EndedDownloadKeeps DEF AlreadyFresh, metaStore

LEMMA FailGetKeeps ==
    ASSUME CacheInv, NEW d \in Downloads, FailGet(d) PROVE CacheInv'
BY EndedDownloadKeeps DEF FailGet, metaStore

LEMMA SendGetKeeps ==
    ASSUME CacheInv, NEW d \in Downloads, SendGet(d) PROVE CacheInv'
<1>1. Busy(d) /\ Holds(d) /\ get[d].state = "queued"
  BY DEF SendGet, Busy, InFlight, CacheInv
<1>2. get[d] \in Get /\ get \in [Downloads -> Get] /\ get[d].entry \in Objects /\ entries[get[d].entry] \in Entry
      /\ Describes(entries[get[d].entry])
  BY <1>1 DEF CacheInv, CacheTyped, Holds
<1> DEFINE cond == IF disk = Nothing THEN Nothing ELSE HeldEntry(d).etag
           g == [get[d] EXCEPT !.state = "sent", !.cond = cond]
<1>3. cond \in Contents /\ (cond # Nothing => entries[get[d].entry].md5 # Nothing)
  BY <1>2 DEF HeldEntry, Entry, Contents, Describes
<1>4. get' = [get EXCEPT ![d] = g] /\ UNCHANGED <<server, disk, entries, listed, index>>
  BY <1>2 DEF SendGet, metaStore
<1> HIDE DEF cond
<1>5. g \in Get /\ g.state = "sent" /\ g.cond = cond /\ g.entry = get[d].entry /\ g.late = get[d].late
  BY <1>2, <1>3 DEF Get, InFlight
<1> HIDE DEF g
<1>6. get'[d] = g
  BY <1>2, <1>4
<1>7. Holds(d)'
  BY <1>1, <1>3, <1>4, <1>5, <1>6 DEF Holds
<1> QED
  BY <1>4, <1>5, <1>7, DownloadStepKeeps

LEMMA ServerAnswersKeeps ==
    ASSUME CacheInv, NEW d \in Downloads, ServerAnswers(d) PROVE CacheInv'
<1>1. Busy(d) /\ Holds(d) /\ get[d].state = "sent"
  BY DEF ServerAnswers, Busy, InFlight, CacheInv
<1>2. get[d] \in Get /\ get \in [Downloads -> Get] /\ server \in Versions /\ server # Nothing
  BY MetaAssumption DEF CacheInv, CacheTyped
<1> DEFINE body == IF get[d].cond = server THEN Nothing ELSE server
           g == [get[d] EXCEPT !.state = "answered", !.body = body]
<1>3. body \in Contents /\ (body = Nothing => get[d].cond # Nothing)
  BY <1>2 DEF Contents
<1>4. get' = [get EXCEPT ![d] = g] /\ UNCHANGED <<server, disk, entries, listed, index>>
  BY <1>2 DEF ServerAnswers, metaStore
<1> HIDE DEF body
<1>5. g \in Get /\ g.body = body /\ g.cond = get[d].cond /\ g.entry = get[d].entry /\ g.late = get[d].late
  BY <1>2, <1>3 DEF Get, InFlight
<1> HIDE DEF g
<1>6. get'[d] = g
  BY <1>2, <1>4
<1>7. Holds(d)'
  BY <1>1, <1>3, <1>4, <1>5, <1>6 DEF Holds
<1> QED
  BY <1>4, <1>5, <1>7, DownloadStepKeeps

(* The md5 of an entry goes with the file when both are written, and a      *)
(* "304" stamps an entry that has the md5 of the file, or is late.          *)
LEMMA FinishGetKeeps ==
    ASSUME CacheInv, NEW d \in Downloads, FinishGet(d) PROVE CacheInv'
<1>1. Busy(d) /\ Holds(d) /\ get[d].state = "answered"
  BY DEF FinishGet, Busy, InFlight, CacheInv
<1> PICK e \in Objects : e = get[d].entry
  BY <1>1 DEF Holds
<1>2. /\ get \in [Downloads -> Get] /\ get[d] \in Get /\ entries \in [Objects -> Entry]
      /\ entries[e] \in Entry /\ index \in Entry \cup {Nothing} /\ server \in Versions
      /\ \A o \in Objects : Describes(entries[o])
  BY <1>1 DEF CacheInv, CacheTyped, Holds
<1>3. NoDownload \in Get /\ NoDownload.state \notin InFlight
  BY DEF NoDownload, Get, Contents, InFlight
<1>4. listed' = e /\ UNCHANGED server
  BY DEF FinishGet
<1>5. CASE get[d].body # Nothing
  <2> DEFINE new == Recorded(d)
  <2>1. /\ disk' = get[d].body /\ index' = OutdatedIndex /\ get' = Over(AllLate, d)
        /\ entries' = [o \in Objects |-> IF o = e THEN new ELSE Outdated(entries[o])]
    BY <1>5 DEF FinishGet, Replaced
  <2>2. new \in Entry /\ new.md5 = disk' /\ new.etag = disk'
    BY <1>2, <1>5, <2>1 DEF Recorded, Entry, Get
  <2> HIDE DEF new
  <2>3. /\ entries' \in [Objects -> Entry] /\ entries'[e] = new
        /\ \A o \in Objects \ {e} : entries'[o] = Outdated(entries[o])
    BY <1>2, <2>1, <2>2, OutdatedEntry
  <2>4. \A o \in Objects : Describes(entries[o])'
    <3>1. Describes(entries[e])'
      BY <1>2, <2>2, <2>3 DEF Describes
    <3>2. ASSUME NEW o \in Objects \ {e} PROVE Describes(entries[o])'
      BY <1>2, <2>3, OutdatedEntry DEF Describes
    <3> QED
      BY <3>1, <3>2
  <2>5. index' \in Entry \cup {Nothing} /\ (index # Nothing => Describes(index))'
    <3>1. CASE index = Nothing
      BY <2>1, <3>1 DEF OutdatedIndex
    <3>2. CASE index # Nothing
      BY <1>2, <2>1, <3>2, OutdatedEntry DEF OutdatedIndex, CacheInv, Describes
    <3> QED
      BY <3>1, <3>2
  <2>6. ASSUME NEW c \in Downloads
        PROVE  /\ get'[c] \in Get
               /\ get'[c].state \in InFlight =>
                      /\ c # d /\ get'[c].late /\ Busy(c) /\ get'[c].entry = get[c].entry /\ get'[c].state = get[c].state
                      /\ get'[c].cond = get[c].cond /\ get'[c].body = get[c].body
    <3>1. CASE c = d
      BY <1>3, <2>1, <3>1 DEF Over, AllLate
    <3>2. CASE c # d
      <4>1. get'[c] = AllLate[c]
        BY <2>1, <3>2 DEF Over, AllLate
      <4> QED
        BY <3>2, <4>1, AllLateIs
    <3> QED
      BY <3>1, <3>2
  <2>7. get' \in [Downloads -> Get]
    BY <2>1, <2>6 DEF Over, AllLate
  <2>8. ASSUME NEW c \in Downloads, Busy(c)' PROVE Holds(c)'
    <3>1. Busy(c) /\ Holds(c)
      BY <2>6, <2>8 DEF Busy, CacheInv
    <3>2. get[c].cond # Nothing => entries'[get[c].entry].md5 # Nothing
      <4>1. CASE get[c].entry = e
        BY <1>5, <2>1, <2>2, <2>3, <4>1
      <4>2. CASE get[c].entry # e
        BY <1>2, <2>3, <3>1, <4>2, OutdatedEntry DEF Holds
      <4> QED
        BY <4>1, <4>2
    <3> QED
      BY <2>6, <2>8, <3>1, <3>2 DEF Busy, Holds
  <2> QED
    BY <1>2, <1>4, <2>3, <2>4, <2>5, <2>7, <2>8 DEF CacheInv, CacheTyped
<1>6. CASE get[d].body = Nothing
  <2> DEFINE new == Recorded(d)
  <2>1. entries' = [entries EXCEPT ![e] = new] /\ get' = Over(get, d) /\ UNCHANGED <<disk, index>>
    BY <1>6 DEF FinishGet
  <2>2. /\ new \in Entry /\ new.md5 = entries[e].md5 /\ new.etag = get[d].cond
        /\ new.late = (entries[e].late \/ get[d].late)
    BY <1>2, <1>6 DEF Recorded, HeldEntry, Entry, Get
  <2>3. new.md5 # Nothing /\ (new.md5 = disk \/ new.late)
    BY <1>1, <1>6, <2>2 DEF Holds
  <2> HIDE DEF new
  <2>4. /\ entries' \in [Objects -> Entry] /\ entries'[e] = new
        /\ \A o \in Objects \ {e} : entries'[o] = entries[o]
    BY <1>2, <2>1, <2>2
  <2>5. \A o \in Objects : Describes(entries[o])'
    BY <1>2, <2>1, <2>3, <2>4 DEF Describes
  <2>6. index' \in Entry \cup {Nothing} /\ (index # Nothing => Describes(index))'
    BY <1>2, <2>1 DEF CacheInv, Describes
  <2>7. get' \in [Downloads -> Get] /\ \A c \in Downloads : get'[c] = IF c = d THEN NoDownload ELSE get[c]
    BY <1>2, <1>3, <2>1 DEF Over
  <2>8. ASSUME NEW c \in Downloads, Busy(c)' PROVE Holds(c)'
    <3>1. Busy(c) /\ Holds(c) /\ get'[c] = get[c]
      BY <1>3, <2>7, <2>8 DEF Busy, CacheInv
    <3>2. /\ entries'[get[c].entry].md5 = entries[get[c].entry].md5
          /\ entries[get[c].entry].late => entries'[get[c].entry].late
      BY <2>2, <2>4, <3>1 DEF Holds
    <3> QED
      BY <2>1, <3>1, <3>2, HoldsStays
  <2> QED
    BY <1>2, <1>4, <2>4, <2>5, <2>6, <2>7, <2>8 DEF CacheInv, CacheTyped
<1> QED
  BY <1>5, <1>6

LEMMA EvictEntryKeeps == CacheInv /\ EvictEntry => CacheInv'
<1> SUFFICES ASSUME CacheInv, EvictEntry PROVE CacheInv'
  OBVIOUS
<1> DEFINE new == [entries[listed] EXCEPT !.stale = TRUE]
<1>1. /\ listed \in Objects /\ entries' = [entries EXCEPT ![listed] = new] /\ entries \in [Objects -> Entry]
      /\ entries[listed] \in Entry /\ UNCHANGED <<server, disk, index, listed, get>>
  BY DEF EvictEntry, CacheInv, CacheTyped, metaStore
<1>2. new \in Entry /\ new.md5 = entries[listed].md5 /\ new.late = entries[listed].late
      /\ new.etag = entries[listed].etag /\ new.stamped = entries[listed].stamped
  BY <1>1 DEF Entry
<1> HIDE DEF new
<1>3. /\ entries' \in [Objects -> Entry]
      /\ \A o \in Objects : /\ entries'[o].md5 = entries[o].md5 /\ entries'[o].late = entries[o].late
                            /\ entries'[o].etag = entries[o].etag /\ entries'[o].stamped = entries[o].stamped
  BY <1>1, <1>2
<1>4. CacheTyped'
  BY <1>1, <1>3 DEF CacheInv, CacheTyped
<1>5. \A o \in Objects : Describes(entries[o])'
  BY <1>1, <1>3 DEF CacheInv, Describes
<1>6. (index # Nothing => Describes(index))'
  BY <1>1 DEF CacheInv, Describes
<1>7. \A d \in Downloads : Busy(d)' => Holds(d)'
  BY <1>1, <1>3, HoldsStays DEF CacheInv, Busy, Holds
<1> QED
  BY <1>4, <1>5, <1>6, <1>7 DEF CacheInv

LEMMA EvictAllKeeps == CacheInv /\ EvictAll => CacheInv'
<1> SUFFICES ASSUME CacheInv, EvictAll PROVE CacheInv'
  OBVIOUS
<1> DEFINE new(o) == IF o = listed THEN [Outdated(entries[o]) EXCEPT !.stale = TRUE] ELSE Outdated(entries[o])
<1>1. /\ Replaced(Nothing) /\ entries' = [o \in Objects |-> new(o)] /\ get' = AllLate /\ listed' = Nothing
      /\ server' = server
  BY DEF EvictAll
<1>2. ASSUME NEW o \in Objects
      PROVE  new(o) \in Entry /\ ~new(o).stamped /\ new(o).md5 = entries[o].md5 /\ new(o).etag = entries[o].etag
  <2>1. entries[o] \in Entry
    BY DEF CacheInv, CacheTyped
  <2> QED
    BY <2>1, OutdatedEntry DEF Entry
<1> HIDE DEF new
<1> QED
  BY <1>1, <1>2, ReplacedKeeps

LEMMA EditFileKeeps == CacheInv /\ EditFile => CacheInv'
<1> SUFFICES ASSUME CacheInv, EditFile PROVE CacheInv'
  OBVIOUS
<1>1. PICK content : Replaced(content)
  BY DEF EditFile
<1>2. \A o \in Objects : entries[o] \in Entry
  BY DEF CacheInv, CacheTyped
<1>3. entries' = [o \in Objects |-> Outdated(entries[o])] /\ get' = AllLate /\ UNCHANGED <<server, listed>>
  BY DEF EditFile
<1> QED
  BY <1>1, <1>2, <1>3, OutdatedEntry, ReplacedKeeps

LEMMA KeptDescribes ==
    ASSUME CacheInv PROVE Kept \in Entry \cup {Nothing} /\ (Kept # Nothing => Describes(Kept))
BY DEF Kept, CacheInv, CacheTyped

LEMMA SaveNowKeeps == CacheInv /\ SaveNow => CacheInv'
<1> SUFFICES ASSUME CacheInv, SaveNow PROVE CacheInv'
  OBVIOUS
<1>1. index' = Kept /\ UNCHANGED <<server, disk, entries, listed, get>>
  BY DEF SaveNow
<1>2. CacheTyped'
  BY <1>1, KeptDescribes DEF CacheInv, CacheTyped
<1>3. (\A o \in Objects : Describes(entries[o]))' /\ (index # Nothing => Describes(index))'
  BY <1>1, KeptDescribes DEF CacheInv, Describes
<1>4. \A d \in Downloads : Busy(d)' => Holds(d)'
  BY <1>1 DEF CacheInv, Busy, Holds
<1> QED
  BY <1>2, <1>3, <1>4 DEF CacheInv

LEMMA PublishKeeps == CacheInv /\ Publish => CacheInv'
<1> SUFFICES ASSUME CacheInv, Publish PROVE CacheInv'
  OBVIOUS
<1>1. server' \in Versions /\ UNCHANGED <<disk, index, entries, listed, get>>
  BY DEF Publish
<1> QED
  BY <1>1 DEF CacheInv, CacheTyped, Describes, Busy, Holds

LEMMA MetaRestartKeeps == CacheInv /\ MetaRestart => CacheInv'
<1> SUFFICES ASSUME CacheInv, MetaRestart PROVE CacheInv'
  OBVIOUS
<1>1. PICK saved \in {index, Kept} : index' = saved /\ LoadIndex(saved)
  BY DEF MetaRestart
<1>2. get' = [d \in Downloads |-> NoDownload] /\ UNCHANGED <<server, disk>>
  BY DEF MetaRestart
<1>3. saved \in Entry \cup {Nothing} /\ (saved # Nothing => Describes(saved))
  BY KeptDescribes DEF CacheInv, CacheTyped
<1>4. /\ entries' = [o \in Objects |-> IF o = 1 /\ saved # Nothing THEN saved ELSE StaleEntry]
      /\ listed' \in Objects \cup {Nothing}
  BY <1>1, FirstObject DEF LoadIndex
<1>5. NoDownload \in Get /\ NoDownload.state \notin InFlight
  BY DEF NoDownload, Get, Contents, InFlight
<1>6. CacheTyped'
  BY <1>1, <1>2, <1>3, <1>4, <1>5, StaleIsEntry DEF CacheTyped, CacheInv
<1>7. (\A o \in Objects : Describes(entries[o]))' /\ (index # Nothing => Describes(index))'
  BY <1>1, <1>2, <1>3, <1>4, StaleIsEntry DEF Describes
<1>8. \A d \in Downloads : ~Busy(d)'
  BY <1>2, <1>5 DEF Busy
<1> QED
  BY <1>6, <1>7, <1>8 DEF CacheInv

LEMMA CacheStays == CacheInv /\ UNCHANGED metaVars => CacheInv'
<1> SUFFICES ASSUME CacheInv, UNCHANGED metaVars PROVE CacheInv'
  OBVIOUS
<1>1. UNCHANGED <<server, disk, index, entries, listed, get>>
  BY DEF metaVars
<1> QED
  BY <1>1 DEF CacheInv, CacheTyped, Describes, Busy, Holds

LEMMA CacheStepKeeps == CacheInv /\ [MetaNext]_metaVars => CacheInv'
BY FetchKeeps, AlreadyFreshKeeps, FailGetKeeps, SendGetKeeps, ServerAnswersKeeps, FinishGetKeeps, EvictEntryKeeps,
   EvictAllKeeps, EditFileKeeps, SaveNowKeeps, PublishKeeps, MetaRestartKeeps, CacheStays DEF MetaNext, MetaStep

LEMMA FreshFollows == CacheInv => FreshIsOnDisk
BY DEF CacheInv, CacheTyped, Describes, FreshIsOnDisk, FreshNow, Intact

(* Whatever is fetched, published, edited, evicted or saved, by any number  *)
(* of downloads and over any number of restarts with an index that may be   *)
(* older than the file: an entry the cache would call fresh is that of the  *)
(* file on disk, or was recorded late by a "304".                           *)
THEOREM CacheIsTrue == MetaSpec => []FreshIsOnDisk
<1> QED
  BY CacheInitHolds, CacheStepKeeps, FreshFollows, PTL DEF MetaSpec

-----------------------------------------------------------------------------
(* The entity *)

LoadStates == {"none", "created", "running", "succeeded", "failed", "aborted"}
Load == [state : LoadStates, online : BOOLEAN, force : BOOLEAN, sha : Hashes \cup {Nothing},
         merged : BOOLEAN]

(* The download holds an entry of its own, with nothing to ask 304 for.     *)
Alone(l) ==
    /\ listed # Nothing => listed # get[l].entry
    /\ \A d \in Downloads \ {l} : Busy(d) => get[d].entry # get[l].entry
    /\ HeldEntry(l).stale /\ HeldEntry(l).etag = Nothing /\ get[l].cond = Nothing

(* A load runs until its download is over.  A download began with something *)
(* to keep should the server answer "304", or it cannot be answered so.     *)
LoadHolds(l) ==
    /\ Loading(l) => Busy(l)
    /\ Busy(l) => load[l].state \in {"running", "aborted"} /\ (data # Nothing \/ Alone(l))
    /\ load[l].state = "created" => ~load[l].merged

LoadsInv ==
    /\ expected \in Hashes \cup {Nothing}
    /\ load \in [Downloads -> Load]
    /\ status \in {"NotLoaded", "Local", "Remote"}
    /\ status # "NotLoaded" => data # Nothing
    /\ \A l \in Downloads : LoadHolds(l)

(* A download without a merge since it began looks for what is expected     *)
(* now; and it has an entry of its own or the entity is marked already with *)
(* what is expected.                                                        *)
Looks(l) ==
    Busy(l) /\ ~load[l].merged =>
        /\ load[l].sha = expected
        /\ expected # Nothing => Alone(l) \/ (status # "NotLoaded" /\ fileSha = expected)

(* The hash of an entity is that of its data, or there is a doubt.          *)
Marked == status # "NotLoaded" /\ fileSha # Nothing => data = fileSha \/ doubts # {}

MatchInv == Marked /\ \A l \in Downloads : Looks(l)

EntityInv == CacheInv /\ LoadsInv /\ MatchInv

(* What another step leaves of a download under way.                        *)
Undisturbed(l) == (Busy(l)' <=> Busy(l)) /\ (Busy(l) /\ Alone(l) => Alone(l)')

LEMMA AloneStays ==
    ASSUME NEW l \in Downloads, Alone(l), get'[l].entry = get[l].entry, get'[l].cond = Nothing,
           entries'[get[l].entry].stale, entries'[get[l].entry].etag = Nothing,
           listed' # Nothing => listed' # get[l].entry,
           \A d \in Downloads \ {l} : Busy(d)' => get'[d].entry # get[l].entry
    PROVE  Alone(l)'
BY DEF Alone, HeldEntry

(* The entry of a download that is not answered by "304", or was fresh.     *)
LEMMA NotAlone ==
    ASSUME CacheInv, NEW d \in Downloads,
           \/ get[d].state = "answered" /\ get[d].body = Nothing
           \/ get[d].state = "queued" /\ ~HeldEntry(d).stale
    PROVE  ~Alone(d)
<1>1. Busy(d)
  BY DEF Busy, InFlight
<1>2. CASE get[d].state = "answered" /\ get[d].body = Nothing
  BY <1>1, <1>2 DEF CacheInv, Holds, Alone
<1>3. CASE get[d].state = "queued" /\ ~HeldEntry(d).stale
  BY <1>3 DEF Alone
<1> QED
  BY <1>2, <1>3

LEMMA GetStepUndisturbs ==
    ASSUME CacheInv, NEW d \in Downloads, SendGet(d) \/ ServerAnswers(d)
    PROVE  \A l \in Downloads : Undisturbed(l)
<1>1. get \in [Downloads -> Get] /\ get[d] \in Get /\ UNCHANGED <<entries, listed>>
  BY DEF CacheInv, CacheTyped, SendGet, ServerAnswers
<1>2. /\ \A l \in Downloads \ {d} : get'[l] = get[l]
      /\ get'[d].entry = get[d].entry /\ Busy(d) /\ Busy(d)'
      /\ Alone(d) => get'[d].cond = Nothing
  <2>1. CASE SendGet(d)
    BY <1>1, <2>1 DEF SendGet, Get, Busy, InFlight, Alone, HeldEntry
  <2>2. CASE ServerAnswers(d)
    BY <1>1, <2>2 DEF ServerAnswers, Get, Busy, InFlight, Alone
  <2> QED
    BY <2>1, <2>2
<1>3. ASSUME NEW l \in Downloads PROVE Undisturbed(l)
  <2>1. Busy(l)' <=> Busy(l)
    BY <1>2 DEF Busy
  <2>2. ASSUME Alone(l) PROVE Alone(l)'
    <3>1. \A c \in Downloads : (Busy(c)' <=> Busy(c)) /\ get'[c].entry = get[c].entry
      BY <1>2 DEF Busy
    <3> QED
      BY <1>1, <1>2, <2>2, <3>1 DEF Alone, HeldEntry
  <2> QED
    BY <2>1, <2>2 DEF Undisturbed
<1> QED
  BY <1>3

(* A download that is started again has not been answered.                  *)
LEMMA RetryKeeps ==
    ASSUME CacheInv, NEW d \in Downloads, Busy(d), RetryGet(d)
    PROVE  CacheInv' /\ Busy(d)' /\ \A l \in Downloads : Undisturbed(l)
<1> DEFINE g == [Queued(get[d].entry) EXCEPT !.late = get[d].late]
<1>1. /\ get \in [Downloads -> Get] /\ get[d] \in Get /\ Holds(d)
      /\ UNCHANGED <<server, disk, index, entries, listed>> /\ get' = [get EXCEPT ![d] = g]
  BY DEF CacheInv, CacheTyped, RetryGet, metaStore
<1>2. /\ g \in Get /\ g.state = "queued" /\ g.entry = get[d].entry /\ g.cond = Nothing /\ g.late = get[d].late
  BY <1>1 DEF Queued, NoDownload, Get, Contents, InFlight
<1> HIDE DEF g
<1>3. get'[d] = g /\ \A l \in Downloads \ {d} : get'[l] = get[l]
  BY <1>1
<1>4. Holds(d)'
  BY <1>1, <1>2, <1>3 DEF Holds
<1>5. CacheInv'
  BY <1>1, <1>2, <1>4, DownloadStepKeeps
<1>6. \A l \in Downloads : (Busy(l)' <=> Busy(l)) /\ get'[l].entry = get[l].entry
  BY <1>2, <1>3 DEF Busy, InFlight
<1>7. ASSUME NEW l \in Downloads, Alone(l) PROVE Alone(l)'
  BY <1>1, <1>2, <1>3, <1>6, <1>7 DEF Alone, HeldEntry
<1> QED
  BY <1>5, <1>6, <1>7 DEF Undisturbed

LEMMA OverUndisturbs ==
    ASSUME CacheInv, NEW d \in Downloads, get' = Over(get, d), UNCHANGED <<entries, listed>>
    PROVE  ~Busy(d)' /\ \A l \in Downloads \ {d} : Undisturbed(l)
<1>1. get \in [Downloads -> Get] /\ NoDownload.state \notin InFlight
  BY DEF CacheInv, CacheTyped, NoDownload, InFlight
<1>2. get'[d] = NoDownload /\ \A l \in Downloads \ {d} : get'[l] = get[l]
  BY <1>1 DEF Over
<1>3. ~Busy(d)' /\ \A l \in Downloads \ {d} : Busy(l)' <=> Busy(l)
  BY <1>1, <1>2 DEF Busy
<1>4. ASSUME NEW l \in Downloads \ {d}, Alone(l) PROVE Alone(l)'
  BY <1>2, <1>3, <1>4 DEF Alone, HeldEntry
<1> QED
  BY <1>3, <1>4 DEF Undisturbed

LEMMA FinishUndisturbs ==
    ASSUME CacheInv, NEW d \in Downloads, FinishGet(d)
    PROVE  ~Busy(d)' /\ \A l \in Downloads \ {d} : Undisturbed(l)
<1>1. /\ get \in [Downloads -> Get] /\ NoDownload.state \notin InFlight /\ entries \in [Objects -> Entry]
      /\ Busy(d) /\ listed' = get[d].entry
  BY DEF CacheInv, CacheTyped, NoDownload, InFlight, FinishGet, Busy
<1>2. /\ get'[d] = NoDownload
      /\ \A l \in Downloads \ {d} : /\ get'[l].state = get[l].state /\ get'[l].entry = get[l].entry
                                    /\ get'[l].cond = get[l].cond
  <2>1. CASE get[d].body # Nothing
    <3>1. get' = Over(AllLate, d)
      BY <2>1 DEF FinishGet
    <3>2. get'[d] = NoDownload /\ \A l \in Downloads \ {d} : get'[l] = AllLate[l]
      BY <3>1 DEF Over, AllLate
    <3> QED
      BY <3>2, AllLateIs
  <2>2. CASE get[d].body = Nothing
    BY <1>1, <2>2 DEF FinishGet, Over
  <2> QED
    BY <2>1, <2>2
<1>3. ~Busy(d)' /\ \A l \in Downloads \ {d} : Busy(l)' <=> Busy(l)
  BY <1>1, <1>2 DEF Busy
<1>4. ASSUME NEW o \in Objects, o # get[d].entry
      PROVE  entries'[o].stale = entries[o].stale /\ entries'[o].etag = entries[o].etag
  <2>1. CASE get[d].body # Nothing
    <3>1. entries'[o] = Outdated(entries[o])
      BY <1>4, <2>1 DEF FinishGet
    <3> QED
      BY <1>1, <3>1, OutdatedEntry
  <2>2. CASE get[d].body = Nothing
    BY <1>1, <1>4, <2>2 DEF FinishGet
  <2> QED
    BY <2>1, <2>2
<1>5. ASSUME NEW l \in Downloads \ {d}, Busy(l), Alone(l) PROVE Alone(l)'
  <2>1. get[l].entry \in Objects /\ get[l].entry # get[d].entry
    BY <1>1, <1>5 DEF CacheInv, Holds, Alone
  <2>2. entries'[get[l].entry].stale /\ entries'[get[l].entry].etag = Nothing
    BY <1>4, <1>5, <2>1 DEF Alone, HeldEntry
  <2>3. \A c \in Downloads \ {l} : Busy(c)' => get'[c].entry # get[l].entry
    BY <1>2, <1>3, <1>5 DEF Alone
  <2>4. get'[l].entry = get[l].entry /\ get'[l].cond = Nothing
    BY <1>2, <1>5 DEF Alone
  <2> QED
    BY <1>1, <1>5, <2>1, <2>2, <2>3, <2>4, AloneStays
<1> QED
  BY <1>3, <1>5 DEF Undisturbed

LEMMA EnvironmentUndisturbs ==
    ASSUME CacheInv, SaveNow \/ Publish \/ EditFile
    PROVE  \A l \in Downloads : Undisturbed(l)
<1>1. CASE SaveNow \/ Publish
  BY <1>1 DEF SaveNow, Publish, Undisturbed, Busy, Alone, HeldEntry
<1>2. CASE EditFile
  <2>1. /\ get' = AllLate /\ entries' = [o \in Objects |-> Outdated(entries[o])] /\ listed' = listed
        /\ entries \in [Objects -> Entry]
    BY <1>2 DEF EditFile, CacheInv, CacheTyped
  <2>2. \A l \in Downloads : /\ get'[l].state = get[l].state /\ get'[l].entry = get[l].entry
                             /\ get'[l].cond = get[l].cond
    BY <2>1, AllLateIs
  <2>3. \A l \in Downloads : Busy(l)' <=> Busy(l)
    BY <2>2 DEF Busy
  <2>4. ASSUME NEW l \in Downloads, Busy(l), Alone(l) PROVE Alone(l)'
    <3>1. get[l].entry \in Objects
      BY <2>4 DEF CacheInv, Holds
    <3>2. entries'[get[l].entry].stale /\ entries'[get[l].entry].etag = Nothing
      BY <2>1, <2>4, <3>1, OutdatedEntry DEF Alone, HeldEntry
    <3>3. \A c \in Downloads \ {l} : Busy(c)' => get'[c].entry # get[l].entry
      BY <2>2, <2>3, <2>4 DEF Alone
    <3> QED
      BY <2>1, <2>2, <2>4, <3>2, <3>3, AloneStays DEF Alone
  <2> QED
    BY <2>3, <2>4 DEF Undisturbed
<1> QED
  BY <1>1, <1>2

LEMMA WantedEntry ==
    ASSUME NEW l \in Downloads, NEW entry \in Entry
    PROVE  /\ Wanted(l, entry) \in Entry /\ Wanted(l, entry).stale
           /\ Wanted(l, entry).md5 = entry.md5 /\ Wanted(l, entry).late = entry.late
           /\ Wanted(l, entry).stamped = entry.stamped /\ Wanted(l, entry).etag \in {entry.etag, Nothing}
BY DEF Wanted, Entry, Contents

(* The download of a load begins: a file that cannot be used is gone, and   *)
(* without a file the download has an entry of its own.                     *)
LEMMA DownloadKeeps ==
    ASSUME CacheInv, NEW l \in Downloads, ~Busy(l), DownloadEntity(l)
    PROVE  /\ CacheInv' /\ Busy(l)'
           /\ \A d \in Downloads \ {l} : Undisturbed(d)
           /\ disk' = Nothing => Alone(l)'
<1> DEFINE content == IF Unusable(l) THEN Nothing ELSE disk
           others == IF Unusable(l) THEN AllLate ELSE get
<1>1. PICK found \in ResolveEntry(content) :
          /\ entries' = [found.entries EXCEPT ![found.entry] = Wanted(l, @)]
          /\ listed' = found.listed /\ get' = [others EXCEPT ![l] = Queued(found.entry)]
  BY DEF DownloadEntity
<1>2. /\ disk' = content /\ index' = (IF Unusable(l) THEN OutdatedIndex ELSE index) /\ server' = server /\ Unused # {}
      /\ content \in {disk, Nothing}
  BY DEF DownloadEntity
<1>3. Found(content, found)
  BY <1>2, ResolveFinds
<1>4. /\ get \in [Downloads -> Get] /\ listed \in Objects \cup {Nothing} /\ server \in Versions
      /\ index \in Entry \cup {Nothing} /\ \A d \in Downloads : Busy(d) => Holds(d)
  BY DEF CacheInv, CacheTyped
<1>5. ASSUME NEW d \in Downloads
      PROVE  /\ others[d] \in Get /\ others[d].state = get[d].state /\ others[d].entry = get[d].entry
             /\ others[d].cond = get[d].cond /\ others[d].body = get[d].body
             /\ Busy(d) /\ ~others[d].late => disk' = disk /\ ~get[d].late
  <2>1. CASE Unusable(l)
    BY <2>1, AllLateIs
  <2>2. CASE ~Unusable(l)
    BY <1>2, <1>4, <2>2
  <2> QED
    BY <2>1, <2>2
<1>6. others \in [Downloads -> Get]
  <2>1. CASE Unusable(l)
    BY <1>5, <2>1 DEF AllLate
  <2>2. CASE ~Unusable(l)
    BY <1>4, <2>2
  <2> QED
    BY <2>1, <2>2
<1> HIDE DEF others
<1> DEFINE q == Queued(found.entry)
           new == Wanted(l, found.entries[found.entry])
<1>7. q \in Get /\ q.state = "queued" /\ q.entry = found.entry /\ q.cond = Nothing /\ ~q.late
  BY <1>3 DEF Queued, NoDownload, Get, Contents, InFlight, Found
<1>8. /\ found.entry \in Objects /\ found.entries \in [Objects -> Entry] /\ found.entries[found.entry] \in Entry
      /\ found.listed \in {listed, Nothing} /\ \A o \in Objects : Describes(found.entries[o])
  BY <1>3 DEF Found
<1>9. /\ new \in Entry /\ new.stale /\ new.md5 = found.entries[found.entry].md5
      /\ new.late = found.entries[found.entry].late /\ new.stamped = found.entries[found.entry].stamped
      /\ new.etag \in {found.entries[found.entry].etag, Nothing}
  BY <1>8, WantedEntry
<1> HIDE DEF new, q
<1>10. /\ entries' \in [Objects -> Entry] /\ entries'[found.entry] = new
       /\ \A o \in Objects \ {found.entry} : entries'[o] = found.entries[o]
  BY <1>1, <1>8, <1>9 DEF new
<1>11. get' \in [Downloads -> Get] /\ get'[l] = q /\ \A d \in Downloads \ {l} : get'[d] = others[d]
  BY <1>1, <1>6, <1>7 DEF q
<1>12. index' \in Entry \cup {Nothing} /\ (index # Nothing => Describes(index))'
  <2>1. CASE Unusable(l) /\ index # Nothing
    BY <1>2, <1>4, <2>1, OutdatedEntry DEF OutdatedIndex, CacheInv, Describes
  <2>2. CASE ~(Unusable(l) /\ index # Nothing)
    BY <1>2, <1>4, <2>2 DEF OutdatedIndex, CacheInv, Describes
  <2> QED
    BY <2>1, <2>2
<1>13. CacheTyped'
  BY <1>1, <1>2, <1>4, <1>8, <1>10, <1>11, <1>12 DEF CacheTyped
<1>14. ASSUME NEW o \in Objects PROVE Describes(entries[o])'
  <2>1. Describes(found.entries[o]) /\ disk' \in {disk, Nothing}
    BY <1>2, <1>8
  <2>2. /\ entries'[o].stamped = found.entries[o].stamped /\ entries'[o].md5 = found.entries[o].md5
        /\ entries'[o].late = found.entries[o].late /\ entries'[o].etag \in {found.entries[o].etag, Nothing}
    BY <1>9, <1>10
  <2> QED
    BY <2>1, <2>2 DEF Describes
<1>15. ASSUME NEW d \in Downloads \ {l}
       PROVE  (Busy(d)' <=> Busy(d)) /\ get'[d].entry = get[d].entry /\ get'[d].cond = get[d].cond
  BY <1>5, <1>11 DEF Busy
<1>16. Busy(l)'
  BY <1>7, <1>11 DEF Busy, InFlight
<1>17. ASSUME NEW d \in Downloads, Busy(d)' PROVE Holds(d)'
  <2>1. CASE d = l
    <3>1. found.entries[found.entry].md5 # Nothing =>
              found.entries[found.entry].md5 = disk' \/ found.entries[found.entry].late
      BY <1>2, <1>3 DEF Found, StaleEntry
    <3>2. get'[d].entry = found.entry /\ get'[d].cond = Nothing /\ get'[d].state = "queued"
      BY <1>7, <1>11, <2>1
    <3> QED
      BY <1>8, <1>9, <1>10, <3>1, <3>2 DEF Holds
  <2>2. CASE d # l
    <3>1. Busy(d) /\ Holds(d) /\ get[d].entry \in Objects
      BY <1>4, <1>15, <1>17, <2>2 DEF Holds
    <3>2. /\ found.entries[get[d].entry].md5 = entries[get[d].entry].md5
          /\ found.entries[get[d].entry].late = entries[get[d].entry].late
      BY <1>3, <3>1 DEF Found
    <3>3. /\ entries'[get[d].entry].md5 = entries[get[d].entry].md5
          /\ entries'[get[d].entry].late = entries[get[d].entry].late
      BY <1>9, <1>10, <3>1, <3>2
    <3>4. /\ get'[d].state = get[d].state /\ get'[d].entry = get[d].entry /\ get'[d].cond = get[d].cond
          /\ get'[d].body = get[d].body /\ (~get'[d].late => disk' = disk /\ ~get[d].late)
      BY <1>5, <1>11, <2>2, <3>1
    <3> QED
      BY <3>1, <3>3, <3>4 DEF Holds
  <2> QED
    BY <2>1, <2>2
<1>18. ASSUME NEW d \in Downloads \ {l}, Busy(d), Alone(d) PROVE Alone(d)'
  <2>1. get[d].entry \in Objects /\ get[d].entry # found.entry
    BY <1>3, <1>4, <1>18 DEF Found, Alone, Holds
  <2>2. entries'[get[d].entry].stale /\ entries'[get[d].entry].etag = Nothing
    BY <1>3, <1>10, <1>18, <2>1 DEF Found, Alone, HeldEntry
  <2>3. ASSUME NEW c \in Downloads \ {d}, Busy(c)' PROVE get'[c].entry # get[d].entry
    BY <1>7, <1>11, <1>15, <1>18, <2>1, <2>3 DEF Alone
  <2> QED
    BY <1>1, <1>8, <1>15, <1>18, <2>2, <2>3, AloneStays DEF Alone
<1>19. ASSUME disk' = Nothing PROVE Alone(l)'
  <2>1. /\ found.entries[found.entry] = StaleEntry /\ listed' = Nothing
        /\ \A d \in Downloads : Busy(d) => get[d].entry # found.entry
    BY <1>1, <1>2, <1>3, <1>19 DEF Found
  <2>2. new.stale /\ new.etag = Nothing
    BY <1>9, <2>1 DEF StaleEntry
  <2> QED
    BY <1>7, <1>10, <1>11, <1>15, <2>1, <2>2 DEF Alone, HeldEntry
<1>20. CacheInv'
  BY <1>12, <1>13, <1>14, <1>17 DEF CacheInv
<1> QED
  BY <1>15, <1>16, <1>18, <1>19, <1>20 DEF Undisturbed

(* A load that ends with the file: the file is left alone, or is gone.      *)
LEMMA LoadFromFileKeeps ==
    ASSUME CacheInv, NEW l \in Downloads, LoadFromFile(l)
    PROVE  /\ CacheInv' /\ disk' = (IF Unusable(l) THEN Nothing ELSE disk)
           /\ \A d \in Downloads : Undisturbed(d)
<1>1. CASE Unusable(l)
  <2>1. /\ Replaced(Nothing) /\ entries' = [o \in Objects |-> Outdated(entries[o])] /\ get' = AllLate
        /\ UNCHANGED <<server, listed>> /\ entries \in [Objects -> Entry]
    BY <1>1 DEF LoadFromFile, CacheInv, CacheTyped
  <2>2. \A d \in Downloads : /\ get'[d].state = get[d].state /\ get'[d].entry = get[d].entry
                             /\ get'[d].cond = get[d].cond
    BY <2>1, AllLateIs
  <2>3. \A d \in Downloads : Busy(d)' <=> Busy(d)
    BY <2>2 DEF Busy
  <2>4. ASSUME NEW d \in Downloads, Busy(d), Alone(d) PROVE Alone(d)'
    <3>1. get[d].entry \in Objects
      BY <2>4 DEF CacheInv, Holds
    <3>2. entries'[get[d].entry].stale /\ entries'[get[d].entry].etag = Nothing
      BY <2>1, <2>4, <3>1, OutdatedEntry DEF Alone, HeldEntry
    <3>3. \A c \in Downloads \ {d} : Busy(c)' => get'[c].entry # get[d].entry
      BY <2>2, <2>3, <2>4 DEF Alone
    <3> QED
      BY <2>1, <2>2, <2>4, <3>2, <3>3, AloneStays DEF Alone
  <2>5. CacheInv'
    BY <2>1, OutdatedEntry, ReplacedKeeps
  <2> QED
    BY <1>1, <2>1, <2>3, <2>4, <2>5 DEF Undisturbed, Replaced
<1>2. CASE ~Unusable(l)
  <2>1. UNCHANGED <<disk, index, entries, get, server, listed>>
    BY <1>2 DEF LoadFromFile
  <2> QED
    BY <1>2, <2>1 DEF CacheInv, CacheTyped, Describes, Busy, Holds, Undisturbed, Alone, HeldEntry
<1> QED
  BY <1>1, <1>2

-----------------------------------------------------------------------------
(* A load that is created has no download.                                  *)
LEMMA CreatedIsIdle ==
    ASSUME LoadsInv, NEW l \in Downloads, ExecuteLoad(l)
    PROVE  /\ ~Busy(l) /\ load[l].state = "created" /\ load \in [Downloads -> Load] /\ load[l] \in Load
           /\ ~load[l].merged
BY DEF LoadsInv, LoadHolds, ExecuteLoad

LEMMA AnsweredIsTyped ==
    ASSUME CacheInv, NEW l \in Downloads, get[l].state = "answered"
    PROVE  Busy(l) /\ get[l].body \in Contents
BY DEF CacheInv, CacheTyped, Get, Busy, InFlight

LEMMA EntityCacheStays ==
    ASSUME CacheInv, LoadsInv, EntityNext PROVE CacheInv'
<1>1. ASSUME NEW l \in Downloads, LoadTask(l) PROVE CacheInv'
  BY <1>1, CacheStays DEF LoadTask
<1>2. ASSUME NEW l \in Downloads, ExecuteLoad(l) PROVE CacheInv'
  <2>1. ~Busy(l)
    BY <1>2, CreatedIsIdle
  <2> QED
    BY <1>2, <2>1, LoadFromFileKeeps, DownloadKeeps DEF ExecuteLoad
<1>3. ASSUME NEW l \in Downloads, Request(l) PROVE CacheInv'
  BY <1>3, SendGetKeeps, ServerAnswersKeeps DEF Request
<1>4. ASSUME NEW l \in Downloads, EntityArrives(l) PROVE CacheInv'
  BY <1>4, FinishGetKeeps, FailGetKeeps, RetryKeeps, AnsweredIsTyped DEF EntityArrives, GetFails
<1>5. ASSUME NEW l \in Downloads, EntityFresh(l) PROVE CacheInv'
  BY <1>5, AlreadyFreshKeeps DEF EntityFresh
<1>6. ASSUME NEW l \in Downloads, EntityFails(l) PROVE CacheInv'
  BY <1>6, FailGetKeeps, RetryKeeps DEF EntityFails, GetFails
<1>7. ASSUME NEW l \in Downloads, AbortLoad(l) PROVE CacheInv'
  <2>1. CASE get' = get
    BY <1>7, <2>1, CacheStays DEF AbortLoad, metaVars, metaStore
  <2>2. CASE get' = Over(get, l)
    BY <1>7, <2>2, EndedDownloadKeeps DEF AbortLoad, metaStore
  <2> QED
    BY <1>7, <2>1, <2>2 DEF AbortLoad
<1>8. CASE Merge
  BY <1>8, CacheStays DEF Merge
<1>9. CASE Environment
  BY <1>9, SaveNowKeeps, PublishKeeps, EditFileKeeps DEF Environment
<1>10. CASE Restarted
  BY <1>10, MetaRestartKeeps DEF Restarted
<1> QED
  BY <1>1, <1>2, <1>3, <1>4, <1>5, <1>6, <1>7, <1>8, <1>9, <1>10 DEF EntityNext, LoadStep

LEMMA NoLoadIs == NoLoad \in Load /\ NoLoad.state = "none" /\ ~NoLoad.merged
BY DEF NoLoad, Load, LoadStates

(* Before anything was loaded: at the start, or after a restart.            *)
LEMMA EntityInitHolds == EntityInit => EntityInv
<1> SUFFICES ASSUME EntityInit PROVE EntityInv
  OBVIOUS
<1>1. MetaInit /\ expected \in Hashes \cup {Nothing} /\ status = "NotLoaded" /\ load = [l \in Downloads |-> NoLoad]
  BY DEF EntityInit
<1>2. \A d \in Downloads : ~Busy(d) /\ ~Loading(d) /\ load[d].state # "created"
  BY <1>1, NoLoadIs DEF MetaInit, Busy, InFlight, NoDownload, Loading
<1>3. CacheInv
  BY <1>1, CacheInitHolds
<1>4. LoadsInv
  BY <1>1, <1>2, NoLoadIs DEF LoadsInv, LoadHolds
<1>5. MatchInv
  BY <1>1, <1>2 DEF MatchInv, Marked, Looks
<1> QED
  BY <1>3, <1>4, <1>5 DEF EntityInv

-----------------------------------------------------------------------------
(* The loads *)

(* What the file gives: data if it counts as loaded, and with none the file *)
(* is gone.                                                                 *)
LEMMA TakenFile ==
    ASSUME LoadsInv, NEW l \in Downloads, TakeFile(l)
    PROVE  /\ status' \in {"NotLoaded", "Local", "Remote"}
           /\ status' # "NotLoaded" => data' # Nothing
           /\ data # Nothing => data' # Nothing
           /\ status' = "NotLoaded" => disk = Nothing \/ Unusable(l)
           /\ ParsesFile(l) => status = "NotLoaded" /\ data' = disk
           /\ ~ParsesFile(l) => data' = data /\ (status' # "NotLoaded" => status' = status)
<1>1. /\ status \in {"NotLoaded", "Local", "Remote"} /\ (status # "NotLoaded" => data # Nothing)
      /\ status' = StatusAfterFile(l) /\ data' = (IF ParsesFile(l) THEN disk ELSE data)
  BY DEF LoadsInv, TakeFile
<1>2. ParsesFile(l) => status = "NotLoaded" /\ disk # Nothing /\ ~Unusable(l)
  BY DEF ParsesFile
<1>3. ASSUME status' = "NotLoaded" PROVE disk = Nothing \/ Unusable(l)
  BY <1>1, <1>3 DEF StatusAfterFile, ParsesFile
<1>4. /\ status' \in {"NotLoaded", "Local", "Remote"}
      /\ status' # "NotLoaded" => ParsesFile(l) \/ status' = status
  BY <1>1 DEF StatusAfterFile
<1> QED
  BY <1>1, <1>2, <1>3, <1>4

(* The end of a load leaves the other loads alone.                          *)
LEMMA OneLoadEnds ==
    ASSUME NEW l \in Downloads, load \in [Downloads -> Load], NEW result \in LoadStates, Ended(l, result)
    PROVE  /\ load' \in [Downloads -> Load] /\ load'[l].state = result
           /\ \A d \in Downloads \ {l} : load'[d] = load[d]
<1>1. [NoLoad EXCEPT !.state = result] \in Load /\ [NoLoad EXCEPT !.state = result].state = result
  BY DEF NoLoad, Load
<1> QED
  BY <1>1 DEF Ended

LEMMA OthersHold ==
    ASSUME NEW l \in Downloads, LoadHolds(l), Undisturbed(l), load'[l] = load[l], data # Nothing => data' # Nothing
    PROVE  LoadHolds(l)'
BY DEF LoadHolds, Undisturbed, Loading

LEMMA ExecuteLoadHolds ==
    ASSUME CacheInv, LoadsInv, NEW l \in Downloads, ExecuteLoad(l) PROVE LoadsInv'
<1>1. ~Busy(l) /\ load \in [Downloads -> Load] /\ load[l] \in Load /\ \A d \in Downloads : LoadHolds(d)
  BY CreatedIsIdle DEF LoadsInv
<1>2. TakeFile(l) /\ expected' = expected /\ expected \in Hashes \cup {Nothing}
  BY DEF ExecuteLoad, LoadsInv
<1>3. /\ status' \in {"NotLoaded", "Local", "Remote"} /\ (status' # "NotLoaded" => data' # Nothing)
      /\ (data # Nothing => data' # Nothing)
      /\ status' = "NotLoaded" => disk = Nothing \/ Unusable(l)
  BY <1>2, TakenFile
<1>4. CASE LoadFromFile(l)
  <2>1. /\ load' \in [Downloads -> Load] /\ load'[l].state = "succeeded"
        /\ \A d \in Downloads \ {l} : load'[d] = load[d]
    BY <1>1, <1>4, OneLoadEnds DEF LoadFromFile, LoadStates
  <2>2. \A d \in Downloads : Undisturbed(d)
    BY <1>4, LoadFromFileKeeps
  <2>3. LoadHolds(l)'
    BY <1>1, <2>1, <2>2 DEF LoadHolds, Loading, Undisturbed
  <2>4. \A d \in Downloads \ {l} : LoadHolds(d)'
    BY <1>1, <1>3, <2>1, <2>2, OthersHold
  <2> QED
    BY <1>2, <1>3, <2>1, <2>3, <2>4 DEF LoadsInv
<1>5. CASE DownloadEntity(l)
  <2>1. Busy(l)' /\ (\A d \in Downloads \ {l} : Undisturbed(d)) /\ (disk' = Nothing => Alone(l)')
    BY <1>1, <1>5, DownloadKeeps
  <2>2. /\ load' = [load EXCEPT ![l].state = "running", ![l].sha = expected]
        /\ disk' = (IF Unusable(l) THEN Nothing ELSE disk)
    BY <1>5 DEF DownloadEntity
  <2>3. /\ load' \in [Downloads -> Load] /\ load'[l].state = "running"
        /\ \A d \in Downloads \ {l} : load'[d] = load[d]
    BY <1>1, <1>2, <2>2 DEF Load, LoadStates
  <2>4. data' # Nothing \/ Alone(l)'
    BY <1>3, <2>1, <2>2
  <2>5. LoadHolds(l)'
    BY <2>1, <2>3, <2>4 DEF LoadHolds
  <2>6. \A d \in Downloads \ {l} : LoadHolds(d)'
    BY <1>1, <1>3, <2>1, <2>3, OthersHold
  <2> QED
    BY <1>2, <1>3, <2>3, <2>5, <2>6 DEF LoadsInv
<1> QED
  BY <1>4, <1>5 DEF ExecuteLoad

(* How a download ends for its entity: with data, or with nothing but data  *)
(* that is doubted; then it is over or begins again.                        *)
Succeeds(l) == ~Busy(l)' /\ LoadSucceeded(l) /\ data' # Nothing

Fails(l) ==
    /\ UNCHANGED <<status, fileSha>>
    /\ (data' = data /\ doubts' = doubts) \/ doubts' # {}
    /\ \/ ~Busy(l)' /\ LoadFailed(l)
       \/ Undisturbed(l) /\ load' = load

LEMMA FailsAre ==
    ASSUME CacheInv, NEW l \in Downloads, Busy(l), GetFails(l)
    PROVE  /\ \A d \in Downloads \ {l} : Undisturbed(d)
           /\ \/ ~Busy(l)' /\ LoadFailed(l)
              \/ Undisturbed(l) /\ load' = load
<1>1. CASE FailGet(l) /\ LoadFailed(l)
  BY <1>1, OverUndisturbs DEF FailGet
<1>2. CASE RetryGet(l) /\ UNCHANGED load
  BY <1>2, RetryKeeps
<1> QED
  BY <1>1, <1>2 DEF GetFails

LEMMA EndsAre ==
    ASSUME CacheInv, LoadsInv, NEW l \in Downloads, EntityArrives(l) \/ EntityFresh(l) \/ EntityFails(l)
    PROVE  /\ Busy(l) /\ \A d \in Downloads \ {l} : Undisturbed(d)
           /\ expected' = expected /\ (data # Nothing => data' # Nothing)
           /\ Succeeds(l) \/ Fails(l)
<1>1. Busy(l) => data # Nothing \/ Alone(l)
  BY DEF LoadsInv, LoadHolds
<1>2. CASE EntityArrives(l)
  <2>1. /\ get[l].state = "answered" /\ data' = (IF get[l].body = Nothing THEN data ELSE get[l].body)
        /\ expected' = expected
    BY <1>2 DEF EntityArrives
  <2>2. Busy(l)
    BY <2>1, AnsweredIsTyped
  <2>3. (get[l].body = Nothing => data # Nothing) /\ data' # Nothing
    BY <1>1, <2>1, <2>2, NotAlone
  <2>4. CASE FinishGet(l) /\ LoadSucceeded(l)
    <3>1. ~Busy(l)' /\ \A d \in Downloads \ {l} : Undisturbed(d)
      BY <2>4, FinishUndisturbs
    <3> QED
      BY <2>1, <2>2, <2>3, <2>4, <3>1 DEF Succeeds
  <2>5. CASE GetFails(l) /\ doubts' = {"commit"} /\ UNCHANGED <<status, fileSha>>
    BY <2>1, <2>2, <2>3, <2>5, FailsAre DEF Fails
  <2> QED
    BY <1>2, <2>4, <2>5 DEF EntityArrives
<1>3. CASE EntityFresh(l)
  <2>1. /\ get[l].state = "queued" /\ ~HeldEntry(l).stale /\ get' = Over(get, l) /\ UNCHANGED <<entries, listed>>
        /\ LoadSucceeded(l) /\ data' = data /\ expected' = expected
    BY <1>3 DEF EntityFresh, AlreadyFresh
  <2>2. Busy(l)
    BY <2>1 DEF Busy, InFlight
  <2>3. data # Nothing
    BY <1>1, <2>1, <2>2, NotAlone
  <2> QED
    BY <2>1, <2>2, <2>3, OverUndisturbs DEF Succeeds
<1>4. CASE EntityFails(l)
  BY <1>4, FailsAre DEF EntityFails, Fails
<1> QED
  BY <1>2, <1>3, <1>4

(* The load that ends with its download is not the one of another.          *)
LEMMA LoadsAfter ==
    ASSUME LoadsInv, NEW l \in Downloads, Busy(l), Succeeds(l) \/ Fails(l)
    PROVE  /\ load' \in [Downloads -> Load] /\ \A d \in Downloads \ {l} : load'[d] = load[d]
           /\ load'[l].state # "created" /\ (~Busy(l)' => load'[l].state # "running")
           /\ load'[l].state = "succeeded" => Succeeds(l)
<1>1. load \in [Downloads -> Load] /\ load[l].state \in {"running", "aborted"}
  BY DEF LoadsInv, LoadHolds
<1>2. CASE Loading(l) /\ (Succeeds(l) \/ LoadFailed(l))
  BY <1>1, <1>2, OneLoadEnds DEF LoadFailed, LoadSucceeded, LoadStates, Succeeds
<1>3. CASE ~Loading(l) /\ load' = load
  BY <1>1, <1>3 DEF Loading
<1>4. CASE Undisturbed(l) /\ load' = load
  BY <1>1, <1>4 DEF Undisturbed
<1> QED
  BY <1>2, <1>3, <1>4 DEF Succeeds, Fails, LoadSucceeded, LoadFailed

LEMMA EndOfDownloadHolds ==
    ASSUME CacheInv, LoadsInv, NEW l \in Downloads, EntityArrives(l) \/ EntityFresh(l) \/ EntityFails(l)
    PROVE  LoadsInv'
<1>1. /\ status \in {"NotLoaded", "Local", "Remote"} /\ (status # "NotLoaded" => data # Nothing)
      /\ expected \in Hashes \cup {Nothing} /\ \A d \in Downloads : LoadHolds(d)
  BY DEF LoadsInv
<1>2. /\ Busy(l) /\ \A d \in Downloads \ {l} : Undisturbed(d)
      /\ expected' = expected /\ (data # Nothing => data' # Nothing)
      /\ Succeeds(l) \/ Fails(l)
  BY EndsAre
<1>3. /\ load' \in [Downloads -> Load] /\ \A d \in Downloads \ {l} : load'[d] = load[d]
      /\ load'[l].state # "created" /\ (~Busy(l)' => load'[l].state # "running")
  BY <1>2, LoadsAfter
<1>4. status' \in {"NotLoaded", "Local", "Remote"} /\ (status' # "NotLoaded" => data' # Nothing)
  BY <1>1, <1>2 DEF Succeeds, Fails, LoadSucceeded
<1>5. LoadHolds(l)'
  <2>1. CASE ~Busy(l)'
    BY <1>3, <2>1 DEF LoadHolds, Loading
  <2>2. CASE Undisturbed(l) /\ load' = load
    BY <1>1, <1>2, <2>2, OthersHold
  <2> QED
    BY <1>2, <2>1, <2>2 DEF Succeeds, Fails
<1>6. \A d \in Downloads \ {l} : LoadHolds(d)'
  BY <1>1, <1>2, <1>3, OthersHold
<1> QED
  BY <1>1, <1>2, <1>3, <1>4, <1>5, <1>6 DEF LoadsInv

LEMMA CreatedLoad ==
    ASSUME load \in [Downloads -> Load], NEW l \in Downloads, LoadTask(l)
    PROVE  /\ load' \in [Downloads -> Load] /\ load'[l].state = "created" /\ ~load'[l].merged
           /\ \A d \in Downloads \ {l} : load'[d] = load[d]
<1>1. PICK online \in BOOLEAN, force \in BOOLEAN :
          load' = [load EXCEPT ![l] = [NoLoad EXCEPT !.state = "created", !.online = online, !.force = force]]
  BY DEF LoadTask
<1> DEFINE new == [NoLoad EXCEPT !.state = "created", !.online = online, !.force = force]
<1>2. new \in Load /\ new.state = "created" /\ ~new.merged
  BY DEF NoLoad, Load, LoadStates
<1> HIDE DEF new
<1> QED
  BY <1>1, <1>2 DEF new

LEMMA AbortedLoad ==
    ASSUME CacheInv, load \in [Downloads -> Load], NEW l \in Downloads, AbortLoad(l)
    PROVE  /\ load' \in [Downloads -> Load] /\ \A d \in Downloads \ {l} : load'[d] = load[d]
           /\ load'[l].state = "aborted" /\ load'[l].sha = load[l].sha /\ load'[l].merged = load[l].merged
           /\ (Busy(l)' => Undisturbed(l)) /\ \A d \in Downloads \ {l} : Undisturbed(d)
<1>1. /\ load' = [load EXCEPT ![l].state = "aborted"] /\ load[l] \in Load
      /\ get' \in {get, Over(get, l)} /\ UNCHANGED <<entries, listed>>
  BY DEF AbortLoad
<1>2. /\ load' \in [Downloads -> Load] /\ \A d \in Downloads \ {l} : load'[d] = load[d]
      /\ load'[l].state = "aborted" /\ load'[l].sha = load[l].sha /\ load'[l].merged = load[l].merged
  BY <1>1 DEF Load, LoadStates
<1>3. CASE get' = get
  BY <1>1, <1>2, <1>3 DEF Undisturbed, Busy, Alone, HeldEntry
<1>4. CASE get' = Over(get, l)
  BY <1>1, <1>2, <1>4, OverUndisturbs
<1> QED
  BY <1>1, <1>3, <1>4

(* A merge is remembered of every download under way.                       *)
LEMMA MergedLoads ==
    ASSUME LoadsInv, Merge
    PROVE  /\ load' \in [Downloads -> Load]
           /\ \A d \in Downloads : /\ load'[d].state = load[d].state
                                   /\ load'[d].merged = (load[d].merged \/ Busy(d))
<1>1. load \in [Downloads -> Load] /\ load' = [d \in Downloads |-> [load[d] EXCEPT !.merged = @ \/ Busy(d)]]
  BY DEF LoadsInv, Merge
<1>2. ASSUME NEW d \in Downloads, NEW busy \in BOOLEAN
      PROVE  LET new == [load[d] EXCEPT !.merged = @ \/ busy]
             IN  new \in Load /\ new.state = load[d].state /\ new.merged = (load[d].merged \/ busy)
  BY <1>1 DEF Load
<1>3. \A d \in Downloads : Busy(d) \in BOOLEAN
  BY DEF Busy
<1>4. \A d \in Downloads : LET new == [load[d] EXCEPT !.merged = @ \/ Busy(d)]
                           IN  new \in Load /\ new.state = load[d].state /\ new.merged = (load[d].merged \/ Busy(d))
  BY <1>2, <1>3
<1> QED
  BY <1>1, <1>4

LEMMA LoadsStay ==
    ASSUME CacheInv, LoadsInv, EntityNext PROVE LoadsInv'
<1>1. /\ load \in [Downloads -> Load] /\ expected \in Hashes \cup {Nothing}
      /\ status \in {"NotLoaded", "Local", "Remote"} /\ (status # "NotLoaded" => data # Nothing)
      /\ \A d \in Downloads : LoadHolds(d)
  BY DEF LoadsInv
<1>2. ASSUME NEW l \in Downloads, LoadTask(l) PROVE LoadsInv'
  <2>1. /\ load' \in [Downloads -> Load] /\ load'[l].state = "created" /\ ~load'[l].merged
        /\ \A d \in Downloads \ {l} : load'[d] = load[d]
    BY <1>1, <1>2, CreatedLoad
  <2>2. UNCHANGED <<get, entries, listed, expected, status, data>> /\ ~Busy(l)
    BY <1>2 DEF LoadTask, metaVars
  <2>3. LoadHolds(l)'
    BY <2>1, <2>2 DEF LoadHolds, Loading, Busy
  <2>4. \A d \in Downloads \ {l} : LoadHolds(d)'
    BY <1>1, <2>1, <2>2 DEF LoadHolds, Loading, Busy, Alone, HeldEntry
  <2> QED
    BY <1>1, <2>1, <2>2, <2>3, <2>4 DEF LoadsInv
<1>3. ASSUME UNCHANGED <<expected, load, status, data>>, \A d \in Downloads : Undisturbed(d) PROVE LoadsInv'
  BY <1>1, <1>3, OthersHold DEF LoadsInv
<1>4. ASSUME NEW l \in Downloads, Request(l) PROVE LoadsInv'
  <2>1. UNCHANGED <<expected, load, status, data>>
    BY <1>4 DEF Request, KeepsEntity, entityVars
  <2>2. \A d \in Downloads : Undisturbed(d)
    BY <1>4, GetStepUndisturbs DEF Request
  <2> QED
    BY <1>3, <2>1, <2>2
<1>5. ASSUME NEW l \in Downloads, AbortLoad(l) PROVE LoadsInv'
  <2>1. /\ load' \in [Downloads -> Load] /\ \A d \in Downloads \ {l} : load'[d] = load[d]
        /\ load'[l].state = "aborted"
        /\ (Busy(l)' => Undisturbed(l)) /\ \A d \in Downloads \ {l} : Undisturbed(d)
    BY <1>1, <1>5, AbortedLoad
  <2>2. UNCHANGED <<expected, status, data>>
    BY <1>5 DEF AbortLoad
  <2>3. LoadHolds(l)'
    BY <1>1, <2>1, <2>2 DEF LoadHolds, Loading, Undisturbed
  <2>4. \A d \in Downloads \ {l} : LoadHolds(d)'
    BY <1>1, <2>1, <2>2, OthersHold
  <2> QED
    BY <1>1, <2>1, <2>2, <2>3, <2>4 DEF LoadsInv
<1>6. CASE Merge
  <2>1. expected' \in Hashes /\ UNCHANGED <<get, entries, listed, status, data>>
    BY <1>6 DEF Merge, metaVars
  <2>2. \A d \in Downloads : (Busy(d)' <=> Busy(d)) /\ (Alone(d)' <=> Alone(d))
    BY <2>1 DEF Busy, Alone, HeldEntry
  <2>3. \A d \in Downloads : LoadHolds(d)'
    BY <1>1, <1>6, <2>1, <2>2, MergedLoads DEF LoadHolds, Loading
  <2> QED
    BY <1>1, <1>6, <2>1, <2>3, MergedLoads DEF LoadsInv
<1>7. CASE Environment
  <2>1. UNCHANGED <<expected, load, status, data>>
    BY <1>7 DEF Environment, KeepsEntity, entityVars
  <2>2. \A d \in Downloads : Undisturbed(d)
    BY <1>7, EnvironmentUndisturbs DEF Environment
  <2> QED
    BY <1>3, <2>1, <2>2
<1>8. CASE Restarted
  <2>1. /\ expected' \in Hashes \cup {Nothing} /\ status' = "NotLoaded" /\ load' = [d \in Downloads |-> NoLoad]
        /\ \A d \in Downloads : ~Busy(d)'
    BY <1>8 DEF Restarted, MetaRestart, Busy, NoDownload, InFlight
  <2> QED
    BY <2>1, NoLoadIs DEF LoadsInv, LoadHolds, Loading
<1> QED
  BY <1>2, <1>4, <1>5, <1>6, <1>7, <1>8, ExecuteLoadHolds, EndOfDownloadHolds DEF EntityNext, LoadStep

-----------------------------------------------------------------------------
(* The hash *)

LEMMA ExecuteLoadMatches ==
    ASSUME CacheInv, LoadsInv, MatchInv, NEW l \in Downloads, ExecuteLoad(l) PROVE MatchInv'
<1>1. /\ ~Busy(l) /\ load \in [Downloads -> Load] /\ load[l] \in Load /\ ~load[l].merged
  BY CreatedIsIdle
<1>2. /\ TakeFile(l) /\ expected' = expected /\ fileSha' = ReadSha /\ status' = StatusAfterFile(l)
      /\ doubts' = (IF ParsesFile(l) THEN {} ELSE doubts \cup IF HashedForOther THEN {"file"} ELSE {})
  BY DEF ExecuteLoad, TakeFile
<1>3. /\ status' = "NotLoaded" => disk = Nothing \/ Unusable(l)
      /\ ParsesFile(l) => status = "NotLoaded" /\ data' = disk
      /\ ~ParsesFile(l) => data' = data /\ (status' # "NotLoaded" => status' = status)
  BY <1>2, TakenFile
<1>4. Marked'
  <2>1. CASE ParsesFile(l)
    <3>1. disk # Nothing /\ ReadSha = disk
      BY <1>3, <2>1 DEF ParsesFile, ReadSha
    <3> QED
      BY <1>2, <1>3, <2>1, <3>1 DEF Marked
  <2>2. CASE ~ParsesFile(l) /\ HashedForOther
    <3>1. doubts' # {}
      BY <1>2, <2>2
    <3> QED
      BY <3>1 DEF Marked
  <2>3. CASE ~ParsesFile(l) /\ ~HashedForOther
    <3>1. doubts' = doubts /\ data' = data /\ (status' # "NotLoaded" => status' = status)
      BY <1>2, <1>3, <2>3
    <3> QED
      BY <1>2, <2>3, <3>1 DEF Marked, MatchInv, ReadSha, HashedForOther
  <2> QED
    BY <2>1, <2>2, <2>3
<1>5. ASSUME NEW d \in Downloads \ {l} PROVE load'[d] = load[d] /\ Undisturbed(d)
  <2>1. CASE LoadFromFile(l)
    BY <1>1, <2>1, LoadFromFileKeeps, OneLoadEnds DEF LoadFromFile, LoadStates
  <2>2. CASE DownloadEntity(l)
    <3>1. load' = [load EXCEPT ![l].state = "running", ![l].sha = expected]
      BY <2>2 DEF DownloadEntity
    <3> QED
      BY <1>1, <2>2, <3>1, DownloadKeeps
  <2> QED
    BY <2>1, <2>2 DEF ExecuteLoad
<1>6. ASSUME expected # Nothing, status # "NotLoaded", fileSha = expected
      PROVE  status' # "NotLoaded" /\ fileSha' = expected'
  <2>1. ReadSha = expected
    BY <1>6 DEF ReadSha
  <2>2. ~Unusable(l)
    BY <1>6, <2>1 DEF Unusable, HashMatches
  <2> QED
    BY <1>2, <1>6, <2>1, <2>2 DEF StatusAfterFile, ParsesFile
<1>7. ASSUME NEW d \in Downloads \ {l} PROVE Looks(d)'
  <2>1. Looks(d)
    BY DEF MatchInv
  <2> QED
    BY <1>2, <1>5, <1>6, <2>1 DEF Looks, Undisturbed
<1>8. Looks(l)'
  <2>1. CASE LoadFromFile(l)
    <3>1. ~Busy(l)'
      BY <1>1, <2>1, LoadFromFileKeeps DEF Undisturbed
    <3> QED
      BY <3>1 DEF Looks
  <2>2. CASE DownloadEntity(l)
    <3>1. load'[l].sha = expected /\ ~GoodEnough(l) /\ disk' = (IF Unusable(l) THEN Nothing ELSE disk)
      BY <1>1, <2>2 DEF DownloadEntity, Load
    <3>2. CASE disk' = Nothing
      BY <1>1, <1>2, <2>2, <3>1, <3>2, DownloadKeeps DEF Looks
    <3>3. CASE disk' # Nothing
      <4>1. disk # Nothing /\ ~Unusable(l)
        BY <3>1, <3>3
      <4>2. status' # "NotLoaded"
        BY <1>3, <4>1
      <4>3. load[l].online
        BY <1>1, <1>2, <3>1, <4>2 DEF GoodEnough
      <4>4. expected # Nothing => HashMatches
        BY <4>1, <4>3 DEF Unusable
      <4>5. expected' # Nothing => fileSha' = expected'
        BY <1>2, <4>4 DEF HashMatches
      <4> QED
        BY <1>2, <3>1, <4>2, <4>5 DEF Looks
    <3> QED
      BY <3>2, <3>3
  <2> QED
    BY <2>1, <2>2 DEF ExecuteLoad
<1> QED
  BY <1>4, <1>7, <1>8 DEF MatchInv

(* The data of a download that ends well is what is expected, unless there  *)
(* was a merge; data that comes without a file is doubted.                  *)
LEMMA SuccessMatches ==
    ASSUME CacheInv, LoadsInv, MatchInv, NEW l \in Downloads, Busy(l), EntityArrives(l) \/ EntityFresh(l), LoadSucceeded(l)
    PROVE  \/ data' = expected \/ expected = Nothing
           \/ doubts' # {}
<1> SUFFICES ASSUME expected # Nothing, doubts' = {} PROVE data' = expected
  OBVIOUS
<1>1. EntityArrives(l) => doubts' \in {{"commit"}, MarkedLate(l) \cup IF get[l].body = Nothing THEN doubts ELSE {}}
  BY DEF EntityArrives
<1>2. EntityFresh(l) => doubts' = doubts \cup MarkedLate(l)
  BY DEF EntityFresh
<1>3. ~load[l].merged
  BY <1>1, <1>2 DEF MarkedLate
<1>4. load[l].sha = expected /\ (Alone(l) \/ (status # "NotLoaded" /\ fileSha = expected))
  BY <1>3 DEF MatchInv, Looks
<1>5. CASE EntityArrives(l) /\ get[l].body # Nothing
  BY <1>4, <1>5 DEF EntityArrives, Accepted
<1>6. CASE ~(EntityArrives(l) /\ get[l].body # Nothing)
  <2>1. data' = data /\ doubts = {}
    BY <1>1, <1>2, <1>6 DEF EntityArrives, EntityFresh
  <2>2. \/ get[l].state = "answered" /\ get[l].body = Nothing
        \/ get[l].state = "queued" /\ ~HeldEntry(l).stale
    BY <1>6 DEF EntityArrives, EntityFresh, AlreadyFresh
  <2>3. ~Alone(l)
    BY <2>2, NotAlone
  <2> QED
    BY <1>4, <2>1, <2>3 DEF MatchInv, Marked
<1> QED
  BY <1>5, <1>6

LEMMA EndOfDownloadMatches ==
    ASSUME CacheInv, LoadsInv, MatchInv, NEW l \in Downloads, EntityArrives(l) \/ EntityFresh(l) \/ EntityFails(l)
    PROVE  MatchInv'
<1>1. /\ Busy(l) /\ \A d \in Downloads \ {l} : Undisturbed(d)
      /\ expected' = expected /\ (Succeeds(l) \/ Fails(l))
  BY EndsAre
<1>2. /\ \A d \in Downloads \ {l} : load'[d] = load[d]
  BY <1>1, LoadsAfter
<1>3. CASE Fails(l)
  <2>1. UNCHANGED <<status, fileSha>> /\ ((data' = data /\ doubts' = doubts) \/ doubts' # {})
    BY <1>3 DEF Fails
  <2>2. Marked'
    BY <2>1 DEF MatchInv, Marked
  <2>3. \A d \in Downloads \ {l} : Looks(d)'
    BY <1>1, <1>2, <2>1 DEF MatchInv, Looks, Undisturbed
  <2>4. Looks(l)'
    BY <1>1, <1>3, <2>1 DEF MatchInv, Looks, Undisturbed, Fails
  <2> QED
    BY <2>2, <2>3, <2>4 DEF MatchInv
<1>4. CASE Succeeds(l) /\ ~Fails(l)
  <2>1. ~Busy(l)' /\ status' = "Remote" /\ fileSha' = expected /\ LoadSucceeded(l)
    BY <1>4 DEF Succeeds, LoadSucceeded
  <2>2. EntityArrives(l) \/ EntityFresh(l)
    <3>1. ASSUME EntityFails(l) PROVE Fails(l)
      BY <1>1, <3>1, FailsAre DEF EntityFails, Fails
    <3> QED
      BY <1>4, <3>1
  <2>3. Marked'
    BY <1>1, <2>1, <2>2, SuccessMatches DEF Marked
  <2>4. \A d \in Downloads \ {l} : Looks(d)'
    BY <1>1, <1>2, <2>1 DEF MatchInv, Looks, Undisturbed
  <2>5. Looks(l)'
    BY <2>1 DEF Looks
  <2> QED
    BY <2>3, <2>4, <2>5 DEF MatchInv
<1> QED
  BY <1>1, <1>3, <1>4

(* MatchInv stays while nothing comes to the entity.                        *)
LEMMA MatchUndisturbed ==
    ASSUME MatchInv, UNCHANGED <<expected, fileSha, status, data, doubts>>,
           \A d \in Downloads :
              Busy(d)' => Undisturbed(d) /\ load'[d].sha = load[d].sha /\ load'[d].merged = load[d].merged
    PROVE  MatchInv'
<1>1. Marked'
  BY DEF MatchInv, Marked
<1>2. \A d \in Downloads : Looks(d)'
  BY DEF MatchInv, Looks, Undisturbed
<1> QED
  BY <1>1, <1>2 DEF MatchInv

LEMMA MatchStays ==
    ASSUME CacheInv, LoadsInv, MatchInv, EntityNext PROVE MatchInv'
<1>1. load \in [Downloads -> Load]
  BY DEF LoadsInv
<1>2. ASSUME NEW l \in Downloads, LoadTask(l) PROVE MatchInv'
  <2>1. \A d \in Downloads \ {l} : load'[d] = load[d]
    BY <1>1, <1>2, CreatedLoad
  <2>2. UNCHANGED <<get, entries, listed, expected, fileSha, status, data, doubts>> /\ ~Busy(l)
    BY <1>2 DEF LoadTask, metaVars
  <2>3. \A d \in Downloads : Undisturbed(d)
    BY <2>2 DEF Undisturbed, Busy, Alone, HeldEntry
  <2>4. ~Busy(l)'
    BY <2>2, <2>3 DEF Undisturbed
  <2> QED
    BY <2>1, <2>2, <2>3, <2>4, MatchUndisturbed
<1>3. ASSUME NEW l \in Downloads, Request(l) PROVE MatchInv'
  <2>1. load' = load /\ UNCHANGED <<expected, fileSha, status, data, doubts>>
    BY <1>3 DEF Request, KeepsEntity, entityVars
  <2>2. \A d \in Downloads : Undisturbed(d)
    BY <1>3, GetStepUndisturbs DEF Request
  <2> QED
    BY <2>1, <2>2, MatchUndisturbed
<1>4. ASSUME NEW l \in Downloads, AbortLoad(l) PROVE MatchInv'
  <2>1. /\ \A d \in Downloads \ {l} : load'[d] = load[d]
        /\ load'[l].sha = load[l].sha /\ load'[l].merged = load[l].merged
        /\ (Busy(l)' => Undisturbed(l)) /\ \A d \in Downloads \ {l} : Undisturbed(d)
    BY <1>1, <1>4, AbortedLoad
  <2>2. UNCHANGED <<expected, fileSha, status, data, doubts>>
    BY <1>4 DEF AbortLoad
  <2> QED
    BY <2>1, <2>2, MatchUndisturbed
<1>5. CASE Merge
  <2>1. UNCHANGED <<get, fileSha, status, data, doubts>>
    BY <1>5 DEF Merge, metaVars
  <2>2. Marked'
    BY <2>1 DEF MatchInv, Marked
  <2>3. \A d \in Downloads : Busy(d)' => load'[d].merged
    BY <1>5, <2>1, MergedLoads DEF Busy
  <2> QED
    BY <2>2, <2>3 DEF MatchInv, Looks
<1>6. CASE Environment
  <2>1. load' = load /\ UNCHANGED <<expected, fileSha, status, data, doubts>>
    BY <1>6 DEF Environment, KeepsEntity, entityVars
  <2>2. \A d \in Downloads : Undisturbed(d)
    BY <1>6, EnvironmentUndisturbs DEF Environment
  <2> QED
    BY <2>1, <2>2, MatchUndisturbed
<1>7. CASE Restarted
  <2>1. status' = "NotLoaded" /\ \A d \in Downloads : ~Busy(d)'
    BY <1>7 DEF Restarted, MetaRestart, Busy, NoDownload, InFlight
  <2> QED
    BY <2>1 DEF MatchInv, Marked, Looks
<1> QED
  BY <1>2, <1>3, <1>4, <1>5, <1>6, <1>7, ExecuteLoadMatches, EndOfDownloadMatches DEF EntityNext, LoadStep

-----------------------------------------------------------------------------
(* The theorems about the entity *)

LEMMA EntityStays == EntityInv /\ UNCHANGED entityAll => EntityInv'
<1> SUFFICES ASSUME EntityInv, UNCHANGED entityAll PROVE EntityInv'
  OBVIOUS
<1>1. UNCHANGED metaVars /\ UNCHANGED <<expected, fileSha, status, data, load, doubts>>
  BY DEF entityAll, entityVars
<1>2. UNCHANGED <<disk, get, entries, listed>>
  BY <1>1 DEF metaVars
<1>3. CacheInv'
  BY <1>1, CacheStays DEF EntityInv
<1>4. \A d \in Downloads : Undisturbed(d)
  BY <1>1, <1>2 DEF Undisturbed, Busy, Alone, HeldEntry
<1>5. LoadsInv'
  BY <1>1, <1>4, OthersHold DEF EntityInv, LoadsInv
<1>6. MatchInv'
  BY <1>1, <1>4, MatchUndisturbed DEF EntityInv
<1> QED
  BY <1>3, <1>5, <1>6 DEF EntityInv

LEMMA EntityStepKeeps == EntityInv /\ [EntityNext]_entityAll => EntityInv'
BY EntityCacheStays, LoadsStay, MatchStays, EntityStays DEF EntityInv

(* The cache stays true while entities use it: they delete its file and     *)
(* mark its entries stale without asking it.                                *)
THEOREM EntityCacheIsTrue == EntitySpec => []FreshIsOnDisk
<1>1. EntityInv => FreshIsOnDisk
  BY FreshFollows DEF EntityInv
<1> QED
  BY <1>1, EntityInitHolds, EntityStepKeeps, PTL DEF EntitySpec

LEMMA LoadedFollows == EntityInv => LoadedIsExpected
BY DEF EntityInv, MatchInv, Marked, LoadedIsExpected, IsLoaded

(* What counts as loaded is what the parent expects, wherever a merge, an   *)
(* edit, an abort or a retry falls, or the entity has one of the doubts     *)
(* that LoadedIsExpected names.                                             *)
THEOREM LoadedStaysExpected == EntitySpec => []LoadedIsExpected
<1> QED
  BY LoadedFollows, EntityInitHolds, EntityStepKeeps, PTL DEF EntitySpec

(* A load that asks the net and succeeds leaves the entity loaded, with     *)
(* data: with what the file held, or with what the server sent, now or when *)
(* the data that a "304" confirms was loaded; or its file matched and could *)
(* not be parsed.                                                           *)
LEMMA LoadSuccess ==
    ASSUME EntityInv, EntityInv', EntityNext, NEW l \in Downloads,
           load[l].state # "succeeded", load'[l].state = "succeeded", load[l].online
    PROVE  \/ IsLoaded' /\ data' # Nothing /\ (expected' \in {Nothing, data'} \/ doubts' # {})
           \/ MatchedUnreadable
<1>1. /\ load \in [Downloads -> Load] /\ CacheInv /\ LoadsInv /\ MatchInv'
      /\ status' # "NotLoaded" => data' # Nothing
  BY DEF EntityInv, LoadsInv
<1>2. ASSUME ExecuteLoad(l) PROVE IsLoaded' \/ MatchedUnreadable
  <2>1. LoadFromFile(l)
    <3>1. ASSUME DownloadEntity(l) PROVE FALSE
      <4>1. load' = [load EXCEPT ![l].state = "running", ![l].sha = expected]
        BY <3>1 DEF DownloadEntity
      <4>2. load'[l].state = "running"
        BY <1>1, <4>1 DEF Load
      <4> QED
        BY <4>2
    <3> QED
      BY <1>2, <3>1 DEF ExecuteLoad
  <2>2. /\ GoodEnough(l) /\ expected' = expected /\ fileSha' = ReadSha /\ status' = StatusAfterFile(l)
        /\ Unusable(l) => disk' = Nothing
    BY <1>2, <2>1 DEF ExecuteLoad, LoadFromFile, TakeFile, Replaced
  <2>3. CASE expected = Nothing
    BY <2>2, <2>3 DEF GoodEnough, IsLoaded
  <2>4. CASE expected # Nothing
    <3>1. HashMatches /\ expected = fileSha'
      BY <2>2, <2>4 DEF GoodEnough, HashMatches
    <3>2. CASE Unusable(l)
      <4>1. status = "NotLoaded" /\ disk = Edited /\ disk # Nothing
        BY <3>1, <3>2 DEF Unusable
      <4>2. expected = disk
        BY <3>1, <4>1 DEF HashMatches, ReadSha
      <4> QED
        BY <2>2, <3>2, <4>1, <4>2 DEF MatchedUnreadable, StatusAfterFile
    <3>3. CASE ~Unusable(l)
      <4>1. status' # "NotLoaded"
        BY <2>2, <3>1, <3>3 DEF StatusAfterFile, ParsesFile, HashMatches
      <4> QED
        BY <2>2, <2>4, <3>1, <4>1 DEF IsLoaded
    <3> QED
      BY <3>2, <3>3
  <2> QED
    BY <2>3, <2>4
<1>3. ASSUME EntityArrives(l) \/ EntityFresh(l) \/ EntityFails(l) PROVE IsLoaded'
  <2>1. Busy(l) /\ expected' = expected /\ (Succeeds(l) \/ Fails(l))
    BY <1>1, <1>3, EndsAre
  <2>2. Succeeds(l) /\ expected' = expected
    BY <1>1, <1>3, <2>1, EndsAre, LoadsAfter
  <2> QED
    BY <2>2 DEF Succeeds, LoadSucceeded, IsLoaded
<1>4. ExecuteLoad(l) \/ EntityArrives(l) \/ EntityFresh(l) \/ EntityFails(l)
  <2>1. ASSUME NEW o \in Downloads, LoadTask(o) PROVE FALSE
    BY <1>1, <2>1, CreatedLoad
  <2>2. ASSUME NEW o \in Downloads, AbortLoad(o) PROVE FALSE
    BY <1>1, <2>2, AbortedLoad
  <2>3. ASSUME NEW o \in Downloads, Request(o) PROVE FALSE
    BY <2>3 DEF Request, KeepsEntity, entityVars
  <2>4. ASSUME NEW o \in Downloads \ {l}, LoadStep(o) PROVE FALSE
    <3>1. CASE ExecuteLoad(o)
      <4>1. CASE LoadFromFile(o)
        BY <1>1, <4>1, OneLoadEnds DEF LoadFromFile, LoadStates
      <4>2. CASE DownloadEntity(o)
        BY <1>1, <4>2 DEF DownloadEntity
      <4> QED
        BY <3>1, <4>1, <4>2 DEF ExecuteLoad
    <3>2. CASE EntityArrives(o) \/ EntityFresh(o) \/ EntityFails(o)
      BY <1>1, <2>4, <3>2, EndsAre, LoadsAfter
    <3> QED
      BY <2>3, <2>4, <3>1, <3>2 DEF LoadStep
  <2>5. ~Merge
    BY <1>1, MergedLoads
  <2>6. ~Environment
    BY DEF Environment, KeepsEntity, entityVars
  <2>7. ~Restarted
    BY NoLoadIs DEF Restarted
  <2> QED
    BY <2>1, <2>2, <2>3, <2>4, <2>5, <2>6, <2>7 DEF EntityNext, LoadStep
<1>5. IsLoaded' \/ MatchedUnreadable
  BY <1>2, <1>3, <1>4
<1>6. IsLoaded' => data' # Nothing /\ (expected' \in {Nothing, data'} \/ doubts' # {})
  <2>1. IsLoaded' => status' # "NotLoaded" /\ (expected' # Nothing => expected' = fileSha')
    BY DEF IsLoaded
  <2> QED
    BY <1>1, <2>1 DEF MatchInv, Marked
<1> QED
  BY <1>5, <1>6

(* A load that asks the net and succeeds leaves the entity loaded with what *)
(* its parent expects, wherever a merge falls; the exceptions are the       *)
(* doubts, and the file that matches its hash and does not parse.           *)
THEOREM SuccessIsLoaded == EntitySpec => SuccessMeansLoaded
<1>1. EntityInv /\ EntityInv' /\ [EntityNext]_entityAll =>
          [\A l \in Downloads :
              (load[l].state # "succeeded" /\ load'[l].state = "succeeded" /\ load[l].online)
                  => \/ IsLoaded' /\ data' # Nothing /\ (expected' \in {Nothing, data'} \/ doubts' # {})
                     \/ MatchedUnreadable]_entityAll
  BY LoadSuccess
<1> QED
  BY <1>1, EntityInitHolds, EntityStepKeeps, PTL DEF EntitySpec, SuccessMeansLoaded
=============================================================================
