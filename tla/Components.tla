----------------------------- MODULE Components -----------------------------
(***************************************************************************)
(* launcher/minecraft/PackProfile, Component, ComponentUpdateTask and      *)
(* MinecraftLoadAndCheck: the components an instance is made of, the file  *)
(* they are kept in, the task that loads their metadata and resolves their *)
(* dependencies, and the step of a launch that waits for it.               *)
(* Versions are numbers and 0 is "no version".  Versions with metadata are *)
(* the domain of Metadata; a version that was saved has a file, which has  *)
(* the hash its list announces and parses.                                 *)
(***************************************************************************)
EXTENDS Integers, FiniteSets, SequencesExt

CONSTANTS
    Metadata,      \* <<uid, version>> -> [requires, volatile], as the server has it
    Minecraft,     \* the uid of the game
    Follows,       \* uids whose version is that of the game when none is suggested
    UidOrder,      \* the uids in the order of requirement sets
    Default,       \* uid -> the version taken when none is required, or 0
    PackFiles,     \* the component lists an instance may come with
    Patches,       \* the sets of uids that may have a patch file of their own
    MaxSteps,      \* bound: steps of the update task until it waits or ends
    MaxChecks,     \* bound: launches that reach the check
    MaxRestarts    \* bound: times the program ends, in order or not

ASSUME StepsAssumption == MaxSteps \in Nat

VARIABLES
    refresh,   \* the setting MetaRefreshOnLaunch
    patches,   \* uids with a patch file
    packFile,  \* mmc-pack.json: a list, or Broken
    comps,     \* d->components
    loaded,    \* d->loaded
    dirty,     \* d->dirty
    saveTimer, \* is m_saveTimer active?
    meta,      \* a version's metadata: "none", "file", "local" (read) or "ready"
    hashed,    \* uids whose version list was read since the start
    fetching,  \* downloads an offline load left behind
    update,    \* m_updateTask: state, online, slots, ok
    step,      \* the check: state and online
    checks, restarts

saveVars == <<packFile, loaded, dirty, saveTimer>>
metaVars == <<meta, hashed, fetching>>
componentsVars == <<refresh, patches, comps, saveVars, metaVars, update, step, checks, restarts>>

Broken == <<>>                \* a file that cannot be read: no list that is saved is empty
Own == 99                     \* the version a patch file states
Keys == DOMAIN Metadata
Key(c) == <<c.uid, c.version>>

(* What the file keeps of a component; the volatile flag is written under   *)
(* one name and read under another.                                         *)
Saved(cs) == [i \in DOMAIN cs |->
    [uid |-> cs[i].uid, version |-> cs[i].version, cached |-> cs[i].cached,
     requires |-> cs[i].requires, dep |-> cs[i].dep]]

FromFile(f) == [i \in DOMAIN f |->
    [uid |-> f[i].uid, version |-> f[i].version, cached |-> f[i].cached,
     requires |-> f[i].requires, dep |-> f[i].dep, volatile |-> FALSE, loaded |-> FALSE]]

NoUpdate == [state |-> "none", online |-> FALSE, slots |-> <<>>, ok |-> TRUE]

ComponentsInit ==
    /\ refresh \in BOOLEAN /\ patches \in Patches
    /\ packFile \in PackFiles \cup {Broken}
    /\ comps = <<>> /\ loaded = FALSE /\ dirty = FALSE /\ saveTimer = FALSE
    /\ \/ meta = [k \in Keys |-> "none"] /\ hashed = {}
       \/ meta = [k \in Keys |-> "file"] /\ hashed \in {{}, {k[1] : k \in Keys}}
    /\ fetching = {}
    /\ update = NoUpdate /\ step = [state |-> "none", online |-> FALSE]
    /\ checks = 0 /\ restarts = 0

-----------------------------------------------------------------------------
(* Components *)

(* Version::isLoaded: data from a file counts once its hash is known.       *)
IsLoaded(m, k) == k \in Keys /\ m[k] = "ready"

IsCustom(c) == c.loaded /\ c.cached = Own

(* updateCachedData of a component whose version file is there              *)
UpdateCachedData(c) ==
    IF c.uid \in patches THEN [c EXCEPT !.cached = Own, !.requires = {}, !.volatile = FALSE]
    ELSE [c EXCEPT !.cached = c.version, !.requires = Metadata[Key(c)].requires,
                   !.volatile = Metadata[Key(c)].volatile]

(* setVersion: a loaded component without a file of its own takes the new   *)
(* metadata if that is loaded, and has to be loaded again otherwise.        *)
SetVersion(c, v, m) ==
    LET new == [c EXCEPT !.version = v] IN
    IF v = c.version \/ ~c.loaded \/ IsCustom(c) THEN new
    ELSE IF IsLoaded(m, Key(new)) THEN UpdateCachedData(new)
    ELSE [new EXCEPT !.cached = v, !.loaded = FALSE, !.requires = {}]

(* Op of a value, which TLC would otherwise compute at every use of it.     *)
With(value, Op(_)) == CHOOSE r \in {Op(v) : v \in {value}} : TRUE

Map(cs, Op(_)) == FoldLeft(LAMBDA acc, c : Append(acc, Op(c)), <<>>, cs)

Uids(cs) == {cs[i].uid : i \in DOMAIN cs}
At(cs, u) == CHOOSE i \in DOMAIN cs : cs[i].uid = u

(* insertComponent, before the component at an index                        *)
InsertComponent(cs, i, c) == IF c.uid \in Uids(cs) THEN cs ELSE InsertAt(cs, i, c)

-----------------------------------------------------------------------------
(* resolveDependencies *)

AllRequires(cs) == UNION {cs[i].requires : i \in DOMAIN cs}
Required(cs) == {r.uid : r \in AllRequires(cs)}
Exact(cs, u) == {r.equals : r \in {q \in AllRequires(cs) : q.uid = u /\ q.equals # 0}}
Suggested(cs, u) == Max({r.suggests : r \in {q \in AllRequires(cs) : q.uid = u}})

FirstDependee(cs, u) == Min({i \in DOMAIN cs : \E r \in cs[i].requires : r.uid = u})

(* gatherRequirementsFromComponents fails: two exact versions of one uid    *)
Conflicting(cs) == \E u \in Required(cs) : Cardinality(Exact(cs, u)) > 1

(* getTrivialRemovals *)
Obsolete(cs, c) == c.dep /\ c.volatile /\ c.uid \notin Required(cs)
Removals(cs) == {i \in DOMAIN cs : Obsolete(cs, cs[i])}

(* getTrivialComponentChanges *)
ToAdd(cs) == Required(cs) \ Uids(cs)
ToChange(cs) == {u \in Required(cs) \cap Uids(cs) : Exact(cs, u) \notin {{}, {cs[At(cs, u)].cached}}}
Locked(cs, u) == LET c == cs[At(cs, u)] IN IsCustom(c) \/ ~c.dep

VersionToAdd(cs, reqs, u) ==
    IF Exact(reqs, u) # {} THEN CHOOSE v \in Exact(reqs, u) : TRUE
    ELSE IF Suggested(reqs, u) # 0 THEN Suggested(reqs, u)
    ELSE IF u \in Follows /\ Minecraft \in Uids(cs) THEN cs[At(cs, Minecraft)].cached
    ELSE Default[u]

NewComponent(u, v) ==
    [uid |-> u, version |-> v, cached |-> 0, requires |-> {},
     dep |-> TRUE, volatile |-> FALSE, loaded |-> FALSE]

(* Everything missing is inserted at the place its first dependee had.      *)
Injected(cs) ==
    FoldLeft(LAMBDA acc, u : With(acc, LAMBDA a :
                 InsertComponent(a, FirstDependee(cs, u), NewComponent(u, VersionToAdd(a, cs, u)))),
             cs, SelectSeq(UidOrder, LAMBDA u : u \in ToAdd(cs)))

Changed(cs, reqs, m) ==
    Map(cs, LAMBDA c : IF c.uid \in ToChange(reqs)
                       THEN SetVersion(c, CHOOSE v \in Exact(reqs, c.uid) : TRUE, m)
                       ELSE c)

-----------------------------------------------------------------------------
(* loadComponents *)

(* A component that cannot be had at once, and what becomes of its slot: a  *)
(* load that concludes before it is connected is never heard of.            *)
Needs(m, c) == ~c.loaded /\ c.uid \notin patches /\ ~IsLoaded(m, Key(c))
ReadsFile(m, k, online) == k \in Keys /\ m[k] = "file" /\ (online => ~refresh)
SlotFor(m, i, c) ==
    [at |-> i, state |-> IF ReadsFile(m, Key(c), TRUE) /\ c.uid \in hashed THEN "missed" ELSE "pending"]

AfterReads(cs, m, online) ==
    [k \in Keys |->
        IF \E i \in DOMAIN cs : Needs(m, cs[i]) /\ Key(cs[i]) = k /\ ReadsFile(m, k, online)
        THEN IF k[1] \in hashed THEN "ready" ELSE "local"
        ELSE m[k]]

(* Offline a component may be used without being marked as loaded.          *)
LoadComponent(m, c, online) ==
    IF c.loaded THEN c
    ELSE IF c.uid \in patches \/ IsLoaded(m, Key(c)) THEN [UpdateCachedData(c) EXCEPT !.loaded = TRUE]
    ELSE IF ~online /\ ReadsFile(m, Key(c), FALSE) /\ c.uid \in hashed THEN UpdateCachedData(c)
    ELSE c

(* What the task does in one go: it loads what it can, removes what is      *)
(* obsolete, adds and changes what is required, and loads that in turn,     *)
(* until it waits for downloads or has a verdict.                           *)
Work(cs, m, online, state, slots) ==
    [comps |-> cs, meta |-> m, online |-> online, state |-> state, slots |-> slots]
Turn(work, state) == Work(work.comps, work.meta, work.online, state, <<>>)
Halted == {"running", "failed", "succeeded"}

(* loadComponents, in the state "loading"                                   *)
LoadComponents(work) ==
    LET cs == work.comps
        m == work.meta
        read == AfterReads(cs, m, work.online)
        needing == SelectSeq([i \in DOMAIN cs |-> i], LAMBDA i : Needs(m, cs[i]))
        missing == \E i \in DOMAIN cs : Needs(m, cs[i]) /\ ~IsLoaded(read, Key(cs[i]))
        waits == work.online /\ needing # <<>>
    IN  Work(Map(cs, LAMBDA c : LoadComponent(m, c, work.online)), read, work.online,
             IF waits THEN "running" ELSE IF missing THEN "failed" ELSE "removing",
             IF waits THEN [i \in DOMAIN needing |-> SlotFor(m, needing[i], cs[needing[i]])] ELSE <<>>)

Pruned(work) == SelectSeq(work.comps, LAMBDA c : ~Obsolete(work.comps, c))

(* Mutated form of RemoveObsolete: obsolete components are looked for once. *)
RemoveObsoleteOnce(work) ==
    IF Conflicting(work.comps) THEN Turn(work, "failed")
    ELSE Work(Pruned(work), work.meta, work.online, "changing", <<>>)

(* A round of removals, in the state "removing"                             *)
RemoveObsolete(work) ==
    IF Conflicting(work.comps) THEN Turn(work, "failed")
    ELSE IF Removals(work.comps) = {} THEN Turn(work, "changing")
    ELSE Work(Pruned(work), work.meta, work.online, "removing", <<>>)

(* What is required is added and changed; offline nothing is, and the task  *)
(* fails.  What somebody chose himself it never changes.                    *)
ResolveDependencies(work) ==
    LET cs == work.comps
    IN  IF \E u \in ToChange(cs) : Locked(cs, u) THEN Turn(work, "failed")
        ELSE IF ToAdd(cs) \cup ToChange(cs) = {} THEN Turn(work, "succeeded")
        ELSE IF ~work.online THEN Turn(work, "failed")
        ELSE Work(Changed(Injected(cs), cs, work.meta), work.meta, work.online, "loading", <<>>)

Proceed(work) ==
    CASE work.state = "loading" -> LoadComponents(work)
      [] work.state = "removing" -> RemoveObsolete(work)
      [] work.state = "changing" -> ResolveDependencies(work)
      [] OTHER -> work

(* Where the work is after the bounded number of steps.                     *)
Done(work) ==
    LET after[n \in 0..MaxSteps] ==
            IF n = 0 THEN work ELSE CHOOSE next \in {Proceed(w) : w \in {after[n - 1]}} : TRUE
    IN  after[MaxSteps]

(* finalizeComponents tells a component of a requirement that is not met    *)
(* the way it should be, and that is a change of the component.             *)
HasProblems(cs) ==
    \E r \in AllRequires(cs) :
        r.uid \in Uids(cs) => LET v == cs[At(cs, r.uid)].cached IN
                             r.equals \notin {0, v} \/ r.suggests \notin {0, v}

-----------------------------------------------------------------------------
(* Saving *)

(* Mutated form of SaveInternal: the list counts as saved if it is not. *)
SaveInternalBlind(written) == packFile' = (IF written THEN Saved(comps) ELSE packFile) /\ dirty' = FALSE

(* save_internal: the file is replaced as a whole, or not at all.           *)
SaveInternal(written) ==
    IF written THEN packFile' = Saved(comps) /\ dirty' = FALSE ELSE UNCHANGED <<packFile, dirty>>

(* The timer that scheduleSave() starts; a failed write is not tried again. *)
SaveTimeout ==
    /\ saveTimer /\ saveTimer' = FALSE
    /\ \E written \in BOOLEAN : SaveInternal(written)
    /\ UNCHANGED <<refresh, patches, comps, loaded, metaVars, update, step, checks, restarts>>

(* scheduleSave *)
ScheduleSave == dirty' = TRUE /\ saveTimer' = TRUE

-----------------------------------------------------------------------------
(* The update task and the step that waits for it *)

(* The step hears of an end only while it waits.                            *)
StepHears(state) ==
    step' = IF state = "running" THEN step ELSE [step EXCEPT !.state = state]

(* Downloads that an offline load starts although it is offline.            *)
Strays(cs, online) ==
    {k \in Keys : ~online /\ meta[k] = "none" /\ \E i \in DOMAIN cs : Needs(meta, cs[i]) /\ Key(cs[i]) = k}

(* MinecraftLoadAndCheck::executeTask and reload: what was not saved is     *)
(* flushed, the list is read again and an update is started.  When that has *)
(* ended within reload() there is no task to wait for.                      *)
Check(online) ==
    /\ step.state # "running" /\ checks < MaxChecks /\ checks' = checks + 1
    /\ \E list \in IF dirty THEN {packFile, Saved(comps)} ELSE {packFile} :
        /\ packFile' = list
        /\ IF list = Broken
           THEN /\ step' = [state |-> "failed", online |-> online]
                /\ UNCHANGED <<comps, loaded, dirty, saveTimer, metaVars, update>>
           ELSE \E w \in {Done(Work(FromFile(list), meta, online, "loading", <<>>))} :
                /\ w.state \in Halted
                /\ comps' = w.comps /\ meta' = w.meta
                /\ fetching' = fetching \cup Strays(FromFile(list), online)
                /\ loaded' = TRUE /\ ScheduleSave
                /\ update' = [state |-> w.state, online |-> online, slots |-> w.slots, ok |-> TRUE]
                /\ step' = [state |-> IF w.state = "running" THEN "running" ELSE "succeeded", online |-> online]
                /\ UNCHANGED hashed
    /\ UNCHANGED <<refresh, patches, restarts>>

Awaited(i) == i \in DOMAIN update.slots /\ update.slots[i].state = "pending"
InProgress(slots) == {i \in DOMAIN slots : slots[i].state # "done"}

(* What a component tells those who listen to its changes.                  *)
Data(cs) == <<Saved(cs), [i \in DOMAIN cs |-> cs[i].volatile]>>

(* checkIfAllFinished *)
CheckIfAllFinished(cs, m, slots, ok) ==
    \E w \in {IF InProgress(slots) # {} THEN Work(cs, m, TRUE, "running", slots)
              ELSE IF ok THEN Done(Work(cs, m, TRUE, "removing", <<>>))
              ELSE Work(cs, m, TRUE, "failed", <<>>)} :
        /\ w.state \in Halted
        /\ comps' = w.comps /\ meta' = w.meta
        /\ update' = [update EXCEPT !.state = w.state, !.slots = w.slots, !.ok = ok \/ InProgress(slots) = {}]
        /\ StepHears(w.state)
        /\ IF Data(cs) # Data(comps) \/ w.comps # cs \/ (w.state # "running" /\ ok /\ HasProblems(w.comps))
           THEN ScheduleSave ELSE UNCHANGED <<dirty, saveTimer>>

(* A refreshing load reads the list first, which tells the hashes of the    *)
(* versions read before; then the version is there, in a file or from the   *)
(* server.                                                                  *)
Known(m, u) == [k \in Keys |-> IF k[1] = u /\ m[k] = "local" THEN "ready" ELSE m[k]]

Marked(i, state) == [update.slots EXCEPT ![i].state = state]

RemoteLoadSucceeded(i) ==
    LET at == update.slots[i].at
        c == comps[at]
    IN  /\ Awaited(i) /\ Key(c) \in Keys
        /\ hashed' = IF refresh THEN hashed \cup {c.uid} ELSE hashed
        /\ CheckIfAllFinished([comps EXCEPT ![at] = [UpdateCachedData(c) EXCEPT !.loaded = TRUE]],
                              [(IF refresh THEN Known(meta, c.uid) ELSE meta) EXCEPT ![Key(c)] = "ready"],
                              Marked(i, "done"), update.ok)
        /\ UNCHANGED <<refresh, patches, packFile, loaded, fetching, checks, restarts>>

(* A failed load may have read the list before it failed.                   *)
RemoteLoadFailed(i) ==
    LET u == comps[update.slots[i].at].uid IN
    /\ Awaited(i)
    /\ hashed' \in IF refresh THEN {hashed, hashed \cup {u}} ELSE {hashed}
    /\ CheckIfAllFinished(comps, IF u \in hashed' \ hashed THEN Known(meta, u) ELSE meta, Marked(i, "done"), FALSE)
    /\ UNCHANGED <<refresh, patches, packFile, loaded, fetching, checks, restarts>>

(* abort: the loads are aborted one after the other, and the last one to go *)
(* fails the update.  A load that was not heard of cannot be aborted, and   *)
(* then nothing is.                                                         *)
AbortUpdate ==
    /\ step.state = "running" /\ \A i \in InProgress(update.slots) : Awaited(i)
    /\ update' = [update EXCEPT !.state = "failed", !.slots = <<>>]
    /\ StepHears("failed")
    /\ UNCHANGED <<refresh, patches, comps, saveVars, metaVars, checks, restarts>>

(* A download that outlived its update ends.                                *)
StrayEnds ==
    \E k \in fetching :
        /\ fetching' = fetching \ {k}
        /\ meta' \in {meta, [meta EXCEPT ![k] = "ready"]}
        /\ UNCHANGED <<refresh, patches, comps, saveVars, hashed, update, step, checks, restarts>>

(* The program ends: in order, when the list is saved if it has to be, or   *)
(* not.  What was downloaded stays on the disk.                             *)
Restart ==
    /\ restarts < MaxRestarts /\ restarts' = restarts + 1
    /\ packFile' \in IF dirty THEN {packFile, Saved(comps)} ELSE {packFile}
    /\ comps' = <<>> /\ loaded' = FALSE /\ dirty' = FALSE /\ saveTimer' = FALSE
    /\ meta' = [k \in Keys |-> IF meta[k] = "none" THEN "none" ELSE "file"]
    /\ hashed' = {} /\ fetching' = {}
    /\ update' = NoUpdate /\ step' = [step EXCEPT !.state = "none"]
    /\ UNCHANGED <<refresh, patches, checks>>

-----------------------------------------------------------------------------
ComponentsNext ==
    \/ \E online \in BOOLEAN : Check(online)
    \/ \E i \in DOMAIN update.slots : RemoteLoadSucceeded(i) \/ RemoteLoadFailed(i)
    \/ AbortUpdate \/ StrayEnds \/ SaveTimeout \/ Restart

ComponentsSpec == ComponentsInit /\ [][ComponentsNext]_componentsVars

(* Every load that was started comes to an end.                             *)
ComponentsFairness == WF_componentsVars(\E i \in DOMAIN update.slots : RemoteLoadSucceeded(i) \/ RemoteLoadFailed(i))

ComponentsFairSpec == ComponentsSpec /\ ComponentsFairness

-----------------------------------------------------------------------------
(* Properties *)

(* Every requirement of every component is met, in the version it names if  *)
(* it names one, and no dependency is left that nothing requires any more.  *)
Resolved(cs) ==
    /\ \A r \in AllRequires(cs) :
          \E i \in DOMAIN cs : cs[i].uid = r.uid /\ r.equals \in {0, cs[i].cached}
    /\ \A i \in DOMAIN cs : ~Obsolete(cs, cs[i])

(* An update that succeeded, however many rounds of removals, additions and *)
(* changes it took, leaves a list that is resolved.                         *)
ResolvedOnSuccess == update.state = "succeeded" => Resolved(comps)

(* With no save due the file says what the components say, however writes   *)
(* failed and updates changed the list; and a list that could not be read   *)
(* is never written over.                                                   *)
SavedIsMemory == IF loaded THEN ~dirty => packFile = Saved(comps) ELSE ~dirty

(* With MetaRefreshOnLaunch the check of a launch ends, however its loads   *)
(* end and in whatever order: this is not for good.                         *)
CheckRuns == refresh /\ step.state = "running"

(* The check of a launch succeeds only when the update did.                 *)
CheckIsTruthful ==
    [][step.state # "succeeded" /\ step'.state = "succeeded" => update'.state = "succeeded"]_componentsVars
=============================================================================
