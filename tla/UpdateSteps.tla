----------------------------- MODULE UpdateSteps -----------------------------
(***************************************************************************)
(* The files of one instance, launch after launch: online, the libraries,  *)
(* the libraries an old FML wants, the index of the assets and the assets  *)
(* are downloaded, each as far as it is missing; offline, the libraries    *)
(* have to be there.  What a failed or cancelled launch has fetched stays. *)
(***************************************************************************)
EXTENDS Naturals, Sequences, Functions

CONSTANTS
    MaxStarts,  \* bound: launches
    MaxFaults   \* bound: failures, cancellations, lost files, a new index

VARIABLES
    legacy,   \* is it the profile of an old Forge (the trait legacyFML)?
    virtual,  \* does the index name files (isVirtual, mapToResources)?
    wanted,   \* the index the profile asks for
    assets,   \* the index on disk, or 0
    store,    \* the other downloaded files, and the instance's own library
    copied,   \* FML's libraries in the instance
    laid,     \* the object laid out under each name, or "none"
    online,   \* is the session an online one?
    fileStep, \* the step of the launch
    job,      \* downloadJob: the files still to be fetched, if there is one
    launches, faults

storage == <<assets, store, copied, laid>>
fileVars == <<legacy, virtual, wanted, storage, online, fileStep, job, launches, faults>>

FML == {"fml1", "fml2"}
Names == {"icon", "sound"}
Objects(i) == [name \in Names |->
                  IF i = 0 THEN "none" ELSE IF i = 2 /\ name = "sound" THEN "second" ELSE "first"]

FilesInit ==
    /\ legacy \in BOOLEAN /\ virtual \in BOOLEAN
    /\ wanted = 1 /\ assets = 0
    /\ store \in SUBSET {"own"} /\ copied = {}
    /\ laid = [name \in Names |-> "none"]
    /\ online = FALSE /\ fileStep = "rest" /\ job = <<>>
    /\ launches = 0 /\ faults = 0

Fault == faults < MaxFaults /\ faults' = faults + 1

Goes(next, files) ==
    /\ fileStep' = next /\ job' = files
    /\ UNCHANGED <<legacy, virtual, wanted, online, launches>>
Ends == Goes("rest", <<>>)

-----------------------------------------------------------------------------
FilesLaunch(net) ==
    /\ fileStep = "rest" /\ launches < MaxStarts
    /\ launches' = launches + 1
    /\ online' = net
    /\ fileStep' = IF net THEN "libraries" ELSE "offline"
    /\ UNCHANGED <<legacy, virtual, wanted, storage, job, faults>>

(* A library of the instance itself cannot be downloaded. *)
LibrariesTask ==
    /\ fileStep = "libraries" /\ job = <<>>
    /\ IF "own" \in store THEN Goes(fileStep, <<{"library"} \ store>>) ELSE Ends
    /\ UNCHANGED <<storage, faults>>

LegacyFMLLibrariesTask ==
    /\ fileStep = "fml" /\ job = <<>>
    /\ IF legacy /\ ~(FML \subseteq copied)
       THEN Goes(fileStep, <<(FML \ copied) \ store>>) ELSE Goes("index", <<>>)
    /\ UNCHANGED <<storage, faults>>

(* The index is asked for on every launch. *)
AssetUpdateTask ==
    /\ fileStep = "index" /\ job = <<>>
    /\ Goes(fileStep, <<{"index"}>>)
    /\ UNCHANGED <<storage, faults>>

Fetch(file) ==
    /\ job # <<>> /\ file \in job[1]
    /\ Goes(fileStep, <<job[1] \ {file}>>)
    /\ IF file = "index"
       THEN assets' = wanted /\ UNCHANGED store
       ELSE store' = store \cup {file} /\ UNCHANGED assets
    /\ UNCHANGED <<copied, laid, faults>>

(* Mutated form of ToFetch: what the earlier index named is taken for had. *)
ToFetchAnew == (Range(Objects(assets)) \ Range(Objects(assets - 1))) \ store

(* AssetsIndex::getDownloadJob *)
ToFetch == Range(Objects(assets)) \ store

(* A job that has nothing to fetch succeeds; assets that are all there need *)
(* none.                                                                    *)
JobSucceeds ==
    /\ job = <<{}>>
    /\ \/ fileStep = "libraries" /\ Goes("fml", <<>>) /\ UNCHANGED copied
       \/ fileStep = "fml" /\ Goes("index", <<>>) /\ copied' = FML
       \/ /\ fileStep = "index" /\ UNCHANGED copied
          /\ IF ToFetch = {} THEN Goes("finish", <<>>) ELSE Goes("objects", <<ToFetch>>)
       \/ fileStep = "objects" /\ Goes("finish", <<>>) /\ UNCHANGED copied
    /\ UNCHANGED <<assets, store, laid, faults>>

(* The job fails or is aborted; FML's libraries cannot all be copied; the   *)
(* index cannot be read.  (A cancel while the job has nothing active is     *)
(* accepted and has no effect.)                                             *)
TaskFails ==
    /\ job # <<>> /\ Fault
    /\ Ends
    /\ \/ UNCHANGED copied
       \/ job[1] = {} /\ fileStep = "fml" /\ \E some \in SUBSET FML : copied' = copied \cup some
    /\ UNCHANGED <<assets, store, laid>>

EnsureOfflineLibraries ==
    /\ fileStep = "offline"
    /\ IF {"library", "own"} \subseteq store THEN Goes("finish", <<>>) ELSE Ends
    /\ UNCHANGED <<storage, faults>>

(* ReconstructAssets: nothing that lies there is laid out again. *)
LaidOut == [name \in Names |->
    IF laid[name] = "none" /\ Objects(assets)[name] \in store THEN Objects(assets)[name] ELSE laid[name]]

(* ModMinecraftJar, ExtractNatives, either of which may fail, and           *)
(* ReconstructAssets.                                                       *)
Finish ==
    /\ fileStep = "finish"
    /\ \/ Goes("game", <<>>) /\ laid' = (IF virtual THEN LaidOut ELSE laid) /\ UNCHANGED faults
       \/ Ends /\ Fault /\ UNCHANGED laid
    /\ UNCHANGED <<assets, store, copied>>

FilesGameEnds == fileStep = "game" /\ Ends /\ UNCHANGED <<storage, faults>>

(* Between the launches: files are lost, or the instance gets its own       *)
(* library or another index to ask for.                                     *)
Meanwhile ==
    /\ fileStep = "rest" /\ Fault
    /\ \/ \E file \in store : store' = store \ {file} /\ UNCHANGED <<wanted, assets, copied>>
       \/ \E file \in copied : copied' = copied \ {file} /\ UNCHANGED <<wanted, assets, store>>
       \/ assets' = 0 /\ UNCHANGED <<wanted, store, copied>>
       \/ store' = store \cup {"own"} /\ UNCHANGED <<wanted, assets, copied>>
       \/ wanted' = 2 /\ UNCHANGED <<assets, store, copied>>
    /\ UNCHANGED <<legacy, virtual, laid, online, fileStep, job, launches>>

FilesNext ==
    \/ \E net \in BOOLEAN : FilesLaunch(net)
    \/ LibrariesTask \/ LegacyFMLLibrariesTask \/ AssetUpdateTask
    \/ \E file \in {"library", "index", "first", "second"} \cup FML : Fetch(file)
    \/ JobSucceeds \/ TaskFails
    \/ EnsureOfflineLibraries \/ Finish \/ FilesGameEnds
    \/ Meanwhile

-----------------------------------------------------------------------------
(* A game never starts without its libraries, and one started online has    *)
(* the index it was told to use, every asset of it, a file under each name  *)
(* if it looks for names, and what an old FML wants, whatever earlier       *)
(* launches left unfinished.                                                *)
GameIsComplete ==
    fileStep = "game" =>
        /\ {"library", "own"} \subseteq store
        /\ online => /\ assets = wanted
                     /\ Range(Objects(assets)) \subseteq store
                     /\ virtual => "none" \notin Range(laid)
                     /\ legacy => FML \subseteq copied
=============================================================================
